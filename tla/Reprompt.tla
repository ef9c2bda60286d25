------------------------------ MODULE Reprompt ------------------------------
(* The corrective re-prompts (benchlib/reprompt.py, build_reprompt): what    *)
(* happens to a grounded, parseable answer.  Gates are tried in order; the   *)
(* first that fires rejects the answer without spending an attempt and       *)
(* counts against its own cap.  An answer no gate rejects is accepted, right *)
(* or wrong.  The text of a note is left out.                                *)
EXTENDS Scoring

CONSTANTS
  RetryCap,       \* 2 in the code: how often each corrective gate may fire
  SubjectCap      \* 5 in the code: how often the wrong-subject gate may fire

ASSUME CapAssumption == RetryCap \in Nat /\ SubjectCap \in Nat /\ RetryCap <= SubjectCap

Counters == {"frac", "resolve", "shape", "label", "missing_label", "unc",
             "recompute", "order", "subject"}
Gates == <<"frac", "resolve", "shape", "label", "missing_label", "unc", "unc_rss",
           "recompute", "order", "route", "subject">>

(* The RSS gate shares the counter of the missing-± gate, the route gate     *)
(* that of the subject gate, up to its own cap.                              *)
Counter(g) == CASE g = "unc_rss" -> "unc" [] g = "route" -> "subject" [] OTHER -> g
BugCap(g) == RetryCap       \* mutant: the subject gate is capped like the others
Cap(g) == IF g = "subject" THEN SubjectCap ELSE RetryCap

Counts(s) == [x \in ToSet(s) |-> Cardinality({i \in DOMAIN s : s[i] = x})]
Signature(ans) ==
  [labels |-> Counts([i \in DOMAIN ans.labels |-> ans.labels[i].key]),
   nums |-> Counts(answer_numbers(ans))]

(* "missing" is looked for anywhere in the detail text.                      *)
SaysMissing(faults) ==
  faults \cap {"missing", "unc-missing", "route-missing", "route-rows"} # {}

(* The gates that look at what the score found wrong.                        *)
UncGate(exp, ans) == exp.score_uncertainty /\ missing_uncertainties(ans)
RssGate(exp, ans, faults) ==
  /\ exp.score_uncertainty /\ ~missing_uncertainties(ans)
  /\ "unc-wrong" \in faults /\ ~SaysMissing(faults) /\ "wrong-value" \notin faults
RecomputeGate(a) == ungrounded(a.answer, a.blocks) # {}
OrderGate(exp, faults) ==
  /\ exp.ranked /\ "order" \in faults /\ ~SaysMissing(faults)
  /\ faults \cap {"wrong-value", "extra"} = {}
RouteGate(exp, faults) == exp.route_rows # {} /\ "route-rows" \in faults
SubjectGate(faults) == classify_error(faults, FALSE, FALSE) \in {"wrong-class", "wrong-value"}

(* The condition of each gate, its counter apart.  a is an attempt: its      *)
(* answer, the numbers its queries returned, and whether it fetched the      *)
(* class-resolution skill; enforced says that skills are offered at all.     *)
Holds(g, a, exp, enforced) ==
  LET ans == a.answer
      faults == score_answer(exp, ans)
  IN CASE g = "frac"          -> is_fraction_not_kg(ans, exp)
       [] g = "resolve"       -> enforced /\ ~a.fetched /\ faults # {}
       [] g = "shape"         -> shape_mismatch(ans, exp)
       [] g = "label"         -> has_string_labels(ans)
       [] g = "missing_label" -> /\ exp.labels # <<>> /\ ~exp.names_only
                                 /\ missing_labels(ans)
       [] g = "unc"           -> UncGate(exp, ans)
       [] g = "unc_rss"       -> RssGate(exp, ans, faults)
       [] g = "recompute"     -> RecomputeGate(a)
       [] g = "order"         -> OrderGate(exp, faults)
       [] g = "route"         -> RouteGate(exp, faults)
       [] g = "subject"       -> SubjectGate(faults)

Fires(g, a, exp, enforced, n) ==
  n[Counter(g)] < Cap(g) /\ Holds(g, a, exp, enforced)

(* The first gate that rejects the answer, if any.                           *)
build_reprompt(a, exp, enforced, n) ==
  LET firing == {i \in DOMAIN Gates : Fires(Gates[i], a, exp, enforced, n)}
  IN  IF firing = {} THEN "none" ELSE Gates[Min(firing)]
=============================================================================
