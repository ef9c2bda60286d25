------------------------------ MODULE Scoring ------------------------------
(* How an answer of the model is read and judged (benchlib/scoring.py,       *)
(* units.py, helpers.py): pure operators, no state.                          *)
(*                                                                           *)
(* A number is an integer in thousandths of its unit, so the tolerances are  *)
(* integer comparisons; the leniency towards a golden written with few       *)
(* significant figures is left out.  A label is [iri, key]: whether it is an *)
(* IRI or a bare word, and its local name.  An answer gives `value` or       *)
(* `values`, uncertainties as a list.  The detail string of a verdict is the *)
(* set of the fault phrases in it; {} is "ok".                               *)
EXTENDS Integers, Sequences, FiniteSets, FiniteSetsExt, SequencesExt

CONSTANT Null      \* a JSON null, an absent field, an answer that did not parse

NoAnswer == [value |-> Null, values |-> <<>>, labels |-> <<>>, uncs |-> <<>>,
             unit |-> "kg", routes |-> <<>>]

Expectation == [values |-> <<>>, labels |-> <<>>, unit |-> "kg", names_only |-> FALSE,
                uncs |-> <<>>, score_uncertainty |-> FALSE, ranked |-> FALSE,
                routes |-> <<>>, route_rows |-> {}]

(* What a model may answer, and what a case expects: names, or numbers with  *)
(* a label each or with none, and a ± when that is scored (Expected.from_yaml *)
(* and the shipped cases).                                                   *)
Labels == Seq([iri : BOOLEAN, key : STRING])
Answers == [value : Int \cup {Null}, values : Seq(Int \cup {Null}), labels : Labels,
            uncs : Seq(Int \cup {Null}), unit : STRING, routes : Seq(Seq(STRING))]
WellFormed(exp) ==
  /\ exp.values \in Seq(Int) /\ exp.labels \in Labels /\ exp.uncs \in Seq(Int)
  /\ exp.score_uncertainty => exp.uncs # <<>>
  /\ ~exp.names_only /\ exp.labels # <<>> =>
       /\ Len(exp.labels) = Len(exp.values)
       /\ \A i, j \in DOMAIN exp.labels : exp.labels[i].key = exp.labels[j].key => i = j

Magnitude(x) == IF x < 0 THEN -x ELSE x
Larger(x, y) == IF x < y THEN y ELSE x
Known(s) == FoldLeft(LAMBDA known, x : IF x = Null THEN known ELSE Append(known, x), <<>>, s)
Keys(labels) == {labels[i].key : i \in DOMAIN labels}

(* The last ANSWER object of a final message, given the objects in it.  The  *)
(* expression is greedy across lines: two objects are one text that does not *)
(* parse.                                                                    *)
parse_answer(objects) == IF Len(objects) = 1 THEN objects[1] ELSE Null

(* units.canonical: kg and kg/kg; an unknown unit passes through.            *)
Factor(unit) == CASE unit \in {"g", "g/kg"} -> 1
                  [] unit = "%"             -> 10
                  [] OTHER                  -> 1000
canonical(v, unit) == v * Factor(unit)

normalize_scalar_answer(ans) ==
  IF ans.values # <<>> \/ ans.value = Null THEN ans
  ELSE [ans EXCEPT !.values = <<ans.value>>, !.value = Null]

answer_numbers(ans) ==
  IF ans = Null THEN <<>> ELSE Known(normalize_scalar_answer(ans).values)
NumberSet(ans) == ToSet(answer_numbers(ans))

---------------------------------------------------------------------------
(* What the corrective re-prompts ask of an answer.                          *)

has_string_labels(ans) == \E i \in DOMAIN ans.labels : ~ans.labels[i].iri

missing_labels(ans) == answer_numbers(ans) # <<>> /\ ans.labels = <<>>

missing_uncertainties(ans) == answer_numbers(ans) # <<>> /\ Known(ans.uncs) = <<>>

shape_mismatch(ans, exp) ==
  LET vals == normalize_scalar_answer(ans).values
      scalar == exp.labels = <<>> /\ Len(exp.values) = 1
  IN  /\ ~exp.names_only
      /\ \/ answer_numbers(ans) = <<>>
         \/ scalar /\ Len(vals) > 1
         \/ /\ exp.labels # <<>>
            /\ Len(ans.labels) # Len(vals) \/ vals = <<>>

is_fraction_not_kg(ans, exp) ==
  /\ ~exp.names_only
  /\ exp.unit \in {"kg", "kg/kg", "g/kg"}
  /\ ans.unit \in {"kg/kg", "g/kg", "%"}
  /\ exp.labels # <<>> => Keys(exp.labels) \cap Keys(ans.labels) # {}
  /\ answer_numbers(ans) # <<>>
  /\ \A n \in NumberSet(ans) : Magnitude(n) < 1500
  /\ \E i \in DOMAIN exp.values : Magnitude(exp.values[i]) >= 1500

(* The numbers of the answer that no query returned and that no sum of the   *)
(* blocks, nor a product of two returned numbers, gives.  blocks holds the   *)
(* numbers of each tool result, in the order the model received them.        *)
(* Sums of several results are only tried for a few results, products only   *)
(* for a few numbers.                                                        *)
MaxSubsetSum == 16
MaxProducts == 50
Total(s) == SumFunction([i \in DOMAIN s |-> Magnitude(s[i])])
Tried(blocks) ==
  IF Len(blocks) <= MaxSubsetSum THEN SUBSET DOMAIN blocks
  ELSE {{i} : i \in DOMAIN blocks} \cup {DOMAIN blocks}
BugSums(blocks) ==     \* mutant: only the sum of everything
  {SumFunction([i \in DOMAIN blocks |-> Total(blocks[i])])}
Sums(blocks) ==
  {SumFunctionOnSet([i \in DOMAIN blocks |-> Total(blocks[i])], I) : I \in Tried(blocks)}
Combos(blocks) ==
  LET pool == {Magnitude(x) : x \in UNION {ToSet(blocks[i]) : i \in DOMAIN blocks}}
  IN  pool \cup Sums(blocks)
      \cup IF Cardinality(pool) <= MaxProducts THEN {(x * y) \div 1000 : x, y \in pool} ELSE {}
Traces(v, c) == c # 0 /\ 500 * Magnitude(Magnitude(v) - c) <= Larger(Magnitude(v), c)
ungrounded(ans, blocks) ==
  IF \A i \in DOMAIN blocks : blocks[i] = <<>> THEN {}
  ELSE {v \in NumberSet(ans) : v # 0 /\ \A c \in Combos(blocks) : ~Traces(v, c)}

---------------------------------------------------------------------------
(* score_answer.                                                             *)

Close(a, b) ==
  LET d == Magnitude(a - b)
  IN  50 * d <= Larger(Magnitude(a), Magnitude(b)) \/ d <= 10000
UncClose(a, b) ==
  LET d == Magnitude(a - b)
  IN  5 * d <= Larger(Magnitude(a), Magnitude(b)) \/ d <= 50

(* The first ± given for a label; by position when nothing is labelled.      *)
UncFor(ans, exp, i) ==
  LET js == {j \in DOMAIN ans.labels : ans.labels[j].key = exp.labels[i].key}
      at == IF exp.labels = <<>> \/ ans.labels = <<>> THEN i
            ELSE IF js = {} THEN 0 ELSE Min(js)
  IN  IF at \in DOMAIN ans.uncs THEN ans.uncs[at] ELSE Null

UncFaults(ans, exp) ==
  LET got(i) == UncFor(ans, exp, i)
      rows == DOMAIN exp.uncs
      absent == {i \in rows : got(i) = Null}
      off == {i \in rows \ absent : ~UncClose(got(i), exp.uncs[i])}
  IN  IF ~exp.score_uncertainty \/ exp.uncs = <<>> THEN {}
      ELSE IF ans.uncs = <<>> THEN {"no-unc"}
      ELSE (IF absent # {} THEN {"unc-wrong", "unc-missing"} ELSE {})
           \cup (IF off # {} THEN {"unc-wrong"} ELSE {})

NameFaults(ans, exp) ==
  IF has_string_labels(ans) \/ ans.values # <<>> THEN {"bare-label"}
  ELSE (IF Keys(exp.labels) \subseteq Keys(ans.labels) THEN {} ELSE {"missing"})
       \cup (IF Keys(ans.labels) \subseteq Keys(exp.labels) THEN {} ELSE {"extra"})

(* A label given twice counts with its last value, its first ± and its first *)
(* route.                                                                    *)
RouteFaults(ans, exp) ==
  LET first(k) == {j \in DOMAIN ans.routes : ans.routes[j][1] = k}
      bad(r) == first(r[1]) = {} \/ ans.routes[Min(first(r[1]))][3] # r[2]
      wanted == ToSet(exp.routes)
  IN  (IF \E r \in wanted : bad(r) THEN {"route-wrong"} ELSE {})
      \cup (IF \E r \in wanted : first(r[1]) = {} THEN {"route-missing"} ELSE {})
      \cup (IF exp.route_rows \subseteq ToSet(ans.routes) THEN {} ELSE {"route-rows"})

RankFaults(ans, exp) ==
  LET s == Known(ans.values)
  IN  IF exp.ranked /\ \E i \in 1 .. Len(s) - 1 :
                          50 * (s[i + 1] - s[i]) > Magnitude(s[i])
      THEN {"order"} ELSE {}

(* An unknown* row is data the golden does not tabulate: never an extra.     *)
IsUnknown(key) == key = "unknownElement"
LabelledFaults(ans, exp) ==
  LET rows(k) == {j \in DOMAIN ans.labels \cap DOMAIN ans.values :
                    ans.labels[j].key = k /\ ans.values[j] # Null}
      given == {k \in Keys(exp.labels) : rows(k) # {}}
      got(k) == canonical(ans.values[Max(rows(k))], ans.unit)
      want(k) == canonical(exp.values[CHOOSE i \in DOMAIN exp.labels :
                                        exp.labels[i].key = k], exp.unit)
      more == {k \in Keys(ans.labels) \ Keys(exp.labels) : ~IsUnknown(k)}
  IN  IF has_string_labels(ans) THEN {"bare-label"}
      ELSE (IF given = Keys(exp.labels) THEN {} ELSE {"missing"})
           \cup (IF \A k \in given : Close(got(k), want(k)) THEN {} ELSE {"wrong-value"})
           \cup (IF more = {} THEN {} ELSE {"extra"})
           \cup UncFaults(ans, exp) \cup RouteFaults(ans, exp) \cup RankFaults(ans, exp)

(* Without labels: greedily, an expected number takes the first close one.   *)
Take(rest, w) ==
  LET hits == {i \in DOMAIN rest : Close(rest[i], w)}
  IN  IF rest = <<Null>> \/ hits = {} THEN <<Null>> ELSE RemoveAt(rest, Min(hits))
Unmatched(got, want) == FoldLeft(Take, got, want)
PlainFaults(ans, exp) ==
  LET canon(s, unit) == [i \in DOMAIN s |-> canonical(s[i], unit)]
      rest == Unmatched(canon(Known(ans.values), ans.unit), canon(exp.values, exp.unit))
  IN  IF rest = <<Null>> THEN {"not-matched"}
      ELSE (IF rest = <<>> \/ Len(exp.values) = 1 THEN {} ELSE {"extra-values"})
           \cup UncFaults(ans, exp)

score_answer(exp, given) ==
  LET ans == normalize_scalar_answer(given)
  IN  IF given = Null THEN {"no-line"}
      ELSE IF exp.names_only THEN NameFaults(ans, exp)
      ELSE IF answer_numbers(ans) = <<>> THEN {"no-number"}
      ELSE IF exp.labels # <<>> THEN LabelledFaults(ans, exp)
      ELSE PlainFaults(ans, exp)

correct(exp, ans) == score_answer(exp, ans) = {}

(* classify_error reads the detail as text, in this order: "missing " is in  *)
(* "route-rows-missing [" too, and "extra " in "unexpected extra value(s)".  *)
classify_error(faults, timed_out, token_capped) ==
  IF faults = {}                                               THEN "none"
  ELSE IF token_capped                                         THEN "token-cap"
  ELSE IF timed_out                                            THEN "timeout"
  ELSE IF "chat-failed" \in faults                             THEN "provider-error"
  ELSE IF "not-grounded" \in faults                            THEN "not-grounded"
  ELSE IF faults \cap {"missing", "extra", "bare-label", "extra-values",
                       "route-rows"} # {}                      THEN "wrong-class"
  ELSE IF faults \cap {"wrong-value", "not-matched"} # {}      THEN "wrong-value"
  ELSE IF faults \cap {"unc-wrong", "no-unc"} # {}             THEN "wrong-uncertainty"
  ELSE IF "route-wrong" \in faults                             THEN "wrong-route"
  ELSE IF faults \cap {"no-line", "no-number"} # {}            THEN "no-answer"
  ELSE "other"
=============================================================================
