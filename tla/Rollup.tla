------------------------------- MODULE Rollup -------------------------------
(* The averaging loop that gives every ancestor class its row, from          *)
(*   builder/aggregate.py         aggregate, aggregate_item_mass,            *)
(*                                aggregate_uncertainty, aggregate_dq        *)
(*   resolver/plugins/component.py, partof.py   _rollup_*_over_subclasses    *)
(*                                                                           *)
(* The loop goes over the ancestors in NAME order, again and again, and      *)
(* averages an ancestor the first time one of its direct subclasses has a    *)
(* row.  Classes are therefore numbers: the order of their names.  Three     *)
(* families of the loop exist and differ in what they read and divide by:    *)
(*   "class"      the top instances; twins for uncertainty and data quality  *)
(*   "component"  every component node; twins that read the finished values  *)
(*   "partof"     constituents of a class; no twins                          *)
(* A cell of a value row is its amount and the classes it was averaged over; *)
(* a cell of an uncertainty row is the classes whose spread entered it, and  *)
(* of a quality row the worst score.                                         *)
EXTENDS Integers, FiniteSets, FiniteSetsExt

CONSTANTS Shapes,   \* class trees: [sub, scope, base, free], see ShapeOK
          Mixes,    \* rows an instance pool can have: [elements -> amounts]
          Whole,    \* what a pool's amounts add up to; divisible by the counts
          Scores,   \* data quality scores
          Families

ShapeOK(s) ==
  /\ s.sub \subseteq Nat \X Nat            \* <<class, direct superclass>>
  /\ IsFiniteSet(s.sub)
  /\ DOMAIN s.scope \subseteq Nat          \* timed classes: <<first, last>> year
  /\ s.base \cap DOMAIN s.scope = {}       \* untimed classes averaged over slices
  /\ s.free \subseteq Nat                  \* ancestors of neither products nor components

ASSUME RollupAssumption ==
  /\ \A s \in Shapes : ShapeOK(s)
  /\ Whole \in Nat \ {0} /\ Scores \subseteq Nat \ {0}
  /\ Families \subseteq {"class", "component", "partof"}

\* what a function of numbers adds up to
SumOf(f) == MapThenSumSet(LAMBDA x : f[x], DOMAIN f)

\* an element's share of a pool is not negative, and the shares are of the Whole
ASSUME MixAssumption ==
  \A m \in Mixes : /\ IsFiniteSet(DOMAIN m) /\ \A e \in DOMAIN m : m[e] \in Nat
                   /\ SumOf(m) <= Whole

Tables == {"best", "spread", "quality"}

VARIABLES shape, family,
          leaf,        \* per table: the rows of the classes with instances
          built,       \* per table: the rows of ancestors (computed)
          phase,       \* the table being built, or "done"
          pass, todo, remaining, progressed

vars == <<shape, family, leaf, built, phase, pass, todo, remaining, progressed>>

Empty == << >>     \* a row, or a table, with nothing in it

-----------------------------------------------------------------------------
(* The class tree.                                                           *)

\* ancestors_of, without the class itself, for all classes with instances: what
\* is in every set that has the superclasses of these classes and of its members
AncestorsIn(sub, classes) ==
  LET supers == {e[2] : e \in sub}
      closed(X) == \A e \in sub : e[1] \in classes \cup X => e[2] \in X
  IN  {a \in supers : \A X \in SUBSET supers : closed(X) => a \in X}

Ancestors == AncestorsIn(shape.sub, DOMAIN leaf["best"])

Timed == DOMAIN shape.scope

Contains(outer, inner) == outer[1] <= inner[1] /\ inner[2] <= outer[2]

\* only the class family asks for the level of what is below
Ungated(p) == family = "class" /\ p \in shape.free

\* parent_gate returns None: an untimed class that is no base of slices
NoAggregate(p) == ~Ungated(p) /\ p \notin Timed /\ p \notin shape.base

\* parent_gate: which candidates the parent may average over
Gated(p, candidates) ==
  IF Ungated(p) THEN candidates
  ELSE {c \in candidates \cap Timed : p \in Timed => Contains(shape.scope[p], shape.scope[c])}

-----------------------------------------------------------------------------
(* Reading the tables.                                                       *)

\* what is served once a table is finished: an ancestor's row wins
Final(t) ==
  [c \in DOMAIN built[t] \cup DOMAIN leaf[t] |->
     IF c \in DOMAIN built[t] THEN built[t][c] ELSE leaf[t][c]]

FinalRow(t, c) == IF c \in DOMAIN Final(t) THEN Final(t)[c] ELSE Empty

\* leaf.get(s) or computed.get(s) or {} in the class family, out.get(s, {}) else
Read(t, s) ==
  IF family = "class" /\ s \in DOMAIN leaf[t] /\ leaf[t][s] # Empty
  THEN leaf[t][s] ELSE IF family = "class" /\ s \in DOMAIN built[t] THEN built[t][s]
  ELSE FinalRow(t, s)

\* mutant: the component family's way for all
BugCandidatesBest(p) == {s \in DOMAIN Final("best") : <<s, p>> \in shape.sub}

\* mutant: subclasses that were computed themselves are not looked at
BugCandidatesLeaf(p) == {s \in DOMAIN leaf["best"] : <<s, p>> \in shape.sub}

\* subclasses_with_agg, or the classes of out; the component twins look in the
\* finished values, not in their own table
Candidates(p) ==
  LET have == IF family = "class" THEN DOMAIN Final(phase) ELSE DOMAIN Final("best")
  IN  {s \in have : <<s, p>> \in shape.sub}

ElementsIn(t, subs) == UNION {DOMAIN Read(t, s) : s \in subs}

\* mutant: every family divides by the subclasses that have the element
BugMeanRow(subs) ==
  [e \in ElementsIn("best", subs) |->
     LET with == {s \in subs : e \in DOMAIN Read("best", s)}
     IN  [amt |-> SumOf([s \in with |-> Read("best", s)[e].amt]) \div Cardinality(with),
          of |-> with]]

\* the row of the mean: the class family divides by the subclasses that have
\* the element, the others by all of them
MeanRow(subs) ==
  [e \in ElementsIn("best", subs) |->
     LET with == {s \in subs : e \in DOMAIN Read("best", s)}
         n == Cardinality(IF family = "class" THEN with ELSE subs)
     IN  [amt |-> SumOf([s \in with |-> Read("best", s)[e].amt]) \div n,
          of |-> with]]

\* the root of the sum of squared spreads, over the count of the subclasses; a
\* component without a spread counts as one with none
SpreadRow(p, subs) ==
  LET valued(e) == {s \in subs : e \in DOMAIN FinalRow("best", s)}
      rated(e) == {s \in valued(e) : e \in DOMAIN Read("spread", s)}
      elems == IF family = "class" THEN {e \in ElementsIn("spread", subs) : rated(e) # {}}
                                   ELSE UNION {DOMAIN FinalRow("best", s) : s \in subs}
  IN  [e \in elems \cap DOMAIN FinalRow("best", p) |-> rated(e)]

\* the worst score among the subclasses that have a value and a score
QualityRow(subs) ==
  LET scored(e) == {s \in subs : e \in DOMAIN FinalRow("best", s) \cap DOMAIN Read("quality", s)}
  IN  [e \in {d \in ElementsIn("quality", subs) : scored(d) # {}} |->
         Max({Read("quality", s)[e] : s \in scored(e)})]

Row(p, subs) == CASE phase = "best" -> MeanRow(subs)
                  [] phase = "spread" -> SpreadRow(p, subs)
                  [] phase = "quality" -> QualityRow(subs)

-----------------------------------------------------------------------------
(* Tables at the start: a pool has a mix, and is scored or is not.           *)

LeafTables(mix, score) ==
  [best |-> [c \in DOMAIN mix |-> [e \in DOMAIN mix[c] |-> [amt |-> mix[c][e], of |-> {}]]],
   spread |-> [c \in DOMAIN mix |->
                 [e \in (IF score[c] = 0 THEN {} ELSE DOMAIN mix[c]) |-> {c}]],
   quality |-> [c \in DOMAIN mix |->
                  [e \in (IF score[c] = 0 THEN {} ELSE DOMAIN mix[c]) |-> score[c]]]]

Init ==
  /\ shape \in Shapes
  /\ family \in Families
  /\ \E pool \in SUBSET {e[1] : e \in shape.sub} :
       \E mix \in [pool -> Mixes], score \in [pool -> Scores \cup {0}] :
         /\ pool # {}
         /\ \A c \in pool : /\ c \in Timed \cup shape.free     \* check_time_complete
                            /\ family = "component" => mix[c] # Empty
                            /\ family = "partof" => score[c] = 0
         /\ leaf = LeafTables(mix, score)
  /\ built = [t \in Tables |-> Empty]
  /\ phase = "best"
  /\ pass = 1
  /\ remaining = Ancestors
  /\ todo = Ancestors
  /\ progressed = FALSE

-----------------------------------------------------------------------------
(* One visit of the loop over sorted(remaining).                             *)

Static == <<shape, family, leaf>>

Visit(p) == phase # "done" /\ todo # {} /\ p = Min(todo) /\ todo' = todo \ {p}

\* no subclass has a row yet, or none the parent may use
Await ==
  \E p \in todo :
    /\ Visit(p)
    /\ Candidates(p) = {} \/ (~NoAggregate(p) /\ Gated(p, Candidates(p)) = {})
    /\ UNCHANGED <<Static, built, phase, pass, remaining, progressed>>

WithRow(table, p, row) ==
  [c \in DOMAIN table \cup {p} |-> IF c = p THEN row ELSE table[c]]

Settle(p) == remaining' = remaining \ {p} /\ progressed' = TRUE

\* the parent gets no aggregate
Drop ==
  \E p \in todo :
    /\ Visit(p)
    /\ Candidates(p) # {} /\ NoAggregate(p)
    /\ Settle(p)
    /\ UNCHANGED <<Static, built, phase, pass>>

Average ==
  \E p \in todo :
    LET subs == Gated(p, Candidates(p)) IN
    /\ Visit(p)
    /\ ~NoAggregate(p) /\ subs # {}
    /\ built' = [built EXCEPT ![phase] = WithRow(@, p, Row(p, subs))]
    /\ Settle(p)
    /\ UNCHANGED <<Static, phase, pass>>

\* mutant: a single pass
BugMorePasses == progressed /\ pass < 1

\* for _ in range(len(remaining) + 1)
MorePasses == progressed /\ pass < Cardinality(Ancestors) + 1

NextPass ==
  /\ phase # "done" /\ todo = {} /\ MorePasses
  /\ pass' = pass + 1 /\ todo' = remaining /\ progressed' = FALSE
  /\ UNCHANGED <<Static, built, phase, remaining>>

PhaseAfter == CASE phase = "best" /\ family # "partof" -> "spread"
                [] phase = "spread" -> "quality"
                [] OTHER -> "done"

\* the loop ends; the twins go over the same ancestors from the start
NextTable ==
  /\ phase # "done" /\ todo = {} /\ ~MorePasses
  /\ phase' = PhaseAfter
  /\ pass' = 1 /\ progressed' = FALSE
  /\ remaining' = Ancestors
  /\ todo' = IF phase' = "done" THEN {} ELSE Ancestors
  /\ UNCHANGED <<Static, built>>

Next == Await \/ Drop \/ Average \/ NextPass \/ NextTable

Spec == Init /\ [][Next]_vars /\ WF_vars(Next)

-----------------------------------------------------------------------------
(* Properties.                                                               *)

Done == phase = "done"

Total(row) == SumOf([e \in DOMAIN row |-> row[e].amt])

\* The classes p averages over when everything that will have a row has one.
Contributors(p) == {s \in Gated(p, {e[1] : e \in {d \in shape.sub : d[2] = p}}) :
                      s \in DOMAIN Final("best")}

\* The loop stops only at the fixpoint: no ancestor that may be averaged and
\* has a contributor is left without a row, in any table, whatever the order
\* of the names makes of the passes.
Complete ==
  Done => \A p \in Ancestors :
            (~NoAggregate(p) /\ Contributors(p) # {}) =>
              \A t \in (IF family = "partof" THEN {"best"} ELSE Tables) : p \in DOMAIN built[t]

\* Averaging over all contributors creates no matter: a component's or a
\* whole's parts never add up to more than the measured pools did.
Conserved ==
  family # "class" => \A c \in DOMAIN Final("best") : Total(Final("best")[c]) <= Whole

\* No class of the class family is both measured and averaged: of such a class
\* the parent's value reads the pool, its twins the pool's spread times the mean.
Separate == family = "class" => DOMAIN leaf["best"] \cap Ancestors = {}

\* Every class is named before its superclasses.
NameOrder == \A e \in shape.sub : e[1] < e[2]

\* When the names are in that order one pass is exact: each row is averaged over
\* every contributor with the element, from their final rows, and so are the
\* spread and the score.  (The mean of the model is the whole part of it.)
ExactInNameOrder ==
  (Done /\ NameOrder /\ Separate) =>
    \A p \in DOMAIN built["best"] : \A e \in DOMAIN built["best"][p] :
      LET cell == built["best"][p][e]
          with(t) == {s \in Contributors(p) : e \in DOMAIN FinalRow(t, s)}
          n == Cardinality(IF family = "class" THEN with("best") ELSE Contributors(p))
      IN  /\ cell.of = with("best")
          /\ cell.amt = SumOf([s \in with("best") |-> FinalRow("best", s)[e].amt]) \div n
          /\ e \in DOMAIN FinalRow("spread", p) => FinalRow("spread", p)[e] = with("spread")
          /\ e \in DOMAIN FinalRow("quality", p) <=> with("quality") # {}

\* The twins of the class family go with the value: the spread and the score of
\* an averaged cell are taken from the very subclasses its value was averaged
\* over, those with a spread and a score of their own, in every name order.
TwinsFollowValue ==
  (Done /\ family = "class" /\ Separate) =>
    \A p \in DOMAIN built["best"] : \A e \in DOMAIN built["best"][p] :
      LET of == built["best"][p][e].of
          rated(t) == {s \in of : e \in DOMAIN Read(t, s)}
      IN  /\ rated("spread") = (IF e \in DOMAIN built["spread"][p]
                                THEN built["spread"][p][e] ELSE {})
          /\ rated("quality") # {} => \A s \in rated("quality") :
               built["quality"][p][e] >= Read("quality", s)[e]
=============================================================================
