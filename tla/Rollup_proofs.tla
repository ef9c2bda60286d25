--------------------------- MODULE Rollup_proofs ---------------------------
(* The averaging loop stops only at its fixpoint: for every class tree, in    *)
(* every order of its names, with any pools, no ancestor with a contributor   *)
(* is left without a row.  The bound on the passes is never what ends it,     *)
(* since a pass that goes on has settled an ancestor; and the twins, which    *)
(* look for rows of their own, find one wherever the value did.  And where    *)
(* the mean is over every contributor it creates no matter: a sum is counted  *)
(* in cells, one per unit, and the cells of the mean, repeated for each of    *)
(* the rows, are no more than theirs.  In the class family the three loops    *)
(* take the same way, and an ancestor is averaged at one point of it, so the  *)
(* spread and the score are of the classes the value is of.  When every class *)
(* is named before its superclasses the first pass does it all, from rows     *)
(* that are final, so every average is over all that contributes.             *)
EXTENDS Rollup, FiniteSetTheorems, WellFoundedInduction, TLAPS

-----------------------------------------------------------------------------
(* The classes a visit of table t finds with a row.                          *)
Have(t) == IF family = "class" THEN DOMAIN Final(t) ELSE DOMAIN Final("best")

(* The ancestor may be averaged over some of the classes X.                  *)
Averages(p, X) == ~NoAggregate(p) /\ Gated(p, {s \in X : <<s, p>> \in shape.sub}) # {}

(* Every ancestor that may be averaged over some of X is in X.               *)
Upward(X) == \A p \in Ancestors : Averages(p, X) => p \in X

(* Nothing is left to do in table t.                                         *)
Fixpoint(t) == \A p \in Ancestors : Averages(p, Have(t)) => p \in DOMAIN built[t]

Over(t) ==
  \/ phase = "done" /\ (t # "best" => family # "partof")
  \/ phase = "quality" /\ t \in {"best", "spread"}
  \/ phase = "spread" /\ t = "best"

Shaped ==
  /\ shape \in Shapes /\ family \in Families
  /\ DOMAIN built = Tables /\ phase \in Tables \cup {"done"}
  /\ phase \in {"spread", "quality"} => family # "partof"
  /\ \A t \in Tables : DOMAIN leaf[t] = DOMAIN leaf["best"]
  /\ pass \in Nat \ {0} /\ progressed \in BOOLEAN
  /\ remaining \subseteq Ancestors /\ todo \subseteq remaining

(* A pass that made progress has settled one ancestor at least.              *)
Fuel ==
  Cardinality(remaining) + pass + (IF progressed THEN 1 ELSE 0) <= Cardinality(Ancestors) + 1

(* An ancestor is settled with a row, or because it gets none.               *)
Settled ==
  phase # "done" => \A p \in Ancestors \ remaining : NoAggregate(p) \/ p \in DOMAIN built[phase]

(* In a pass without progress an ancestor already visited could not be       *)
(* averaged, and still cannot.                                               *)
Visited ==
  phase # "done" /\ ~progressed =>
    \A p \in remaining \ todo : ~Averages(p, Have(phase))

(* A row has a reason: whatever has the pools and is closed upwards has      *)
(* every class with a row.                                                   *)
Grounded ==
  \A X : DOMAIN leaf["best"] \subseteq X /\ Upward(X) => \A t \in Tables : DOMAIN Final(t) \subseteq X

IInv ==
  /\ Shaped /\ Fuel /\ Settled /\ Visited /\ Grounded
  /\ \A t \in Tables : Over(t) => Fixpoint(t)

-----------------------------------------------------------------------------
(* The ancestors are finitely many.                                          *)
LEMMA FewAncestors ==
  ASSUME shape \in Shapes
  PROVE  IsFiniteSet(Ancestors)
<1>. DEFINE super == [e \in shape.sub |-> e[2]]
<1>1. IsFiniteSet(shape.sub)
  BY RollupAssumption DEF ShapeOK
<1>2. super \in Surjection(shape.sub, {super[e] : e \in shape.sub})
  BY DEF Surjection
<1>3. IsFiniteSet({super[e] : e \in shape.sub})
  BY <1>1, <1>2, FS_Surjection
<1>4. Ancestors \subseteq {super[e] : e \in shape.sub}
  BY DEF Ancestors, AncestorsIn
<1>. QED
  BY <1>3, <1>4, FS_Subset

(* More classes with rows, more to average over.                             *)
LEMMA AveragesMore ==
  ASSUME NEW p, NEW X, NEW Z, X \subseteq Z, Averages(p, X)
  PROVE  Averages(p, Z)
BY DEF Averages, Gated

(* The candidates of a visit are the classes below that have a row.          *)
LEMMA CandidatesHave ==
  ASSUME NEW p
  PROVE  Candidates(p) = {s \in Have(phase) : <<s, p>> \in shape.sub}
BY DEF Candidates, Have

LEMMA InitInv == Init => IInv
<1>. SUFFICES ASSUME Init PROVE IInv
  OBVIOUS
<1>1. PICK mix, score : leaf = LeafTables(mix, score)
  BY DEF Init
<1>2. \A t \in Tables : DOMAIN leaf[t] = DOMAIN leaf["best"]
  BY <1>1 DEF LeafTables, Tables
<1>3. /\ shape \in Shapes /\ family \in Families /\ phase = "best" /\ pass = 1
      /\ built = [t \in Tables |-> Empty] /\ remaining = Ancestors /\ todo = Ancestors
      /\ progressed = FALSE
  BY DEF Init
<1>4. Shaped
  <2>1. progressed \in BOOLEAN
    BY <1>3, Zenon
  <2>. QED
    BY <1>2, <1>3, <2>1 DEF Shaped, Tables
<1>5. Fuel
  <2>1. Cardinality(Ancestors) \in Nat
    BY <1>3, FewAncestors, FS_CardinalityType
  <2>. QED
    BY <1>3, <2>1 DEF Fuel
<1>6. Settled /\ Visited
  BY <1>3 DEF Settled, Visited
<1>7. Grounded
  <2>1. \A t \in Tables : DOMAIN built[t] = {}
    BY <1>3 DEF Empty
  <2>. QED
    BY <1>2, <2>1 DEF Grounded, Final
<1>8. \A t \in Tables : ~Over(t)
  BY <1>3 DEF Over
<1>. QED
  BY <1>4, <1>5, <1>6, <1>7, <1>8 DEF IInv

-----------------------------------------------------------------------------
(* A visit that changes no table leaves everything as it is but the list.    *)
LEMMA SameTables ==
  ASSUME UNCHANGED <<Static, built>>
  PROVE  /\ Ancestors' = Ancestors
         /\ \A t : Final(t)' = Final(t) /\ Have(t)' = Have(t) /\ Fixpoint(t)' = Fixpoint(t)
         /\ \A p, X : Averages(p, X)' = Averages(p, X)
         /\ \A p : NoAggregate(p)' = NoAggregate(p)
         /\ Grounded' = Grounded
BY DEF Static, Ancestors, Final, Have, Fixpoint, Averages, NoAggregate, Gated, Ungated, Timed, Grounded, Upward

(* What a visit of the loop does to the list of what is left to visit.       *)
LEMMA VisitTodo ==
  ASSUME NEW p, Visit(p), Shaped
  PROVE  /\ phase \in Tables /\ phase # "done" /\ todo' = todo \ {p}
BY DEF Visit, Shaped

(* An ancestor that waits could not be averaged.                             *)
LEMMA AwaitInv ==
  ASSUME IInv, Await
  PROVE  IInv'
<1>. PICK p \in todo : /\ Visit(p)
                       /\ Candidates(p) = {} \/ (~NoAggregate(p) /\ Gated(p, Candidates(p)) = {})
                       /\ UNCHANGED <<Static, built, phase, pass, remaining, progressed>>
  BY DEF Await
<1>1. /\ UNCHANGED <<shape, family, leaf, built, phase, pass, remaining, progressed>>
      /\ todo' = todo \ {p}
  BY VisitTodo DEF Static, IInv
<1>2. UNCHANGED <<Static, built>>
  BY <1>1 DEF Static
<1>3. Shaped'
  BY <1>1, <1>2, SameTables DEF Shaped, IInv
<1>4. Fuel' /\ Settled' /\ Grounded'
  BY <1>1, <1>2, SameTables DEF IInv, Fuel, Settled
<1>5. ~Averages(p, Have(phase))
  <2>1. \A X : X = {} => Gated(p, X) = {}
    BY DEF Gated
  <2>. QED
    BY <2>1, CandidatesHave DEF Averages
<1>6. Visited'
  BY <1>1, <1>2, <1>5, SameTables DEF IInv, Visited
<1>7. \A t \in Tables : Over(t)' => Fixpoint(t)'
  BY <1>1, <1>2, SameTables DEF IInv, Over
<1>. QED
  BY <1>3, <1>4, <1>6, <1>7 DEF IInv

(* Settling an ancestor pays for the pass.                                   *)
LEMMA SettleFuel ==
  ASSUME Shaped, Fuel, Ancestors' = Ancestors, pass' = pass, NEW p \in todo, Settle(p)
  PROVE  Fuel'
<1>1. IsFiniteSet(Ancestors) /\ remaining \subseteq Ancestors /\ p \in remaining
  BY FewAncestors DEF Shaped
<1>2. IsFiniteSet(remaining)
  BY <1>1, FS_Subset
<1>3. Cardinality(remaining') = Cardinality(remaining) - 1 /\ Cardinality(remaining) \in Nat
  BY <1>1, <1>2, FS_RemoveElement, FS_CardinalityType DEF Settle
<1>4. Cardinality(Ancestors) \in Nat
  BY <1>1, FS_CardinalityType
<1>. PICK a, r, q \in Nat : /\ a = Cardinality(Ancestors) /\ r = Cardinality(remaining) /\ q = pass
  BY <1>3, <1>4 DEF Shaped
<1>5. r + q <= a + 1
  BY DEF Fuel
<1>6. progressed' = TRUE
  BY DEF Settle
<1>7. Cardinality(Ancestors)' = Cardinality(Ancestors)
  OBVIOUS
<1>. QED
  BY <1>3, <1>5, <1>6, <1>7 DEF Fuel

LEMMA DropInv ==
  ASSUME IInv, Drop
  PROVE  IInv'
<1>. PICK p \in todo : /\ Visit(p) /\ NoAggregate(p) /\ Settle(p)
                       /\ UNCHANGED <<Static, built, phase, pass>>
  BY DEF Drop
<1>1. /\ UNCHANGED <<shape, family, leaf, built, phase, pass>>
      /\ todo' = todo \ {p} /\ remaining' = remaining \ {p} /\ progressed' = TRUE
  BY VisitTodo DEF Static, IInv, Settle
<1>2. UNCHANGED <<Static, built>>
  BY <1>1 DEF Static
<1>3. Shaped'
  BY <1>1, <1>2, SameTables DEF Shaped, IInv
<1>4. Fuel'
  BY <1>1, <1>2, SameTables, SettleFuel DEF IInv
<1>5. Settled' /\ Visited' /\ Grounded'
  BY <1>1, <1>2, SameTables DEF IInv, Settled, Visited
<1>6. \A t \in Tables : Over(t)' => Fixpoint(t)'
  BY <1>1, <1>2, SameTables DEF IInv, Over
<1>. QED
  BY <1>3, <1>4, <1>5, <1>6 DEF IInv

LEMMA AverageInv ==
  ASSUME IInv, Average
  PROVE  IInv'
<1>. PICK p \in todo : /\ Visit(p) /\ ~NoAggregate(p) /\ Gated(p, Candidates(p)) # {}
                       /\ built' = [built EXCEPT ![phase] =
                                      WithRow(@, p, Row(p, Gated(p, Candidates(p))))]
                       /\ Settle(p)
                       /\ UNCHANGED <<Static, phase, pass>>
  BY DEF Average
<1>0. phase \in Tables /\ phase # "done"
  BY VisitTodo DEF IInv
<1>1. /\ UNCHANGED <<shape, family, leaf, phase, pass>> /\ p \in Ancestors
      /\ todo' = todo \ {p} /\ remaining' = remaining \ {p} /\ progressed' = TRUE
  BY VisitTodo DEF Static, IInv, Settle, Shaped
<1>2. /\ DOMAIN built' = Tables /\ DOMAIN built'[phase] = DOMAIN built[phase] \cup {p}
      /\ \A t \in Tables : t # phase => built'[t] = built[t]
  BY <1>0 DEF IInv, Shaped, WithRow
<1>3. Ancestors' = Ancestors /\ \A q, X : Averages(q, X)' = Averages(q, X)
  BY <1>1 DEF Ancestors, Averages, NoAggregate, Gated, Ungated, Timed
<1>4. \A q : NoAggregate(q)' = NoAggregate(q)
  BY <1>1 DEF NoAggregate, Ungated, Timed
<1>5. Shaped'
  BY <1>1, <1>2, <1>3 DEF Shaped, IInv
<1>6. Fuel'
  BY <1>1, <1>3, SettleFuel DEF IInv
<1>7. Settled' /\ Visited'
  BY <1>1, <1>2, <1>3, <1>4 DEF IInv, Settled, Visited
<1>8. \A t \in Tables : DOMAIN Final(t)' = DOMAIN built'[t] \cup DOMAIN leaf[t]
  BY <1>1 DEF Final
<1>9. \A t \in Tables : DOMAIN Final(t) = DOMAIN built[t] \cup DOMAIN leaf[t]
  BY DEF Final
<1>10. Grounded'
  <2>. SUFFICES ASSUME NEW X, DOMAIN leaf["best"] \subseteq X, Upward(X)', NEW t \in Tables
                PROVE  DOMAIN Final(t)' \subseteq X
    BY <1>1 DEF Grounded
  <2>1. Upward(X)
    BY <1>3 DEF Upward
  <2>2. \A u \in Tables : DOMAIN Final(u) \subseteq X
    BY <2>1 DEF IInv, Grounded
  <2>3. CASE phase # t
    BY <1>2, <1>8, <1>9, <2>2, <2>3
  <2>4. CASE phase = t
    <3>1. Averages(p, Have(t))
      BY <2>4, CandidatesHave DEF Averages
    <3>2. Have(t) \subseteq X
      BY <2>2 DEF Have, Tables
    <3>3. p \in X
      BY <1>1, <2>1, <3>1, <3>2, AveragesMore DEF Upward
    <3>. QED
      BY <1>2, <1>8, <1>9, <2>2, <2>4, <3>3
  <2>. QED
    BY <2>3, <2>4
<1>11. ASSUME NEW t \in Tables, Over(t)' PROVE Fixpoint(t)'
  <2>1. Over(t) /\ t # phase /\ phase # "best"
    BY <1>0, <1>1, <1>11 DEF Over
  <2>2. DOMAIN built'[t] = DOMAIN built[t] /\ DOMAIN Final(t)' = DOMAIN Final(t)
        /\ DOMAIN Final("best")' = DOMAIN Final("best")
    BY <1>2, <1>8, <1>9, <2>1 DEF Tables
  <2>3. Have(t)' = Have(t)
    BY <1>1, <2>2 DEF Have
  <2>. QED
    BY <1>3, <2>1, <2>2, <2>3 DEF IInv, Fixpoint
<1>. QED
  BY <1>5, <1>6, <1>7, <1>10, <1>11 DEF IInv

LEMMA NextPassInv ==
  ASSUME IInv, NextPass
  PROVE  IInv'
<1>1. /\ UNCHANGED <<shape, family, leaf, built, phase, remaining>> /\ progressed
      /\ pass' = pass + 1 /\ todo' = remaining /\ progressed' = FALSE
  BY DEF NextPass, Static, MorePasses
<1>2. UNCHANGED <<Static, built>>
  BY <1>1 DEF Static
<1>3. Shaped'
  <2>1. progressed' \in BOOLEAN
    BY <1>1, Zenon
  <2>2. pass' \in Nat \ {0}
    BY <1>1 DEF IInv, Shaped
  <2>. QED
    BY <1>1, <1>2, <2>1, <2>2, SameTables DEF Shaped, IInv
<1>4. Fuel'
  <2>1. Cardinality(Ancestors)' = Cardinality(Ancestors) /\ Cardinality(remaining)' = Cardinality(remaining)
    BY <1>1, <1>2, SameTables
  <2>2. Cardinality(Ancestors) \in Nat /\ Cardinality(remaining) \in Nat /\ pass \in Nat
    BY FewAncestors, FS_Subset, FS_CardinalityType DEF IInv, Shaped
  <2>. QED
    BY <1>1, <2>1, <2>2 DEF IInv, Fuel
<1>5. Settled' /\ Visited' /\ Grounded'
  BY <1>1, <1>2, SameTables DEF IInv, Settled, Visited
<1>6. \A t \in Tables : Over(t)' => Fixpoint(t)'
  BY <1>1, <1>2, SameTables DEF IInv, Over
<1>. QED
  BY <1>3, <1>4, <1>5, <1>6 DEF IInv

(* The loop ends because a pass settled nothing, never because it ran out of *)
(* passes; so the table is finished.                                         *)
LEMMA TableFinished ==
  ASSUME IInv, NextTable
  PROVE  Fixpoint(phase)
<1>1. phase # "done" /\ todo = {} /\ ~MorePasses
  BY DEF NextTable
<1>2. Cardinality(Ancestors) \in Nat /\ Cardinality(remaining) \in Nat /\ pass \in Nat
  BY FewAncestors, FS_Subset, FS_CardinalityType DEF IInv, Shaped
<1>3. ~progressed
  <2>. SUFFICES ASSUME progressed PROVE FALSE
    OBVIOUS
  <2>1. ~(pass < Cardinality(Ancestors) + 1)
    BY <1>1 DEF MorePasses
  <2>2. Cardinality(remaining) + pass + 1 <= Cardinality(Ancestors) + 1
    BY DEF IInv, Fuel
  <2>. QED
    BY <1>2, <2>1, <2>2
<1>. SUFFICES ASSUME NEW p \in Ancestors, Averages(p, Have(phase)) PROVE p \in DOMAIN built[phase]
  BY DEF Fixpoint
<1>4. p \notin remaining
  BY <1>1, <1>3 DEF IInv, Visited
<1>5. ~NoAggregate(p)
  BY DEF Averages
<1>. QED
  BY <1>1, <1>4, <1>5 DEF IInv, Settled

LEMMA NextTableInv ==
  ASSUME IInv, NextTable
  PROVE  IInv'
<1>1. /\ UNCHANGED <<shape, family, leaf, built>> /\ phase # "done" /\ phase' = PhaseAfter
      /\ pass' = 1 /\ progressed' = FALSE /\ remaining' = Ancestors
      /\ todo' = IF phase' = "done" THEN {} ELSE Ancestors
  BY DEF NextTable, Static
<1>2. UNCHANGED <<Static, built>>
  BY <1>1 DEF Static
<1>3. /\ phase' \in {"spread", "quality", "done"}
      /\ phase' \in {"spread", "quality"} => family # "partof"
      /\ \A t \in Tables : Over(t)' => Over(t) \/ t = phase
  BY <1>1 DEF PhaseAfter, IInv, Shaped, Over, Tables
<1>4. progressed' \in BOOLEAN
  BY <1>1, Zenon
<1>5. Shaped'
  BY <1>1, <1>2, <1>3, <1>4, SameTables DEF Shaped, IInv, Tables
<1>6. Fuel'
  <2>1. Cardinality(Ancestors)' = Cardinality(Ancestors) /\ Cardinality(remaining)' = Cardinality(Ancestors)
    BY <1>1, <1>2, SameTables
  <2>2. Cardinality(Ancestors) \in Nat
    BY FewAncestors, FS_CardinalityType DEF IInv, Shaped
  <2>. QED
    BY <1>1, <2>1, <2>2 DEF Fuel
<1>7. Settled' /\ Visited' /\ Grounded'
  BY <1>1, <1>2, SameTables DEF IInv, Settled, Visited
<1>8. \A t \in Tables : Over(t)' => Fixpoint(t)'
  BY <1>2, <1>3, SameTables, TableFinished DEF IInv
<1>. QED
  BY <1>5, <1>6, <1>7, <1>8 DEF IInv

(* Every visit, and every end of a pass and of a table, keeps the invariant. *)
LEMMA StepInv == IInv /\ [Next]_vars => IInv'
<1>. SUFFICES ASSUME IInv, [Next]_vars PROVE IInv'
  OBVIOUS
<1>1. CASE UNCHANGED vars
  <2>1. UNCHANGED <<shape, family, leaf, built, phase, pass, todo, remaining, progressed>>
    BY <1>1 DEF vars
  <2>2. UNCHANGED <<Static, built>>
    BY <2>1 DEF Static
  <2>3. Shaped' /\ Fuel' /\ Settled' /\ Visited' /\ Grounded'
    BY <2>1, <2>2, SameTables DEF IInv, Shaped, Fuel, Settled, Visited
  <2>4. \A t \in Tables : Over(t)' => Fixpoint(t)'
    BY <2>1, <2>2, SameTables DEF IInv, Over
  <2>. QED
    BY <2>3, <2>4 DEF IInv
<1>. QED
  BY <1>1, AwaitInv, DropInv, AverageInv, NextPassInv, NextTableInv DEF Next

THEOREM Invariance == Spec => []IInv
  BY InitInv, StepInv, PTL DEF Spec

-----------------------------------------------------------------------------
(* No ancestor with a contributor is left without a row: the value loop ends *)
(* at its fixpoint, a twin that reads the finished values finds what the     *)
(* value found, and a twin that reads its own rows ends where they have every*)
(* class the values have.                                                    *)
THEOREM FixpointReached == Spec => []Complete
<1>1. ASSUME IInv, Done, NEW p \in Ancestors, ~NoAggregate(p), Contributors(p) # {},
             NEW t \in IF family = "partof" THEN {"best"} ELSE Tables
      PROVE  p \in DOMAIN built[t]
  <2>1. t \in Tables /\ Over(t) /\ Over("best") /\ Fixpoint(t) /\ Fixpoint("best")
    BY <1>1 DEF Done, IInv, Over, Tables
  <2>2. Averages(p, DOMAIN Final("best"))
    <3>1. shape.sub \subseteq Nat \X Nat
      BY <1>1, RollupAssumption DEF IInv, Shaped, ShapeOK
    <3>2. \A s : s \in {e[1] : e \in {d \in shape.sub : d[2] = p}} => <<s, p>> \in shape.sub
      BY <3>1
    <3>3. PICK s \in Gated(p, {e[1] : e \in {d \in shape.sub : d[2] = p}}) : s \in DOMAIN Final("best")
      BY <1>1 DEF Contributors
    <3>4. s \in Gated(p, {c \in DOMAIN Final("best") : <<c, p>> \in shape.sub})
      BY <3>2, <3>3 DEF Gated
    <3>. QED
      BY <1>1, <3>4 DEF Averages
  <2>3. CASE family # "class" \/ t = "best"
    BY <1>1, <2>1, <2>2, <2>3 DEF Have, Fixpoint
  <2>4. CASE family = "class"
    <3>1. Have(t) = DOMAIN Final(t) /\ DOMAIN Final(t) = DOMAIN built[t] \cup DOMAIN leaf[t]
      BY <2>4 DEF Have, Final
    <3>2. Upward(DOMAIN Final(t))
      BY <2>1, <3>1 DEF Fixpoint, Upward
    <3>3. DOMAIN leaf["best"] \subseteq DOMAIN Final(t)
      BY <1>1, <2>1, <3>1 DEF IInv, Shaped
    <3>4. DOMAIN Final("best") \subseteq DOMAIN Final(t)
      BY <1>1, <3>2, <3>3 DEF IInv, Grounded, Tables
    <3>5. Averages(p, Have(t))
      BY <2>2, <3>1, <3>4, AveragesMore
    <3>. QED
      BY <1>1, <2>1, <3>5 DEF Fixpoint
  <2>. QED
    BY <2>3, <2>4
<1>2. IInv => Complete
  BY <1>1 DEF Complete
<1>. QED
  BY <1>2, Invariance, PTL
-----------------------------------------------------------------------------
(* Sums over finite sets, as counts: as many cells as the amounts say.       *)
CellsOf(f, S) == {p \in S \X Nat : 1 <= p[2] /\ p[2] <= f[p[1]]}

(* A smallest one of a family of subsets of a finite set.                    *)
LEMMA Smallest ==
  ASSUME NEW N, IsFiniteSet(N), NEW B \in SUBSET SUBSET N, B # {}
  PROVE  \E X \in B : \A Y \in B : Y \subseteq X => X = Y
<1>1. IsWellFoundedOn(StrictSubsetOrdering(N), SUBSET N)
  BY FS_StrictSubsetOrderingWellFounded, FS_FiniteSubsetsOfFinite
<1>2. PICK X \in B : \A Y \in B : ~ (<<Y, X>> \in StrictSubsetOrdering(N))
  BY <1>1, WFMin
<1>3. ASSUME NEW Y \in B, Y \subseteq X PROVE X = Y
  BY <1>2, <1>3 DEF StrictSubsetOrdering
<1>. QED
  BY <1>3

(* The cells of one index are as many as its amount.                         *)
LEMMA CellsOfOne ==
  ASSUME NEW x, NEW n \in Nat
  PROVE  /\ IsFiniteSet({x} \X (1 .. n)) /\ Cardinality({x} \X (1 .. n)) = n
<1>1. IsFiniteSet({x}) /\ Cardinality({x}) = 1 /\ IsFiniteSet(1 .. n) /\ Cardinality(1 .. n) = n
  <2>1. IsFiniteSet(1 .. n) /\ Cardinality(1 .. n) = IF 1 > n THEN 0 ELSE n - 1 + 1
    BY FS_Interval
  <2>2. Cardinality(1 .. n) = n
    BY <2>1
  <2>. QED
    BY <2>1, <2>2, FS_Singleton
<1>2. Cardinality({x} \X (1 .. n)) = 1 * n
  BY <1>1, FS_Product
<1>. QED
  BY <1>1, <1>2, FS_Product

(* One index more, its amount more.                                          *)
LEMMA CellsSplit ==
  ASSUME NEW S, NEW f, \A x \in S : f[x] \in Nat, NEW x \in S, IsFiniteSet(CellsOf(f, S \ {x}))
  PROVE  /\ IsFiniteSet(CellsOf(f, S))
         /\ Cardinality(CellsOf(f, S)) = f[x] + Cardinality(CellsOf(f, S \ {x}))
<1>. DEFINE A == {x} \X (1 .. f[x])
            B == CellsOf(f, S \ {x})
<1>1. CellsOf(f, S) = A \cup B
  BY DEF CellsOf
<1>2. A \cap B = {}
  BY DEF CellsOf
<1>3. IsFiniteSet(A) /\ Cardinality(A) = f[x]
  BY CellsOfOne
<1>4. Cardinality(B) \in Nat
  BY FS_CardinalityType
<1>. HIDE DEF A, B
<1>5. IsFiniteSet(A \cup B) /\ Cardinality(A \cup B) = Cardinality(A) + Cardinality(B) - Cardinality(A \cap B)
  BY <1>3, FS_Union DEF B
<1>6. Cardinality(A \cap B) = 0
  BY <1>2, FS_EmptySet
<1>7. Cardinality(A \cup B) = f[x] + Cardinality(B)
  BY <1>3, <1>4, <1>5, <1>6 DEF B
<1>. QED
  BY <1>1, <1>5, <1>7 DEF B

(* Finitely many cells.                                                      *)
LEMMA CellsFinite ==
  ASSUME NEW S, IsFiniteSet(S), NEW f, \A x \in S : f[x] \in Nat
  PROVE  IsFiniteSet(CellsOf(f, S)) /\ \A T \in SUBSET S : IsFiniteSet(CellsOf(f, T))
<1>. DEFINE B == {T \in SUBSET S : ~ IsFiniteSet(CellsOf(f, T))}
<1>1. B = {}
  <2>. SUFFICES ASSUME B # {} PROVE FALSE
    OBVIOUS
  <2>1. PICK X \in B : \A Y \in B : Y \subseteq X => X = Y
    <3>1. B \in SUBSET SUBSET S
      OBVIOUS
    <3>. HIDE DEF B
    <3>. QED
      BY <3>1, Smallest
  <2>2. CASE X = {}
    <3>1. CellsOf(f, X) = {}
      BY <2>2 DEF CellsOf
    <3>. QED
      BY <3>1, FS_EmptySet
  <2>3. ASSUME NEW x \in X PROVE FALSE
    <3>1. X \ {x} \notin B /\ X \ {x} \in SUBSET S
      BY <2>1, <2>3
    <3>2. IsFiniteSet(CellsOf(f, X \ {x}))
      BY <3>1
    <3>3. IsFiniteSet(CellsOf(f, X))
      BY <3>2, CellsSplit
    <3>. QED
      BY <3>3
  <2>. QED
    BY <2>2, <2>3
<1>. QED
  BY <1>1

(* The recursion of the folds counts the cells.                              *)
Adds(F, f, S) ==
  \A T \in SUBSET S : F[T] = IF T = {} THEN 0
                             ELSE f[CHOOSE x \in T : TRUE] + F[T \ {CHOOSE x \in T : TRUE}]

LEMMA AddsCounts ==
  ASSUME NEW S, IsFiniteSet(S), NEW f, \A x \in S : f[x] \in Nat,
         NEW F, Adds(F, f, S)
  PROVE  F[S] = Cardinality(CellsOf(f, S))
<1>. DEFINE B == {T \in SUBSET S : F[T] # Cardinality(CellsOf(f, T))}
<1>1. B = {}
  <2>. SUFFICES ASSUME B # {} PROVE FALSE
    OBVIOUS
  <2>1. PICK X \in B : \A Y \in B : Y \subseteq X => X = Y
    <3>1. B \in SUBSET SUBSET S
      OBVIOUS
    <3>. HIDE DEF B
    <3>. QED
      BY <3>1, Smallest
  <2>2. CASE X = {}
    <3>1. CellsOf(f, X) = {} /\ F[X] = 0
      BY <2>2 DEF CellsOf, Adds
    <3>. QED
      BY <3>1, FS_EmptySet
  <2>3. CASE X # {}
    <3>. PICK x : x = CHOOSE y \in X : TRUE
      OBVIOUS
    <3>1. x \in X /\ F[X] = f[x] + F[X \ {x}]
      BY <2>3 DEF Adds
    <3>2. X \ {x} \notin B /\ X \ {x} \in SUBSET S
      BY <2>1, <3>1
    <3>3. F[X \ {x}] = Cardinality(CellsOf(f, X \ {x})) /\ IsFiniteSet(CellsOf(f, X \ {x}))
      BY <3>2, CellsFinite
    <3>5. \A y \in X : f[y] \in Nat
      OBVIOUS
    <3>6. ASSUME NEW y \in X, IsFiniteSet(CellsOf(f, X \ {y}))
          PROVE  Cardinality(CellsOf(f, X)) = f[y] + Cardinality(CellsOf(f, X \ {y}))
      BY <3>5, <3>6, CellsSplit
    <3>4. Cardinality(CellsOf(f, X)) = f[x] + Cardinality(CellsOf(f, X \ {x}))
      BY <3>1, <3>3, <3>6
    <3>. QED
      BY <3>1, <3>3, <3>4
  <2>. QED
    BY <2>2, <2>3
<1>. QED
  BY <1>1

(* The count of the cells follows the recursion of the folds.                *)
LEMMA Counting ==
  ASSUME NEW S, IsFiniteSet(S), NEW f, \A x \in S : f[x] \in Nat
  PROVE  Adds([T \in SUBSET S |-> Cardinality(CellsOf(f, T))], f, S)
<1>. DEFINE F == [T \in SUBSET S |-> Cardinality(CellsOf(f, T))]
<1>. SUFFICES ASSUME NEW T \in SUBSET S
              PROVE  F[T] = IF T = {} THEN 0
                            ELSE f[CHOOSE x \in T : TRUE] + F[T \ {CHOOSE x \in T : TRUE}]
  BY DEF Adds
<1>1. CASE T = {}
  <2>1. CellsOf(f, T) = {}
    BY <1>1 DEF CellsOf
  <2>. QED
    BY <1>1, <2>1, FS_EmptySet
<1>2. CASE T # {}
  <2>. PICK x : x = CHOOSE y \in T : TRUE
    OBVIOUS
  <2>1. x \in T /\ T \ {x} \in SUBSET S
    BY <1>2
  <2>2. IsFiniteSet(CellsOf(f, T \ {x}))
    BY <2>1, CellsFinite
  <2>4. \A y \in T : f[y] \in Nat
    OBVIOUS
  <2>5. ASSUME NEW y \in T, IsFiniteSet(CellsOf(f, T \ {y}))
        PROVE  Cardinality(CellsOf(f, T)) = f[y] + Cardinality(CellsOf(f, T \ {y}))
    BY <2>4, <2>5, CellsSplit
  <2>3. Cardinality(CellsOf(f, T)) = f[x] + Cardinality(CellsOf(f, T \ {x}))
    BY <2>1, <2>2, <2>5
  <2>. QED
    BY <1>2, <2>1, <2>3
<1>. QED
  BY <1>1, <1>2

(* What a row adds up to, and what a subset of rows adds up to at an element.*)
Amounts(row) == [e \in DOMAIN row |-> row[e].amt]
Amounting(row) == IsFiniteSet(DOMAIN row) /\ \A e \in DOMAIN row : row[e].amt \in Nat

(* A sum counts cells.                                                       *)
LEMMA SumCounts ==
  ASSUME NEW f, IsFiniteSet(DOMAIN f), \A e \in DOMAIN f : f[e] \in Nat
  PROVE  SumOf(f) = Cardinality(CellsOf(f, DOMAIN f))
<1>. PICK S : S = DOMAIN f
  OBVIOUS
<1>. DEFINE Eq(g) == g = [s \in SUBSET S |->
                            IF s = {} THEN 0
                            ELSE f[CHOOSE x \in s : TRUE] + g[s \ {CHOOSE x \in s : TRUE}]]
            F == CHOOSE g : Eq(g)
<1>1. SumOf(f) = F[S]
  BY DEF SumOf, MapThenSumSet, MapThenFoldSet
<1>2. Eq([T \in SUBSET S |-> Cardinality(CellsOf(f, T))])
  <2>. PICK G : G = [T \in SUBSET S |-> Cardinality(CellsOf(f, T))]
    OBVIOUS
  <2>1. Adds(G, f, S)
    BY Counting
  <2>. QED
    BY <2>1 DEF Adds
<1>3. Eq(F)
  <2>. HIDE DEF Eq
  <2>. QED
    BY <1>2
<1>4. Adds(F, f, S)
  <2>. HIDE DEF F
  <2>. QED
    BY <1>3 DEF Adds
<1>. HIDE DEF F
<1>. QED
  BY <1>1, <1>4, AddsCounts

(* A row adds up to the count of its cells.                                  *)
LEMMA TotalCounts ==
  ASSUME NEW row, Amounting(row)
  PROVE  Total(row) = Cardinality(CellsOf(Amounts(row), DOMAIN row))
<1>1. Total(row) = SumOf(Amounts(row))
  BY DEF Total, Amounts
<1>2. DOMAIN Amounts(row) = DOMAIN row /\ \A e \in DOMAIN row : Amounts(row)[e] \in Nat
  BY DEF Amounting, Amounts
<1>3. IsFiniteSet(DOMAIN Amounts(row)) /\ \A e \in DOMAIN Amounts(row) : Amounts(row)[e] \in Nat
  BY <1>2 DEF Amounting
<1>. QED
  BY <1>1, <1>2, <1>3, SumCounts

(* Sets of tuples, counted by their first entry.                             *)
At(U, x) == {u \in U : u[1] = x}
Within(U, X) == {u \in U : u[1] \in X}

(* One entry more, the tuples at it more.                                    *)
LEMMA WithinSplit ==
  ASSUME NEW U, IsFiniteSet(U), NEW X, NEW x \in X
  PROVE  /\ Cardinality(Within(U, X)) = Cardinality(Within(U, X \ {x})) + Cardinality(At(U, x))
         /\ Cardinality(Within(U, X \ {x})) \in Nat /\ Cardinality(At(U, x)) \in Nat
<1>. DEFINE A == Within(U, X \ {x})
            B == At(U, x)
<1>1. Within(U, X) = A \cup B /\ A \cap B = {} /\ A \in SUBSET U /\ B \in SUBSET U
  BY DEF Within, At
<1>. HIDE DEF A, B
<1>2. IsFiniteSet(A) /\ IsFiniteSet(B)
  BY <1>1, FS_Subset
<1>3. Cardinality(A) \in Nat /\ Cardinality(B) \in Nat
  BY <1>2, FS_CardinalityType
<1>4. Cardinality(A \cup B) = Cardinality(A) + Cardinality(B) - Cardinality(A \cap B)
  BY <1>2, FS_Union
<1>5. Cardinality(A \cap B) = 0
  BY <1>1, FS_EmptySet
<1>6. Cardinality(A \cup B) = Cardinality(A) + Cardinality(B)
  BY <1>3, <1>4, <1>5
<1>. QED
  BY <1>1, <1>3, <1>6 DEF A, B

LEMMA Distributes ==
  ASSUME NEW m \in Nat, NEW a \in Nat, NEW b \in Nat, NEW c \in Nat, NEW d \in Nat,
         m * a <= c, m * b <= d
  PROVE  m * (a + b) <= c + d
<1>1. m * (a + b) = m * a + m * b
  OBVIOUS
<1>2. m * a \in Nat /\ m * b \in Nat
  OBVIOUS
<1>. QED
  BY <1>1, <1>2

(* What holds of the counts at each entry holds of the counts.               *)
LEMMA Fibres ==
  ASSUME NEW S, IsFiniteSet(S), NEW U, IsFiniteSet(U), \A u \in U : u[1] \in S,
         NEW T, IsFiniteSet(T), NEW m \in Nat,
         \A x \in S : m * Cardinality(At(U, x)) <= Cardinality(At(T, x))
  PROVE  m * Cardinality(U) <= Cardinality(T)
<1>. DEFINE B == {X \in SUBSET S : ~ (m * Cardinality(Within(U, X)) <= Cardinality(Within(T, X)))}
<1>1. B = {}
  <2>. SUFFICES ASSUME B # {} PROVE FALSE
    OBVIOUS
  <2>1. PICK X \in B : \A Y \in B : Y \subseteq X => X = Y
    <3>1. B \in SUBSET SUBSET S
      OBVIOUS
    <3>. HIDE DEF B
    <3>. QED
      BY <3>1, Smallest
  <2>2. CASE X = {}
    <3>1. Within(U, X) = {} /\ Within(T, X) = {}
      BY <2>2 DEF Within
    <3>2. Cardinality(Within(U, X)) = 0 /\ Cardinality(Within(T, X)) = 0
      BY <3>1, FS_EmptySet
    <3>. QED
      BY <3>2
  <2>3. ASSUME NEW x \in X PROVE FALSE
    <3>1. X \ {x} \notin B /\ X \ {x} \in SUBSET S
      BY <2>1, <2>3
    <3>2. m * Cardinality(Within(U, X \ {x})) <= Cardinality(Within(T, X \ {x}))
      BY <3>1
    <3>3. m * Cardinality(At(U, x)) <= Cardinality(At(T, x))
      OBVIOUS
    <3>4. /\ Cardinality(Within(U, X)) = Cardinality(Within(U, X \ {x})) + Cardinality(At(U, x))
          /\ Cardinality(Within(U, X \ {x})) \in Nat /\ Cardinality(At(U, x)) \in Nat
          /\ Cardinality(Within(T, X)) = Cardinality(Within(T, X \ {x})) + Cardinality(At(T, x))
          /\ Cardinality(Within(T, X \ {x})) \in Nat /\ Cardinality(At(T, x)) \in Nat
      BY WithinSplit
    <3>5. m * Cardinality(Within(U, X)) <= Cardinality(Within(T, X))
      BY <3>2, <3>3, <3>4, Distributes
    <3>. QED
      BY <3>5
  <2>. QED
    BY <2>2, <2>3
<1>2. m * Cardinality(Within(U, S)) <= Cardinality(Within(T, S))
  BY <1>1
<1>3. Within(U, S) = U /\ Within(T, S) \in SUBSET T
  BY DEF Within
<1>4. /\ Cardinality(Within(T, S)) <= Cardinality(T) /\ Cardinality(T) \in Nat
      /\ Cardinality(Within(T, S)) \in Nat /\ Cardinality(U) \in Nat
  BY <1>3, FS_Subset, FS_CardinalityType
<1>5. m * Cardinality(U) \in Nat
  BY <1>4
<1>. QED
  BY <1>2, <1>3, <1>4, <1>5

(* Finitely many tuples at each of finitely many entries are finitely many.  *)
LEMMA FibresFinite ==
  ASSUME NEW S, IsFiniteSet(S), NEW U, \A u \in U : u[1] \in S,
         \A x \in S : IsFiniteSet(At(U, x))
  PROVE  IsFiniteSet(U)
<1>. DEFINE f == [x \in S |-> At(U, x)]
<1>1. f \in Surjection(S, {f[x] : x \in S})
  BY DEF Surjection
<1>2. IsFiniteSet({f[x] : x \in S})
  <2>. HIDE DEF f
  <2>. QED
    BY <1>1, FS_Surjection
<1>3. \A X \in {f[x] : x \in S} : IsFiniteSet(X)
  OBVIOUS
<1>4. IsFiniteSet(UNION {f[x] : x \in S})
  <2>. HIDE DEF f
  <2>. QED
    BY <1>2, <1>3, FS_UNION
<1>5. U = UNION {f[x] : x \in S}
  BY DEF At
<1>. QED
  BY <1>4, <1>5

(* n rows, none of more than W in all, averaged element by element.          *)
Column(r, e) == {s \in DOMAIN r : e \in DOMAIN r[s]}
Share(r, e) == [s \in Column(r, e) |-> r[s][e].amt]
Rows(r, E, W) ==
  /\ IsFiniteSet(DOMAIN r) /\ DOMAIN r # {}
  /\ \A s \in DOMAIN r : /\ Amounting(r[s]) /\ DOMAIN r[s] \subseteq E
                         /\ Cardinality(CellsOf(Amounts(r[s]), DOMAIN r[s])) <= W

(* The cells of all the rows, by row and by element.                         *)
ByRow(r) ==
  {t \in (DOMAIN r) \X (UNION {DOMAIN r[s] : s \in DOMAIN r}) \X Nat :
     t[2] \in DOMAIN r[t[1]] /\ 1 <= t[3] /\ t[3] <= r[t[1]][t[2]].amt}
ByElement(r) == {<<t[2], t[1], t[3]>> : t \in ByRow(r)}

(* A row has as many of them as its amounts come to.                         *)
LEMMA RowCells ==
  ASSUME NEW r, NEW E, NEW W \in Nat, Rows(r, E, W), NEW s \in DOMAIN r
  PROVE  IsFiniteSet(At(ByRow(r), s)) /\ Cardinality(At(ByRow(r), s)) <= W
<1>. DEFINE C == CellsOf(Amounts(r[s]), DOMAIN r[s])
            g == [p \in C |-> <<s, p[1], p[2]>>]
<1>1. IsFiniteSet(C) /\ Cardinality(C) <= W /\ Cardinality(C) \in Nat
  <2>1. IsFiniteSet(DOMAIN r[s]) /\ \A e \in DOMAIN r[s] : Amounts(r[s])[e] \in Nat
    BY DEF Rows, Amounting, Amounts
  <2>2. IsFiniteSet(C)
    BY <2>1, CellsFinite
  <2>. QED
    BY <2>2, FS_CardinalityType DEF Rows
<1>. DEFINE E1 == UNION {DOMAIN r[x] : x \in DOMAIN r}
<1>5. \A e \in DOMAIN r[s] : e \in E1
  OBVIOUS
<1>6. \A t : t \in At(ByRow(r), s) <=>
               /\ t \in (DOMAIN r) \X E1 \X Nat /\ t[1] = s
               /\ t[2] \in DOMAIN r[s] /\ 1 <= t[3] /\ t[3] <= r[s][t[2]].amt
  BY DEF ByRow, At
<1>7. \A p : p \in C <=> /\ p \in (DOMAIN r[s]) \X Nat /\ 1 <= p[2] /\ p[2] <= r[s][p[1]].amt
  <2>1. \A e \in DOMAIN r[s] : Amounts(r[s])[e] = r[s][e].amt
    BY DEF Amounts
  <2>. QED
    BY <2>1 DEF CellsOf
<1>2. g \in Surjection(C, At(ByRow(r), s))
  <2>. HIDE DEF E1
  <2>1. ASSUME NEW p \in C PROVE <<s, p[1], p[2]>> \in At(ByRow(r), s)
    <3>. HIDE DEF C
    <3>. QED
      BY <1>5, <1>6, <1>7
  <2>2. ASSUME NEW t \in At(ByRow(r), s) PROVE \E p \in C : g[p] = t
    <3>1. <<t[2], t[3]>> \in C
      <4>. HIDE DEF C
      <4>. QED
        BY <1>6, <1>7
    <3>2. g[<<t[2], t[3]>>] = <<t[1], t[2], t[3]>>
      BY <3>1 DEF At
    <3>3. t = <<t[1], t[2], t[3]>>
      BY <1>6
    <3>. QED
      BY <3>1, <3>2, <3>3
  <2>. QED
    BY <2>1, <2>2 DEF Surjection
<1>. HIDE DEF C, g
<1>3. IsFiniteSet(At(ByRow(r), s)) /\ Cardinality(At(ByRow(r), s)) <= Cardinality(C)
  BY <1>1, <1>2, FS_Surjection
<1>4. Cardinality(At(ByRow(r), s)) \in Nat
  BY <1>3, FS_CardinalityType
<1>. QED
  BY <1>1, <1>3, <1>4

LEMMA Halved ==
  ASSUME NEW n \in Nat, n # 0, NEW a \in Nat, NEW b \in Nat, n * a <= n * b
  PROVE  a <= b
<1>. SUFFICES ASSUME b + 1 <= a PROVE FALSE
  OBVIOUS
<1>. PICK d \in Nat : a = b + 1 + d
  <2>1. a - (b + 1) \in Nat /\ a = b + 1 + (a - (b + 1))
    OBVIOUS
  <2>. QED
    BY <2>1
<1>1. n * (b + 1 + d) = n * b + n + n * d
  OBVIOUS
<1>2. n * b \in Nat /\ n * d \in Nat
  OBVIOUS
<1>. QED
  BY <1>1, <1>2

(* n times the amounts averaged are no more than the cells of the n rows.    *)
LEMMA Averaging ==
  ASSUME NEW E, IsFiniteSet(E), NEW W \in Nat, NEW r, Rows(r, E, W),
         NEW q, \A e \in E : q[e] \in Nat,
         \A e \in E : Cardinality(DOMAIN r) * q[e] <= Cardinality(CellsOf(Share(r, e), Column(r, e)))
  PROVE  Cardinality(CellsOf(q, E)) <= W
<1>. PICK D, n : D = DOMAIN r /\ n = Cardinality(DOMAIN r)
  OBVIOUS
<1>1. IsFiniteSet(D) /\ n \in Nat /\ n # 0
  <2>1. IsFiniteSet(DOMAIN r) /\ DOMAIN r # {}
    BY DEF Rows
  <2>. QED
    BY <2>1, FS_CardinalityType, FS_EmptySet
<1>2. IsFiniteSet(ByRow(r))
  <2>1. \A u \in ByRow(r) : u[1] \in D
    BY DEF ByRow
  <2>2. \A s \in D : IsFiniteSet(At(ByRow(r), s))
    BY RowCells
  <2>. QED
    BY <1>1, <2>1, <2>2, FibresFinite
<1>3. Cardinality(ByRow(r)) <= n * W
  <2>. DEFINE V == D \X (1 .. W)
  <2>1. IsFiniteSet(V) /\ Cardinality(V) = n * W
    <3>1. IsFiniteSet(1 .. W) /\ Cardinality(1 .. W) = IF 1 > W THEN 0 ELSE W - 1 + 1
      BY FS_Interval
    <3>2. Cardinality(1 .. W) = W
      BY <3>1
    <3>. QED
      BY <1>1, <3>1, <3>2, FS_Product
  <2>2. ASSUME NEW s \in D PROVE 1 * Cardinality(At(ByRow(r), s)) <= Cardinality(At(V, s))
    <3>1. At(V, s) = {s} \X (1 .. W)
      BY DEF At
    <3>2. Cardinality(At(V, s)) = W
      BY <3>1, CellsOfOne
    <3>3. IsFiniteSet(At(ByRow(r), s)) /\ Cardinality(At(ByRow(r), s)) <= W
      BY RowCells
    <3>4. Cardinality(At(ByRow(r), s)) \in Nat
      BY <3>3, FS_CardinalityType
    <3>. QED
      BY <3>2, <3>3, <3>4
  <2>3. \A u \in ByRow(r) : u[1] \in D
    BY DEF ByRow
  <2>. HIDE DEF V
  <2>4. 1 * Cardinality(ByRow(r)) <= Cardinality(V)
    BY <1>1, <1>2, <2>1, <2>2, <2>3, Fibres
  <2>5. Cardinality(ByRow(r)) \in Nat
    BY <1>2, FS_CardinalityType
  <2>. QED
    BY <2>1, <2>4, <2>5
<1>4. IsFiniteSet(ByElement(r)) /\ Cardinality(ByElement(r)) <= Cardinality(ByRow(r))
  <2>. DEFINE g == [t \in ByRow(r) |-> <<t[2], t[1], t[3]>>]
  <2>1. g \in Surjection(ByRow(r), ByElement(r))
    BY DEF ByElement, Surjection
  <2>. QED
    BY <1>2, <2>1, FS_Surjection
<1>5. ASSUME NEW e \in E
      PROVE  Cardinality(CellsOf(Share(r, e), Column(r, e))) <= Cardinality(At(ByElement(r), e))
  <2>. DEFINE C == CellsOf(Share(r, e), Column(r, e))
              g == [t \in At(ByElement(r), e) |-> <<t[2], t[3]>>]
  <2>1. \A p : p \in C <=> /\ p = <<p[1], p[2]>> /\ p[1] \in DOMAIN r /\ e \in DOMAIN r[p[1]]
                           /\ p[2] \in Nat /\ 1 <= p[2] /\ p[2] <= r[p[1]][e].amt
    <3>1. \A s \in Column(r, e) : Share(r, e)[s] = r[s][e].amt
      BY DEF Share
    <3>2. \A p : p \in Column(r, e) \X Nat <=> /\ p = <<p[1], p[2]>> /\ p[1] \in DOMAIN r
                                              /\ e \in DOMAIN r[p[1]] /\ p[2] \in Nat
      BY DEF Column
    <3>. QED
      BY <3>1, <3>2 DEF CellsOf, Column
  <2>2. \A t : t \in At(ByElement(r), e) =>
                 /\ t[1] = e /\ t[2] \in DOMAIN r /\ e \in DOMAIN r[t[2]]
                 /\ t[3] \in Nat /\ 1 <= t[3] /\ t[3] <= r[t[2]][e].amt
    BY DEF At, ByElement, ByRow
  <2>3. ASSUME NEW p \in C PROVE <<e, p[1], p[2]>> \in At(ByElement(r), e)
    <3>. HIDE DEF C
    <3>1. <<p[1], e, p[2]>> \in ByRow(r)
      BY <2>1 DEF ByRow
    <3>. QED
      BY <3>1 DEF ByElement, At
  <2>4. g \in Surjection(At(ByElement(r), e), C)
    <3>1. ASSUME NEW t \in At(ByElement(r), e) PROVE g[t] \in C
      <4>. HIDE DEF C
      <4>. QED
        BY <2>1, <2>2
    <3>2. ASSUME NEW p \in C PROVE \E t \in At(ByElement(r), e) : g[t] = p
      <4>1. <<e, p[1], p[2]>> \in At(ByElement(r), e)
        BY <2>3
      <4>2. p = <<p[1], p[2]>>
        BY <2>1
      <4>3. g[<<e, p[1], p[2]>>] = <<p[1], p[2]>>
        BY <4>1
      <4>. QED
        BY <4>1, <4>2, <4>3
    <3>. QED
      BY <3>1, <3>2 DEF Surjection
  <2>5. IsFiniteSet(At(ByElement(r), e))
    <3>1. At(ByElement(r), e) \in SUBSET ByElement(r)
      BY DEF At
    <3>. QED
      BY <1>4, <3>1, FS_Subset
  <2>. HIDE DEF g
  <2>. QED
    BY <2>4, <2>5, FS_Surjection
<1>6. IsFiniteSet(CellsOf(q, E))
  BY CellsFinite
<1>7. n * Cardinality(CellsOf(q, E)) <= Cardinality(ByElement(r))
  <2>1. ASSUME NEW e \in E PROVE n * Cardinality(At(CellsOf(q, E), e)) <= Cardinality(At(ByElement(r), e))
    <3>1. At(CellsOf(q, E), e) = {e} \X (1 .. q[e])
      BY DEF At, CellsOf
    <3>2. Cardinality(At(CellsOf(q, E), e)) = q[e]
      BY <3>1, CellsOfOne
    <3>3. n * q[e] <= Cardinality(CellsOf(Share(r, e), Column(r, e)))
      OBVIOUS
    <3>4. Cardinality(CellsOf(Share(r, e), Column(r, e))) <= Cardinality(At(ByElement(r), e))
      BY <1>5
    <3>5. /\ Cardinality(CellsOf(Share(r, e), Column(r, e))) \in Nat
          /\ Cardinality(At(ByElement(r), e)) \in Nat
      <4>1. At(ByElement(r), e) \in SUBSET ByElement(r)
        BY DEF At
      <4>2. IsFiniteSet(At(ByElement(r), e))
        BY <1>4, <4>1, FS_Subset
      <4>3. IsFiniteSet(Column(r, e)) /\ \A s \in Column(r, e) : Share(r, e)[s] \in Nat
        <5>1. Column(r, e) \in SUBSET D
          BY DEF Column
        <5>2. \A s \in Column(r, e) : Share(r, e)[s] \in Nat
          BY DEF Share, Column, Rows, Amounting
        <5>. QED
          BY <1>1, <5>1, <5>2, FS_Subset
      <4>4. IsFiniteSet(CellsOf(Share(r, e), Column(r, e)))
        BY <4>3, CellsFinite
      <4>. QED
        BY <4>2, <4>4, FS_CardinalityType
    <3>6. n * q[e] \in Nat
      BY <1>1
    <3>. QED
      BY <3>2, <3>3, <3>4, <3>5, <3>6
  <2>2. \A u \in CellsOf(q, E) : u[1] \in E
    BY DEF CellsOf
  <2>. QED
    BY <1>1, <1>4, <1>6, <2>1, <2>2, Fibres
<1>8. n * Cardinality(CellsOf(q, E)) <= n * W
  <2>1. /\ Cardinality(ByElement(r)) \in Nat /\ Cardinality(ByRow(r)) \in Nat
        /\ Cardinality(CellsOf(q, E)) \in Nat
    BY <1>2, <1>4, <1>6, FS_CardinalityType
  <2>2. n * W \in Nat /\ n * Cardinality(CellsOf(q, E)) \in Nat
    BY <1>1, <2>1
  <2>. QED
    BY <1>3, <1>4, <1>7, <2>1, <2>2
<1>9. Cardinality(CellsOf(q, E)) \in Nat
  BY <1>6, FS_CardinalityType
<1>. QED
  BY <1>1, <1>8, <1>9, Halved

-----------------------------------------------------------------------------
(* The mean of a set of subclasses.                                          *)
SumAt(e, subs) == SumOf([s \in subs |-> Read("best", s)[e].amt])

(* What the subclasses sum up to at an element counts cells too.             *)
LEMMA SumAtCounts ==
  ASSUME NEW e, NEW S, IsFiniteSet(S), \A s \in S : Read("best", s)[e].amt \in Nat,
         NEW f, f = [s \in S |-> f[s]], \A s \in S : f[s] = Read("best", s)[e].amt
  PROVE  SumAt(e, S) = Cardinality(CellsOf(f, S))
<1>1. f = [s \in S |-> Read("best", s)[e].amt] /\ DOMAIN f = S
  OBVIOUS
<1>2. SumAt(e, S) = SumOf(f)
  BY <1>1 DEF SumAt
<1>3. IsFiniteSet(DOMAIN f) /\ \A s \in DOMAIN f : f[s] \in Nat
  BY <1>1
<1>. QED
  BY <1>1, <1>2, <1>3, SumCounts

(* What MeanRow is in the families that divide by every subclass.            *)
LEMMA MeanAs ==
  ASSUME family # "class", NEW subs, NEW e \in ElementsIn("best", subs)
  PROVE  /\ DOMAIN MeanRow(subs) = ElementsIn("best", subs)
         /\ MeanRow(subs)[e].amt =
              SumAt(e, {s \in subs : e \in DOMAIN Read("best", s)}) \div Cardinality(subs)
BY DEF MeanRow, SumAt

LEMMA Divides ==
  ASSUME NEW a \in Nat, NEW n \in Nat, n # 0
  PROVE  a \div n \in Nat /\ n * (a \div n) <= a
OBVIOUS

(* A row of amounts that come to no more than the Whole.                     *)
Fine(row) == Amounting(row) /\ Cardinality(CellsOf(Amounts(row), DOMAIN row)) <= Whole

LEMMA FiniteImages ==
  ASSUME NEW S, IsFiniteSet(S), NEW f, DOMAIN f = S
  PROVE  IsFiniteSet({f[x] : x \in S})
<1>1. IsFiniteSet({[x \in S |-> f[x]][y] : y \in S})
  <2>1. [x \in S |-> f[x]] \in Surjection(S, {[x \in S |-> f[x]][y] : y \in S})
    BY DEF Surjection
  <2>. QED
    BY <2>1, FS_Surjection
<1>. QED
  BY <1>1

(* The classes below others are finitely many.                               *)
LEMMA FewParts ==
  ASSUME shape \in Shapes, NEW subs, subs \subseteq {e[1] : e \in shape.sub}
  PROVE  IsFiniteSet(subs)
<1>. DEFINE f == [e \in shape.sub |-> e[1]]
<1>1. IsFiniteSet(shape.sub)
  BY RollupAssumption DEF ShapeOK
<1>2. DOMAIN f = shape.sub /\ subs \subseteq {f[e] : e \in shape.sub}
  OBVIOUS
<1>. HIDE DEF f
<1>3. IsFiniteSet({f[e] : e \in shape.sub})
  BY <1>1, <1>2, FiniteImages
<1>. QED
  BY <1>2, <1>3, FS_Subset

(* The mean of rows within the Whole, divided by all of them, is within it.  *)
LEMMA MeanFair ==
  ASSUME family # "class", NEW subs, IsFiniteSet(subs), subs # {},
         \A s \in subs : Fine(Read("best", s))
  PROVE  Fine(MeanRow(subs))
<1>. PICK r : r = [s \in subs |-> Read("best", s)]
  OBVIOUS
<1>. DEFINE E == ElementsIn("best", subs)
            q == Amounts(MeanRow(subs))
            n == Cardinality(subs)
            with(e) == {s \in subs : e \in DOMAIN Read("best", s)}
<1>0. DOMAIN r = subs /\ \A s \in subs : r[s] = Read("best", s)
  OBVIOUS
<1>1. DOMAIN MeanRow(subs) = E
  BY DEF MeanRow
<1>2. IsFiniteSet(E)
  <2>1. \A s \in subs : IsFiniteSet(DOMAIN r[s])
    BY <1>0 DEF Fine, Amounting
  <2>. PICK d : d = [s \in subs |-> DOMAIN r[s]]
    OBVIOUS
  <2>2. DOMAIN d = subs /\ \A s \in subs : d[s] = DOMAIN r[s]
    OBVIOUS
  <2>3. IsFiniteSet({d[s] : s \in subs})
    BY <2>2, FiniteImages
  <2>4. IsFiniteSet(UNION {d[s] : s \in subs})
    BY <2>1, <2>2, <2>3, FS_UNION
  <2>5. E = UNION {d[s] : s \in subs}
    BY <1>0, <2>2 DEF ElementsIn
  <2>. QED
    BY <2>4, <2>5
<1>3. Rows(r, E, Whole)
  <2>1. \A s \in subs : DOMAIN r[s] \subseteq E
    BY <1>0 DEF ElementsIn
  <2>. QED
    BY <1>0, <2>1 DEF Rows, Fine
<1>4. n \in Nat /\ n # 0
  BY FS_CardinalityType, FS_EmptySet
<1>5. ASSUME NEW e \in E
      PROVE  q[e] \in Nat /\ n * q[e] <= Cardinality(CellsOf(Share(r, e), Column(r, e)))
  <2>1. q[e] = SumAt(e, with(e)) \div n
    BY <1>1, MeanAs DEF Amounts
  <2>2. Column(r, e) = with(e)
    BY <1>0 DEF Column
  <2>3. IsFiniteSet(with(e)) /\ \A s \in with(e) : Read("best", s)[e].amt \in Nat
    <3>1. with(e) \subseteq subs
      OBVIOUS
    <3>. QED
      BY <3>1, FS_Subset DEF Fine, Amounting
  <2>4. Share(r, e) = [s \in with(e) |-> Share(r, e)[s]] /\ DOMAIN Share(r, e) = with(e)
        /\ \A s \in with(e) : Share(r, e)[s] = Read("best", s)[e].amt
    BY <1>0, <2>2 DEF Share
  <2>. HIDE DEF with
  <2>5. SumAt(e, with(e)) = Cardinality(CellsOf(Share(r, e), with(e)))
    BY <2>3, <2>4, SumAtCounts
  <2>6. IsFiniteSet(CellsOf(Share(r, e), with(e)))
    BY <2>3, <2>4, CellsFinite
  <2>7. SumAt(e, with(e)) \in Nat
    BY <2>5, <2>6, FS_CardinalityType
  <2>. QED
    BY <1>4, <2>1, <2>2, <2>5, <2>7, Divides
<1>6. Cardinality(CellsOf(q, E)) <= Whole
  <2>1. Whole \in Nat
    BY RollupAssumption
  <2>. HIDE DEF E, q
  <2>. QED
    BY <1>0, <1>2, <1>3, <1>5, <2>1, Averaging
<1>7. \A e \in E : MeanRow(subs)[e].amt \in Nat
  BY <1>1, <1>5 DEF Amounts
<1>. QED
  BY <1>1, <1>2, <1>6, <1>7 DEF Fine, Amounting

LEMMA PoolFine ==
  ASSUME NEW m \in Mixes
  PROVE  Fine([e \in DOMAIN m |-> [amt |-> m[e], of |-> {}]])
<1>. PICK row : row = [e \in DOMAIN m |-> [amt |-> m[e], of |-> {}]]
  OBVIOUS
<1>1. /\ IsFiniteSet(DOMAIN m) /\ \A e \in DOMAIN m : m[e] \in Nat
      /\ SumOf(m) <= Whole
  BY MixAssumption
<1>2. DOMAIN row = DOMAIN m /\ \A e \in DOMAIN m : row[e].amt = m[e]
  OBVIOUS
<1>3. CellsOf(Amounts(row), DOMAIN row) = CellsOf(m, DOMAIN m)
  BY <1>2 DEF CellsOf, Amounts
<1>4. Cardinality(CellsOf(m, DOMAIN m)) <= Whole
  BY <1>1, SumCounts
<1>. QED
  BY <1>1, <1>2, <1>3, <1>4 DEF Fine, Amounting

(* In the families that divide by every subclass, no row is above the Whole. *)
Balanced == family # "class" => \A c \in DOMAIN Final("best") : Fine(Final("best")[c])

LEMMA InitBalanced == Init => Balanced
<1>. SUFFICES ASSUME Init, NEW c \in DOMAIN Final("best") PROVE Fine(Final("best")[c])
  BY DEF Balanced
<1>1. PICK pool, mix, score : mix \in [pool -> Mixes] /\ leaf = LeafTables(mix, score)
  BY DEF Init
<1>2. DOMAIN built["best"] = {}
  BY DEF Init, Tables, Empty
<1>3. c \in pool /\ Final("best")[c] = leaf["best"][c]
  BY <1>1, <1>2 DEF Final, LeafTables
<1>4. leaf["best"][c] = [e \in DOMAIN mix[c] |-> [amt |-> mix[c][e], of |-> {}]]
  BY <1>1, <1>3 DEF LeafTables
<1>5. mix[c] \in Mixes
  BY <1>1, <1>3
<1>. QED
  BY <1>3, <1>4, <1>5, PoolFine

LEMMA AverageBalanced ==
  ASSUME IInv, Balanced, Average
  PROVE  Balanced'
<1>. PICK p \in todo : /\ Visit(p) /\ ~NoAggregate(p) /\ Gated(p, Candidates(p)) # {}
                       /\ built' = [built EXCEPT ![phase] =
                                      WithRow(@, p, Row(p, Gated(p, Candidates(p))))]
                       /\ UNCHANGED <<Static, phase, pass>>
  BY DEF Average
<1>. SUFFICES ASSUME family # "class" PROVE \A c \in DOMAIN Final("best")' : Fine(Final("best")'[c])
  BY DEF Balanced, Static, Fine, Amounting
<1>. DEFINE subs == Gated(p, Candidates(p))
<1>0. phase \in Tables /\ UNCHANGED <<leaf, family>> /\ DOMAIN built = Tables
  BY VisitTodo DEF IInv, Shaped, Static
<1>1. CASE phase # "best"
  <2>1. built'["best"] = built["best"]
    BY <1>0, <1>1 DEF Tables
  <2>2. Final("best")' = Final("best")
    BY <1>0, <2>1 DEF Final
  <2>. QED
    BY <2>2 DEF Balanced
<1>2. CASE phase = "best"
  <2>1. Fine(MeanRow(subs))
    <3>1. subs \subseteq DOMAIN Final("best") /\ subs \subseteq {e[1] : e \in shape.sub}
      BY DEF Gated, Candidates
    <3>2. IsFiniteSet(subs)
      BY <3>1, FewParts DEF IInv, Shaped
    <3>3. \A s \in subs : Fine(Read("best", s))
      <4>1. \A s \in subs : Read("best", s) = Final("best")[s]
        BY <3>1 DEF Read, FinalRow
      <4>. QED
        BY <3>1, <4>1 DEF Balanced
    <3>. QED
      BY <3>2, <3>3, MeanFair
  <2>2. built'["best"] = WithRow(built["best"], p, MeanRow(subs))
    BY <1>0, <1>2 DEF Row
  <2>3. ASSUME NEW c \in DOMAIN Final("best")', c # p
        PROVE  c \in DOMAIN Final("best") /\ Final("best")'[c] = Final("best")[c]
    BY <1>0, <2>2, <2>3 DEF Final, WithRow
  <2>4. p \in DOMAIN Final("best")' => Final("best")'[p] = MeanRow(subs)
    <3>. HIDE DEF subs
    <3>. QED
      BY <1>0, <2>2 DEF Final, WithRow
  <2>. QED
    BY <2>1, <2>3, <2>4 DEF Balanced
<1>. QED
  BY <1>1, <1>2

LEMMA StepBalanced == IInv /\ Balanced /\ [Next]_vars => Balanced'
<1>. SUFFICES ASSUME IInv, Balanced, [Next]_vars PROVE Balanced'
  OBVIOUS
<1>1. CASE UNCHANGED <<Static, built>>
  <2>1. Final("best")' = Final("best") /\ family' = family
    BY <1>1, SameTables DEF Static
  <2>. QED
    BY <2>1 DEF Balanced, Fine, Amounting
<1>2. CASE ~ Average
  <2>1. UNCHANGED <<Static, built>>
    BY <1>2 DEF Next, vars, Await, Drop, NextPass, NextTable, Static
  <2>. QED
    BY <1>1, <2>1
<1>. QED
  BY <1>2, AverageBalanced

(* Averaging creates no matter: in the component and part-of families, for   *)
(* every class tree and every order of its names, no row served for the best *)
(* value adds up to more than a measured pool does.                          *)
THEOREM NothingCreated == Spec => []Conserved
<1>1. Balanced => Conserved
  <2>. SUFFICES ASSUME Balanced, family # "class", NEW c \in DOMAIN Final("best")
                PROVE  Total(Final("best")[c]) <= Whole
    BY DEF Conserved
  <2>1. Fine(Final("best")[c])
    BY DEF Balanced
  <2>. QED
    BY <2>1, TotalCounts DEF Fine
<1>2. Spec => [](IInv /\ Balanced)
  BY InitInv, StepInv, InitBalanced, StepBalanced, PTL DEF Spec
<1>. QED
  BY <1>1, <1>2, PTL
-----------------------------------------------------------------------------
(* What a function leads to from x, step after step.                         *)
Orbit(f, x) ==
  {y \in DOMAIN f : \A C \in SUBSET DOMAIN f : (x \in C /\ \A z \in C : f[z] \in C) => y \in C}

(* What it leads to is closed under it, and the least such set.              *)
LEMMA OrbitClosed ==
  ASSUME NEW U, NEW f \in [U -> U], NEW x \in U
  PROVE  x \in Orbit(f, x) /\ Orbit(f, x) \subseteq U /\ \A y \in Orbit(f, x) : f[y] \in Orbit(f, x)
BY DEF Orbit

LEMMA OrbitLeast ==
  ASSUME NEW U, NEW f \in [U -> U], NEW x, NEW C \in SUBSET U, x \in C, \A z \in C : f[z] \in C
  PROVE  Orbit(f, x) \subseteq C
BY DEF Orbit

(* All of it but x is what it leads to from f[x].                            *)
LEMMA OrbitNext ==
  ASSUME NEW U, NEW f \in [U -> U], NEW x \in U, NEW y \in Orbit(f, x)
  PROVE  y = x \/ y \in Orbit(f, f[x])
<1>. DEFINE C == {x} \cup Orbit(f, f[x])
<1>1. f[x] \in Orbit(f, f[x]) /\ Orbit(f, f[x]) \subseteq U /\ \A z \in Orbit(f, f[x]) : f[z] \in Orbit(f, f[x])
  BY OrbitClosed
<1>2. x \in C /\ C \in SUBSET U /\ \A z \in C : f[z] \in C
  BY <1>1
<1>. HIDE DEF C
<1>3. Orbit(f, x) \subseteq C
  BY <1>2, OrbitLeast
<1>. QED
  BY <1>3 DEF C

(* Of two states on the way, one leads to the other.                         *)
LEMMA OrbitChain ==
  ASSUME NEW U, NEW f \in [U -> U], NEW x \in U, NEW y \in Orbit(f, x), NEW z \in Orbit(f, x)
  PROVE  y \in Orbit(f, z) \/ z \in Orbit(f, y)
<1>. DEFINE R == Orbit(f, x)
            C == {v \in R : \A w \in R : v \in Orbit(f, w) \/ w \in Orbit(f, v)}
<1>1. x \in R /\ R \subseteq U /\ \A v \in R : f[v] \in R
  BY OrbitClosed
<1>. HIDE DEF R
<1>2. x \in C
  BY <1>1 DEF R
<1>3. ASSUME NEW v \in C PROVE f[v] \in C
  <2>. SUFFICES ASSUME NEW w \in R PROVE f[v] \in Orbit(f, w) \/ w \in Orbit(f, f[v])
    BY <1>1
  <2>1. v \in U /\ w \in U
    BY <1>1
  <2>2. CASE v \in Orbit(f, w)
    BY <2>1, <2>2, OrbitClosed
  <2>3. CASE w = v
    <3>1. v \in Orbit(f, v)
      BY <2>1, OrbitClosed
    <3>. QED
      BY <2>1, <2>3, <3>1, OrbitClosed
  <2>4. CASE w \in Orbit(f, v)
    BY <2>1, <2>3, <2>4, OrbitNext
  <2>. QED
    BY <2>2, <2>4
<1>4. C \in SUBSET U
  BY <1>1
<1>. HIDE DEF C
<1>5. R \subseteq C
  BY <1>2, <1>3, <1>4, OrbitLeast DEF R
<1>. QED
  BY <1>5 DEF C, R

-----------------------------------------------------------------------------
(* A loop of the class family as it is without its rows: what is left to     *)
(* visit, and which ancestors have a row.                                    *)
Loops == [todo : SUBSET Ancestors, remaining : SUBSET Ancestors, flag : {0, 1},
          pass : Nat, have : SUBSET Ancestors]

Cands(p, s) == {c \in s.have \cup DOMAIN leaf["best"] : <<c, p>> \in shape.sub}
Parts(p, s) == Gated(p, Cands(p, s))

Averaged(p, s) == p = Min(s.todo) /\ p \in s.todo /\ ~NoAggregate(p) /\ Parts(p, s) # {}

Loop(t, r, f, n, h) == [todo |-> t, remaining |-> r, flag |-> f, pass |-> n, have |-> h]

After(s) ==
  LET p == Min(s.todo) IN
  IF p \in s.todo
  THEN IF Cands(p, s) = {} \/ (~NoAggregate(p) /\ Parts(p, s) = {})
       THEN Loop(s.todo \ {p}, s.remaining, s.flag, s.pass, s.have)
       ELSE Loop(s.todo \ {p}, s.remaining \ {p}, 1, s.pass,
                 IF NoAggregate(p) THEN s.have ELSE s.have \cup {p})
  ELSE IF s.todo = {} /\ s.flag = 1 /\ s.pass < Cardinality(Ancestors) + 1
       THEN Loop(s.remaining, s.remaining, 0, s.pass + 1, s.have)
       ELSE s

Start == Loop(Ancestors, Ancestors, 0, 1, {})
Step == [s \in Loops |-> After(s)]
Track == Orbit(Step, Start)

LEMMA StepLoops == Step \in [Loops -> Loops] /\ Start \in Loops
<1>1. ASSUME NEW t \in SUBSET Ancestors, NEW r \in SUBSET Ancestors, NEW f \in {0, 1},
             NEW n \in Nat, NEW h \in SUBSET Ancestors
      PROVE  Loop(t, r, f, n, h) \in Loops
  BY DEF Loop, Loops
<1>2. ASSUME NEW s \in Loops PROVE After(s) \in Loops
  <2>1. /\ s.todo \in SUBSET Ancestors /\ s.remaining \in SUBSET Ancestors /\ s.flag \in {0, 1}
        /\ s.pass \in Nat /\ s.pass + 1 \in Nat /\ s.have \in SUBSET Ancestors
    BY DEF Loops
  <2>2. \A p \in s.todo : /\ s.todo \ {p} \in SUBSET Ancestors /\ s.remaining \ {p} \in SUBSET Ancestors
                          /\ (IF NoAggregate(p) THEN s.have ELSE s.have \cup {p}) \in SUBSET Ancestors
    BY <2>1
  <2>3. 0 \in {0, 1} /\ 1 \in {0, 1}
    OBVIOUS
  <2>. QED
    BY <1>1, <2>1, <2>2, <2>3 DEF After
<1>3. Start \in Loops
  <2>1. Ancestors \in SUBSET Ancestors /\ {} \in SUBSET Ancestors /\ 0 \in {0, 1} /\ 1 \in Nat
    OBVIOUS
  <2>. QED
    BY <1>1, <2>1 DEF Start
<1>. QED
  BY <1>2, <1>3 DEF Step

(* What is settled stays settled.                                            *)
Kept(p) == {s \in Loops : s.todo \subseteq s.remaining /\ p \notin s.remaining}

(* No step takes it up again.                                                *)
LEMMA KeptStep ==
  ASSUME NEW p, NEW s \in Kept(p)
  PROVE  Step[s] \in Kept(p)
<1>1. Step[s] = After(s) /\ After(s) \in Loops /\ s \in Loops
  BY StepLoops DEF Step, Kept
<1>2. /\ After(s).todo \subseteq After(s).remaining /\ p \notin After(s).remaining
  BY <1>1 DEF After, Loop, Loops, Kept
<1>. QED
  BY <1>1, <1>2 DEF Kept

(* What a pass has still to visit is not settled.                            *)
LEMMA TrackLists ==
  ASSUME NEW s \in Track
  PROVE  s \in Loops /\ s.todo \subseteq s.remaining
<1>. DEFINE C == {x \in Loops : x.todo \subseteq x.remaining}
<1>1. Start \in C
  BY StepLoops DEF Start, Loop
<1>2. ASSUME NEW x \in C PROVE Step[x] \in C
  <2>1. Step[x] = After(x) /\ After(x) \in Loops
    BY StepLoops DEF Step
  <2>2. After(x).todo \subseteq After(x).remaining
    BY DEF After, Loop, Loops
  <2>. QED
    BY <2>1, <2>2
<1>. HIDE DEF C
<1>3. Track \subseteq C
  <2>1. C \in SUBSET Loops
    BY DEF C
  <2>. QED
    BY <1>1, <1>2, <2>1, StepLoops, OrbitLeast DEF Track
<1>. QED
  BY <1>3 DEF C

(* What comes after an ancestor was averaged does not average it.            *)
LEMMA AveragedOnward ==
  ASSUME NEW p, NEW s \in Track, NEW z \in Orbit(Step, s), Averaged(p, s), Averaged(p, z)
  PROVE  z = s
<1>1. s \in Loops /\ s.todo \subseteq s.remaining
  BY TrackLists
<1>. SUFFICES ASSUME z \in Orbit(Step, Step[s]) PROVE FALSE
  BY <1>1, StepLoops, OrbitNext
<1>2. Step[s] \in Kept(p)
  <2>1. Step[s] = After(s) /\ After(s) \in Loops
    BY <1>1, StepLoops DEF Step
  <2>2. Cands(p, s) # {}
    BY DEF Averaged, Parts, Gated
  <2>3. After(s) = Loop(s.todo \ {p}, s.remaining \ {p}, 1, s.pass, s.have \cup {p})
    BY <2>2 DEF After, Averaged
  <2>4. After(s).todo = s.todo \ {p} /\ After(s).remaining = s.remaining \ {p}
    BY <1>1, <2>3 DEF Loop
  <2>. QED
    BY <1>1, <2>1, <2>4 DEF Kept
<1>3. Kept(p) \in SUBSET Loops
  BY DEF Kept
<1>4. Orbit(Step, Step[s]) \subseteq Kept(p)
  <2>. PICK x : x = Step[s]
    OBVIOUS
  <2>. QED
    BY <1>2, <1>3, KeptStep, StepLoops, OrbitLeast
<1>. QED
  BY <1>4 DEF Kept, Averaged

(* An ancestor is averaged at one point of the loop only.                    *)
LEMMA AveragedOnce ==
  ASSUME NEW p, NEW y \in Track, NEW z \in Track, Averaged(p, y), Averaged(p, z)
  PROVE  y = z
<1>1. y \in Orbit(Step, z) \/ z \in Orbit(Step, y)
  BY StepLoops, OrbitChain DEF Track
<1>. QED
  BY <1>1, AveragedOnward

-----------------------------------------------------------------------------
(* Where the loop of the table being built is on its way.                    *)
Flag == IF progressed THEN 1 ELSE 0
Now == Loop(todo, remaining, Flag, pass, DOMAIN built[phase])

OnTrack == phase # "done" => Now \in Track

(* Rows are given to ancestors, once each, one table after the other.        *)
Ordered ==
  /\ \A t \in Tables : DOMAIN built[t] \subseteq Ancestors
  /\ phase # "done" => DOMAIN built[phase] \cap remaining = {}
  /\ phase = "best" => DOMAIN built["spread"] = {}
  /\ phase \in {"best", "spread"} => DOMAIN built["quality"] = {}
  /\ family = "partof" => DOMAIN built["spread"] = {} /\ DOMAIN built["quality"] = {}

(* At the start there is no row.                                             *)
LEMMA InitOrdered == Init => Ordered
<1>. SUFFICES ASSUME Init PROVE Ordered
  OBVIOUS
<1>1. phase = "best" /\ \A t \in Tables : DOMAIN built[t] = {}
  BY DEF Init, Empty
<1>. QED
  BY <1>1 DEF Ordered, Tables

(* Only the table being built gains a row, of an ancestor that was left.     *)
LEMMA StepOrdered == IInv /\ Ordered /\ [Next]_vars => Ordered'
<1>. SUFFICES ASSUME IInv, Ordered, [Next]_vars PROVE Ordered'
  OBVIOUS
<1>0. UNCHANGED Static
  BY DEF Next, vars, Await, Drop, Average, NextPass, NextTable, Static
<1>1. Ancestors' = Ancestors /\ family' = family /\ Shaped
  BY <1>0 DEF Static, Ancestors, IInv
<1>2. CASE UNCHANGED vars \/ Await \/ Drop \/ NextPass
  <2>1. UNCHANGED built /\ UNCHANGED phase /\ remaining' \subseteq remaining
    BY <1>2 DEF vars, Await, Drop, NextPass, Settle
  <2>. QED
    BY <1>1, <2>1 DEF Ordered
<1>3. CASE Average
  <2>. PICK p \in todo : /\ Visit(p)
                         /\ built' = [built EXCEPT ![phase] =
                                        WithRow(@, p, Row(p, Gated(p, Candidates(p))))]
                         /\ Settle(p)
                         /\ UNCHANGED <<Static, phase, pass>>
    BY <1>3 DEF Average
  <2>1. /\ phase \in Tables /\ p \in Ancestors /\ UNCHANGED phase /\ remaining' = remaining \ {p}
        /\ phase \in {"spread", "quality"} => family # "partof"
    BY <1>1, VisitTodo DEF Shaped, Settle
  <2>2. /\ DOMAIN built'[phase] = DOMAIN built[phase] \cup {p}
        /\ \A t \in Tables : t # phase => built'[t] = built[t]
    BY <1>1, <2>1 DEF Shaped, WithRow
  <2>. QED
    BY <1>1, <2>1, <2>2 DEF Ordered, Tables
<1>4. CASE NextTable
  <2>1. /\ UNCHANGED built /\ phase # "done" /\ phase' = PhaseAfter /\ remaining' = Ancestors
        /\ phase \in Tables
    BY <1>1, <1>4 DEF NextTable, Shaped
  <2>2. \/ phase' = "spread" /\ phase = "best"
        \/ phase' = "quality" /\ phase = "spread"
        \/ phase' = "done"
    BY <2>1 DEF PhaseAfter
  <2>. QED
    BY <1>1, <2>1, <2>2 DEF Ordered, Tables
<1>. QED
  BY <1>2, <1>3, <1>4 DEF Next

(* What a row says of the classes it was taken over.                         *)
Bare(t, p, subs) ==
  CASE t = "best" ->
         \A e \in DOMAIN built["best"][p] :
           built["best"][p][e].of = {c \in subs : e \in DOMAIN FinalRow("best", c)}
    [] t = "spread" ->
         \A e \in DOMAIN FinalRow("best", p) :
           {c \in subs : e \in DOMAIN FinalRow("best", c) /\ e \in DOMAIN FinalRow("spread", c)}
             = IF e \in DOMAIN built["spread"][p] THEN built["spread"][p][e] ELSE {}
    [] t = "quality" ->
         \A c \in subs : \A e \in DOMAIN FinalRow("best", c) \cap DOMAIN FinalRow("quality", c) :
           /\ e \in DOMAIN built["quality"][p]
           /\ built["quality"][p][e] >= FinalRow("quality", c)[e]

(* A row of table t was taken over the parts of the ancestor at the point of *)
(* the loop where it is averaged.                                            *)
Traced(t) ==
  \A p \in DOMAIN built[t] :
    \E s \in Track : /\ Averaged(p, s) /\ Parts(p, s) \subseteq DOMAIN Final(t)
                     /\ Bare(t, p, Parts(p, s))

Scored == \A c \in DOMAIN Final("quality") : \A e \in DOMAIN Final("quality")[c] : Final("quality")[c][e] \in Nat

Twinned == OnTrack /\ Ordered /\ Scored /\ \A t \in Tables : Traced(t)

TInv == (family = "class" /\ Separate) => Twinned

(* The way of the loop is that of the tree and the pools.                    *)
LEMMA SameTrack ==
  ASSUME UNCHANGED Static
  PROVE  /\ Track' = Track /\ Separate' = Separate /\ Ancestors' = Ancestors
         /\ \A p, s : Averaged(p, s)' = Averaged(p, s) /\ Parts(p, s)' = Parts(p, s)
BY DEF Static, Track, Orbit, Step, Start, Loop, Loops, After, Ancestors, Separate, Averaged, Parts, Cands,
       NoAggregate, Gated, Ungated, Timed

(* What a step leaves of the loop.                                           *)
LEMMA FlagAfter == (progressed' = TRUE => Flag' = 1) /\ (progressed' = FALSE => Flag' = 0)
BY Zenon DEF Flag

LEMMA NowAfter ==
  /\ Now' = Loop(todo', remaining', Flag', pass', DOMAIN built'[phase'])
  /\ Now.todo = todo /\ Now.remaining = remaining /\ Now.flag = Flag /\ Now.pass = pass
  /\ Now.have = DOMAIN built[phase]
BY DEF Now, Loop

(* A row is read as it is served.                                            *)
LEMMA ReadFinal ==
  ASSUME Shaped, family = "class", Separate, Ordered, NEW t \in Tables, NEW c
  PROVE  Read(t, c) = FinalRow(t, c)
<1>1. DOMAIN built[t] \cap DOMAIN leaf[t] = {}
  BY DEF Shaped, Separate, Ordered
<1>2. CASE c \in DOMAIN leaf[t]
  BY <1>1, <1>2 DEF Read, FinalRow, Final
<1>3. CASE c \notin DOMAIN leaf[t]
  BY <1>1, <1>3 DEF Read, FinalRow, Final
<1>. QED
  BY <1>2, <1>3

(* The point the loop is at is the one where it averages what it averages.   *)
LEMMA NowParts ==
  ASSUME Shaped, family = "class", phase \in Tables, NEW p
  PROVE  Cands(p, Now) = Candidates(p) /\ Parts(p, Now) = Gated(p, Candidates(p))
<1>1. DOMAIN Final(phase) = Now.have \cup DOMAIN leaf["best"]
  BY NowAfter DEF Final, Shaped
<1>2. Cands(p, Now) = Candidates(p)
  BY <1>1 DEF Cands, Candidates
<1>. QED
  BY <1>2 DEF Parts

(* A visit, and a new pass, take the loop one step on.                       *)
LEMMA Onward ==
  ASSUME IInv, family = "class", Separate, Twinned, Await \/ Drop \/ Average \/ NextPass
  PROVE  OnTrack'
<1>0. Shaped /\ Track' = Track /\ UNCHANGED phase /\ phase \in Tables /\ phase # "done"
      /\ Now \in Track /\ family = "class" /\ Ancestors' = Ancestors
  <2>1. UNCHANGED Static /\ UNCHANGED phase /\ phase # "done"
    BY DEF Await, Drop, Average, NextPass, Visit
  <2>. QED
    BY <2>1, SameTrack DEF Twinned, OnTrack, IInv, Shaped
<1>1. After(Now) \in Track
  <2>1. Now \in Loops
    BY <1>0, TrackLists
  <2>2. Step[Now] \in Track
    BY <1>0, StepLoops, OrbitClosed DEF Track
  <2>. QED
    BY <2>1, <2>2 DEF Step
<1>2. CASE Await
  <2>. PICK p \in todo : /\ Visit(p)
                         /\ Candidates(p) = {} \/ (~NoAggregate(p) /\ Gated(p, Candidates(p)) = {})
                         /\ UNCHANGED <<Static, built, phase, pass, remaining, progressed>>
    BY <1>2 DEF Await
  <2>1. p = Min(Now.todo) /\ p \in Now.todo /\ todo' = todo \ {p}
    BY NowAfter DEF Visit
  <2>2. After(Now) = Loop(todo \ {p}, remaining, Flag, pass, DOMAIN built[phase])
    BY <1>0, <2>1, NowParts, NowAfter DEF After
  <2>3. Flag' = Flag
    BY DEF Flag
  <2>. QED
    BY <1>0, <1>1, <2>1, <2>2, <2>3, NowAfter DEF OnTrack
<1>3. CASE Drop
  <2>. PICK p \in todo : /\ Visit(p)
                         /\ Candidates(p) # {} /\ NoAggregate(p)
                         /\ Settle(p)
                         /\ UNCHANGED <<Static, built, phase, pass>>
    BY <1>3 DEF Drop
  <2>1. /\ p = Min(Now.todo) /\ p \in Now.todo /\ todo' = todo \ {p}
        /\ remaining' = remaining \ {p} /\ progressed' = TRUE
    BY NowAfter DEF Visit, Settle
  <2>2. After(Now) = Loop(todo \ {p}, remaining \ {p}, 1, pass, DOMAIN built[phase])
    BY <1>0, <2>1, NowParts, NowAfter DEF After
  <2>3. Flag' = 1
    BY <2>1, FlagAfter, Zenon
  <2>. QED
    BY <1>0, <1>1, <2>1, <2>2, <2>3, NowAfter DEF OnTrack
<1>4. CASE Average
  <2>. PICK p \in todo : /\ Visit(p) /\ ~NoAggregate(p) /\ Gated(p, Candidates(p)) # {}
                         /\ built' = [built EXCEPT ![phase] =
                                        WithRow(@, p, Row(p, Gated(p, Candidates(p))))]
                         /\ Settle(p)
                         /\ UNCHANGED <<Static, phase, pass>>
    BY <1>4 DEF Average
  <2>1. /\ p = Min(Now.todo) /\ p \in Now.todo /\ todo' = todo \ {p}
        /\ remaining' = remaining \ {p} /\ progressed' = TRUE
    BY NowAfter DEF Visit, Settle
  <2>2. Candidates(p) # {}
    BY DEF Gated
  <2>3. After(Now) = Loop(todo \ {p}, remaining \ {p}, 1, pass, DOMAIN built[phase] \cup {p})
    BY <1>0, <2>1, <2>2, NowParts, NowAfter DEF After
  <2>4. DOMAIN built'[phase] = DOMAIN built[phase] \cup {p}
    BY <1>0 DEF Shaped, WithRow
  <2>5. Flag' = 1
    BY <2>1, FlagAfter, Zenon
  <2>. QED
    BY <1>0, <1>1, <2>1, <2>3, <2>4, <2>5, NowAfter DEF OnTrack
<1>5. CASE NextPass
  <2>1. /\ todo = {} /\ progressed /\ pass < Cardinality(Ancestors) + 1
        /\ pass' = pass + 1 /\ todo' = remaining /\ progressed' = FALSE
        /\ UNCHANGED <<Static, built, phase, remaining>>
    BY <1>5 DEF NextPass, MorePasses
  <2>2. Flag = 1
    BY <2>1, Zenon DEF Flag
  <2>3. After(Now) = Loop(remaining, remaining, 0, pass + 1, DOMAIN built[phase])
    BY <2>1, <2>2, NowAfter DEF After
  <2>4. Flag' = 0
    BY <2>1, FlagAfter, Zenon
  <2>. QED
    BY <1>0, <1>1, <2>1, <2>3, <2>4, NowAfter DEF OnTrack
<1>. QED
  BY <1>2, <1>3, <1>4, <1>5

(* A finite set of naturals has a largest one.                               *)
Numbers(S) == \A x \in S : x \in Nat
Bounded(S) == \E x \in S : \A y \in S : x >= y

(* One number more.                                                          *)
LEMMA OneLarger ==
  ASSUME NEW S, Numbers(S), NEW x \in S, Bounded(S \ {x})
  PROVE  Bounded(S)
<1>1. PICK z \in S \ {x} : \A y \in S \ {x} : z >= y
  BY DEF Bounded
<1>2. x \in Nat /\ z \in Nat /\ \A y \in S : y \in Nat
  BY DEF Numbers
<1>3. CASE x >= z
  <2>1. \A y \in S : x >= y
    BY <1>1, <1>2, <1>3
  <2>. QED
    BY <2>1 DEF Bounded
<1>4. CASE z >= x
  <2>1. \A y \in S : z >= y
    BY <1>1, <1>4
  <2>. QED
    BY <2>1 DEF Bounded
<1>. QED
  BY <1>2, <1>3, <1>4

LEMMA MaxOf ==
  ASSUME NEW S, Numbers(S), IsFiniteSet(S), S # {}
  PROVE  Max(S) \in S /\ \A y \in S : Max(S) >= y
<1>. DEFINE B == {T \in SUBSET S : T # {} /\ ~Bounded(T)}
<1>1. B = {}
  <2>. SUFFICES ASSUME B # {} PROVE FALSE
    OBVIOUS
  <2>1. PICK X \in B : \A Y \in B : Y \subseteq X => X = Y
    <3>1. B \in SUBSET SUBSET S
      OBVIOUS
    <3>. HIDE DEF B
    <3>. QED
      BY <3>1, Smallest
  <2>. PICK x \in X : TRUE
    OBVIOUS
  <2>2. X \ {x} \notin B /\ X \ {x} \in SUBSET S
    BY <2>1
  <2>3. CASE X \ {x} = {}
    <3>1. \A y \in X : y = x
      BY <2>3
    <3>2. x \in Nat
      BY DEF Numbers
    <3>. QED
      BY <3>1, <3>2 DEF Bounded
  <2>4. CASE X \ {x} # {}
    <3>1. Numbers(X) /\ Bounded(X \ {x})
      BY <2>2, <2>4 DEF Numbers
    <3>. QED
      BY <3>1, OneLarger
  <2>. QED
    BY <2>3, <2>4
<1>2. Bounded(S)
  BY <1>1
<1>. QED
  BY <1>2 DEF Max, Bounded

-----------------------------------------------------------------------------
(* A row more in the table being built: the other rows and tables stay.      *)
LEMMA OtherRows ==
  ASSUME Shaped, family = "class", Separate, Ordered, phase \in Tables, UNCHANGED <<Static, phase>>,
         NEW p \in remaining, NEW row, built' = [built EXCEPT ![phase] = WithRow(@, p, row)]
  PROVE  /\ \A t \in Tables : t # phase => built'[t] = built[t] /\ Final(t)' = Final(t)
         /\ \A t, c : t \in Tables /\ c \in DOMAIN Final(t) =>
                        c \in DOMAIN Final(t)' /\ FinalRow(t, c)' = FinalRow(t, c) /\ Final(t)'[c] = Final(t)[c]
         /\ \A t, c : t \in Tables /\ t # phase => FinalRow(t, c)' = FinalRow(t, c)
         /\ p \notin DOMAIN Final(phase)
         /\ p \in DOMAIN Final(phase)' /\ Final(phase)'[p] = row /\ built'[phase][p] = row
         /\ DOMAIN Final(phase)' = DOMAIN Final(phase) \cup {p}
         /\ DOMAIN built'[phase] = DOMAIN built[phase] \cup {p}
         /\ \A c \in DOMAIN built[phase] : built'[phase][c] = built[phase][c]
<1>1. \A t \in Tables : t # phase => built'[t] = built[t]
  BY DEF Shaped
<1>2. built'[phase] = WithRow(built[phase], p, row)
  BY DEF Shaped
<1>3. leaf' = leaf
  BY DEF Static
<1>4. p \notin DOMAIN built[phase] /\ p \notin DOMAIN leaf[phase]
  BY DEF Shaped, Ordered, Separate, Tables
<1>5. \A t \in Tables : t # phase => Final(t)' = Final(t)
  BY <1>1, <1>3 DEF Final
<1>6. /\ DOMAIN built'[phase] = DOMAIN built[phase] \cup {p} /\ built'[phase][p] = row
      /\ \A c \in DOMAIN built[phase] : built'[phase][c] = built[phase][c]
  BY <1>2, <1>4 DEF WithRow
<1>7. p \notin DOMAIN Final(phase) /\ DOMAIN Final(phase)' = DOMAIN Final(phase) \cup {p}
      /\ Final(phase)'[p] = row
  BY <1>3, <1>4, <1>6 DEF Final
<1>8. \A c \in DOMAIN Final(phase) : c \in DOMAIN Final(phase)' /\ Final(phase)'[c] = Final(phase)[c]
  BY <1>3, <1>4, <1>6 DEF Final
<1>9. \A t, c : t \in Tables /\ c \in DOMAIN Final(t) =>
                  c \in DOMAIN Final(t)' /\ FinalRow(t, c)' = FinalRow(t, c) /\ Final(t)'[c] = Final(t)[c]
  BY <1>5, <1>8 DEF FinalRow
<1>10. \A t, c : t \in Tables /\ t # phase => FinalRow(t, c)' = FinalRow(t, c)
  BY <1>5 DEF FinalRow
<1>. QED
  BY <1>1, <1>5, <1>6, <1>7, <1>9, <1>10
(* A row says what it said while the rows it was taken over stay.            *)
LEMMA BareKept ==
  ASSUME NEW t \in Tables, NEW q, NEW subs, built'[t][q] = built[t][q],
         FinalRow("best", q)' = FinalRow("best", q) \/ t # "spread",
         \A c \in subs : FinalRow(t, c)' = FinalRow(t, c) /\ FinalRow("best", c)' = FinalRow("best", c),
         Bare(t, q, subs)
  PROVE  Bare(t, q, subs)'
<1>1. CASE t = "best"
  BY <1>1 DEF Bare
<1>2. CASE t = "spread"
  <2>1. FinalRow("best", q)' = FinalRow("best", q)
    BY <1>2
  <2>2. ASSUME NEW e \in DOMAIN FinalRow("best", q)
        PROVE  {c \in subs : e \in DOMAIN FinalRow("best", c)' /\ e \in DOMAIN FinalRow("spread", c)'}
                = IF e \in DOMAIN built'["spread"][q] THEN built'["spread"][q][e] ELSE {}
    <3>1. {c \in subs : e \in DOMAIN FinalRow("best", c)' /\ e \in DOMAIN FinalRow("spread", c)'}
           = {c \in subs : e \in DOMAIN FinalRow("best", c) /\ e \in DOMAIN FinalRow("spread", c)}
      BY <1>2
    <3>2. {c \in subs : e \in DOMAIN FinalRow("best", c) /\ e \in DOMAIN FinalRow("spread", c)}
            = IF e \in DOMAIN built["spread"][q] THEN built["spread"][q][e] ELSE {}
      BY <1>2 DEF Bare
    <3>. QED
      BY <1>2, <3>1, <3>2
  <2>. QED
    BY <1>2, <2>1, <2>2 DEF Bare
<1>3. CASE t = "quality"
  BY <1>3 DEF Bare
<1>. QED
  BY <1>1, <1>2, <1>3 DEF Tables

(* The new row of a visit says it of the parts the visit found.              *)
LEMMA MeanBare ==
  ASSUME Shaped, family = "class", Separate, Ordered, NEW subs, NEW e \in DOMAIN MeanRow(subs)
  PROVE  MeanRow(subs)[e].of = {c \in subs : e \in DOMAIN FinalRow("best", c)}
<1>1. \A c : Read("best", c) = FinalRow("best", c)
  BY ReadFinal DEF Tables
<1>2. MeanRow(subs)[e].of = {c \in subs : e \in DOMAIN Read("best", c)}
  BY DEF MeanRow
<1>. QED
  BY <1>1, <1>2

LEMMA SpreadBare ==
  ASSUME Shaped, family = "class", Separate, Ordered, NEW p, NEW subs, NEW e \in DOMAIN FinalRow("best", p)
  PROVE  {c \in subs : e \in DOMAIN FinalRow("best", c) /\ e \in DOMAIN FinalRow("spread", c)}
           = IF e \in DOMAIN SpreadRow(p, subs) THEN SpreadRow(p, subs)[e] ELSE {}
<1>. DEFINE rated(d) == {c \in {x \in subs : d \in DOMAIN FinalRow("best", x)} : d \in DOMAIN Read("spread", c)}
            elems == {d \in ElementsIn("spread", subs) : rated(d) # {}}
<1>1. \A c : Read("spread", c) = FinalRow("spread", c)
  BY ReadFinal DEF Tables
<1>2. rated(e) = {c \in subs : e \in DOMAIN FinalRow("best", c) /\ e \in DOMAIN FinalRow("spread", c)}
  BY <1>1
<1>3. SpreadRow(p, subs) = [d \in elems \cap DOMAIN FinalRow("best", p) |-> rated(d)]
  BY DEF SpreadRow
<1>4. rated(e) # {} => e \in elems
  BY DEF ElementsIn
<1>5. e \in elems => rated(e) # {}
  OBVIOUS
<1>. HIDE DEF rated, elems
<1>. QED
  BY <1>2, <1>3, <1>4, <1>5

LEMMA QualityBare ==
  ASSUME Shaped, family = "class", Separate, Ordered, Scored, NEW subs, IsFiniteSet(subs),
         subs \subseteq DOMAIN Final("quality")
  PROVE  /\ \A c \in subs : \A e \in DOMAIN FinalRow("best", c) \cap DOMAIN FinalRow("quality", c) :
              e \in DOMAIN QualityRow(subs) /\ QualityRow(subs)[e] >= FinalRow("quality", c)[e]
         /\ \A e \in DOMAIN QualityRow(subs) : QualityRow(subs)[e] \in Nat
<1>. DEFINE scored(e) == {c \in subs : e \in DOMAIN FinalRow("best", c) \cap DOMAIN Read("quality", c)}
            cells(e) == {Read("quality", c)[e] : c \in scored(e)}
<1>1. \A c : Read("quality", c) = FinalRow("quality", c)
  BY ReadFinal DEF Tables
<1>2. QualityRow(subs) = [e \in {d \in ElementsIn("quality", subs) : scored(d) # {}} |-> Max(cells(e))]
  BY DEF QualityRow
<1>3. ASSUME NEW e, scored(e) # {}
      PROVE  Max(cells(e)) \in cells(e) /\ (\A y \in cells(e) : Max(cells(e)) >= y) /\ Numbers(cells(e))
  <2>1. IsFiniteSet(scored(e)) /\ scored(e) \subseteq subs
    BY FS_Subset
  <2>. DEFINE f == [c \in scored(e) |-> Read("quality", c)[e]]
  <2>2. cells(e) = {f[c] : c \in scored(e)} /\ DOMAIN f = scored(e)
    OBVIOUS
  <2>3. \A c \in scored(e) : Read("quality", c)[e] \in Nat
    BY <1>1, <2>1 DEF FinalRow, Scored
  <2>4. Numbers(cells(e)) /\ cells(e) # {}
    BY <1>3, <2>3 DEF Numbers
  <2>. HIDE DEF f, cells, scored
  <2>5. IsFiniteSet(cells(e))
    BY <2>1, <2>2, FiniteImages
  <2>. QED
    BY <2>4, <2>5, MaxOf
<1>4. ASSUME NEW c \in subs, NEW e \in DOMAIN FinalRow("best", c) \cap DOMAIN FinalRow("quality", c)
      PROVE  e \in DOMAIN QualityRow(subs) /\ QualityRow(subs)[e] >= FinalRow("quality", c)[e]
  <2>1. c \in scored(e) /\ e \in ElementsIn("quality", subs) /\ FinalRow("quality", c)[e] \in cells(e)
    BY <1>1 DEF ElementsIn
  <2>. HIDE DEF scored, cells
  <2>. QED
    BY <1>2, <1>3, <2>1
<1>5. ASSUME NEW e \in DOMAIN QualityRow(subs) PROVE QualityRow(subs)[e] \in Nat
  <2>. HIDE DEF scored, cells
  <2>. QED
    BY <1>2, <1>3, <1>5 DEF Numbers
<1>. QED
  BY <1>4, <1>5
-----------------------------------------------------------------------------
(* A new row says it of the classes it was taken over.                       *)
LEMMA RowBare ==
  ASSUME Shaped, family = "class", Separate, Ordered, Scored, phase \in Tables,
         NEW t \in Tables, t = phase, NEW p, NEW subs, IsFiniteSet(subs), subs \subseteq DOMAIN Final(t),
         built'[t][p] = Row(p, subs), FinalRow("best", p)' = FinalRow("best", p) \/ t # "spread",
         \A c \in subs : FinalRow(t, c)' = FinalRow(t, c) /\ FinalRow("best", c)' = FinalRow("best", c)
  PROVE  Bare(t, p, subs)'
<1>1. CASE t = "best"
  <2>1. built'["best"][p] = MeanRow(subs)
    BY <1>1 DEF Row
  <2>2. \A e \in DOMAIN MeanRow(subs) : MeanRow(subs)[e].of = {c \in subs : e \in DOMAIN FinalRow("best", c)}
    BY MeanBare
  <2>3. ASSUME NEW e \in DOMAIN built'["best"][p]
        PROVE  built'["best"][p][e].of = {c \in subs : e \in DOMAIN FinalRow("best", c)'}
    <3>1. {c \in subs : e \in DOMAIN FinalRow("best", c)'} = {c \in subs : e \in DOMAIN FinalRow("best", c)}
      OBVIOUS
    <3>. QED
      BY <2>1, <2>2, <3>1
  <2>. QED
    BY <1>1, <2>3 DEF Bare
<1>2. CASE t = "spread"
  <2>1. built'["spread"][p] = SpreadRow(p, subs)
    BY <1>2 DEF Row
  <2>2. FinalRow("best", p)' = FinalRow("best", p)
    BY <1>2
  <2>3. ASSUME NEW e \in DOMAIN FinalRow("best", p)
        PROVE  {c \in subs : e \in DOMAIN FinalRow("best", c)' /\ e \in DOMAIN FinalRow("spread", c)'}
                 = IF e \in DOMAIN built'["spread"][p] THEN built'["spread"][p][e] ELSE {}
    <3>1. {c \in subs : e \in DOMAIN FinalRow("best", c)' /\ e \in DOMAIN FinalRow("spread", c)'}
            = {c \in subs : e \in DOMAIN FinalRow("best", c) /\ e \in DOMAIN FinalRow("spread", c)}
      BY <1>2
    <3>2. {c \in subs : e \in DOMAIN FinalRow("best", c) /\ e \in DOMAIN FinalRow("spread", c)}
            = IF e \in DOMAIN SpreadRow(p, subs) THEN SpreadRow(p, subs)[e] ELSE {}
      BY SpreadBare
    <3>. QED
      BY <2>1, <3>1, <3>2
  <2>. QED
    BY <1>2, <2>2, <2>3 DEF Bare
<1>3. CASE t = "quality"
  <2>1. built'["quality"][p] = QualityRow(subs)
    BY <1>3 DEF Row
  <2>2. \A c \in subs : \A e \in DOMAIN FinalRow("best", c) \cap DOMAIN FinalRow("quality", c) :
           e \in DOMAIN QualityRow(subs) /\ QualityRow(subs)[e] >= FinalRow("quality", c)[e]
    BY <1>3, QualityBare
  <2>. QED
    BY <1>3, <2>1, <2>2 DEF Bare
<1>. QED
  BY <1>1, <1>2, <1>3 DEF Tables

(* A visit that averages gives a row that was taken over what it says.       *)
LEMMA AverageTwinned ==
  ASSUME IInv, family = "class", Separate, Twinned, Average
  PROVE  Twinned'
<1>. PICK p \in todo : /\ Visit(p) /\ ~NoAggregate(p) /\ Gated(p, Candidates(p)) # {}
                       /\ built' = [built EXCEPT ![phase] =
                                      WithRow(@, p, Row(p, Gated(p, Candidates(p))))]
                       /\ Settle(p)
                       /\ UNCHANGED <<Static, phase, pass>>
  BY DEF Average
<1>. DEFINE subs == Gated(p, Candidates(p))
<1>0. /\ Shaped /\ phase \in Tables /\ phase # "done" /\ p \in remaining /\ p \in Ancestors
      /\ UNCHANGED <<Static, phase>> /\ p = Min(todo) /\ remaining' = remaining \ {p}
      /\ OnTrack /\ Ordered /\ Scored /\ \A t \in Tables : Traced(t)
  BY VisitTodo DEF IInv, Shaped, Visit, Settle, Twinned
<1>1. /\ \A t \in Tables : t # phase => built'[t] = built[t] /\ Final(t)' = Final(t)
      /\ \A t, c : t \in Tables /\ c \in DOMAIN Final(t) =>
                     c \in DOMAIN Final(t)' /\ FinalRow(t, c)' = FinalRow(t, c) /\ Final(t)'[c] = Final(t)[c]
      /\ \A t, c : t \in Tables /\ t # phase => FinalRow(t, c)' = FinalRow(t, c)
      /\ Final(phase)'[p] = Row(p, subs) /\ built'[phase][p] = Row(p, subs)
      /\ DOMAIN Final(phase)' = DOMAIN Final(phase) \cup {p}
      /\ DOMAIN built'[phase] = DOMAIN built[phase] \cup {p}
      /\ \A c \in DOMAIN built[phase] : built'[phase][c] = built[phase][c]
  BY <1>0, OtherRows
<1>2. /\ Track' = Track /\ Ancestors' = Ancestors
      /\ \A q, s : Averaged(q, s)' = Averaged(q, s) /\ Parts(q, s)' = Parts(q, s)
  BY <1>0, SameTrack
<1>3. /\ subs \subseteq DOMAIN Final(phase) /\ IsFiniteSet(subs)
      /\ Now \in Track /\ Averaged(p, Now) /\ Parts(p, Now) = subs
  <2>1. subs \subseteq DOMAIN Final(phase) /\ subs \subseteq {e[1] : e \in shape.sub}
    BY DEF Gated, Candidates
  <2>2. IsFiniteSet(subs)
    BY <1>0, <2>1, FewParts DEF Shaped
  <2>3. Now \in Track /\ Parts(p, Now) = subs
    BY <1>0, NowParts DEF OnTrack
  <2>4. Averaged(p, Now)
    BY <1>0, <2>3, NowAfter DEF Averaged
  <2>. QED
    BY <2>1, <2>2, <2>3, <2>4
<1>. HIDE DEF subs
<1>4. OnTrack'
  BY Onward
<1>5. Ordered'
  BY <1>0, StepOrdered DEF Next
<1>6. Scored'
  <2>1. CASE phase # "quality"
    BY <1>0, <1>1, <2>1 DEF Scored, Tables
  <2>2. CASE phase = "quality"
    <3>1. \A e \in DOMAIN Row(p, subs) : Row(p, subs)[e] \in Nat
      BY <1>0, <1>3, <2>2, QualityBare DEF Row
    <3>. QED
      BY <1>0, <1>1, <2>2, <3>1 DEF Scored
  <2>. QED
    BY <2>1, <2>2
<1>8. ASSUME NEW t \in Tables PROVE Traced(t)'
  <2>. SUFFICES ASSUME NEW q \in DOMAIN built'[t]
                PROVE  \E s \in Track' : /\ Averaged(q, s)' /\ Parts(q, s)' \subseteq DOMAIN Final(t)'
                                         /\ Bare(t, q, Parts(q, s))'
    BY DEF Traced
  <2>1. CASE t = phase /\ q = p
    <3>1. PICK s \in Track : Averaged(p, s) /\ Parts(p, s) = subs
      BY <1>3
    <3>2. FinalRow("best", p)' = FinalRow("best", p) \/ t # "spread"
      BY <1>1, <2>1 DEF Tables
    <3>3. \A c \in subs : FinalRow(t, c)' = FinalRow(t, c) /\ FinalRow("best", c)' = FinalRow("best", c)
      BY <1>1, <1>3, <2>1 DEF Tables
    <3>4. \A u : /\ IsFiniteSet(u) /\ u \subseteq DOMAIN Final(t) /\ built'[t][p] = Row(p, u)
                 /\ \A c \in u : FinalRow(t, c)' = FinalRow(t, c) /\ FinalRow("best", c)' = FinalRow("best", c)
                 => Bare(t, p, u)'
      BY <1>0, <2>1, <3>2, RowBare
    <3>5. Bare(t, p, Parts(p, s))'
      BY <1>1, <1>2, <1>3, <2>1, <3>1, <3>3, <3>4
    <3>6. Parts(p, s)' \subseteq DOMAIN Final(t)'
      BY <1>1, <1>2, <1>3, <2>1, <3>1
    <3>. QED
      BY <1>2, <2>1, <3>1, <3>5, <3>6
  <2>2. CASE ~(t = phase /\ q = p)
    <3>1. q \in DOMAIN built[t] /\ built'[t][q] = built[t][q]
      BY <1>1, <2>2
    <3>2. PICK s \in Track : /\ Averaged(q, s) /\ Parts(q, s) \subseteq DOMAIN Final(t)
                             /\ Bare(t, q, Parts(q, s))
      BY <1>0, <3>1 DEF Traced
    <3>3. t = "spread" => phase # "best"
      BY <1>0, <3>1 DEF Ordered
    <3>4. t = "quality" => phase = "quality"
      BY <1>0, <3>1 DEF Ordered, Tables
    <3>5. FinalRow("best", q)' = FinalRow("best", q) \/ t # "spread"
      BY <1>1, <3>3 DEF Tables
    <3>6. \A c \in Parts(q, s) : FinalRow(t, c)' = FinalRow(t, c) /\ FinalRow("best", c)' = FinalRow("best", c)
      BY <1>0, <1>1, <3>2, <3>3, <3>4 DEF Tables
    <3>7. \A u : (\A c \in u : FinalRow(t, c)' = FinalRow(t, c) /\ FinalRow("best", c)' = FinalRow("best", c))
                   /\ Bare(t, q, u) => Bare(t, q, u)'
      BY <3>1, <3>5, BareKept
    <3>8. Bare(t, q, Parts(q, s))'
      BY <1>2, <3>2, <3>6, <3>7
    <3>9. Parts(q, s)' \subseteq DOMAIN Final(t)'
      BY <1>1, <1>2, <3>2
    <3>. QED
      BY <1>2, <3>2, <3>8, <3>9
  <2>. QED
    BY <2>1, <2>2
<1>. QED
  BY <1>4, <1>5, <1>6, <1>8 DEF Twinned
(* A step that changes no row keeps what the rows say.                       *)
LEMMA SameRows ==
  ASSUME UNCHANGED <<Static, built>>, Scored, \A t \in Tables : Traced(t)
  PROVE  Scored' /\ \A t \in Tables : Traced(t)'
<1>1. UNCHANGED Static /\ UNCHANGED built
  OBVIOUS
<1>2. /\ Track' = Track
      /\ \A q, s : Averaged(q, s)' = Averaged(q, s) /\ Parts(q, s)' = Parts(q, s)
  BY <1>1, SameTrack
<1>3. \A t : Final(t)' = Final(t)
  BY <1>1 DEF Final, Static
<1>4. \A t, c : FinalRow(t, c)' = FinalRow(t, c)
  BY <1>3 DEF FinalRow
<1>5. ASSUME NEW t \in Tables PROVE Traced(t)'
  <2>. SUFFICES ASSUME NEW q \in DOMAIN built[t]
                PROVE  \E s \in Track' : /\ Averaged(q, s)' /\ Parts(q, s)' \subseteq DOMAIN Final(t)'
                                         /\ Bare(t, q, Parts(q, s))'
    BY <1>1 DEF Traced
  <2>1. PICK s \in Track : /\ Averaged(q, s) /\ Parts(q, s) \subseteq DOMAIN Final(t)
                           /\ Bare(t, q, Parts(q, s))
    BY DEF Traced
  <2>2. \A u : Bare(t, q, u) => Bare(t, q, u)'
    BY <1>1, <1>4, BareKept
  <2>3. Bare(t, q, Parts(q, s))'
    BY <1>2, <2>1, <2>2
  <2>. QED
    BY <1>2, <1>3, <2>1, <2>3
<1>. QED
  BY <1>3, <1>5 DEF Scored

LEMMA InitTwinned == Init => TInv
<1>. SUFFICES ASSUME Init PROVE Twinned
  BY DEF TInv
<1>1. /\ shape \in Shapes /\ phase = "best" /\ pass = 1
      /\ built = [t \in Tables |-> Empty] /\ remaining = Ancestors /\ todo = Ancestors
      /\ progressed = FALSE
  BY DEF Init
<1>2. \A t \in Tables : DOMAIN built[t] = {}
  BY <1>1 DEF Empty
<1>3. OnTrack
  <2>1. Flag = 0
    BY <1>1, Zenon DEF Flag
  <2>2. DOMAIN built["best"] = {}
    BY <1>2 DEF Tables
  <2>3. Now = Start
    BY <1>1, <2>1, <2>2 DEF Now, Start
  <2>4. Start \in Track
    BY StepLoops, OrbitClosed DEF Track
  <2>. QED
    BY <2>3, <2>4 DEF OnTrack
<1>4. Ordered
  BY InitOrdered
<1>5. Scored
  <2>1. PICK pool, mix, score : /\ score \in [pool -> Scores \cup {0}] /\ mix \in [pool -> Mixes]
                                /\ leaf = LeafTables(mix, score)
    BY DEF Init
  <2>2. \A c \in DOMAIN Final("quality") : c \in pool /\ Final("quality")[c] = leaf["quality"][c]
    BY <1>2, <2>1 DEF Final, LeafTables, Tables
  <2>3. \A c \in pool : score[c] \in Nat
    <3>1. \A c \in pool : score[c] \in Scores \cup {0}
      BY <2>1
    <3>2. Scores \subseteq Nat
      BY RollupAssumption
    <3>3. \A x \in Scores \cup {0} : x \in Nat
      BY <3>2
    <3>. QED
      BY <3>1, <3>3
  <2>4. \A c \in pool : \A e \in DOMAIN leaf["quality"][c] : leaf["quality"][c][e] = score[c]
    BY <2>1 DEF LeafTables
  <2>. QED
    BY <2>2, <2>3, <2>4 DEF Scored
<1>6. \A t \in Tables : Traced(t)
  BY <1>2 DEF Traced
<1>. QED
  BY <1>3, <1>4, <1>5, <1>6 DEF Twinned

(* The loop of the next table starts where that of the values did.           *)
LEMMA NextTableTwinned ==
  ASSUME IInv, family = "class", Separate, Twinned, NextTable
  PROVE  Twinned'
<1>1. /\ UNCHANGED Static /\ UNCHANGED built /\ phase # "done" /\ phase' = PhaseAfter
      /\ pass' = 1 /\ progressed' = FALSE /\ remaining' = Ancestors
      /\ todo' = IF phase' = "done" THEN {} ELSE Ancestors
  BY DEF NextTable
<1>2. /\ phase \in Tables
      /\ phase = "best" => phase' = "spread"
      /\ phase = "spread" => phase' = "quality"
      /\ phase = "quality" => phase' = "done"
  BY <1>1 DEF PhaseAfter, IInv, Shaped
<1>3. Track' = Track /\ Ancestors' = Ancestors
  BY <1>1, SameTrack
<1>4. phase' # "done" => DOMAIN built'[phase'] = {}
  BY <1>1, <1>2 DEF Twinned, Ordered, Tables
<1>5. OnTrack'
  <2>. SUFFICES ASSUME phase' # "done" PROVE Now' \in Track'
    BY DEF OnTrack
  <2>1. Flag' = 0
    <3>1. progressed' = FALSE
      BY <1>1
    <3>. QED
      BY <3>1, FlagAfter, Zenon
  <2>2. Now' = Start
    BY <1>1, <1>4, <2>1, NowAfter DEF Start
  <2>3. Start \in Track
    BY StepLoops, OrbitClosed DEF Track
  <2>. QED
    BY <1>3, <2>2, <2>3
<1>6. Ordered'
  BY StepOrdered DEF Twinned, Next
<1>. QED
  BY <1>1, <1>5, <1>6, SameRows DEF Twinned

LEMMA StepTwinned == IInv /\ TInv /\ [Next]_vars => TInv'
<1>. SUFFICES ASSUME IInv, TInv, [Next]_vars PROVE TInv'
  OBVIOUS
<1>1. UNCHANGED Static
  BY DEF Next, vars, Await, Drop, Average, NextPass, NextTable, Static
<1>2. family' = family /\ Separate' = Separate
  BY <1>1, SameTrack DEF Static
<1>. SUFFICES ASSUME family = "class", Separate PROVE Twinned'
  BY <1>2 DEF TInv
<1>3. Twinned
  BY DEF TInv
<1>0. Ordered'
  BY <1>3, StepOrdered DEF Twinned
<1>4. CASE Await \/ Drop \/ NextPass
  <2>1. OnTrack'
    BY <1>3, <1>4, Onward
  <2>2. UNCHANGED built
    BY <1>4 DEF Await, Drop, NextPass
  <2>. QED
    BY <1>0, <1>1, <1>3, <2>1, <2>2, SameRows DEF Twinned
<1>5. CASE UNCHANGED vars
  <2>1. UNCHANGED <<built, phase, pass, todo, remaining, progressed>>
    BY <1>5 DEF vars
  <2>2. Now' = Now /\ Track' = Track /\ Ancestors' = Ancestors
    BY <1>1, <2>1, SameTrack DEF Now, Flag
  <2>3. OnTrack'
    BY <1>3, <2>1, <2>2 DEF Twinned, OnTrack
  <2>. QED
    BY <1>0, <1>1, <1>3, <2>1, <2>3, SameRows DEF Twinned
<1>. QED
  BY <1>3, <1>4, <1>5, AverageTwinned, NextTableTwinned DEF Next

(* What the value of an averaged class was taken over, its spread and its    *)
(* score are taken over, in every name order: the loops of the twins average *)
(* an ancestor where the loop of the values does.                            *)
THEOREM TwinsAgree == Spec => []TwinsFollowValue
<1>1. ASSUME IInv, TInv, Complete, Done, family = "class", Separate, NEW p \in DOMAIN built["best"],
             NEW e \in DOMAIN built["best"][p],
             NEW of, of = built["best"][p][e].of
      PROVE  /\ {s \in of : e \in DOMAIN Read("spread", s)}
                  = IF e \in DOMAIN built["spread"][p] THEN built["spread"][p][e] ELSE {}
             /\ \A s \in of : e \in DOMAIN Read("quality", s) =>
                  built["quality"][p][e] >= Read("quality", s)[e]
  <2>0. Shaped /\ Twinned /\ Ordered /\ \A t \in Tables : Traced(t)
    BY <1>1 DEF TInv, Twinned, IInv
  <2>1. PICK s \in Track : /\ Averaged(p, s) /\ Parts(p, s) \subseteq DOMAIN Final("best")
                           /\ Bare("best", p, Parts(p, s))
    BY <1>1, <2>0 DEF Traced, Tables
  <2>2. of = {c \in Parts(p, s) : e \in DOMAIN FinalRow("best", c)}
    BY <1>1, <2>1 DEF Bare
  <2>3. FinalRow("best", p) = built["best"][p]
    BY <1>1 DEF FinalRow, Final
  <2>4. p \in Ancestors
    BY <1>1, <2>0 DEF Ordered, Tables
  <2>5. Contributors(p) # {}
    <3>1. ~NoAggregate(p) /\ Parts(p, s) # {}
      BY <2>1 DEF Averaged
    <3>2. PICK c \in Parts(p, s) : TRUE
      BY <3>1
    <3>3. c \in Gated(p, {d[1] : d \in {x \in shape.sub : x[2] = p}})
      BY DEF Parts, Cands, Gated
    <3>. QED
      BY <2>1, <3>2, <3>3 DEF Contributors
  <2>6. p \in DOMAIN built["spread"] /\ p \in DOMAIN built["quality"]
    BY <1>1, <2>1, <2>4, <2>5 DEF Complete, Averaged, Tables
  <2>7. ASSUME NEW t \in Tables, p \in DOMAIN built[t] PROVE Bare(t, p, Parts(p, s))
    <3>1. PICK z \in Track : Averaged(p, z) /\ Bare(t, p, Parts(p, z))
      BY <2>0, <2>7 DEF Traced
    <3>2. z = s
      BY <2>1, <3>1, AveragedOnce
    <3>. QED
      BY <3>1, <3>2
  <2>8. Bare("spread", p, Parts(p, s)) /\ Bare("quality", p, Parts(p, s))
    BY <2>6, <2>7 DEF Tables
  <2>9. \A c : Read("spread", c) = FinalRow("spread", c) /\ Read("quality", c) = FinalRow("quality", c)
    BY <1>1, <2>0, ReadFinal DEF Tables
  <2>10. {c \in of : e \in DOMAIN Read("spread", c)}
           = {c \in Parts(p, s) : e \in DOMAIN FinalRow("best", c) /\ e \in DOMAIN FinalRow("spread", c)}
    BY <2>2, <2>9
  <2>11. {c \in of : e \in DOMAIN Read("spread", c)}
           = IF e \in DOMAIN built["spread"][p] THEN built["spread"][p][e] ELSE {}
    BY <2>3, <2>8, <2>10 DEF Bare
  <2>12. ASSUME NEW c \in of, e \in DOMAIN Read("quality", c)
         PROVE  built["quality"][p][e] >= Read("quality", c)[e]
    BY <2>2, <2>8, <2>9, <2>12 DEF Bare
  <2>. QED
    BY <2>11, <2>12
<1>2. IInv /\ TInv /\ Complete => TwinsFollowValue
  BY <1>1 DEF TwinsFollowValue
<1>3. Spec => [](IInv /\ TInv)
  BY InitInv, StepInv, InitTwinned, StepTwinned, PTL DEF Spec
<1>. QED
  BY <1>2, <1>3, FixpointReached, PTL
-----------------------------------------------------------------------------
(* The classes an ancestor is averaged over when all that have a row are in. *)
Below(t, p) == Gated(p, {s \in Have(t) : <<s, p>> \in shape.sub})

(* What a row is of the rows B and R below it, B those of the best value.    *)
Mean(row, C, B, each) ==
  \A e : LET with == {s \in C : e \in DOMAIN B[s]} IN
    /\ e \in DOMAIN row <=> with # {}
    /\ e \in DOMAIN row =>
         /\ row[e].of = with
         /\ row[e].amt = SumOf([s \in with |-> B[s][e].amt]) \div Cardinality(IF each THEN with ELSE C)

Spreads(row, best, C, B, R) ==
  \A e \in DOMAIN row :
    e \in DOMAIN best /\ row[e] = {s \in C : e \in DOMAIN B[s] /\ e \in DOMAIN R[s]}

Ranks(row, C, B, R) ==
  \A e : e \in DOMAIN row <=> {s \in C : e \in DOMAIN B[s] /\ e \in DOMAIN R[s]} # {}

RowsOf(t, C) == [s \in C |-> FinalRow(t, s)]

IsExact(t, row, best, C, B, R) ==
  CASE t = "best"    -> Mean(row, C, B, family = "class")
    [] t = "spread"  -> Spreads(row, best, C, B, R)
    [] t = "quality" -> Ranks(row, C, B, R)

(* Every row is exact over what is below it now.                             *)
ExactRow(t, p) ==
  /\ Averages(p, Have(t))
  /\ IsExact(t, built[t][p], FinalRow("best", p),
             Below(t, p), RowsOf("best", Below(t, p)), RowsOf(t, Below(t, p)))

Exact(t) == \A p \in DOMAIN built[t] : ExactRow(t, p)

(* The first pass visits the ancestors in the order of their names, so what  *)
(* it leaves without a row stays without.                                    *)
Firm ==
  phase # "done" =>
    /\ \A c \in (IF pass = 1 THEN remaining \ todo ELSE remaining) : ~Averages(c, Have(phase))
    /\ pass = 1 => \A c \in Ancestors \ todo : \A d \in todo : c < d

(* A pool has a spread and a score for elements of its own.                  *)
Pooled ==
  \A c \in DOMAIN leaf["best"] : \A t \in {"spread", "quality"} :
    /\ DOMAIN leaf[t][c] \subseteq DOMAIN leaf["best"][c]
    /\ family = "partof" => DOMAIN leaf[t][c] = {}

XInv ==
  /\ Ordered /\ Pooled
  /\ (NameOrder /\ Separate) => (Firm /\ \A t \in Tables : Exact(t))

(* At the start there is no row to be exact.                                  *)
LEMMA InitExact == Init => XInv
<1>. SUFFICES ASSUME Init PROVE XInv
  OBVIOUS
<1>1. phase = "best" /\ pass = 1 /\ todo = Ancestors /\ remaining = Ancestors
      /\ \A t \in Tables : DOMAIN built[t] = {}
  BY DEF Init, Empty
<1>2. Firm /\ \A t \in Tables : Exact(t)
  BY <1>1 DEF Firm, Exact
<1>3. Pooled
  <2>1. PICK pool, mix, score : /\ mix \in [pool -> Mixes] /\ leaf = LeafTables(mix, score)
                                /\ \A c \in pool : family = "partof" => score[c] = 0
    BY DEF Init
  <2>2. DOMAIN leaf["best"] = pool
    BY <2>1 DEF LeafTables
  <2>3. ASSUME NEW c \in pool
        PROVE  /\ DOMAIN leaf["best"][c] = DOMAIN mix[c]
               /\ DOMAIN leaf["spread"][c] = IF score[c] = 0 THEN {} ELSE DOMAIN mix[c]
               /\ DOMAIN leaf["quality"][c] = IF score[c] = 0 THEN {} ELSE DOMAIN mix[c]
    BY <2>1 DEF LeafTables
  <2>. QED
    BY <2>1, <2>2, <2>3 DEF Pooled
<1>. QED
  BY <1>2, <1>3, InitOrdered DEF XInv

-----------------------------------------------------------------------------
(* A row is read as it is served, in every family.                           *)
LEMMA ReadServed ==
  ASSUME Shaped, Separate, Ordered, NEW t \in Tables, NEW c
  PROVE  Read(t, c) = FinalRow(t, c)
<1>1. CASE family = "class"
  BY <1>1, ReadFinal
<1>2. CASE family # "class"
  BY <1>2 DEF Read
<1>. QED
  BY <1>1, <1>2

(* The row a visit gives is exact over the classes the visit found.          *)
LEMMA RowExact ==
  ASSUME Shaped, Separate, Ordered, phase \in Tables, NEW p, NEW subs
  PROVE  IsExact(phase, Row(p, subs), FinalRow("best", p), subs, RowsOf("best", subs), RowsOf(phase, subs))
<1>. DEFINE B == RowsOf("best", subs)
            R == RowsOf(phase, subs)
<1>1. \A s \in subs : B[s] = Read("best", s) /\ B[s] = FinalRow("best", s) /\ R[s] = Read(phase, s)
  BY ReadServed DEF RowsOf, Tables
<1>. HIDE DEF B, R
<1>2. CASE phase = "best"
  <2>. SUFFICES ASSUME NEW e, NEW with, with = {s \in subs : e \in DOMAIN B[s]}
                PROVE  /\ e \in DOMAIN MeanRow(subs) <=> with # {}
                       /\ e \in DOMAIN MeanRow(subs) =>
                            /\ MeanRow(subs)[e].of = with
                            /\ MeanRow(subs)[e].amt = SumOf([s \in with |-> B[s][e].amt])
                                 \div Cardinality(IF family = "class" THEN with ELSE subs)
    BY <1>2 DEF IsExact, Mean, Row, B, R
  <2>1. with = {s \in subs : e \in DOMAIN Read("best", s)}
    BY <1>1
  <2>2. DOMAIN MeanRow(subs) = ElementsIn("best", subs)
    BY DEF MeanRow
  <2>3. e \in ElementsIn("best", subs) <=> with # {}
    BY <2>1 DEF ElementsIn
  <2>4. [s \in with |-> B[s][e].amt] = [s \in with |-> Read("best", s)[e].amt]
    BY <1>1, <2>1
  <2>5. e \in ElementsIn("best", subs) =>
          /\ MeanRow(subs)[e].of = {s \in subs : e \in DOMAIN Read("best", s)}
          /\ MeanRow(subs)[e].amt =
               SumOf([s \in {s \in subs : e \in DOMAIN Read("best", s)} |-> Read("best", s)[e].amt])
                 \div Cardinality(IF family = "class" THEN {s \in subs : e \in DOMAIN Read("best", s)} ELSE subs)
    BY DEF MeanRow
  <2>. QED
    BY <2>1, <2>2, <2>3, <2>4, <2>5
<1>3. CASE phase = "spread"
  <2>. SUFFICES ASSUME NEW e \in DOMAIN SpreadRow(p, subs)
                PROVE  /\ e \in DOMAIN FinalRow("best", p)
                       /\ SpreadRow(p, subs)[e] = {s \in subs : e \in DOMAIN B[s] /\ e \in DOMAIN R[s]}
    BY <1>3 DEF IsExact, Spreads, Row, B, R
  <2>1. {s \in subs : e \in DOMAIN B[s] /\ e \in DOMAIN R[s]}
          = {s \in {x \in subs : e \in DOMAIN FinalRow("best", x)} : e \in DOMAIN Read("spread", s)}
    BY <1>1, <1>3
  <2>. QED
    BY <2>1 DEF SpreadRow
<1>4. CASE phase = "quality"
  <2>. SUFFICES ASSUME NEW e
                PROVE  e \in DOMAIN QualityRow(subs) <=>
                         {s \in subs : e \in DOMAIN B[s] /\ e \in DOMAIN R[s]} # {}
    BY <1>4 DEF IsExact, Ranks, Row, B, R
  <2>1. {s \in subs : e \in DOMAIN B[s] /\ e \in DOMAIN R[s]}
          = {s \in subs : e \in DOMAIN FinalRow("best", s) \cap DOMAIN Read("quality", s)}
    BY <1>1, <1>4
  <2>2. e \in DOMAIN QualityRow(subs) <=>
          /\ e \in ElementsIn("quality", subs)
          /\ {s \in subs : e \in DOMAIN FinalRow("best", s) \cap DOMAIN Read("quality", s)} # {}
    BY DEF QualityRow
  <2>3. {s \in subs : e \in DOMAIN FinalRow("best", s) \cap DOMAIN Read("quality", s)} # {}
          => e \in ElementsIn("quality", subs)
    BY DEF ElementsIn
  <2>. QED
    BY <2>1, <2>2, <2>3
<1>. QED
  BY <1>2, <1>3, <1>4 DEF Tables

-----------------------------------------------------------------------------
(* The smallest of finitely many numbers.                                    *)
LEMMA MinOf ==
  ASSUME NEW S, Numbers(S), IsFiniteSet(S), S # {}
  PROVE  Min(S) \in S /\ \A y \in S : Min(S) <= y
<1>1. PICK m \in Nat : \A y \in S : m >= y
  BY MaxOf DEF Numbers
<1>. DEFINE f == [x \in S |-> m - x]
            T == {f[x] : x \in S}
<1>2. \A x \in S : f[x] \in Nat /\ x \in Nat /\ f[x] = m - x
  BY <1>1 DEF Numbers
<1>3. DOMAIN f = S
  OBVIOUS
<1>. HIDE DEF f
<1>4. IsFiniteSet(T)
  BY <1>3, FiniteImages
<1>5. Numbers(T) /\ T # {}
  BY <1>2 DEF Numbers
<1>6. Max(T) \in T /\ \A y \in T : Max(T) >= y
  <2>. HIDE DEF T
  <2>. QED
    BY <1>4, <1>5, MaxOf
<1>7. PICK x \in S : f[x] = Max(T)
  BY <1>6
<1>8. ASSUME NEW y \in S PROVE x <= y
  <2>1. f[x] >= f[y]
    BY <1>6, <1>7
  <2>. QED
    BY <1>2, <2>1
<1>. QED
  BY <1>8 DEF Min

(* Ancestors are named like all classes.                                     *)
LEMMA Named ==
  ASSUME Shaped
  PROVE  Numbers(Ancestors) /\ Numbers(todo) /\ IsFiniteSet(todo) /\ todo \subseteq Ancestors
<1>1. shape.sub \subseteq Nat \X Nat
  BY RollupAssumption DEF Shaped, ShapeOK
<1>2. \A a \in Ancestors : a \in Nat
  BY <1>1 DEF Ancestors, AncestorsIn
<1>3. todo \subseteq Ancestors
  BY DEF Shaped
<1>. QED
  BY <1>2, <1>3, FewAncestors, FS_Subset DEF Numbers, Shaped

(* A visit takes the first of those left.                                    *)
LEMMA First ==
  ASSUME Shaped, Firm, phase # "done", NEW p \in todo, p = Min(todo), pass = 1
  PROVE  \A c \in Ancestors \ (todo \ {p}) : \A d \in todo \ {p} : c < d
<1>1. \A d \in todo : p <= d
  BY Named, MinOf
<1>2. \A d \in todo \ {p} : p < d
  BY <1>1, Named DEF Numbers
<1>. QED
  BY <1>2 DEF Firm

(* An ancestor averaged is below none that was visited.                      *)
LEMMA InOrder ==
  ASSUME Shaped, Firm, NameOrder, phase # "done", NEW p \in todo, Averages(p, Have(phase))
  PROVE  /\ pass = 1
         /\ \A c \in Ancestors \ (todo \ {p}) : <<p, c>> \notin shape.sub
<1>1. pass = 1
  BY DEF Firm, Shaped
<1>2. \A c \in Ancestors \ todo : c < p
  BY <1>1 DEF Firm
<1>. SUFFICES ASSUME NEW c \in Ancestors \ (todo \ {p}), <<p, c>> \in shape.sub PROVE FALSE
  BY <1>1
<1>3. p < c
  BY DEF NameOrder
<1>4. p \in Nat /\ c \in Nat /\ (c = p \/ c < p)
  BY <1>2, Named DEF Numbers
<1>. QED
  BY <1>3, <1>4

(* A row more, in any family: the others stay.                               *)
LEMMA OneRow ==
  ASSUME Shaped, phase \in Tables, UNCHANGED <<Static, phase>>,
         NEW p \in todo, NEW row, built' = [built EXCEPT ![phase] = WithRow(@, p, row)]
  PROVE  /\ \A t \in Tables : t # phase => built'[t] = built[t]
         /\ \A t, c : t \in Tables /\ (t # phase \/ c # p) => FinalRow(t, c)' = FinalRow(t, c)
         /\ built'[phase][p] = row /\ DOMAIN built'[phase] = DOMAIN built[phase] \cup {p}
         /\ \A c \in DOMAIN built[phase] : c # p => built'[phase][c] = built[phase][c]
         /\ \A t \in Tables : Have(t) \subseteq Have(t)' /\ Have(t)' \subseteq Have(t) \cup {p}
         /\ \A t \in Tables : t # phase /\ phase # "best" => Have(t)' = Have(t)
<1>1. \A t \in Tables : t # phase => built'[t] = built[t]
  BY DEF Shaped
<1>2. built'[phase] = WithRow(built[phase], p, row)
  BY DEF Shaped
<1>3. leaf' = leaf /\ family' = family
  BY DEF Static
<1>4. /\ built'[phase][p] = row /\ DOMAIN built'[phase] = DOMAIN built[phase] \cup {p}
      /\ \A c \in DOMAIN built[phase] : c # p => built'[phase][c] = built[phase][c]
  BY <1>2 DEF WithRow
<1>5. \A t \in Tables : t # phase => Final(t)' = Final(t)
  BY <1>1, <1>3 DEF Final
<1>6. \A c : c # p => FinalRow(phase, c)' = FinalRow(phase, c)
  BY <1>3, <1>4 DEF FinalRow, Final
<1>7. DOMAIN Final(phase) \subseteq DOMAIN Final(phase)' /\ DOMAIN Final(phase)' \subseteq DOMAIN Final(phase) \cup {p}
  BY <1>3, <1>4 DEF Final
<1>8. \A t, c : t \in Tables /\ (t # phase \/ c # p) => FinalRow(t, c)' = FinalRow(t, c)
  BY <1>5, <1>6 DEF FinalRow
<1>9. \A t \in Tables : Have(t) \subseteq Have(t)' /\ Have(t)' \subseteq Have(t) \cup {p}
  BY <1>3, <1>5, <1>7 DEF Have, Tables
<1>10. \A t \in Tables : t # phase /\ phase # "best" => Have(t)' = Have(t)
  BY <1>3, <1>5 DEF Have, Tables
<1>. QED
  BY <1>1, <1>4, <1>8, <1>9, <1>10

(* The new row is below none of the rows there are: what is below stays.     *)
LEMMA BelowKept ==
  ASSUME UNCHANGED Static, NEW t, NEW q, NEW p,
         Have(t)' = Have(t) \/ <<p, q>> \notin shape.sub,
         Have(t) \subseteq Have(t)', Have(t)' \subseteq Have(t) \cup {p}
  PROVE  /\ Below(t, q)' = Below(t, q) /\ Averages(q, Have(t))' = Averages(q, Have(t))
         /\ <<p, q>> \notin shape.sub => p \notin Below(t, q)
<1>1. UNCHANGED <<shape, family, leaf>>
  BY DEF Static
<1>2. {s \in Have(t)' : <<s, q>> \in shape.sub} = {s \in Have(t) : <<s, q>> \in shape.sub}
  OBVIOUS
<1>3. Below(t, q)' = Below(t, q)
  BY <1>1, <1>2 DEF Below, Gated, Ungated, Timed
<1>4. Averages(q, Have(t))' = Averages(q, Have(t))
  BY <1>1, <1>2, <1>3 DEF Averages, Below, NoAggregate, Ungated, Timed
<1>5. <<p, q>> \notin shape.sub => p \notin Below(t, q)
  BY DEF Below, Gated
<1>. QED
  BY <1>3, <1>4, <1>5

(* A row is as exact as it was while what it was taken over stays.           *)
LEMMA ExactKept ==
  ASSUME family' = family, NEW t \in Tables, NEW q, built'[t][q] = built[t][q],
         FinalRow("best", q)' = FinalRow("best", q), Below(t, q)' = Below(t, q),
         Averages(q, Have(t))' = Averages(q, Have(t)),
         \A s \in Below(t, q) : /\ FinalRow("best", s)' = FinalRow("best", s)
                                /\ FinalRow(t, s)' = FinalRow(t, s),
         ExactRow(t, q)
  PROVE  ExactRow(t, q)'
<1>1. RowsOf("best", Below(t, q))' = RowsOf("best", Below(t, q)) /\ RowsOf(t, Below(t, q))' = RowsOf(t, Below(t, q))
  BY DEF RowsOf
<1>. QED
  BY <1>1 DEF ExactRow, IsExact

(* A visit that averages gives an exact row, and leaves the rows exact.      *)
LEMMA AverageExact ==
  ASSUME IInv, Ordered, Separate, NameOrder, Firm, \A t \in Tables : Exact(t), Average
  PROVE  Firm' /\ \A t \in Tables : Exact(t)'
<1>. PICK p \in todo : /\ Visit(p) /\ ~NoAggregate(p) /\ Gated(p, Candidates(p)) # {}
                       /\ built' = [built EXCEPT ![phase] =
                                      WithRow(@, p, Row(p, Gated(p, Candidates(p))))]
                       /\ Settle(p)
                       /\ UNCHANGED <<Static, phase, pass>>
  BY DEF Average
<1>. DEFINE subs == Below(phase, p)
<1>0. /\ Shaped /\ phase \in Tables /\ phase # "done" /\ p \in remaining /\ p \in Ancestors
      /\ UNCHANGED <<Static, phase>> /\ UNCHANGED Static /\ UNCHANGED phase /\ family' = family
      /\ pass' = pass /\ p = Min(todo) /\ remaining' = remaining \ {p} /\ todo' = todo \ {p}
      /\ Ancestors' = Ancestors
  BY VisitTodo DEF IInv, Shaped, Visit, Settle, Static, Ancestors
<1>1. Gated(p, Candidates(p)) = subs /\ Averages(p, Have(phase))
  BY CandidatesHave DEF Below, Averages
<1>2. /\ \A t \in Tables : t # phase => built'[t] = built[t]
      /\ \A t, c : t \in Tables /\ (t # phase \/ c # p) => FinalRow(t, c)' = FinalRow(t, c)
      /\ built'[phase][p] = Row(p, subs) /\ DOMAIN built'[phase] = DOMAIN built[phase] \cup {p}
      /\ \A c \in DOMAIN built[phase] : c # p => built'[phase][c] = built[phase][c]
      /\ \A t \in Tables : Have(t) \subseteq Have(t)' /\ Have(t)' \subseteq Have(t) \cup {p}
      /\ \A t \in Tables : t # phase /\ phase # "best" => Have(t)' = Have(t)
  <2>1. \A row : built' = [built EXCEPT ![phase] = WithRow(@, p, row)] =>
          /\ \A t \in Tables : t # phase => built'[t] = built[t]
          /\ \A t, c : t \in Tables /\ (t # phase \/ c # p) => FinalRow(t, c)' = FinalRow(t, c)
          /\ built'[phase][p] = row /\ DOMAIN built'[phase] = DOMAIN built[phase] \cup {p}
          /\ \A c \in DOMAIN built[phase] : c # p => built'[phase][c] = built[phase][c]
          /\ \A t \in Tables : Have(t) \subseteq Have(t)' /\ Have(t)' \subseteq Have(t) \cup {p}
          /\ \A t \in Tables : t # phase /\ phase # "best" => Have(t)' = Have(t)
    BY <1>0, OneRow
  <2>2. built' = [built EXCEPT ![phase] = WithRow(@, p, Row(p, subs))]
    BY <1>1
  <2>. HIDE DEF subs
  <2>. QED
    BY <2>1, <2>2
<1>3. pass = 1 /\ \A c \in Ancestors \ (todo \ {p}) : <<p, c>> \notin shape.sub
  BY <1>0, <1>1, InOrder
<1>. HIDE DEF subs
<1>4. \A t, q : t \in Tables /\ (Have(t)' = Have(t) \/ <<p, q>> \notin shape.sub) =>
        /\ Below(t, q)' = Below(t, q) /\ Averages(q, Have(t))' = Averages(q, Have(t))
        /\ <<p, q>> \notin shape.sub => p \notin Below(t, q)
  BY <1>0, <1>2, BelowKept
<1>5. Firm'
  <2>1. \A c \in Ancestors \ todo' : \A d \in todo' : c < d
    BY <1>0, <1>3, First
  <2>2. ASSUME NEW c \in remaining' \ todo' PROVE ~Averages(c, Have(phase))'
    <3>1. c \in remaining \ todo /\ c \in Ancestors
      BY <1>0 DEF Shaped
    <3>2. ~Averages(c, Have(phase))
      BY <1>0, <1>3, <3>1 DEF Firm
    <3>3. <<p, c>> \notin shape.sub
      BY <1>3, <3>1
    <3>. QED
      BY <1>0, <1>4, <3>2, <3>3
  <2>. QED
    BY <1>0, <1>3, <2>1, <2>2 DEF Firm
<1>6. ASSUME NEW t \in Tables, NEW q \in DOMAIN built'[t] PROVE ExactRow(t, q)'
  <2>1. CASE t = phase /\ q = p
    <3>1. <<p, p>> \notin shape.sub
      BY <1>0, <1>3
    <3>2. /\ Below(t, p)' = subs /\ Averages(p, Have(t))' = Averages(p, Have(t)) /\ p \notin subs
      BY <1>4, <2>1, <3>1 DEF subs
    <3>3. IsExact(phase, Row(p, subs), FinalRow("best", p), subs, RowsOf("best", subs), RowsOf(phase, subs))
      BY <1>0, RowExact
    <3>4. /\ RowsOf("best", Below(t, p))' = RowsOf("best", subs)
          /\ RowsOf(t, Below(t, p))' = RowsOf(t, subs)
      <4>1. \A s \in subs : FinalRow("best", s)' = FinalRow("best", s) /\ FinalRow(t, s)' = FinalRow(t, s)
        BY <1>2, <3>2 DEF Tables
      <4>. QED
        BY <3>2, <4>1 DEF RowsOf
    <3>5. t = "best" \/ FinalRow("best", p)' = FinalRow("best", p)
      BY <1>2, <2>1 DEF Tables
    <3>6. built'[t][p] = Row(p, subs)
      BY <1>2, <2>1
    <3>7. IsExact(t, built[t][p], FinalRow("best", p), Below(t, p),
                  RowsOf("best", Below(t, p)), RowsOf(t, Below(t, p)))'
      <4>1. CASE t = "best"
        BY <1>0, <2>1, <3>2, <3>3, <3>4, <3>6, <4>1 DEF IsExact
      <4>2. CASE FinalRow("best", p)' = FinalRow("best", p)
        BY <1>0, <2>1, <3>2, <3>3, <3>4, <3>6, <4>2 DEF IsExact
      <4>. QED
        BY <3>5, <4>1, <4>2
    <3>. QED
      BY <1>1, <2>1, <3>2, <3>7 DEF ExactRow
  <2>2. CASE t = phase /\ q # p
    <3>1. q \in DOMAIN built[t] /\ built'[t][q] = built[t][q] /\ ExactRow(t, q)
      BY <1>2, <2>2 DEF Exact
    <3>2. q \in Ancestors /\ q \notin todo
      BY <1>0, <2>2, <3>1 DEF Ordered, Shaped
    <3>3. <<p, q>> \notin shape.sub
      BY <1>3, <3>2
    <3>4. Below(t, q)' = Below(t, q) /\ Averages(q, Have(t))' = Averages(q, Have(t)) /\ p \notin Below(t, q)
      BY <1>4, <3>3
    <3>5. /\ FinalRow("best", q)' = FinalRow("best", q)
          /\ \A s \in Below(t, q) : /\ FinalRow("best", s)' = FinalRow("best", s)
                                    /\ FinalRow(t, s)' = FinalRow(t, s)
      BY <1>2, <2>2, <3>4 DEF Tables
    <3>. QED
      BY <1>0, <3>1, <3>4, <3>5, ExactKept
  <2>3. CASE t # phase
    <3>1. q \in DOMAIN built[t] /\ built'[t][q] = built[t][q] /\ ExactRow(t, q)
      BY <1>2, <2>3 DEF Exact
    <3>2. phase # "best"
      BY <2>3, <3>1 DEF Ordered, Tables
    <3>3. Below(t, q)' = Below(t, q) /\ Averages(q, Have(t))' = Averages(q, Have(t))
      BY <1>2, <1>4, <2>3, <3>2
    <3>4. /\ FinalRow("best", q)' = FinalRow("best", q)
          /\ \A s \in Below(t, q) : /\ FinalRow("best", s)' = FinalRow("best", s)
                                    /\ FinalRow(t, s)' = FinalRow(t, s)
      BY <1>2, <2>3, <3>2 DEF Tables
    <3>. QED
      BY <1>0, <3>1, <3>3, <3>4, ExactKept
  <2>. QED
    BY <2>1, <2>2, <2>3
<1>7. \A t \in Tables : Exact(t)'
  BY <1>6 DEF Exact
<1>. QED
  BY <1>5, <1>7

(* A step that changes no row leaves the rows exact.                         *)
LEMMA ExactSame ==
  ASSUME UNCHANGED <<Static, built>>, \A t \in Tables : Exact(t)
  PROVE  \A t \in Tables : Exact(t)'
<1>1. UNCHANGED Static /\ UNCHANGED built /\ family' = family
  BY DEF Static
<1>2. \A t : Final(t)' = Final(t) /\ Have(t)' = Have(t)
  BY SameTables
<1>3. \A t, c : FinalRow(t, c)' = FinalRow(t, c)
  BY <1>2 DEF FinalRow
<1>4. \A t, q : Below(t, q)' = Below(t, q) /\ Averages(q, Have(t))' = Averages(q, Have(t))
  BY <1>1, <1>2, BelowKept
<1>. SUFFICES ASSUME NEW t \in Tables, NEW q \in DOMAIN built'[t] PROVE ExactRow(t, q)'
  BY DEF Exact
<1>5. q \in DOMAIN built[t] /\ built'[t][q] = built[t][q] /\ ExactRow(t, q)
  BY <1>1 DEF Exact
<1>. QED
  BY <1>1, <1>3, <1>4, <1>5, ExactKept

(* Every step leaves the rows exact, and the first pass in order.            *)
LEMMA StepExact == IInv /\ XInv /\ [Next]_vars => XInv'
<1>. SUFFICES ASSUME IInv, XInv, [Next]_vars PROVE XInv'
  OBVIOUS
<1>0. UNCHANGED Static /\ Shaped
  BY DEF Next, vars, Await, Drop, Average, NextPass, NextTable, Static, IInv
<1>1. UNCHANGED <<shape, family, leaf>> /\ Ancestors' = Ancestors
  BY <1>0 DEF Static, Ancestors
<1>2. Ordered'
  BY StepOrdered DEF XInv
<1>3. Pooled'
  BY <1>1 DEF Pooled, XInv
<1>4. NameOrder' = NameOrder /\ Separate' = Separate
  BY <1>1 DEF NameOrder, Separate, Ancestors
<1>. SUFFICES ASSUME NameOrder, Separate PROVE Firm' /\ \A t \in Tables : Exact(t)'
  BY <1>2, <1>3, <1>4 DEF XInv
<1>5. Ordered /\ Firm /\ \A t \in Tables : Exact(t)
  BY DEF XInv
<1>6. CASE Average
  BY <1>5, <1>6, AverageExact
<1>7. CASE ~Average
  <2>1. UNCHANGED <<Static, built>>
    BY <1>7 DEF Next, vars, Await, Drop, NextPass, NextTable, Static
  <2>2. \A p, X : Averages(p, X)' = Averages(p, X)
    BY <2>1, SameTables
  <2>3. \A t : Have(t)' = Have(t)
    BY <2>1, SameTables
  <2>4. CASE UNCHANGED vars
    <3>1. UNCHANGED <<phase, pass, todo, remaining>>
      BY <2>4 DEF vars
    <3>. QED
      BY <1>1, <1>5, <2>1, <2>2, <2>3, <3>1, ExactSame DEF Firm
  <2>5. CASE Await
    <3>. PICK p \in todo : /\ Visit(p)
                           /\ Candidates(p) = {} \/ (~NoAggregate(p) /\ Gated(p, Candidates(p)) = {})
                           /\ UNCHANGED <<Static, built, phase, pass, remaining, progressed>>
      BY <2>5 DEF Await
    <3>1. UNCHANGED <<phase, pass, remaining>> /\ p = Min(todo) /\ todo' = todo \ {p} /\ phase # "done"
      BY DEF Visit
    <3>2. ~Averages(p, Have(phase))
      <4>1. \A X : X = {} => Gated(p, X) = {}
        BY DEF Gated
      <4>. QED
        BY <4>1, CandidatesHave DEF Averages
    <3>3. pass = 1 => \A c \in Ancestors \ todo' : \A d \in todo' : c < d
      BY <1>0, <1>5, <3>1, First
    <3>. QED
      BY <1>1, <1>5, <2>1, <2>2, <2>3, <3>1, <3>2, <3>3, ExactSame DEF Firm
  <2>6. CASE Drop
    <3>. PICK p \in todo : /\ Visit(p) /\ NoAggregate(p) /\ Settle(p)
                           /\ UNCHANGED <<Static, built, phase, pass>>
      BY <2>6 DEF Drop
    <3>1. /\ UNCHANGED <<phase, pass>> /\ p = Min(todo) /\ todo' = todo \ {p} /\ phase # "done"
          /\ remaining' = remaining \ {p}
      BY DEF Visit, Settle
    <3>3. pass = 1 => \A c \in Ancestors \ todo' : \A d \in todo' : c < d
      BY <1>0, <1>5, <3>1, First
    <3>. QED
      BY <1>1, <1>5, <2>1, <2>2, <2>3, <3>1, <3>3, ExactSame DEF Firm
  <2>7. CASE NextPass
    <3>1. /\ UNCHANGED <<phase, remaining>> /\ pass' = pass + 1 /\ todo = {} /\ phase # "done"
      BY <2>7 DEF NextPass
    <3>2. \A c \in remaining : ~Averages(c, Have(phase))
      BY <1>5, <3>1 DEF Firm
    <3>3. pass' # 1
      BY <1>0, <3>1 DEF Shaped
    <3>. QED
      BY <1>5, <2>1, <2>2, <2>3, <3>1, <3>2, <3>3, ExactSame DEF Firm
  <2>8. CASE NextTable
    <3>1. /\ pass' = 1 /\ remaining' = Ancestors /\ todo' = IF phase' = "done" THEN {} ELSE Ancestors
      BY <2>8 DEF NextTable
    <3>. QED
      BY <1>1, <1>5, <2>1, <3>1, ExactSame DEF Firm
  <2>. QED
    BY <1>5, <1>7, <2>1, <2>4, <2>5, <2>6, <2>7, <2>8, ExactSame DEF Next
<1>. QED
  BY <1>6, <1>7

-----------------------------------------------------------------------------
(* At the end the tables have rows for the same classes.                     *)
LEMMA SameClasses ==
  ASSUME IInv, Done, \A t \in Tables : Exact(t), Ordered, family # "partof"
  PROVE  \A t \in Tables : Have(t) = Have("best") /\ DOMAIN built[t] = DOMAIN built["best"]
<1>0. Shaped /\ Grounded /\ \A t \in Tables : Fixpoint(t) /\ Exact(t)
  BY DEF IInv, Done, Over
<1>1. ASSUME family = "class", NEW t \in Tables, NEW u \in Tables
      PROVE  Have(u) \subseteq Have(t)
  <2>1. Have(t) = DOMAIN Final(t) /\ Have(u) = DOMAIN Final(u) /\ DOMAIN Final(t) = DOMAIN built[t] \cup DOMAIN leaf[t]
    BY <1>1 DEF Have, Final
  <2>2. Upward(DOMAIN Final(t))
    BY <1>0, <2>1 DEF Fixpoint, Upward
  <2>3. DOMAIN leaf["best"] \subseteq DOMAIN Final(t)
    BY <1>0, <2>1 DEF Shaped
  <2>. QED
    BY <1>0, <2>1, <2>2, <2>3 DEF Grounded
<1>2. \A t \in Tables : Have(t) = Have("best")
  BY <1>1 DEF Have, Tables
<1>3. ASSUME NEW t \in Tables, NEW u \in Tables, NEW p \in DOMAIN built[u]
      PROVE  p \in DOMAIN built[t]
  <2>1. p \in Ancestors /\ Averages(p, Have(u))
    BY <1>0 DEF Ordered, Exact, ExactRow
  <2>2. Have(u) = Have(t)
    BY <1>2
  <2>. QED
    BY <1>0, <2>1, <2>2 DEF Fixpoint
<1>. QED
  BY <1>2, <1>3 DEF Tables

(* What is said of an exact row, in terms of the rows served.                *)
Found(p, e) == {s \in Below("best", p) : e \in DOMAIN FinalRow("best", s)}
SumServed(e, with) == SumOf([s \in with |-> FinalRow("best", s)[e].amt])

LEMMA MeanSaid ==
  ASSUME \A t \in Tables : Exact(t), NEW p \in DOMAIN built["best"], NEW e
  PROVE  /\ e \in DOMAIN built["best"][p] <=> Found(p, e) # {}
         /\ e \in DOMAIN built["best"][p] =>
              /\ built["best"][p][e].of = Found(p, e)
              /\ built["best"][p][e].amt = SumServed(e, Found(p, e))
                   \div Cardinality(IF family = "class" THEN Found(p, e) ELSE Below("best", p))
<1>. DEFINE B == RowsOf("best", Below("best", p))
            found == {s \in Below("best", p) : e \in DOMAIN B[s]}
<1>1. Mean(built["best"][p], Below("best", p), B, family = "class")
  BY DEF Exact, ExactRow, IsExact, Tables
<1>2. \A s \in Below("best", p) : B[s] = FinalRow("best", s)
  BY DEF RowsOf
<1>. HIDE DEF B
<1>3. found = Found(p, e)
  BY <1>2 DEF Found
<1>4. SumOf([s \in Found(p, e) |-> B[s][e].amt]) = SumServed(e, Found(p, e))
  <2>1. [s \in Found(p, e) |-> B[s][e].amt] = [s \in Found(p, e) |-> FinalRow("best", s)[e].amt]
    BY <1>2 DEF Found
  <2>. QED
    BY <2>1 DEF SumServed
<1>5. /\ e \in DOMAIN built["best"][p] <=> found # {}
      /\ e \in DOMAIN built["best"][p] =>
           /\ built["best"][p][e].of = found
           /\ built["best"][p][e].amt = SumOf([s \in found |-> B[s][e].amt])
                \div Cardinality(IF family = "class" THEN found ELSE Below("best", p))
  BY <1>1 DEF Mean
<1>. HIDE DEF found
<1>. QED
  BY <1>3, <1>4, <1>5

(* The same of a row of spreads, and of one of scores.                       *)
LEMMA TwinsSaid ==
  ASSUME \A t \in Tables : Exact(t), NEW p, NEW e
  PROVE  /\ p \in DOMAIN built["spread"] /\ e \in DOMAIN built["spread"][p] =>
              /\ e \in DOMAIN FinalRow("best", p)
              /\ built["spread"][p][e] = {s \in Below("spread", p) :
                   e \in DOMAIN FinalRow("best", s) /\ e \in DOMAIN FinalRow("spread", s)}
         /\ p \in DOMAIN built["quality"] =>
              (e \in DOMAIN built["quality"][p] <=>
                 {s \in Below("quality", p) :
                    e \in DOMAIN FinalRow("best", s) /\ e \in DOMAIN FinalRow("quality", s)} # {})
<1>1. ASSUME NEW t, NEW C
      PROVE  {s \in C : e \in DOMAIN RowsOf("best", C)[s] /\ e \in DOMAIN RowsOf(t, C)[s]}
               = {s \in C : e \in DOMAIN FinalRow("best", s) /\ e \in DOMAIN FinalRow(t, s)}
  BY DEF RowsOf
<1>2. p \in DOMAIN built["spread"] =>
        Spreads(built["spread"][p], FinalRow("best", p), Below("spread", p),
                RowsOf("best", Below("spread", p)), RowsOf("spread", Below("spread", p)))
  BY DEF Exact, ExactRow, IsExact, Tables
<1>3. p \in DOMAIN built["quality"] =>
        Ranks(built["quality"][p], Below("quality", p),
              RowsOf("best", Below("quality", p)), RowsOf("quality", Below("quality", p)))
  BY DEF Exact, ExactRow, IsExact, Tables
<1>4. p \in DOMAIN built["spread"] /\ e \in DOMAIN built["spread"][p] =>
        /\ e \in DOMAIN FinalRow("best", p)
        /\ built["spread"][p][e] = {s \in Below("spread", p) :
             e \in DOMAIN FinalRow("best", s) /\ e \in DOMAIN FinalRow("spread", s)}
  BY <1>1, <1>2 DEF Spreads
<1>5. p \in DOMAIN built["quality"] =>
        (e \in DOMAIN built["quality"][p] <=>
           {s \in Below("quality", p) :
              e \in DOMAIN FinalRow("best", s) /\ e \in DOMAIN FinalRow("quality", s)} # {})
  BY <1>1, <1>3 DEF Ranks
<1>. QED
  BY <1>4, <1>5

(* At the end a spread and a score are of elements of the value.             *)
LEMMA TwinElements ==
  ASSUME IInv, Done, \A t \in Tables : Exact(t), Ordered, Pooled,
         NEW t \in {"spread", "quality"}, NEW s, NEW e \in DOMAIN FinalRow(t, s)
  PROVE  e \in DOMAIN FinalRow("best", s)
<1>0. /\ Shaped /\ t \in Tables
      /\ family = "partof" => DOMAIN built[t] = {}
      /\ s \in DOMAIN built[t] => FinalRow(t, s) = built[t][s]
      /\ s \notin DOMAIN built[t] /\ s \in DOMAIN leaf[t] => FinalRow(t, s) = leaf[t][s]
      /\ s \in DOMAIN built["best"] => FinalRow("best", s) = built["best"][s]
      /\ s \notin DOMAIN built["best"] /\ s \in DOMAIN leaf["best"] => FinalRow("best", s) = leaf["best"][s]
  BY DEF IInv, Ordered, FinalRow, Final, Tables
<1>1. s \in DOMAIN built[t] \/ s \in DOMAIN leaf[t]
  BY DEF FinalRow, Final, Empty
<1>2. CASE s \notin DOMAIN built[t]
  <2>1. s \in DOMAIN leaf["best"]
    BY <1>0, <1>1, <1>2 DEF Shaped
  <2>2. e \in DOMAIN leaf[t][s]
    BY <1>0, <1>1, <1>2
  <2>3. e \in DOMAIN leaf["best"][s] /\ family # "partof"
    BY <2>1, <2>2 DEF Pooled
  <2>4. s \notin DOMAIN built["best"]
    BY <1>0, <1>2, <2>3, SameClasses
  <2>. QED
    BY <1>0, <2>1, <2>3, <2>4
<1>3. CASE s \in DOMAIN built[t] /\ t = "spread"
  BY <1>0, <1>3, TwinsSaid
<1>4. CASE s \in DOMAIN built[t] /\ t = "quality"
  <2>1. s \in DOMAIN built["best"] /\ Have("quality") = Have("best")
    BY <1>0, <1>4, SameClasses
  <2>2. PICK c \in Below("quality", s) : e \in DOMAIN FinalRow("best", c)
    BY <1>0, <1>4, TwinsSaid
  <2>3. c \in {x \in Below("best", s) : e \in DOMAIN FinalRow("best", x)}
    BY <2>1, <2>2 DEF Below
  <2>4. e \in DOMAIN built["best"][s]
    BY <2>1, <2>3, MeanSaid DEF Found
  <2>. QED
    BY <1>0, <2>1, <2>4
<1>. QED
  BY <1>2, <1>3, <1>4

(* What a class is averaged over is what contributes to it.                  *)
LEMMA BelowContribute ==
  ASSUME Shaped, NEW p
  PROVE  Below("best", p) = Contributors(p)
<1>1. shape.sub \subseteq Nat \X Nat
  BY RollupAssumption DEF Shaped, ShapeOK
<1>2. \A s : s \in {e[1] : e \in {d \in shape.sub : d[2] = p}} <=> <<s, p>> \in shape.sub
  BY <1>1
<1>3. Have("best") = DOMAIN Final("best")
  BY DEF Have
<1>. QED
  BY <1>2, <1>3 DEF Below, Contributors, Gated

(* When every class is named before its superclasses, one pass is exact: in  *)
(* every family an averaged cell is the mean over every class below it that  *)
(* has the element, from their final rows, and its spread and its score are  *)
(* taken over every one with a spread and a score.                           *)
THEOREM ExactWhenOrdered == Spec => []ExactInNameOrder
<1>1. ASSUME IInv, XInv, Done, NameOrder, Separate,
             NEW p \in DOMAIN built["best"], NEW e \in DOMAIN built["best"][p]
      PROVE  /\ built["best"][p][e].of = {s \in Contributors(p) : e \in DOMAIN FinalRow("best", s)}
             /\ built["best"][p][e].amt =
                  SumServed(e, {s \in Contributors(p) : e \in DOMAIN FinalRow("best", s)})
                    \div Cardinality(IF family = "class" THEN {s \in Contributors(p) : e \in DOMAIN FinalRow("best", s)} ELSE Contributors(p))
             /\ e \in DOMAIN FinalRow("spread", p) =>
                  FinalRow("spread", p)[e] = {s \in Contributors(p) : e \in DOMAIN FinalRow("spread", s)}
             /\ e \in DOMAIN FinalRow("quality", p) <=> {s \in Contributors(p) : e \in DOMAIN FinalRow("quality", s)} # {}
  <2>. DEFINE C == Contributors(p)
  <2>0. Shaped /\ Ordered /\ Pooled /\ \A t \in Tables : Exact(t)
    BY <1>1 DEF IInv, XInv
  <2>1. C = Below("best", p)
    BY <2>0, BelowContribute
  <2>2. /\ built["best"][p][e].of = {s \in C : e \in DOMAIN FinalRow("best", s)}
        /\ built["best"][p][e].amt =
             SumServed(e, {s \in C : e \in DOMAIN FinalRow("best", s)})
               \div Cardinality(IF family = "class" THEN {s \in C : e \in DOMAIN FinalRow("best", s)} ELSE C)
    BY <2>0, <2>1, MeanSaid DEF Found
  <2>3. \A t \in {"spread", "quality"} : \A s : e \in DOMAIN FinalRow(t, s) => e \in DOMAIN FinalRow("best", s)
    BY <1>1, <2>0, TwinElements
  <2>4. CASE family # "partof"
    <3>1. /\ p \in DOMAIN built["spread"] /\ p \in DOMAIN built["quality"]
          /\ Have("spread") = Have("best") /\ Have("quality") = Have("best")
      BY <1>1, <2>0, <2>4, SameClasses DEF Tables
    <3>2. Below("spread", p) = C /\ Below("quality", p) = C
      BY <2>1, <3>1 DEF Below
    <3>3. FinalRow("spread", p) = built["spread"][p] /\ FinalRow("quality", p) = built["quality"][p]
      BY <3>1 DEF FinalRow, Final
    <3>4. \A t \in {"spread", "quality"} :
            {s \in C : e \in DOMAIN FinalRow("best", s) /\ e \in DOMAIN FinalRow(t, s)}
              = {s \in C : e \in DOMAIN FinalRow(t, s)}
      BY <2>3
    <3>5. /\ e \in DOMAIN built["spread"][p] =>
               built["spread"][p][e] = {s \in Below("spread", p) :
                 e \in DOMAIN FinalRow("best", s) /\ e \in DOMAIN FinalRow("spread", s)}
          /\ e \in DOMAIN built["quality"][p] <=>
               {s \in Below("quality", p) :
                  e \in DOMAIN FinalRow("best", s) /\ e \in DOMAIN FinalRow("quality", s)} # {}
      BY <2>0, <3>1, TwinsSaid
    <3>. QED
      BY <2>2, <3>2, <3>3, <3>4, <3>5
  <2>5. CASE family = "partof"
    <3>1. ASSUME NEW t \in {"spread", "quality"}, NEW s PROVE e \notin DOMAIN FinalRow(t, s)
      <4>1. DOMAIN built[t] = {} /\ DOMAIN leaf[t] = DOMAIN leaf["best"]
        BY <2>0, <2>5 DEF Ordered, Shaped, Tables
      <4>2. s \in DOMAIN leaf[t] => DOMAIN leaf[t][s] = {}
        BY <2>0, <2>5, <4>1 DEF Pooled
      <4>3. DOMAIN FinalRow(t, s) = {}
        BY <4>1, <4>2 DEF FinalRow, Final, Empty
      <4>. QED
        BY <4>3
    <3>. QED
      BY <2>2, <3>1
  <2>. QED
    BY <2>4, <2>5
<1>2. IInv /\ XInv => ExactInNameOrder
  <2>. SUFFICES ASSUME IInv, XInv, Done, NameOrder, Separate,
                       NEW p \in DOMAIN built["best"], NEW e \in DOMAIN built["best"][p]
                PROVE  LET cell == built["best"][p][e]
                           with(t) == {s \in Contributors(p) : e \in DOMAIN FinalRow(t, s)}
                           n == Cardinality(IF family = "class" THEN with("best") ELSE Contributors(p))
                       IN  /\ cell.of = with("best")
                           /\ cell.amt = SumOf([s \in with("best") |-> FinalRow("best", s)[e].amt]) \div n
                           /\ e \in DOMAIN FinalRow("spread", p) => FinalRow("spread", p)[e] = with("spread")
                           /\ e \in DOMAIN FinalRow("quality", p) <=> with("quality") # {}
    BY DEF ExactInNameOrder
  <2>. QED
    BY <1>1 DEF SumServed
<1>3. Spec => [](IInv /\ XInv)
  BY InitInv, StepInv, InitExact, StepExact, PTL DEF Spec
<1>. QED
  BY <1>2, <1>3, PTL
=============================================================================
