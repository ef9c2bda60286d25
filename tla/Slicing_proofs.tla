---------------------------- MODULE Slicing_proofs ----------------------------
(* What the two slicers keep of a store graph, for every taxonomy and every  *)
(* graph: how the names of the classes, their edges and the types of an      *)
(* instance hang together after any number of finalisations.                 *)
EXTENDS Slicing, FiniteSetTheorems, WellFoundedInduction, SequenceTheorems,
        TLAPS

-----------------------------------------------------------------------------
(* Set-theoretic facts about instances.                                      *)
LEMMA UnionInstances ==
  ASSUME NEW a, NEW b
  PROVE  Instances(Union(a, b)) = Instances(a) \cup Instances(b)
  BY DEF Instances, Union

(* The new type triples of MintLeaves are about instances that had a type.   *)
LEMMA MintLeavesInstances ==
  ASSUME NEW g
  PROVE  Instances(MintLeaves(g)) \subseteq Instances(g)
<1>1. MintLeaves(g).type = {<<t[1], slice_name(t[2], t[1].year)>> : t \in Unsliced(g)}
  BY DEF MintLeaves, EmptyGraph
<1>2. Unsliced(g) \subseteq g.type
  BY DEF Unsliced
<1>. QED
  BY <1>1, <1>2 DEF Instances

(* Ancestor slices type no instance.                                         *)
LEMMA MintAncestorsInstances ==
  ASSUME NEW g
  PROVE  Instances(MintAncestors(g)) = {}
<1>1. MintAncestors(g).type = {}
  BY DEF MintAncestors, EmptyGraph
<1>. QED
  BY <1>1 DEF Instances

(* Neither does the year pass as a whole.                                    *)
LEMMA YearSliceInstances ==
  ASSUME NEW g
  PROVE  Instances(YearSlice(g)) = Instances(g)
  BY UnionInstances, MintLeavesInstances, MintAncestorsInstances DEF YearSlice

(* A graph is a record with the six fields; every Union is one.              *)
IsGraph(g) ==
  g = [type |-> g.type, sub |-> g.sub, sliceOf |-> g.sliceOf, axis |-> g.axis,
       scope |-> g.scope, strategy |-> g.strategy]

(* What Union builds is a graph, whatever it is given.                       *)
LEMMA UnionIsGraph == ASSUME NEW a, NEW b PROVE IsGraph(Union(a, b))
  BY DEF IsGraph, Union

(* Replacing some pairs of a set by pairs with the same first components     *)
(* keeps the first components.                                               *)
LEMMA ReplacePairs ==
  ASSUME NEW S, NEW M \in SUBSET S, NEW N,
         \A t \in M : \E u \in N : u[1] = t[1],
         \A u \in N : \E t \in M : u[1] = t[1]
  PROVE  {t[1] : t \in (S \ M) \cup N} = {t[1] : t \in S}
  OBVIOUS

(* Retyping moves type triples, it drops no instance.                        *)
LEMMA ValueSliceInstances ==
  ASSUME NEW g, IsGraph(g)
  PROVE  Instances(ValueSlice(g)) = Instances(g)
<1>. DEFINE moved == Retyped(g)
            onto == {<<t[1], leaf_name(g, t)>> : t \in moved}
            stay == [g EXCEPT !.type = (@ \ moved) \cup onto]
            leaves == {<<leaf_name(g, t), t[2]>> : t \in moved}
<1>1. moved \in SUBSET g.type
  BY DEF Retyped
<1>2. /\ \A t \in moved : \E u \in onto : u[1] = t[1]
      /\ \A u \in onto : \E t \in moved : u[1] = t[1]
  <2>. HIDE DEF moved
  <2>1. ASSUME NEW t \in moved PROVE \E u \in onto : u[1] = t[1]
    <3>1. <<t[1], leaf_name(g, t)>> \in onto
      OBVIOUS
    <3>. QED
      BY <3>1
  <2>2. ASSUME NEW u \in onto PROVE \E t \in moved : u[1] = t[1]
    <3>1. PICK t \in moved : u = <<t[1], leaf_name(g, t)>>
      OBVIOUS
    <3>. QED
      BY <3>1
  <2>. QED
    BY <2>1, <2>2
<1>3. stay.type = (g.type \ moved) \cup onto
  BY DEF IsGraph
<1>4. Instances(stay) = Instances(g)
  <2>. HIDE DEF moved, onto, stay
  <2>. QED
    BY <1>1, <1>2, <1>3, ReplacePairs DEF Instances
<1>5. Instances(emit_leaf(g, leaves)) = {}
  <2>1. emit_leaf(g, leaves).type = {}
    BY DEF emit_leaf, EmptyGraph
  <2>. QED
    BY <2>1 DEF Instances
<1>6. ValueSlice(g) = Union(stay, emit_leaf(g, leaves))
  BY DEF ValueSlice
<1>7. Instances(ValueSlice(g)) = Instances(stay) \cup Instances(emit_leaf(g, leaves))
  <2>. HIDE DEF stay, leaves
  <2>. QED
    BY <1>6, UnionInstances
<1>. QED
  BY <1>4, <1>5, <1>7

(* Finalising keeps the set of instances.                                    *)
LEMMA FinaliseInstances ==
  ASSUME NEW g
  PROVE  Instances(Finalise(g)) = Instances(g)
<1>. DEFINE y == YearSlice(g)
            v == ValueSlice(y)
<1>1. IsGraph(y) /\ IsGraph(v)
  BY UnionIsGraph DEF YearSlice, ValueSlice
<1>2. attach_value_strategy(v).type = v.type
  BY <1>1 DEF attach_value_strategy, IsGraph
<1>3. Instances(attach_value_strategy(v)) = Instances(v)
  BY <1>2 DEF Instances
<1>. QED
  BY <1>1, <1>3, YearSliceInstances, ValueSliceInstances DEF Finalise

-----------------------------------------------------------------------------
(* Walks.  X holds whatever an edge of E leads to from it.                   *)
Closed(E, X) == \A e \in E : e[1] \in X => e[2] \in X

(* One round of a walk.                                                      *)
Round(E, X) == X \cup {e[2] : e \in {d \in E : d[1] \in X}}

(* The image of a finite set under a function is finite.                     *)
LEMMA FiniteImage ==
  ASSUME NEW S, IsFiniteSet(S), NEW f, DOMAIN f = S, f = [x \in S |-> f[x]]
  PROVE  IsFiniteSet({f[x] : x \in S})
<1>1. f \in Surjection(S, {f[x] : x \in S})
  BY DEF Surjection
<1>. QED
  BY <1>1, FS_Surjection

(* The greatest of a family of subsets of a finite set.                      *)
LEMMA Greatest ==
  ASSUME NEW N, IsFiniteSet(N), NEW B \in SUBSET SUBSET N, B # {}
  PROVE  \E X \in B : \A Y \in B : X \subseteq Y => X = Y
<1>. DEFINE C == {N \ X : X \in B}
<1>1. IsWellFoundedOn(StrictSubsetOrdering(N), SUBSET N)
  BY FS_StrictSubsetOrderingWellFounded, FS_FiniteSubsetsOfFinite
<1>2. PICK x \in C : \A y \in C : ~ (<<y, x>> \in StrictSubsetOrdering(N))
  <2>1. C \subseteq SUBSET N
    OBVIOUS
  <2>2. C # {}
    <3>1. PICK X \in B : TRUE
      OBVIOUS
    <3>2. N \ X \in C
      OBVIOUS
    <3>. QED
      BY <3>2
  <2>. HIDE DEF C
  <2>. QED
    BY <1>1, <2>1, <2>2, WFMin
<1>3. PICK X \in B : x = N \ X
  OBVIOUS
<1>4. ASSUME NEW Y \in B, X \subseteq Y PROVE X = Y
  <2>1. N \ Y \subseteq N \ X /\ N \ Y \in C
    BY <1>4
  <2>2. N \ Y = N \ X
    BY <1>2, <1>3, <2>1 DEF StrictSubsetOrdering
  <2>. QED
    BY <2>2
<1>. QED
  BY <1>4

(* Reach is the least set that holds S and is closed under E.                *)
LEMMA ReachLeast ==
  ASSUME NEW E, IsFiniteSet(E), NEW S, IsFiniteSet(S)
  PROVE  /\ S \subseteq Reach(E, S)
         /\ Closed(E, Reach(E, S))
         /\ \A T : S \subseteq T /\ Closed(E, T) => Reach(E, S) \subseteq T
         /\ IsFiniteSet(Reach(E, S))
<1>. DEFINE Nodes == S \cup {e[2] : e \in E}
            Eq(g) == g = [X \in SUBSET Nodes |->
                            IF Round(E, X) = X THEN X ELSE g[Round(E, X)]]
            grow == CHOOSE g : Eq(g)
            hull == [X \in SUBSET Nodes |->
                       {n \in Nodes : \A T \in SUBSET Nodes :
                          X \subseteq T /\ Closed(E, T) => n \in T}]
<1>1. Reach(E, S) = grow[S]
  BY DEF Reach, Round
<1>2. IsFiniteSet(Nodes)
  <2>. DEFINE f == [e \in E |-> e[2]]
  <2>1. IsFiniteSet({f[e] : e \in E})
    BY FiniteImage
  <2>2. {f[e] : e \in E} = {e[2] : e \in E}
    OBVIOUS
  <2>. QED
    BY <2>1, <2>2, FS_Union
<1>3. \A X \in SUBSET Nodes : Round(E, X) \in SUBSET Nodes /\ X \subseteq Round(E, X)
  BY DEF Round
<1>4. \A X \in SUBSET Nodes : Round(E, X) = X <=> Closed(E, X)
  BY DEF Round, Closed
<1>5. \A X \in SUBSET Nodes : \A T : X \subseteq T /\ Closed(E, T) => Round(E, X) \subseteq T
  BY DEF Round, Closed
<1>. HIDE DEF Nodes
<1>6. \A X \in SUBSET Nodes :
        hull[X] = IF Round(E, X) = X THEN X ELSE hull[Round(E, X)]
  <2>. TAKE X \in SUBSET Nodes
  <2>1. CASE Round(E, X) = X
    BY <1>4, <2>1
  <2>2. CASE Round(E, X) # X
    <3>1. \A T \in SUBSET Nodes : Closed(E, T) => (X \subseteq T <=> Round(E, X) \subseteq T)
      BY <1>3, <1>5
    <3>. QED
      BY <1>3, <2>2, <3>1
  <2>. QED
    BY <2>1, <2>2
<1>7. Eq(hull)
  <2>. HIDE DEF hull
  <2>1. hull = [X \in SUBSET Nodes |-> hull[X]]
    BY DEF hull
  <2>. QED
    BY <1>6, <2>1
<1>8. Eq(grow)
  <2>. HIDE DEF hull, Eq
  <2>. QED
    BY <1>7
<1>9. \A X \in SUBSET Nodes : grow[X] = hull[X]
  <2>. DEFINE B == {X \in SUBSET Nodes : grow[X] # hull[X]}
  <2>0. \A X \in SUBSET Nodes :
          grow[X] = IF Round(E, X) = X THEN X ELSE grow[Round(E, X)]
    <3>. HIDE DEF grow
    <3>. QED
      BY <1>8
  <2>. HIDE DEF grow, hull
  <2>. SUFFICES ASSUME B # {} PROVE FALSE
    OBVIOUS
  <2>1. PICK X \in B : \A Y \in B : X \subseteq Y => X = Y
    <3>1. B \in SUBSET SUBSET Nodes
      OBVIOUS
    <3>. HIDE DEF B
    <3>. QED
      BY <1>2, <3>1, Greatest
  <2>2. Round(E, X) # X
    BY <1>6, <2>0
  <2>3. Round(E, X) \notin B
    BY <1>3, <2>1, <2>2
  <2>. QED
    BY <1>3, <1>6, <2>0, <2>2, <2>3
<1>10. S \in SUBSET Nodes /\ Reach(E, S) = hull[S]
  BY <1>1, <1>9 DEF Nodes
<1>11. Closed(E, hull[S]) /\ S \subseteq hull[S] /\ hull[S] \subseteq Nodes
  <2>1. \A e \in E : e[2] \in Nodes
    BY DEF Nodes
  <2>. QED
    BY <1>10, <2>1 DEF Closed
<1>12. ASSUME NEW T, S \subseteq T, Closed(E, T) PROVE hull[S] \subseteq T
  <2>1. Closed(E, T \cap Nodes)
    <3>1. \A e \in E : e[2] \in Nodes
      BY DEF Nodes
    <3>. QED
      BY <1>12, <3>1 DEF Closed
  <2>. QED
    BY <1>10, <1>12, <2>1
<1>. HIDE DEF hull
<1>. QED
  BY <1>2, <1>10, <1>11, <1>12, FS_Subset

(* What is reached from places another walk reaches, along some of its       *)
(* edges, is reached by it.                                                  *)
LEMMA ReachGrows ==
  ASSUME NEW E, NEW F, IsFiniteSet(F), E \subseteq F,
         NEW S, IsFiniteSet(S), NEW T, IsFiniteSet(T), S \subseteq Reach(F, T)
  PROVE  Reach(E, S) \subseteq Reach(F, T)
<1>1. IsFiniteSet(E)
  BY FS_Subset
<1>2. Closed(E, Reach(F, T))
  BY ReachLeast DEF Closed
<1>. QED
  BY <1>1, <1>2, ReachLeast

-----------------------------------------------------------------------------
(* The words names are made of.                                              *)
Word == STRING

(* Names, over a set Y of years.  A plain name is one word that is no year;  *)
(* a dated name ends in its year, after its base and any drivetrain values.  *)
Plain(Y) == {<<w>> : w \in Word \ Y}
Dated(Y, y) ==
  {c \in Seq(Word) : /\ Len(c) > 1
                       /\ c[Len(c)] = y
                       /\ \A k \in 1 .. Len(c) - 1 : c[k] \notin Y}
Base(c) == IF Len(c) = 1 THEN c ELSE <<c[Len(c) - 1]>>

Shorter(c, d) == Len(c) < Len(d)

(* d is c without one or more of its leading values.                         *)
Tails(c, d) ==
  /\ Len(d) > 1 /\ Shorter(d, c)
  /\ \A k \in 1 .. Len(d) : d[k] = c[k + (Len(c) - Len(d))]

(* No name is plain and dated, or dated twice.                               *)
LEMMA NamesApart ==
  ASSUME NEW Y, NEW y \in Y
  PROVE  /\ \A c \in Plain(Y) : Len(c) = 1 /\ Base(c) = c
         /\ \A c \in Dated(Y, y) : /\ Len(c) \in Nat /\ Len(c) > 1 /\ Base(c) \in Plain(Y)
                                  /\ (Len(c) = 2 \/ Len(c) > 2)
         /\ Plain(Y) \cap Dated(Y, y) = {}
         /\ \A z : z # y => Dated(Y, y) \cap Dated(Y, z) = {}
         /\ \A c \in Plain(Y), d \in Dated(Y, y) : Shorter(c, d)
         /\ \A c, d \in Dated(Y, y) : Len(d) = 2 => ~ Shorter(c, d)
<1>1. \A c \in Plain(Y) : Len(c) = 1
  BY DEF Plain
<1>2. ASSUME NEW c \in Dated(Y, y)
      PROVE  /\ Len(c) \in Nat /\ Len(c) > 1 /\ Base(c) \in Plain(Y)
             /\ Len(c) = 2 \/ Len(c) > 2
  <2>1. c \in Seq(Word) /\ Len(c) > 1 /\ Len(c) \in Nat
    BY DEF Dated
  <2>2. Len(c) - 1 \in 1 .. Len(c) - 1 /\ Len(c) - 1 \in 1 .. Len(c)
    BY <2>1
  <2>3. c[Len(c) - 1] \in Word \ Y
    BY <2>1, <2>2 DEF Dated
  <2>4. Base(c) \in Plain(Y)
    BY <2>1, <2>3 DEF Base, Plain
  <2>5. \A n \in Nat : n > 1 => n = 2 \/ n > 2
    OBVIOUS
  <2>. QED
    BY <2>1, <2>4, <2>5
<1>3. ASSUME NEW c \in Dated(Y, y), NEW d \in Dated(Y, y), Len(d) = 2 PROVE ~ Shorter(c, d)
  <2>1. PICK n \in Nat : n = Len(c) /\ n > 1
    BY <1>2
  <2>. QED
    BY <1>3, <2>1 DEF Shorter
<1>4. \A c \in Plain(Y), d \in Dated(Y, y) : Shorter(c, d)
  BY <1>1, <1>2 DEF Shorter
<1>. QED
  BY <1>1, <1>2, <1>3, <1>4 DEF Base, Dated

(* A word appended to a name of one word.                                    *)
LEMMA TwoWords ==
  ASSUME NEW w \in Word, NEW y \in Word
  PROVE  Append(<<w>>, y) = <<w, y>>
<1>1. /\ Append(<<w>>, y) \in Seq(Word) /\ Len(Append(<<w>>, y)) = 2
      /\ Append(<<w>>, y)[1] = w /\ Append(<<w>>, y)[2] = y
  OBVIOUS
<1>2. /\ <<w, y>> \in Seq(Word) /\ Len(<<w, y>>) = 2
      /\ <<w, y>>[1] = w /\ <<w, y>>[2] = y
  OBVIOUS
<1>. PICK a \in Seq(Word), b \in Seq(Word) : a = Append(<<w>>, y) /\ b = <<w, y>>
  BY <1>1, <1>2
<1>3. \A k \in 1 .. Len(a) : a[k] = b[k]
  BY <1>1, <1>2
<1>. QED
  BY <1>1, <1>2, <1>3, SeqEqual

(* The year slice of a plain name.                                           *)
LEMMA SliceName ==
  ASSUME NEW Y \in SUBSET Word, NEW y \in Y, NEW c \in Plain(Y)
  PROVE  /\ slice_name(c, y) \in Dated(Y, y)
         /\ Len(slice_name(c, y)) = 2
         /\ Base(slice_name(c, y)) = c
<1>1. PICK w \in Word \ Y : c = <<w>>
  BY DEF Plain
<1>2. slice_name(c, y) = <<w, y>>
  BY <1>1, TwoWords DEF slice_name
<1>3. <<w, y>> \in Dated(Y, y)
  BY DEF Dated
<1>4. Base(<<w, y>>) = <<w>>
  BY DEF Base
<1>. QED
  BY <1>1, <1>2, <1>3, <1>4

(* A dated name of two words is the year slice of its base.                  *)
LEMMA SliceOfBase ==
  ASSUME NEW Y \in SUBSET Word, NEW y \in Y, NEW c \in Dated(Y, y), Len(c) = 2
  PROVE  c = slice_name(Base(c), y)
<1>1. c \in Seq(Word) /\ c[2] = y
  BY DEF Dated
<1>2. Base(c) = <<c[1]>>
  BY DEF Base
<1>3. c = <<c[1], y>>
  BY <1>1
<1>4. slice_name(Base(c), y) = <<c[1], y>>
  BY <1>1, <1>2, TwoWords DEF slice_name
<1>. QED
  BY <1>3, <1>4

(* A value leaf of a dated name.                                             *)
LEMMA LeafName ==
  ASSUME NEW Y \in SUBSET Word, NEW y \in Y, NEW v \in Plain(Y), NEW c \in Dated(Y, y)
  PROVE  /\ v \o c \in Dated(Y, y)
         /\ Len(v \o c) = Len(c) + 1
         /\ Base(v \o c) = Base(c)
         /\ (v \o c)[1] = v[1]
         /\ \A k \in 1 .. Len(c) : (v \o c)[k + 1] = c[k]
         /\ Len(v \o c) # 2 /\ Shorter(c, v \o c)
         /\ \A d : (d \in Plain(Y) \/ d \in Dated(Y, y)) /\ Shorter(d, c) => Shorter(d, v \o c)
<1>1. PICK w \in Word \ Y : v = <<w>>
  BY DEF Plain
<1>2. c \in Seq(Word) /\ Len(c) \in Nat /\ Len(c) > 1
  BY DEF Dated
<1>3. /\ v \o c \in Seq(Word)
      /\ Len(v \o c) = Len(c) + 1
      /\ (v \o c)[1] = w
      /\ \A k \in 1 .. Len(c) : (v \o c)[k + 1] = c[k]
  BY <1>1, <1>2
<1>4. PICK l \in Seq(Word) : l = v \o c
  BY <1>3
<1>5. l[Len(l)] = c[Len(c)] /\ l[Len(l) - 1] = c[Len(c) - 1]
  <2>1. Len(c) \in 1 .. Len(c) /\ Len(c) - 1 \in 1 .. Len(c)
    BY <1>2
  <2>. QED
    BY <1>2, <1>3, <1>4, <2>1
<1>6. ASSUME NEW k \in 1 .. Len(l) - 1 PROVE l[k] \notin Y
  <2>1. CASE k = 1
    BY <1>3, <1>4, <2>1
  <2>2. CASE k # 1
    <3>1. k - 1 \in 1 .. Len(c) - 1 /\ l[(k - 1) + 1] = c[k - 1]
      BY <1>2, <1>3, <1>4, <2>2
    <3>. QED
      BY <3>1 DEF Dated
  <2>. QED
    BY <2>1, <2>2
<1>7. l \in Dated(Y, y)
  <2>1. l \in Seq(Word) /\ Len(l) > 1 /\ l[Len(l)] = y
    BY <1>2, <1>3, <1>4, <1>5 DEF Dated
  <2>. QED
    BY <1>6, <2>1 DEF Dated
<1>8. Base(l) = Base(c)
  BY <1>2, <1>3, <1>4, <1>5 DEF Base
<1>9. Len(l) # 2 /\ Shorter(c, l)
  BY <1>2, <1>3, <1>4 DEF Shorter
<1>10. ASSUME NEW d, d \in Plain(Y) \/ d \in Dated(Y, y), Shorter(d, c) PROVE Shorter(d, l)
  <2>1. PICK n \in Nat : n = Len(d)
    BY <1>10, NamesApart
  <2>. QED
    BY <1>2, <1>3, <1>4, <1>10, <2>1 DEF Shorter
<1>. QED
  BY <1>1, <1>3, <1>4, <1>7, <1>8, <1>9, <1>10

(* The tails of a value leaf are the name it refines and the tails of that.  *)
LEMMA LeafTails ==
  ASSUME NEW Y \in SUBSET Word, NEW y \in Y, NEW v \in Plain(Y), NEW c \in Dated(Y, y),
         NEW d \in Dated(Y, y), Tails(v \o c, d)
  PROVE  d = c \/ Tails(c, d)
<1>1. /\ c \in Seq(Word) /\ d \in Seq(Word) /\ Len(c) \in Nat /\ Len(d) \in Nat
  BY DEF Dated
<1>2. Len(v \o c) = Len(c) + 1 /\ Len(d) > 1 /\ Len(d) <= Len(c)
  BY <1>1, LeafName DEF Tails, Shorter
<1>3. ASSUME NEW k \in 1 .. Len(d) PROVE d[k] = c[k + (Len(c) - Len(d))]
  <2>1. PICK j \in 1 .. Len(c) : j = k + (Len(c) - Len(d))
    <3>1. k + (Len(c) - Len(d)) \in 1 .. Len(c)
      BY <1>1, <1>2
    <3>. QED
      BY <3>1
  <2>2. (v \o c)[j + 1] = c[j]
    BY LeafName
  <2>3. d[k] = (v \o c)[k + (Len(v \o c) - Len(d))]
    BY DEF Tails, Shorter
  <2>4. k + (Len(v \o c) - Len(d)) = j + 1
    BY <1>1, <1>2, <2>1
  <2>. QED
    BY <2>1, <2>2, <2>3, <2>4
<1>4. CASE Len(d) = Len(c)
  <2>1. \A k \in 1 .. Len(d) : d[k] = c[k]
    BY <1>1, <1>3, <1>4
  <2>. QED
    BY <1>1, <1>4, <2>1
<1>5. CASE Len(d) < Len(c)
  BY <1>2, <1>3, <1>5 DEF Tails, Shorter
<1>. QED
  BY <1>1, <1>2, <1>4, <1>5

(* Dated names of one base and year whose values are all the same: the       *)
(* shorter is a tail of the longer.                                          *)
LEMMA OneChain ==
  ASSUME NEW Y \in SUBSET Word, NEW y \in Y, NEW c \in Dated(Y, y), NEW d \in Dated(Y, y),
         Base(c) = Base(d),
         \A j \in 1 .. Len(c) - 2, k \in 1 .. Len(d) - 2 : c[j] = d[k],
         Len(d) <= Len(c)
  PROVE  c = d \/ Tails(c, d)
<1>1. /\ c \in Seq(Word) /\ d \in Seq(Word) /\ Len(c) \in Nat /\ Len(d) \in Nat
      /\ Len(c) > 1 /\ Len(d) > 1 /\ c[Len(c)] = y /\ d[Len(d)] = y
  BY DEF Dated
<1>2. c[Len(c) - 1] = d[Len(d) - 1]
  BY <1>1 DEF Base
<1>3. ASSUME NEW k \in 1 .. Len(d) PROVE d[k] = c[k + (Len(c) - Len(d))]
  <2>1. CASE k = Len(d)
    BY <1>1, <2>1
  <2>2. CASE k = Len(d) - 1
    BY <1>1, <1>2, <2>2
  <2>3. CASE k \in 1 .. Len(d) - 2
    <3>1. k + (Len(c) - Len(d)) \in 1 .. Len(c) - 2
      BY <1>1, <2>3
    <3>. QED
      BY <2>3, <3>1
  <2>. QED
    BY <1>1, <2>1, <2>2, <2>3
<1>4. CASE Len(d) = Len(c)
  <2>1. \A k \in 1 .. Len(d) : d[k] = c[k]
    BY <1>1, <1>3, <1>4
  <2>. QED
    BY <1>1, <1>4, <2>1
<1>5. CASE Len(d) < Len(c)
  BY <1>1, <1>3, <1>5 DEF Tails, Shorter
<1>. QED
  BY <1>1, <1>4, <1>5

-----------------------------------------------------------------------------
(* What holds of the store graph between any two passes, over a set Y of     *)
(* years.  Finalising runs on its own output, so every part of this is about *)
(* a graph that may already be sliced.                                       *)

(* The taxonomy names plain classes and is finite.                           *)
PlainTaxonomy(Y) ==
  /\ Y \subseteq Word
  /\ IsFiniteSet(Hierarchy)
  /\ Hierarchy \subseteq Plain(Y) \X Plain(Y)

(* An instance keeps the class it was authored with, and is typed by dated   *)
(* names of that class and of its own year only.                             *)
Typed(Y, g) ==
  \A t \in g.type :
    /\ t = <<t[1], t[2]>>
    /\ t[1].year \in Y /\ t[1].cls \in Plain(Y) /\ RootOf(RootOf(t[1])) = RootOf(t[1])
    /\ <<t[1], t[1].cls>> \in g.type
    /\ \/ t[2] = t[1].cls
       \/ /\ t[2] \in Dated(Y, t[1].year) /\ Base(t[2]) = t[1].cls
          /\ t[2] \in Timed(g)

(* An edge leaves a plain class for a plain one; it leaves a dated one for a *)
(* plain one, or for one of its year that is a year slice or has fewer words.*)
SubEdge(Y, e) ==
  \/ e[1] \in Plain(Y) /\ e[2] \in Plain(Y)
  \/ \E y \in Y : /\ e[1] \in Dated(Y, y)
                  /\ \/ e[2] \in Plain(Y)
                     \/ e[2] \in Dated(Y, y) /\ (Len(e[2]) = 2 \/ Shorter(e[2], e[1]))

(* A slice of something is time-scoped, of the base of what it slices.       *)
SliceEdge(Y, g, e) ==
  /\ e \in g.sub
  /\ e[1] \in Timed(g)
  /\ e[2] \in Plain(Y) \cup Timed(g)
  /\ Base(e[2]) = Base(e[1])
  /\ Shorter(e[2], e[1])

(* A time-scoped class ends in its year, is marked on the year axis, and is  *)
(* a slice of its base and of each of its tails.                             *)
ScopeOf(Y, g, p) ==
  /\ p[2] \in Y /\ p[1] \in Dated(Y, p[2])
  /\ <<p[1], "year">> \in g.axis
  /\ <<p[1], Base(p[1])>> \in g.sliceOf
  /\ \A d \in Dated(Y, p[2]) : Tails(p[1], d) => <<p[1], d>> \in g.sliceOf

(* Plain classes are not marked on the year axis, year slices not on the     *)
(* drivetrain axis.                                                          *)
Mark(Y, a) ==
  /\ a[1] \in Plain(Y) \/ \E y \in Y : a[1] \in Dated(Y, y)
  /\ a[2] = "year" => a[1] \notin Plain(Y)
  /\ a[2] = "drive" => Len(a[1]) # 2

Classes(Y, g) ==
  /\ \A e \in g.sub : SubEdge(Y, e)
  /\ \A e \in g.sliceOf : SliceEdge(Y, g, e)
  /\ \A p \in g.scope : ScopeOf(Y, g, p)
  /\ \A a \in g.axis : Mark(Y, a)

(* The leading words of an instance's types are all one value, which the top *)
(* of its part-of tree has.                                                  *)
OneValue(g) ==
  \A t \in g.type : \A k \in 1 .. Len(t[2]) - 2 :
    /\ <<t[2][k]>> \in ValuesOf(g, t[1])
    /\ \A u \in g.type : \A j \in 1 .. Len(u[2]) - 2 : t[1] = u[1] => u[2][j] = t[2][k]

(* The graph is finite: instances in I, names and years in N.                *)
Within(g, I, N) ==
  /\ IsFiniteSet(I) /\ IsFiniteSet(N)
  /\ g.type \subseteq I \X N /\ g.sub \subseteq N \X N
  /\ g.sliceOf \subseteq N \X N /\ g.scope \subseteq N \X N
  /\ \A i \in I : i.year \in N
Small(g) == \E I, N : Within(g, I, N)

Sound(Y, g) == Typed(Y, g) /\ Classes(Y, g) /\ OneValue(g) /\ Small(g)

(* A pass that adds edges, scopes and markers has to look at the new ones    *)
(* only.                                                                     *)
LEMMA ClassesGrow ==
  ASSUME NEW Y, NEW g, Classes(Y, g), NEW h,
         g.sub \subseteq h.sub, g.sliceOf \subseteq h.sliceOf,
         g.scope \subseteq h.scope, g.axis \subseteq h.axis,
         \A e \in h.sub \ g.sub : SubEdge(Y, e),
         \A e \in h.sliceOf \ g.sliceOf : SliceEdge(Y, h, e),
         \A p \in h.scope \ g.scope : ScopeOf(Y, h, p),
         \A a \in h.axis \ g.axis : Mark(Y, a)
  PROVE  Classes(Y, h)
<1>1. Timed(g) \subseteq Timed(h)
  BY DEF Timed
<1>2. \A e : SliceEdge(Y, g, e) => SliceEdge(Y, h, e)
  BY <1>1 DEF SliceEdge
<1>3. \A p : ScopeOf(Y, g, p) => ScopeOf(Y, h, p)
  BY DEF ScopeOf
<1>. QED
  BY <1>2, <1>3 DEF Classes

(* The edges and the types of a small graph are finitely many.               *)
LEMMA SmallIsFinite ==
  ASSUME NEW g, Small(g), IsFiniteSet(Hierarchy)
  PROVE  /\ IsFiniteSet(Super(g)) /\ IsFiniteSet(g.type)
         /\ \A i : IsFiniteSet(TypesOf(g, i))
<1>. PICK I, N : Within(g, I, N)
  BY DEF Small
<1>1. IsFiniteSet(I \X N) /\ IsFiniteSet(N \X N)
  BY FS_Product DEF Within
<1>2. IsFiniteSet(g.type) /\ IsFiniteSet(g.sub)
  BY <1>1, FS_Subset DEF Within
<1>3. \A i : TypesOf(g, i) \in SUBSET N
  BY DEF TypesOf, Within
<1>. QED
  BY <1>2, <1>3, FS_Subset, FS_Union DEF Super, Within

(* The values of an instance are finitely many.                              *)
LEMMA FewValues ==
  ASSUME NEW g, Small(g), IsFiniteSet(Hierarchy), NEW i
  PROVE  IsFiniteSet(ValuesOf(g, i))
<1>1. IsFiniteSet(Reach(Super(g), TypesOf(g, RootOf(i))))
  BY SmallIsFinite, ReachLeast
<1>. QED
  BY <1>1, FS_Subset DEF ValuesOf

(* An instance keeps its values as long as edges and markers stay and a type *)
(* is given up only for one below it.                                        *)
LEMMA ValuesGrow ==
  ASSUME NEW g, Small(g), NEW h, Small(h), IsFiniteSet(Hierarchy),
         g.sub \subseteq h.sub, g.axis \subseteq h.axis,
         \A t \in g.type : t \in h.type \/ \E u \in h.type : u[1] = t[1] /\ <<u[2], t[2]>> \in h.sub,
         NEW i
  PROVE  ValuesOf(g, i) \subseteq ValuesOf(h, i)
<1>. DEFINE r == RootOf(i)
            R == Reach(Super(h), TypesOf(h, r))
<1>1. TypesOf(h, r) \subseteq R /\ Closed(Super(h), R)
  BY SmallIsFinite, ReachLeast
<1>. HIDE DEF R, r
<1>2. TypesOf(g, r) \subseteq R
  <2>. SUFFICES ASSUME NEW t \in g.type, t[1] = r PROVE t[2] \in R
    BY DEF TypesOf
  <2>1. CASE t \in h.type
    BY <1>1, <2>1 DEF TypesOf
  <2>2. ASSUME NEW u \in h.type, u[1] = r, <<u[2], t[2]>> \in h.sub PROVE t[2] \in R
    <3>1. u[2] \in R /\ <<u[2], t[2]>> \in Super(h)
      BY <1>1, <2>2 DEF TypesOf, Super
    <3>. QED
      BY <1>1, <3>1 DEF Closed
  <2>. QED
    BY <2>1, <2>2
<1>3. Super(g) \subseteq Super(h)
  BY DEF Super
<1>4. Reach(Super(g), TypesOf(g, r)) \subseteq R
  BY <1>2, <1>3, SmallIsFinite, ReachGrows DEF R
<1>. QED
  BY <1>4 DEF ValuesOf, Values, R, r

(* A sole value is a plain class: an instance is at a value leaf only if its *)
(* top has the value of that leaf, and a top that reaches a leaf is at one.  *)
LEMMA SoleValueIsPlain ==
  ASSUME NEW Y, PlainTaxonomy(Y), NEW g, Sound(Y, g), NEW i, i \in Instances(g),
         Cardinality(ValuesOf(g, i)) = 1
  PROVE  \E v \in Plain(Y) : ValuesOf(g, i) = {v}
<1>1. PICK v : ValuesOf(g, i) = {v}
  BY FewValues, FS_Singleton DEF PlainTaxonomy, Sound
<1>2. v \in Values(g) /\ v \in Reach(Super(g), TypesOf(g, RootOf(i)))
  BY <1>1 DEF ValuesOf
<1>3. PICK r : r = RootOf(i) /\ RootOf(r) = r
  BY DEF Sound, Typed, Instances
<1>4. ASSUME v \notin Plain(Y) PROVE FALSE
  <2>1. PICK y \in Y : v \in Dated(Y, y)
    BY <1>2, <1>4 DEF Values, Sound, Classes, Mark
  <2>2. Len(v) \in Nat /\ Len(v) > 2
    <3>1. PICK a \in g.axis : a[1] = v /\ a[2] = "drive"
      BY <1>2 DEF Values
    <3>2. Len(v) # 2
      BY <3>1 DEF Sound, Classes, Mark
    <3>. QED
      BY <2>1, <3>2, NamesApart
  <2>. DEFINE T == {c \in Reach(Super(g), TypesOf(g, r)) : c \in Plain(Y) \/ Len(c) = 2}
  <2>3. Closed(Super(g), T)
    <3>. SUFFICES ASSUME NEW e \in Super(g), e[1] \in T PROVE e[2] \in T
      BY DEF Closed
    <3>1. e[2] \in Reach(Super(g), TypesOf(g, r))
      BY SmallIsFinite, ReachLeast DEF Closed, Sound, PlainTaxonomy
    <3>2. CASE e \in Hierarchy
      BY <3>1, <3>2 DEF PlainTaxonomy
    <3>3. CASE e \in g.sub /\ e[1] \in Plain(Y) /\ e[2] \in Plain(Y)
      BY <3>1, <3>3
    <3>4. ASSUME NEW z \in Y, e[1] \in Dated(Y, z), e[2] \in Plain(Y) \cup Dated(Y, z),
                 e[2] \in Dated(Y, z) => Len(e[2]) = 2 \/ Shorter(e[2], e[1])
          PROVE  e[2] \in T
      <4>1. Len(e[1]) = 2
        BY <3>4, NamesApart
      <4>. QED
        BY <3>1, <3>4, <4>1, NamesApart
    <3>5. ASSUME e \in g.sub PROVE e[2] \in T
      <4>1. SubEdge(Y, e)
        BY <3>5 DEF Sound, Classes
      <4>. HIDE DEF T
      <4>. QED
        BY <3>3, <3>4, <3>5, <4>1, NamesApart DEF SubEdge
    <3>. QED
      BY <3>2, <3>5 DEF Super
  <2>4. v \notin T
    <3>. PICK n \in Nat : n = Len(v) /\ n > 2
      BY <2>2
    <3>1. n # 2
      OBVIOUS
    <3>. QED
      BY <1>4, <3>1
  <2>5. PICK t \in g.type : t[1] = r /\ t[2] \notin T
    <3>1. ~ TypesOf(g, r) \subseteq T
      BY <1>2, <1>3, <2>3, <2>4, SmallIsFinite, ReachLeast DEF Sound, PlainTaxonomy
    <3>. QED
      BY <3>1 DEF TypesOf
  <2>6. t[2] \in Dated(Y, r.year) /\ Len(t[2]) \in Nat /\ Len(t[2]) > 2 /\ r.year \in Y
    <3>1. t[2] \in Reach(Super(g), TypesOf(g, r))
      <4>1. t[2] \in TypesOf(g, r)
        BY <2>5 DEF TypesOf
      <4>2. TypesOf(g, r) \subseteq Reach(Super(g), TypesOf(g, r))
        BY SmallIsFinite, ReachLeast DEF Sound, PlainTaxonomy
      <4>. QED
        BY <4>1, <4>2
    <3>2. t[2] \in Dated(Y, r.year) /\ r.year \in Y
      BY <2>5, <3>1 DEF Sound, Typed
    <3>3. t[2] \notin Plain(Y) /\ Len(t[2]) # 2
      BY <2>5, <3>1
    <3>. QED
      BY <3>2, <3>3, NamesApart
  <2>7. <<t[2][1]>> \in ValuesOf(g, r)
    BY <2>5, <2>6 DEF Sound, OneValue
  <2>8. <<t[2][1]>> = v
    BY <1>1, <1>3, <2>7 DEF ValuesOf
  <2>. QED
    BY <2>2, <2>8
<1>. QED
  BY <1>1, <1>4

-----------------------------------------------------------------------------
(* The year pass.  The types it slices are the classes instances were        *)
(* authored with: every other type is time-scoped and marked.                *)
LEMMA UnslicedTypes ==
  ASSUME NEW Y, NEW g, Sound(Y, g)
  PROVE  Unsliced(g) = {t \in g.type : t[2] = t[1].cls}
<1>1. ASSUME NEW t \in g.type, t[2] = t[1].cls PROVE <<t[2], "year">> \notin g.axis
  <2>1. t[2] \in Plain(Y)
    BY <1>1 DEF Sound, Typed
  <2>2. \A a \in g.axis : a[2] = "year" => a[1] \notin Plain(Y)
    BY DEF Sound, Classes, Mark
  <2>. QED
    BY <2>1, <2>2
<1>2. ASSUME NEW t \in g.type, t[2] # t[1].cls PROVE <<t[2], "year">> \in g.axis
  <2>1. PICK p \in g.scope : p[1] = t[2]
    BY <1>2 DEF Sound, Typed, Timed
  <2>. QED
    BY <2>1 DEF Sound, Classes, ScopeOf
<1>. QED
  BY <1>1, <1>2 DEF Unsliced

(* What minting the leaves of a sound graph adds to it.                      *)
YearLeaf(i) == slice_name(i.cls, i.year)

LEMMA LeavesAdded ==
  ASSUME NEW Y, NEW g, Sound(Y, g), NEW h, h = Union(g, MintLeaves(g))
  PROVE  /\ h.type = g.type \cup {<<i, YearLeaf(i)>> : i \in Instances(g)}
         /\ h.sub = g.sub \cup {<<YearLeaf(i), i.cls>> : i \in Instances(g)}
         /\ h.sliceOf = g.sliceOf \cup {<<YearLeaf(i), i.cls>> : i \in Instances(g)}
         /\ h.axis = g.axis \cup {<<YearLeaf(i), "year">> : i \in Instances(g)}
         /\ h.scope = g.scope \cup {<<YearLeaf(i), i.year>> : i \in Instances(g)}
         /\ h.strategy = g.strategy
<1>. DEFINE U == Unsliced(g)
            leaf(t) == slice_name(t[2], t[1].year)
            edges == {<<leaf(t), t[2]>> : t \in U}
<1>1. /\ h.type = g.type \cup {<<t[1], leaf(t)>> : t \in U}
      /\ h.sub = g.sub \cup edges
      /\ h.sliceOf = g.sliceOf \cup edges
      /\ h.axis = g.axis \cup {<<e[1], "year">> : e \in edges}
      /\ h.scope = g.scope \cup {<<leaf(t), t[1].year>> : t \in U}
      /\ h.strategy = g.strategy
  BY DEF Union, MintLeaves, EmptyGraph
<1>2. /\ \A i \in Instances(g) : \E t \in U : t[1] = i /\ t[2] = i.cls
      /\ \A t \in U : t[1] \in Instances(g) /\ t[2] = t[1].cls
  <2>1. \A t \in g.type : <<t[1], t[1].cls>> \in g.type
    BY DEF Sound, Typed
  <2>2. \A t \in U : t \in g.type /\ t[2] = t[1].cls
    BY UnslicedTypes
  <2>3. \A t \in g.type : <<t[1], t[1].cls>> \in U
    BY <2>1, UnslicedTypes
  <2>. QED
    BY <2>2, <2>3 DEF Instances
<1>. HIDE DEF U
<1>3. \A t \in U : leaf(t) = YearLeaf(t[1])
  BY <1>2 DEF YearLeaf
<1>. HIDE DEF leaf
<1>4. {<<t[1], leaf(t)>> : t \in U} = {<<i, YearLeaf(i)>> : i \in Instances(g)}
  BY <1>2, <1>3
<1>5. edges = {<<YearLeaf(i), i.cls>> : i \in Instances(g)}
  BY <1>2, <1>3
<1>6. {<<e[1], "year">> : e \in edges} = {<<YearLeaf(i), "year">> : i \in Instances(g)}
  <2>1. \A e \in edges : \E i \in Instances(g) : e[1] = YearLeaf(i)
    BY <1>5
  <2>2. \A i \in Instances(g) : \E e \in edges : e[1] = YearLeaf(i)
    <3>. TAKE i \in Instances(g)
    <3>1. <<YearLeaf(i), i.cls>> \in edges
      BY <1>5
    <3>. QED
      BY <3>1
  <2>. HIDE DEF edges
  <2>. QED
    BY <2>1, <2>2
<1>7. {<<leaf(t), t[1].year>> : t \in U} = {<<YearLeaf(i), i.year>> : i \in Instances(g)}
  BY <1>2, <1>3
<1>. QED
  BY <1>1, <1>4, <1>5, <1>6, <1>7

(* The names of a small graph and of the taxonomy, and a class any walk      *)
(* reaches is one of them.                                                   *)
LEMMA NamesOf ==
  ASSUME NEW g, Small(g), NEW Y, PlainTaxonomy(Y)
  PROVE  \E I, M : /\ Within(g, I, M)
                   /\ \A e \in Super(g) : e[1] \in M /\ e[2] \in M
                   /\ \A i : ValuesOf(g, i) \subseteq M
<1>. PICK I, N : Within(g, I, N)
  BY DEF Small
<1>. DEFINE H == {e[2] : e \in Hierarchy} \cup {e[1] : e \in Hierarchy}
            M == N \cup H
<1>1. IsFiniteSet(H)
  <2>. DEFINE one == [e \in Hierarchy |-> e[1]]
              two == [e \in Hierarchy |-> e[2]]
  <2>1. IsFiniteSet({one[e] : e \in Hierarchy}) /\ IsFiniteSet({two[e] : e \in Hierarchy})
    BY FiniteImage DEF PlainTaxonomy
  <2>. QED
    BY <2>1, FS_Union
<1>2. IsFiniteSet(M)
  BY <1>1, FS_Union DEF Within
<1>3. \A e \in Super(g) : e[1] \in M /\ e[2] \in M
  BY DEF Super, Within
<1>4. N \subseteq M
  OBVIOUS
<1>. HIDE DEF M
<1>5. Within(g, I, M)
  <2>1. /\ g.type \subseteq I \X N /\ g.sub \subseteq N \X N /\ g.sliceOf \subseteq N \X N
        /\ g.scope \subseteq N \X N /\ IsFiniteSet(I) /\ \A i \in I : i.year \in N
    BY DEF Within
  <2>2. g.type \subseteq I \X M /\ g.sub \subseteq M \X M
    BY <1>4, <2>1
  <2>3. g.sliceOf \subseteq M \X M /\ g.scope \subseteq M \X M
    BY <1>4, <2>1
  <2>. QED
    BY <1>2, <1>4, <2>1, <2>2, <2>3 DEF Within
<1>6. ASSUME NEW i PROVE ValuesOf(g, i) \subseteq M
  <2>1. Closed(Super(g), M)
    BY <1>3 DEF Closed
  <2>2. TypesOf(g, RootOf(i)) \subseteq M
    BY <1>5 DEF TypesOf, Within
  <2>3. Reach(Super(g), TypesOf(g, RootOf(i))) \subseteq M
    BY <2>1, <2>2, SmallIsFinite, ReachLeast DEF PlainTaxonomy
  <2>. QED
    BY <2>3 DEF ValuesOf
<1>. QED
  BY <1>3, <1>5, <1>6

(* Finitely many names make finitely many slice names and leaf names.        *)
LEMMA MoreNames ==
  ASSUME NEW N, IsFiniteSet(N)
  PROVE  /\ IsFiniteSet({slice_name(p[1], p[2]) : p \in N \X N})
         /\ IsFiniteSet({p[1] \o p[2] : p \in N \X N})
<1>1. IsFiniteSet(N \X N)
  BY FS_Product
<1>2. IsFiniteSet({slice_name(p[1], p[2]) : p \in N \X N})
  <2>. DEFINE P == N \X N
              f == [p \in P |-> slice_name(p[1], p[2])]
  <2>. HIDE DEF P
  <2>1. DOMAIN f = P /\ f = [p \in P |-> f[p]]
    OBVIOUS
  <2>2. {f[p] : p \in P} = {slice_name(p[1], p[2]) : p \in P}
    OBVIOUS
  <2>. HIDE DEF f
  <2>3. IsFiniteSet(P)
    BY <1>1 DEF P
  <2>4. IsFiniteSet({f[p] : p \in P})
    BY <2>1, <2>3, FiniteImage
  <2>. QED
    BY <2>2, <2>4 DEF P
<1>3. IsFiniteSet({p[1] \o p[2] : p \in N \X N})
  <2>. DEFINE P == N \X N
              f == [p \in P |-> p[1] \o p[2]]
  <2>. HIDE DEF P
  <2>1. DOMAIN f = P /\ f = [p \in P |-> f[p]]
    OBVIOUS
  <2>2. {f[p] : p \in P} = {p[1] \o p[2] : p \in P}
    OBVIOUS
  <2>. HIDE DEF f
  <2>3. IsFiniteSet(P)
    BY <1>1 DEF P
  <2>4. IsFiniteSet({f[p] : p \in P})
    BY <2>1, <2>3, FiniteImage
  <2>. QED
    BY <2>2, <2>4 DEF P
<1>. QED
  BY <1>2, <1>3

(* New types without a value leave the values of the others.                 *)
LEMMA SameValues ==
  ASSUME NEW g, OneValue(g), NEW h,
         \A t \in h.type : t \in g.type \/ Len(t[2]) \in 1 .. 2,
         \A i : ValuesOf(g, i) \subseteq ValuesOf(h, i)
  PROVE  OneValue(h)
<1>1. ASSUME NEW t, NEW k \in 1 .. Len(t[2]) - 2, Len(t[2]) \in 1 .. 2 PROVE FALSE
  <2>1. \A n \in 1 .. 2 : \A j : j \notin 1 .. n - 2
    OBVIOUS
  <2>. QED
    BY <1>1, <2>1
<1>2. ASSUME NEW t \in h.type, NEW k \in 1 .. Len(t[2]) - 2,
             NEW u \in h.type, NEW j \in 1 .. Len(u[2]) - 2, t[1] = u[1]
      PROVE  u[2][j] = t[2][k]
  <2>1. t \in g.type /\ u \in g.type
    BY <1>1, <1>2
  <2>. QED
    BY <1>2, <2>1 DEF OneValue
<1>3. ASSUME NEW t \in h.type, NEW k \in 1 .. Len(t[2]) - 2
      PROVE  <<t[2][k]>> \in ValuesOf(h, t[1])
  <2>1. t \in g.type
    BY <1>1, <1>3
  <2>. QED
    BY <1>3, <2>1 DEF OneValue
<1>. QED
  BY <1>2, <1>3 DEF OneValue

(* Minting the year leaves keeps a graph sound.                              *)
LEMMA LeavesSound ==
  ASSUME NEW Y, PlainTaxonomy(Y), NEW g, Sound(Y, g), NEW h, h = Union(g, MintLeaves(g))
  PROVE  Sound(Y, h)
<1>1. /\ h.type = g.type \cup {<<i, YearLeaf(i)>> : i \in Instances(g)}
      /\ h.sub = g.sub \cup {<<YearLeaf(i), i.cls>> : i \in Instances(g)}
      /\ h.sliceOf = g.sliceOf \cup {<<YearLeaf(i), i.cls>> : i \in Instances(g)}
      /\ h.axis = g.axis \cup {<<YearLeaf(i), "year">> : i \in Instances(g)}
      /\ h.scope = g.scope \cup {<<YearLeaf(i), i.year>> : i \in Instances(g)}
  BY LeavesAdded
<1>2. ASSUME NEW i \in Instances(g)
      PROVE  /\ i.year \in Y /\ i.cls \in Plain(Y) /\ <<i, i.cls>> \in g.type
             /\ RootOf(RootOf(i)) = RootOf(i)
             /\ YearLeaf(i) \in Dated(Y, i.year) /\ Len(YearLeaf(i)) = 2
             /\ Base(YearLeaf(i)) = i.cls /\ Shorter(i.cls, YearLeaf(i))
             /\ YearLeaf(i) \notin Plain(Y) /\ Base(i.cls) = i.cls
  <2>1. /\ i.year \in Y /\ i.cls \in Plain(Y) /\ <<i, i.cls>> \in g.type
        /\ RootOf(RootOf(i)) = RootOf(i)
    BY DEF Instances, Sound, Typed
  <2>2. /\ YearLeaf(i) \in Dated(Y, i.year) /\ Len(YearLeaf(i)) = 2
        /\ Base(YearLeaf(i)) = i.cls
    BY <2>1, SliceName DEF YearLeaf, PlainTaxonomy
  <2>. QED
    BY <2>1, <2>2, NamesApart
<1>3. Timed(g) \subseteq Timed(h) /\ \A i \in Instances(g) : YearLeaf(i) \in Timed(h)
  <2>1. \A i \in Instances(g) : <<YearLeaf(i), i.year>> \in h.scope
    BY <1>1
  <2>2. \A c, y : <<c, y>> \in h.scope => c \in Timed(h)
    BY DEF Timed
  <2>3. Timed(g) \subseteq Timed(h)
    BY <1>1 DEF Timed
  <2>. QED
    BY <2>1, <2>2, <2>3
<1>4. Small(h)
  <2>. PICK I, N : Within(g, I, N)
    BY DEF Sound, Small
  <2>. DEFINE M == N \cup {slice_name(p[1], p[2]) : p \in N \X N}
  <2>1. IsFiniteSet(M)
    BY MoreNames, FS_Union DEF Within
  <2>2. \A i \in Instances(g) : i \in I /\ i.cls \in N /\ i.year \in N
    BY <1>2 DEF Within
  <2>3. \A i \in Instances(g) : YearLeaf(i) \in M
    <3>. TAKE i \in Instances(g)
    <3>1. <<i.cls, i.year>> \in N \X N
      BY <2>2
    <3>. QED
      BY <3>1 DEF YearLeaf
  <2>4. N \subseteq M
    OBVIOUS
  <2>. HIDE DEF M
  <2>5. Within(h, I, M)
    <3>1. /\ g.type \subseteq I \X N /\ g.sub \subseteq N \X N /\ g.sliceOf \subseteq N \X N
          /\ g.scope \subseteq N \X N /\ IsFiniteSet(I) /\ \A i \in I : i.year \in N
      BY DEF Within
    <3>2. h.type \subseteq I \X M
      BY <1>1, <2>2, <2>3, <2>4, <3>1
    <3>3. h.sub \subseteq M \X M /\ h.sliceOf \subseteq M \X M
      BY <1>1, <2>2, <2>3, <2>4, <3>1
    <3>4. h.scope \subseteq M \X M
      BY <1>1, <2>2, <2>3, <2>4, <3>1
    <3>. QED
      BY <2>1, <2>4, <3>1, <3>2, <3>3, <3>4 DEF Within
  <2>. QED
    BY <2>5 DEF Small
<1>5. Typed(Y, h)
  <2>. SUFFICES ASSUME NEW t \in h.type
                PROVE  /\ t = <<t[1], t[2]>>
                       /\ t[1].year \in Y /\ t[1].cls \in Plain(Y)
                       /\ RootOf(RootOf(t[1])) = RootOf(t[1])
                       /\ <<t[1], t[1].cls>> \in h.type
                       /\ \/ t[2] = t[1].cls
                          \/ /\ t[2] \in Dated(Y, t[1].year) /\ Base(t[2]) = t[1].cls
                             /\ t[2] \in Timed(h)
    BY DEF Typed
  <2>1. CASE t \in g.type
    BY <1>1, <1>3, <2>1 DEF Sound, Typed
  <2>2. ASSUME NEW i \in Instances(g), t = <<i, YearLeaf(i)>>
        PROVE  /\ t = <<t[1], t[2]>>
               /\ t[1].year \in Y /\ t[1].cls \in Plain(Y)
               /\ RootOf(RootOf(t[1])) = RootOf(t[1])
               /\ <<t[1], t[1].cls>> \in h.type
               /\ t[2] \in Dated(Y, t[1].year) /\ Base(t[2]) = t[1].cls
               /\ t[2] \in Timed(h)
    BY <1>1, <1>2, <1>3, <2>2
  <2>. QED
    BY <1>1, <2>1, <2>2
<1>6. Classes(Y, h)
  <2>1. \A e \in h.sub \ g.sub : SubEdge(Y, e)
    <3>. SUFFICES ASSUME NEW i \in Instances(g) PROVE SubEdge(Y, <<YearLeaf(i), i.cls>>)
      BY <1>1
    <3>. QED
      BY <1>2 DEF SubEdge
  <2>2. \A e \in h.sliceOf \ g.sliceOf : SliceEdge(Y, h, e)
    <3>. SUFFICES ASSUME NEW i \in Instances(g) PROVE SliceEdge(Y, h, <<YearLeaf(i), i.cls>>)
      BY <1>1
    <3>. QED
      BY <1>1, <1>2, <1>3 DEF SliceEdge
  <2>3. \A p \in h.scope \ g.scope : ScopeOf(Y, h, p)
    <3>. SUFFICES ASSUME NEW i \in Instances(g)
                  PROVE  ScopeOf(Y, h, <<YearLeaf(i), i.year>>)
      BY <1>1
    <3>1. \A d \in Dated(Y, i.year) : ~ Tails(YearLeaf(i), d)
      BY <1>2, NamesApart DEF Tails
    <3>. QED
      BY <1>1, <1>2, <3>1 DEF ScopeOf
  <2>4. \A a \in h.axis \ g.axis : Mark(Y, a)
    <3>. SUFFICES ASSUME NEW i \in Instances(g) PROVE Mark(Y, <<YearLeaf(i), "year">>)
      BY <1>1
    <3>. QED
      BY <1>2 DEF Mark
  <2>. QED
    BY <1>1, <2>1, <2>2, <2>3, <2>4, ClassesGrow DEF Sound
<1>7. OneValue(h)
  <2>1. \A t \in h.type : t \in g.type \/ Len(t[2]) = 2
    <3>. SUFFICES ASSUME NEW i \in Instances(g) PROVE Len(<<i, YearLeaf(i)>>[2]) = 2
      BY <1>1
    <3>. QED
      BY <1>2
  <2>2. \A i : ValuesOf(g, i) \subseteq ValuesOf(h, i)
    BY <1>1, <1>4, ValuesGrow DEF Sound, PlainTaxonomy
  <2>. QED
    BY <2>1, <2>2, SameValues DEF Sound
<1>. QED
  BY <1>4, <1>5, <1>6, <1>7 DEF Sound

(* From a plain class a walk reaches plain classes only.                     *)
LEMMA PlainReach ==
  ASSUME NEW Y, PlainTaxonomy(Y), NEW g, Classes(Y, g), Small(g), NEW c \in Plain(Y)
  PROVE  Reach(Super(g), {c}) \subseteq Plain(Y)
<1>1. IsFiniteSet({c}) /\ IsFiniteSet(Super(g))
  BY FS_Singleton, SmallIsFinite DEF PlainTaxonomy
<1>2. Closed(Super(g), Plain(Y))
  <2>. SUFFICES ASSUME NEW e \in Super(g), e[1] \in Plain(Y) PROVE e[2] \in Plain(Y)
    BY DEF Closed
  <2>1. CASE e \in Hierarchy
    BY <2>1 DEF PlainTaxonomy
  <2>2. CASE e \in g.sub
    BY <2>2, NamesApart DEF Classes, SubEdge
  <2>. QED
    BY <2>1, <2>2 DEF Super
<1>. QED
  BY <1>1, <1>2, ReachLeast

(* An edge from a plain class leads to a plain class.                        *)
LEMMA PlainEdge ==
  ASSUME NEW Y, PlainTaxonomy(Y), NEW g, Classes(Y, g), NEW e \in Super(g), e[1] \in Plain(Y)
  PROVE  e[2] \in Plain(Y)
<1>1. CASE e \in Hierarchy
  BY <1>1 DEF PlainTaxonomy
<1>2. CASE e \in g.sub
  BY <1>2, NamesApart DEF Classes, SubEdge
<1>. QED
  BY <1>1, <1>2 DEF Super

(* A climb goes from one plain class to another, at the year of its slice.   *)
LEMMA ClimbsArePlain ==
  ASSUME NEW Y, PlainTaxonomy(Y), NEW g, Classes(Y, g), Small(g), NEW k \in Climbs(g)
  PROVE  /\ k.year \in Y
         /\ <<k.slc, k.base>> \in g.sliceOf /\ <<k.slc, k.year>> \in g.scope
         /\ k.slc \in Dated(Y, k.year) /\ k.base \in Plain(Y) /\ Base(k.slc) = k.base
         /\ <<k.cls, k.parent>> \in Super(g) /\ k.cls \in Reach(Super(g), {k.base})
         /\ k.cls \in Plain(Y) /\ k.parent \in Plain(Y)
<1>. DEFINE S == {e \in g.sliceOf : e[2] \notin Timed(g)}
            C(s) == {[slc |-> s[1], base |-> s[2], year |-> y, cls |-> e[1], parent |-> e[2]] :
                       y \in Image(g.scope, s[1]),
                       e \in {d \in Super(g) : d[1] \in Reach(Super(g), {s[2]})}}
<1>0. PICK s \in S : k \in C(s)
  <2>1. Climbs(g) = UNION {C(s) : s \in S}
    BY DEF Climbs
  <2>. HIDE DEF C, S
  <2>. QED
    BY <2>1
<1>1. s \in g.sliceOf /\ s[2] \notin Timed(g)
  OBVIOUS
<1>2. PICK y \in Image(g.scope, s[1]), e \in Super(g) :
        /\ e[1] \in Reach(Super(g), {s[2]})
        /\ k.slc = s[1] /\ k.base = s[2] /\ k.year = y /\ k.cls = e[1] /\ k.parent = e[2]
  BY <1>0
<1>. HIDE DEF S, C
<1>. PICK I, N : Within(g, I, N)
  BY DEF Small
<1>3. s = <<s[1], s[2]>> /\ e = <<e[1], e[2]>>
  BY <1>1 DEF Within, Super, PlainTaxonomy
<1>4. <<s[1], y>> \in g.scope
  <2>1. PICK p \in g.scope : p[1] = s[1] /\ p[2] = y
    BY <1>1 DEF Image
  <2>2. p = <<p[1], p[2]>>
    BY DEF Within
  <2>. QED
    BY <2>1, <2>2
<1>5. y \in Y /\ s[1] \in Dated(Y, y)
  BY <1>4 DEF Classes, ScopeOf
<1>6. s[2] \in Plain(Y) /\ Base(s[1]) = s[2]
  <2>1. s[2] \in Plain(Y) /\ Base(s[2]) = Base(s[1])
    BY <1>1 DEF Classes, SliceEdge
  <2>. QED
    BY <1>5, <2>1, NamesApart
<1>7. e[1] \in Plain(Y)
  BY <1>1, <1>2, <1>6, PlainReach
<1>8. e[2] \in Plain(Y)
  BY <1>7, PlainEdge
<1>. QED
  BY <1>1, <1>2, <1>3, <1>4, <1>5, <1>6, <1>7, <1>8

(* What minting the ancestors' slices adds.                                  *)
LEMMA AncestorsAdded ==
  ASSUME NEW g, NEW h, h = Union(g, MintAncestors(g))
  PROVE  /\ h.type = g.type
         /\ h.sub = g.sub \cup {<<Child(k), Above(k)>> : k \in Climbs(g)}
                          \cup {<<Above(k), k.parent>> : k \in Climbs(g)}
         /\ h.sliceOf = g.sliceOf \cup {<<Above(k), k.parent>> : k \in Climbs(g)}
         /\ h.axis = g.axis \cup {<<Above(k), "year">> : k \in Climbs(g)}
         /\ h.scope = g.scope \cup {<<Above(k), k.year>> : k \in Climbs(g)}
         /\ h.strategy = g.strategy \cup {<<Above(k), "equal">> : k \in Climbs(g)}
<1>. DEFINE K == Climbs(g)
            edges == {<<Above(k), k.parent>> : k \in K}
<1>1. /\ h.type = g.type
      /\ h.sub = g.sub \cup {<<Child(k), Above(k)>> : k \in K} \cup edges
      /\ h.sliceOf = g.sliceOf \cup edges
      /\ h.axis = g.axis \cup {<<e[1], "year">> : e \in edges}
      /\ h.scope = g.scope \cup {<<Above(k), k.year>> : k \in K}
      /\ h.strategy = g.strategy \cup {<<e[1], "equal">> : e \in edges}
  BY DEF Union, MintAncestors, EmptyGraph
<1>. HIDE DEF K
<1>2. (\A e \in edges : \E k \in K : e[1] = Above(k)) /\ \A k \in K : \E e \in edges : e[1] = Above(k)
  <2>1. \A k \in K : <<Above(k), k.parent>> \in edges
    OBVIOUS
  <2>2. \A k \in K : \E e \in edges : e[1] = Above(k)
    <3>. TAKE k \in K
    <3>. WITNESS <<Above(k), k.parent>> \in edges
    <3>. QED
      OBVIOUS
  <2>. QED
    BY <2>2
<1>3. /\ {<<e[1], "year">> : e \in edges} = {<<Above(k), "year">> : k \in K}
      /\ {<<e[1], "equal">> : e \in edges} = {<<Above(k), "equal">> : k \in K}
  <2>. HIDE DEF edges
  <2>. QED
    BY <1>2
<1>. QED
  BY <1>1, <1>3 DEF K

(* Minting the ancestors' slices keeps a graph sound.                        *)
LEMMA AncestorsSound ==
  ASSUME NEW Y, PlainTaxonomy(Y), NEW g, Sound(Y, g), NEW h, h = Union(g, MintAncestors(g))
  PROVE  Sound(Y, h)
<1>. DEFINE K == Climbs(g)
<1>1. /\ h.type = g.type
      /\ h.sub = g.sub \cup {<<Child(k), Above(k)>> : k \in K}
                       \cup {<<Above(k), k.parent>> : k \in K}
      /\ h.sliceOf = g.sliceOf \cup {<<Above(k), k.parent>> : k \in K}
      /\ h.axis = g.axis \cup {<<Above(k), "year">> : k \in K}
      /\ h.scope = g.scope \cup {<<Above(k), k.year>> : k \in K}
  BY AncestorsAdded
<1>2. ASSUME NEW k \in K
      PROVE  /\ k.year \in Y /\ k.parent \in Plain(Y)
             /\ Above(k) \in Dated(Y, k.year) /\ Len(Above(k)) = 2
             /\ Base(Above(k)) = k.parent /\ Shorter(k.parent, Above(k))
             /\ Above(k) \notin Plain(Y) /\ Base(k.parent) = k.parent
             /\ Child(k) \in Dated(Y, k.year)
  <2>1. /\ k.year \in Y /\ k.parent \in Plain(Y) /\ k.cls \in Plain(Y)
        /\ k.slc \in Dated(Y, k.year)
    BY ClimbsArePlain DEF Sound
  <2>2. /\ Above(k) \in Dated(Y, k.year) /\ Len(Above(k)) = 2
        /\ Base(Above(k)) = k.parent
    BY <2>1, SliceName DEF Above, PlainTaxonomy
  <2>3. Child(k) \in Dated(Y, k.year)
    BY <2>1, SliceName DEF Child, PlainTaxonomy
  <2>. QED
    BY <2>1, <2>2, <2>3, NamesApart
<1>3. Timed(g) \subseteq Timed(h) /\ \A k \in K : Above(k) \in Timed(h)
  <2>1. \A k \in K : <<Above(k), k.year>> \in h.scope
    BY <1>1
  <2>2. \A c, y : <<c, y>> \in h.scope => c \in Timed(h)
    BY DEF Timed
  <2>3. Timed(g) \subseteq Timed(h)
    BY <1>1 DEF Timed
  <2>. QED
    BY <2>1, <2>2, <2>3
<1>4. Small(h)
  <2>. PICK I, M : Within(g, I, M) /\ \A e \in Super(g) : e[1] \in M /\ e[2] \in M
    BY NamesOf DEF Sound
  <2>. DEFINE P == M \cup {slice_name(p[1], p[2]) : p \in M \X M}
  <2>1. \A k \in K : k.slc \in M /\ k.cls \in M /\ k.parent \in M /\ k.year \in M
    <3>. TAKE k \in K
    <3>1. <<k.slc, k.year>> \in g.scope /\ <<k.cls, k.parent>> \in Super(g)
      BY ClimbsArePlain DEF Sound
    <3>2. k.cls \in M /\ k.parent \in M
      BY <3>1
    <3>3. k.slc \in M /\ k.year \in M
      BY <3>1 DEF Within
    <3>. QED
      BY <3>2, <3>3
  <2>2. IsFiniteSet(P)
    BY MoreNames, FS_Union DEF Within
  <2>3. \A k \in K : Above(k) \in P /\ Child(k) \in P
    <3>. TAKE k \in K
    <3>1. <<k.parent, k.year>> \in M \X M /\ <<k.cls, k.year>> \in M \X M /\ k.slc \in M
      BY <2>1
    <3>2. slice_name(k.parent, k.year) \in P /\ slice_name(k.cls, k.year) \in P /\ k.slc \in P
      BY <3>1
    <3>. QED
      BY <3>2 DEF Above, Child
  <2>4. M \subseteq P
    OBVIOUS
  <2>. HIDE DEF P, K
  <2>5. /\ g.type \subseteq I \X M /\ g.sub \subseteq M \X M /\ g.sliceOf \subseteq M \X M
        /\ g.scope \subseteq M \X M /\ IsFiniteSet(I) /\ \A i \in I : i.year \in M
    BY DEF Within
  <2>6. h.type \subseteq I \X P
    BY <1>1, <2>4, <2>5
  <2>7. h.sub \subseteq P \X P /\ h.sliceOf \subseteq P \X P
    BY <1>1, <2>1, <2>3, <2>4, <2>5
  <2>8. h.scope \subseteq P \X P
    BY <1>1, <2>1, <2>3, <2>4, <2>5
  <2>9. Within(h, I, P)
    BY <2>2, <2>4, <2>5, <2>6, <2>7, <2>8 DEF Within
  <2>. QED
    BY <2>9 DEF Small
<1>. HIDE DEF K
<1>5. Typed(Y, h)
  BY <1>1, <1>3 DEF Sound, Typed
<1>6. Classes(Y, h)
  <2>1. \A e \in h.sub \ g.sub : SubEdge(Y, e)
    <3>1. ASSUME NEW k \in K PROVE SubEdge(Y, <<Child(k), Above(k)>>)
      BY <1>2 DEF SubEdge
    <3>2. ASSUME NEW k \in K PROVE SubEdge(Y, <<Above(k), k.parent>>)
      BY <1>2 DEF SubEdge
    <3>. QED
      BY <1>1, <3>1, <3>2
  <2>2. \A e \in h.sliceOf \ g.sliceOf : SliceEdge(Y, h, e)
    <3>. SUFFICES ASSUME NEW k \in K PROVE SliceEdge(Y, h, <<Above(k), k.parent>>)
      BY <1>1
    <3>. QED
      BY <1>1, <1>2, <1>3 DEF SliceEdge
  <2>3. \A p \in h.scope \ g.scope : ScopeOf(Y, h, p)
    <3>. SUFFICES ASSUME NEW k \in K PROVE ScopeOf(Y, h, <<Above(k), k.year>>)
      BY <1>1
    <3>1. \A d \in Dated(Y, k.year) : ~ Tails(Above(k), d)
      BY <1>2, NamesApart DEF Tails
    <3>. QED
      BY <1>1, <1>2, <3>1 DEF ScopeOf
  <2>4. \A a \in h.axis \ g.axis : Mark(Y, a)
    <3>. SUFFICES ASSUME NEW k \in K PROVE Mark(Y, <<Above(k), "year">>)
      BY <1>1
    <3>. QED
      BY <1>2 DEF Mark
  <2>. QED
    BY <1>1, <2>1, <2>2, <2>3, <2>4, ClassesGrow DEF Sound
<1>7. OneValue(h)
  <2>1. \A i : ValuesOf(g, i) \subseteq ValuesOf(h, i)
    BY <1>1, <1>4, ValuesGrow DEF Sound, PlainTaxonomy
  <2>. QED
    BY <1>1, <2>1, SameValues DEF Sound
<1>. QED
  BY <1>4, <1>5, <1>6, <1>7 DEF Sound

(* The year pass keeps a graph sound.                                        *)
LEMMA YearSound ==
  ASSUME NEW Y, PlainTaxonomy(Y), NEW g, Sound(Y, g)
  PROVE  Sound(Y, YearSlice(g))
<1>. DEFINE h == Union(g, MintLeaves(g))
<1>1. Sound(Y, h)
  BY LeavesSound
<1>2. YearSlice(g) = Union(h, MintAncestors(h))
  BY DEF YearSlice
<1>. HIDE DEF h
<1>. QED
  BY <1>1, <1>2, AncestorsSound

-----------------------------------------------------------------------------
(* The value pass.  A type it rewrites is time-scoped, its instance has one  *)
(* value, and the leaf carries that value in front.                          *)
InFront(Y, g, t) ==
  \E v \in Plain(Y) : ValuesOf(g, t[1]) = {v} /\ leaf_name(g, t) = v \o t[2]

LEMMA RetypedTypes ==
  ASSUME NEW Y, PlainTaxonomy(Y), NEW g, Sound(Y, g), NEW t \in Retyped(g)
  PROVE  /\ t \in g.type /\ t[1].year \in Y /\ t[2] # t[1].cls
         /\ t[2] \in Dated(Y, t[1].year) /\ t[2] \in Timed(g) /\ Base(t[2]) = t[1].cls
         /\ InFront(Y, g, t)
<1>1. t \in g.type /\ Cardinality(ValuesOf(g, t[1])) = 1 /\ Image(g.sliceOf, t[2]) # {}
  BY DEF Retyped, Instances
<1>2. PICK e \in g.sliceOf : e[1] = t[2]
  BY <1>1 DEF Image
<1>3. t[2] \in Timed(g)
  BY <1>2 DEF Sound, Classes, SliceEdge
<1>4. \E y \in Y : t[2] \in Dated(Y, y)
  BY <1>3 DEF Timed, Sound, Classes, ScopeOf
<1>5. /\ t[1].year \in Y /\ t[1].cls \in Plain(Y)
      /\ (t[2] = t[1].cls \/ (t[2] \in Dated(Y, t[1].year) /\ Base(t[2]) = t[1].cls))
  BY <1>1 DEF Sound, Typed
<1>6. t[2] # t[1].cls
  BY <1>4, <1>5, NamesApart
<1>7. PICK v \in Plain(Y) : ValuesOf(g, t[1]) = {v}
  BY <1>1, SoleValueIsPlain DEF Instances
<1>8. leaf_name(g, t) = v \o t[2]
  BY <1>7 DEF leaf_name
<1>. QED
  BY <1>1, <1>3, <1>5, <1>6, <1>7, <1>8 DEF InFront

(* What the value pass changes.                                              *)
LEMMA LeavesEmitted ==
  ASSUME NEW g, IsGraph(g), Small(g), NEW h, h = ValueSlice(g)
  PROVE  LET moved == Retyped(g)
         IN  /\ h.type = (g.type \ moved) \cup {<<t[1], leaf_name(g, t)>> : t \in moved}
             /\ g.sub \subseteq h.sub /\ g.sliceOf \subseteq h.sliceOf
             /\ g.axis \subseteq h.axis /\ g.scope \subseteq h.scope
             /\ h.strategy = g.strategy
             /\ \A e \in (h.sub \ g.sub) \cup (h.sliceOf \ g.sliceOf) :
                  \E t \in moved : \E b :
                     e = <<leaf_name(g, t), b>> /\ (b = t[2] \/ <<t[2], b>> \in g.sliceOf)
             /\ \A a \in h.axis \ g.axis : \E t \in moved : a[1] = leaf_name(g, t)
             /\ \A p \in h.scope \ g.scope :
                  \E t \in moved : \E y : p = <<leaf_name(g, t), y>> /\ <<t[2], y>> \in g.scope
             /\ \A t \in moved :
                  /\ <<leaf_name(g, t), t[2]>> \in h.sub \cap h.sliceOf
                  /\ \A b : <<t[2], b>> \in g.sliceOf => <<leaf_name(g, t), b>> \in h.sub \cap h.sliceOf
                  /\ <<leaf_name(g, t), "drive">> \in h.axis
                  /\ \A a : <<t[2], a>> \in g.axis => <<leaf_name(g, t), a>> \in h.axis
                  /\ \A y : <<t[2], y>> \in g.scope => <<leaf_name(g, t), y>> \in h.scope
<1>. DEFINE moved == Retyped(g)
            leaf(t) == leaf_name(g, t)
            leaves == {<<leaf(t), t[2]>> : t \in moved}
            Edge(l) == {<<l[1], b>> : b \in Image(g.sliceOf, l[2])}
            Mrk(l) == {<<l[1], ax>> : ax \in {"drive"} \cup Image(g.axis, l[2])}
            Time(l) == {<<l[1], y>> : y \in Image(g.scope, l[2])}
            more == leaves \cup UNION {Edge(l) : l \in leaves}
            marks == UNION {Mrk(l) : l \in leaves}
            times == UNION {Time(l) : l \in leaves}
<1>1. /\ h.type = (g.type \ moved) \cup {<<t[1], leaf(t)>> : t \in moved}
      /\ h.sub = g.sub \cup more /\ h.sliceOf = g.sliceOf \cup more
      /\ h.axis = g.axis \cup marks /\ h.scope = g.scope \cup times
      /\ h.strategy = g.strategy
  <2>. DEFINE stay == [g EXCEPT !.type = (@ \ moved) \cup {<<t[1], leaf(t)>> : t \in moved}]
              new == emit_leaf(g, leaves)
  <2>1. h = Union(stay, new)
    BY DEF ValueSlice
  <2>2. /\ stay.type = (g.type \ moved) \cup {<<t[1], leaf(t)>> : t \in moved}
        /\ stay.sub = g.sub /\ stay.sliceOf = g.sliceOf /\ stay.axis = g.axis
        /\ stay.scope = g.scope /\ stay.strategy = g.strategy
    BY DEF IsGraph
  <2>3. /\ new.type = {} /\ new.sub = more /\ new.sliceOf = more /\ new.axis = marks
        /\ new.scope = times /\ new.strategy = {}
    BY DEF emit_leaf, EmptyGraph, LeafEdges
  <2>. HIDE DEF stay, new, more, marks, times, leaves
  <2>. QED
    BY <2>1, <2>2, <2>3 DEF Union
<1>. HIDE DEF moved, leaf
<1>2. \A l : l \in leaves <=> \E t \in moved : l = <<leaf(t), t[2]>>
  OBVIOUS
<1>3. \A t \in moved : <<leaf(t), t[2]>> \in leaves
  OBVIOUS
<1>. PICK I, N : Within(g, I, N)
  BY DEF Small
<1>4. /\ \A c, b : b \in Image(g.sliceOf, c) <=> <<c, b>> \in g.sliceOf
      /\ \A c, y : y \in Image(g.scope, c) <=> <<c, y>> \in g.scope
  BY DEF Within, Image
<1>5. \A c, a : <<c, a>> \in g.axis => a \in Image(g.axis, c)
  BY DEF Image
<1>. HIDE DEF leaves
<1>6. \A e : e \in more <=> e \in leaves \/ \E l \in leaves : \E b \in Image(g.sliceOf, l[2]) : e = <<l[1], b>>
  <2>1. \A l, e : e \in Edge(l) <=> \E b \in Image(g.sliceOf, l[2]) : e = <<l[1], b>>
    OBVIOUS
  <2>. HIDE DEF Edge
  <2>. QED
    BY <2>1
<1>7. \A p : p \in times <=> \E l \in leaves : \E y \in Image(g.scope, l[2]) : p = <<l[1], y>>
  <2>1. \A l, p : p \in Time(l) <=> \E y \in Image(g.scope, l[2]) : p = <<l[1], y>>
    OBVIOUS
  <2>. HIDE DEF Time
  <2>. QED
    BY <2>1
<1>8. \A a : a \in marks <=> \E l \in leaves : \E x \in {"drive"} \cup Image(g.axis, l[2]) : a = <<l[1], x>>
  <2>1. \A l, a : a \in Mrk(l) <=> \E x \in {"drive"} \cup Image(g.axis, l[2]) : a = <<l[1], x>>
    OBVIOUS
  <2>. HIDE DEF Mrk
  <2>. QED
    BY <2>1
<1>. HIDE DEF more, times, marks
<1>9. ASSUME NEW e \in more
      PROVE  \E t \in moved : \E b : e = <<leaf(t), b>> /\ (b = t[2] \/ <<t[2], b>> \in g.sliceOf)
  BY <1>2, <1>4, <1>6
<1>10. ASSUME NEW p \in times
       PROVE  \E t \in moved : \E y : p = <<leaf(t), y>> /\ <<t[2], y>> \in g.scope
  BY <1>2, <1>4, <1>7
<1>11. ASSUME NEW a \in marks PROVE \E t \in moved : a[1] = leaf(t)
  BY <1>2, <1>8
<1>12. ASSUME NEW t \in moved
       PROVE  /\ <<leaf(t), t[2]>> \in more
              /\ \A b : <<t[2], b>> \in g.sliceOf => <<leaf(t), b>> \in more
              /\ <<leaf(t), "drive">> \in marks
              /\ \A a : <<t[2], a>> \in g.axis => <<leaf(t), a>> \in marks
              /\ \A y : <<t[2], y>> \in g.scope => <<leaf(t), y>> \in times
  <2>1. PICK l \in leaves : l[1] = leaf(t) /\ l[2] = t[2] /\ l = <<leaf(t), t[2]>>
    BY <1>3
  <2>. QED
    BY <1>4, <1>5, <1>6, <1>7, <1>8, <2>1
<1>. QED
  BY <1>1, <1>9, <1>10, <1>11, <1>12 DEF moved, leaf

(* Retyping keeps a graph sound: a leaf is a slice of all its tails because  *)
(* it takes over what the slice it refines is a slice of.                    *)
LEMMA ValueSound ==
  ASSUME NEW Y, PlainTaxonomy(Y), NEW g, IsGraph(g), Sound(Y, g), NEW h, h = ValueSlice(g)
  PROVE  Sound(Y, h)
<1>. DEFINE moved == Retyped(g)
            leaf(t) == leaf_name(g, t)
            From(e) == \E t \in moved : \E b :
                          e = <<leaf(t), b>> /\ (b = t[2] \/ <<t[2], b>> \in g.sliceOf)
<1>1. /\ h.type = (g.type \ moved) \cup {<<t[1], leaf(t)>> : t \in moved}
      /\ g.sub \subseteq h.sub /\ g.sliceOf \subseteq h.sliceOf
      /\ g.axis \subseteq h.axis /\ g.scope \subseteq h.scope
      /\ \A e \in (h.sub \ g.sub) \cup (h.sliceOf \ g.sliceOf) : From(e)
      /\ \A a \in h.axis \ g.axis : \E t \in moved : a[1] = leaf(t)
      /\ \A p \in h.scope \ g.scope :
           \E t \in moved : \E y : p = <<leaf(t), y>> /\ <<t[2], y>> \in g.scope
  BY LeavesEmitted DEF Sound
<1>2. \A t \in moved :
        /\ <<leaf(t), t[2]>> \in h.sub \cap h.sliceOf
        /\ \A b : <<t[2], b>> \in g.sliceOf => <<leaf(t), b>> \in h.sub \cap h.sliceOf
        /\ \A a : <<t[2], a>> \in g.axis => <<leaf(t), a>> \in h.axis
        /\ \A y : <<t[2], y>> \in g.scope => <<leaf(t), y>> \in h.scope
  BY LeavesEmitted DEF Sound
<1>3. ASSUME NEW t \in moved
      PROVE  /\ t \in g.type /\ t[1].year \in Y /\ t[2] # t[1].cls
             /\ t[2] \in Dated(Y, t[1].year) /\ t[2] \in Timed(g) /\ Base(t[2]) = t[1].cls
             /\ \E v \in Plain(Y) : ValuesOf(g, t[1]) = {v} /\ leaf(t) = v \o t[2]
  <2>1. t \in Retyped(g)
    OBVIOUS
  <2>2. /\ t \in g.type /\ t[1].year \in Y /\ t[2] # t[1].cls
    BY <2>1, RetypedTypes
  <2>3. /\ t[2] \in Dated(Y, t[1].year) /\ t[2] \in Timed(g) /\ Base(t[2]) = t[1].cls
    BY <2>1, RetypedTypes
  <2>4. \E v \in Plain(Y) : ValuesOf(g, t[1]) = {v} /\ leaf_name(g, t) = v \o t[2]
    <3>1. InFront(Y, g, t)
      BY <2>1, RetypedTypes
    <3>. QED
      BY <3>1 DEF InFront
  <2>. QED
    BY <2>2, <2>3, <2>4
<1>4. ASSUME NEW t \in moved
      PROVE  /\ leaf(t) \in Dated(Y, t[1].year) /\ Base(leaf(t)) = t[1].cls
             /\ Len(leaf(t)) # 2 /\ Shorter(t[2], leaf(t)) /\ leaf(t) \notin Plain(Y)
             /\ \A d : (d \in Plain(Y) \/ d \in Dated(Y, t[1].year)) /\ Shorter(d, t[2]) =>
                         Shorter(d, leaf(t))
             /\ \A d \in Dated(Y, t[1].year) : Tails(leaf(t), d) => d = t[2] \/ Tails(t[2], d)
  <2>1. PICK v \in Plain(Y) : leaf(t) = v \o t[2]
    BY <1>3
  <2>2. Y \in SUBSET Word /\ t[1].year \in Y /\ t[2] \in Dated(Y, t[1].year)
    BY <1>3 DEF PlainTaxonomy
  <2>. HIDE DEF leaf
  <2>3. leaf(t) \in Dated(Y, t[1].year)
    BY <2>1, <2>2, LeafName
  <2>. QED
    <3>1. PICK y \in Y : y = t[1].year
      BY <2>2
    <3>2. PICK c \in Dated(Y, y) : c = t[2] /\ Base(c) = t[1].cls
      BY <1>3, <3>1
    <3>3. /\ Base(leaf(t)) = Base(c) /\ Len(leaf(t)) # 2 /\ Shorter(c, leaf(t))
          /\ \A d : (d \in Plain(Y) \/ d \in Dated(Y, y)) /\ Shorter(d, c) => Shorter(d, leaf(t))
      BY <2>1, <2>2, <3>1, <3>2, LeafName
    <3>4. \A d \in Dated(Y, y) : Tails(leaf(t), d) => d = c \/ Tails(c, d)
      BY <2>1, <2>2, <3>1, <3>2, LeafTails
    <3>5. leaf(t) \notin Plain(Y)
      BY <2>3, <3>1, NamesApart
    <3>. QED
      BY <2>3, <3>1, <3>2, <3>3, <3>4, <3>5
<1>. PICK J, O : Within(g, J, O)
  BY DEF Sound, Small
<1>5. \A c : c \in Timed(g) => \E y : <<c, y>> \in g.scope
  <2>. SUFFICES ASSUME NEW c, c \in Timed(g) PROVE \E y : <<c, y>> \in g.scope
    OBVIOUS
  <2>1. PICK p \in g.scope : p[1] = c
    BY DEF Timed
  <2>2. p = <<c, p[2]>>
    BY <2>1 DEF Within
  <2>. QED
    BY <2>2
<1>6. Timed(g) \subseteq Timed(h) /\ \A t \in moved : leaf(t) \in Timed(h)
  <2>1. \A c, y : <<c, y>> \in h.scope => c \in Timed(h)
    BY DEF Timed
  <2>2. Timed(g) \subseteq Timed(h)
    BY <1>1 DEF Timed
  <2>3. \A t \in moved : \E y : <<leaf(t), y>> \in h.scope
    BY <1>2, <1>3, <1>5
  <2>. QED
    BY <2>1, <2>2, <2>3
<1>. HIDE DEF moved, leaf
<1>7. Small(h)
  <2>. PICK I, M : Within(g, I, M) /\ \A i : ValuesOf(g, i) \subseteq M
    BY NamesOf DEF Sound
  <2>. DEFINE join(p) == p[1] \o p[2]
              P == M \cup {join(p) : p \in M \X M}
  <2>1. IsFiniteSet(P)
    BY MoreNames, FS_Union DEF Within
  <2>2. ASSUME NEW t \in moved PROVE leaf(t) \in P /\ t[2] \in M /\ t[1] \in I
    <3>1. PICK v : v \in M /\ leaf(t) = v \o t[2]
      BY <1>3
    <3>2. t[2] \in M /\ t[1] \in I
      BY <1>3 DEF Within
    <3>3. <<v, t[2]>> \in M \X M /\ leaf(t) = join(<<v, t[2]>>)
      BY <3>1, <3>2
    <3>. HIDE DEF join
    <3>. QED
      BY <3>2, <3>3
  <2>3. M \subseteq P
    OBVIOUS
  <2>. HIDE DEF P
  <2>4. /\ g.type \subseteq I \X M /\ g.sub \subseteq M \X M /\ g.sliceOf \subseteq M \X M
        /\ g.scope \subseteq M \X M /\ IsFiniteSet(I) /\ \A i \in I : i.year \in M
    BY DEF Within
  <2>5. h.type \subseteq I \X P
    BY <1>1, <2>2, <2>3, <2>4
  <2>6. \A e : From(e) => e \in P \X P
    BY <2>2, <2>3, <2>4
  <2>7. h.sub \subseteq P \X P /\ h.sliceOf \subseteq P \X P
    <3>. HIDE DEF From
    <3>. QED
      BY <1>1, <2>3, <2>4, <2>6
  <2>8. h.scope \subseteq P \X P
    <3>. SUFFICES ASSUME NEW p \in h.scope PROVE p \in P \X P
      OBVIOUS
    <3>1. CASE p \in g.scope
      BY <2>3, <2>4, <3>1
    <3>2. ASSUME NEW t \in moved, NEW y, p = <<leaf(t), y>>, <<t[2], y>> \in g.scope
          PROVE  p \in P \X P
      BY <2>2, <2>3, <2>4, <3>2
    <3>3. p \in g.scope \/ \E t \in moved : \E y : p = <<leaf(t), y>> /\ <<t[2], y>> \in g.scope
      BY <1>1
    <3>. QED
      BY <3>1, <3>2, <3>3
  <2>9. Within(h, I, P)
    BY <2>1, <2>3, <2>4, <2>5, <2>7, <2>8 DEF Within
  <2>. QED
    BY <2>9 DEF Small
<1>8. Typed(Y, h)
  <2>. SUFFICES ASSUME NEW u \in h.type
                PROVE  /\ u = <<u[1], u[2]>>
                       /\ u[1].year \in Y /\ u[1].cls \in Plain(Y)
                       /\ RootOf(RootOf(u[1])) = RootOf(u[1])
                       /\ <<u[1], u[1].cls>> \in h.type
                       /\ \/ u[2] = u[1].cls
                          \/ /\ u[2] \in Dated(Y, u[1].year) /\ Base(u[2]) = u[1].cls
                             /\ u[2] \in Timed(h)
    BY DEF Typed
  <2>1. ASSUME NEW t \in g.type
        PROVE  /\ t = <<t[1], t[2]>>
               /\ t[1].year \in Y /\ t[1].cls \in Plain(Y)
               /\ RootOf(RootOf(t[1])) = RootOf(t[1])
               /\ <<t[1], t[1].cls>> \in h.type
               /\ \/ t[2] = t[1].cls
                  \/ /\ t[2] \in Dated(Y, t[1].year) /\ Base(t[2]) = t[1].cls
                     /\ t[2] \in Timed(h)
    <3>1. <<t[1], t[1].cls>> \in g.type
      BY DEF Sound, Typed
    <3>2. <<t[1], t[1].cls>> \notin moved
      BY <1>3
    <3>3. <<t[1], t[1].cls>> \in h.type
      BY <1>1, <3>1, <3>2
    <3>. QED
      BY <1>6, <3>3 DEF Sound, Typed
  <2>2. CASE u \in g.type
    BY <2>1, <2>2
  <2>3. ASSUME NEW t \in moved, u = <<t[1], leaf(t)>>
        PROVE  /\ u = <<u[1], u[2]>> /\ u[1] = t[1] /\ u[2] = leaf(t) /\ t \in g.type
    BY <1>3, <2>3
  <2>. QED
    BY <1>1, <1>4, <1>6, <2>1, <2>2, <2>3
<1>9. ASSUME NEW e, From(e)
      PROVE  SubEdge(Y, e) /\ (e \in h.sub => SliceEdge(Y, h, e))
  <2>0. PICK t \in moved : \E b : e = <<leaf(t), b>> /\ (b = t[2] \/ <<t[2], b>> \in g.sliceOf)
    BY <1>9
  <2>1. PICK b : e = <<leaf(t), b>> /\ (b = t[2] \/ <<t[2], b>> \in g.sliceOf)
    BY <2>0
  <2>2. /\ b \in Plain(Y) \/ b \in Dated(Y, t[1].year)
        /\ b \in Plain(Y) \cup Timed(g)
        /\ Base(b) = t[1].cls /\ Shorter(b, leaf(t))
    <3>1. CASE b = t[2]
      BY <1>3, <1>4, <3>1
    <3>2. CASE <<t[2], b>> \in g.sliceOf
      <4>1. SliceEdge(Y, g, <<t[2], b>>) /\ SubEdge(Y, <<t[2], b>>)
        BY <3>2 DEF Sound, Classes, SliceEdge
      <4>2. b \in Plain(Y) \cup Timed(g) /\ Base(b) = Base(t[2]) /\ Shorter(b, t[2])
        BY <4>1 DEF SliceEdge
      <4>3. b \in Plain(Y) \/ b \in Dated(Y, t[1].year)
        <5>1. t[2] \in Dated(Y, t[1].year) /\ t[1].year \in Y
          BY <1>3
        <5>. QED
          BY <4>1, <5>1, NamesApart DEF SubEdge
      <4>. QED
        BY <1>3, <1>4, <4>2, <4>3
    <3>. QED
      BY <2>1, <3>1, <3>2
  <2>3. SubEdge(Y, e)
    BY <1>3, <1>4, <2>1, <2>2 DEF SubEdge
  <2>4. e \in h.sub => SliceEdge(Y, h, e)
    BY <1>4, <1>6, <2>1, <2>2 DEF SliceEdge
  <2>. QED
    BY <2>3, <2>4
<1>10. Classes(Y, h)
  <2>1. \A e \in h.sub \ g.sub : SubEdge(Y, e)
    BY <1>1, <1>9
  <2>2. \A e \in h.sliceOf \ g.sliceOf : SliceEdge(Y, h, e)
    <3>. SUFFICES ASSUME NEW e \in h.sliceOf \ g.sliceOf PROVE e \in h.sub
      BY <1>1, <1>9
    <3>1. From(e)
      BY <1>1
    <3>. QED
      BY <1>2, <3>1
  <2>3. \A p \in h.scope \ g.scope : ScopeOf(Y, h, p)
    <3>. TAKE p \in h.scope \ g.scope
    <3>. PICK t \in moved : \E y : p = <<leaf(t), y>> /\ <<t[2], y>> \in g.scope
      BY <1>1
    <3>. PICK y : p = <<leaf(t), y>> /\ <<t[2], y>> \in g.scope
      OBVIOUS
    <3>1. ScopeOf(Y, g, <<t[2], y>>)
      BY DEF Sound, Classes
    <3>2. y \in Y /\ y = t[1].year
      BY <1>3, <3>1, NamesApart DEF ScopeOf
    <3>3. /\ <<leaf(t), "year">> \in h.axis /\ <<leaf(t), Base(leaf(t))>> \in h.sliceOf
      BY <1>2, <1>3, <1>4, <3>1 DEF ScopeOf
    <3>4. ASSUME NEW d \in Dated(Y, y), Tails(leaf(t), d) PROVE <<leaf(t), d>> \in h.sliceOf
      <4>1. d = t[2] \/ Tails(t[2], d)
        BY <1>4, <3>2, <3>4
      <4>2. d = t[2] \/ <<t[2], d>> \in g.sliceOf
        BY <3>1, <4>1 DEF ScopeOf
      <4>. QED
        BY <1>2, <4>2
    <3>. QED
      BY <1>4, <3>2, <3>3, <3>4 DEF ScopeOf
  <2>4. \A a \in h.axis \ g.axis : Mark(Y, a)
    BY <1>1, <1>3, <1>4 DEF Mark
  <2>. QED
    BY <1>1, <2>1, <2>2, <2>3, <2>4, ClassesGrow DEF Sound
<1>11. OneValue(h)
  <2>1. \A i : ValuesOf(g, i) \subseteq ValuesOf(h, i)
    <3>1. ASSUME NEW t \in g.type
          PROVE  t \in h.type \/ \E u \in h.type : u[1] = t[1] /\ <<u[2], t[2]>> \in h.sub
      <4>1. CASE t \in moved
        <5>1. <<t[1], leaf(t)>> \in h.type /\ <<leaf(t), t[2]>> \in h.sub
          BY <1>1, <1>2, <4>1
        <5>. QED
          BY <5>1
      <4>. QED
        BY <1>1, <4>1
    <3>. QED
      BY <1>1, <1>7, <3>1, ValuesGrow DEF Sound, PlainTaxonomy
  <2>2. ASSUME NEW u \in h.type, NEW k \in 1 .. Len(u[2]) - 2
        PROVE  <<u[2][k]>> \in ValuesOf(g, u[1])
    <3>1. CASE u \in g.type
      BY <2>2, <3>1 DEF Sound, OneValue
    <3>2. ASSUME NEW t \in moved, u = <<t[1], leaf(t)>> PROVE <<u[2][k]>> \in ValuesOf(g, u[1])
      <4>1. PICK v \in Plain(Y) : ValuesOf(g, t[1]) = {v} /\ leaf(t) = v \o t[2]
        BY <1>3
      <4>2. PICK c : c = t[2] /\ c \in Dated(Y, t[1].year)
        BY <1>3
      <4>3. Len(c) \in Nat /\ Len(v \o c) = Len(c) + 1 /\ (v \o c)[1] = v[1]
            /\ \A j \in 1 .. Len(c) : (v \o c)[j + 1] = c[j]
        <5>1. PICK y \in Y : y = t[1].year
          BY <1>3
        <5>2. c \in Dated(Y, y) /\ Y \in SUBSET Word
          BY <4>2, <5>1 DEF PlainTaxonomy
        <5>3. Len(c) \in Nat
          BY <5>2, NamesApart
        <5>. QED
          BY <5>2, <5>3, LeafName
      <4>4. k \in 1 .. (Len(c) + 1) - 2 /\ u[2] = v \o c
        BY <2>2, <3>2, <4>1, <4>2, <4>3
      <4>5. CASE k = 1
        <5>1. u[2][k] = v[1]
          BY <4>3, <4>4, <4>5
        <5>2. <<v[1]>> = v
          BY DEF Plain
        <5>. QED
          BY <3>2, <4>1, <5>1, <5>2
      <4>6. CASE k # 1
        <5>1. k - 1 \in 1 .. Len(c) - 2 /\ k - 1 \in 1 .. Len(c) /\ (k - 1) + 1 = k
          BY <4>3, <4>4, <4>6
        <5>2. u[2][k] = t[2][k - 1]
          BY <4>2, <4>3, <4>4, <5>1
        <5>3. <<t[2][k - 1]>> \in ValuesOf(g, t[1])
          BY <1>3, <4>2, <5>1 DEF Sound, OneValue
        <5>. QED
          BY <3>2, <5>2, <5>3
      <4>. QED
        BY <4>5, <4>6
    <3>. QED
      BY <1>1, <3>1, <3>2
  <2>3. ASSUME NEW u \in h.type, NEW k \in 1 .. Len(u[2]) - 2,
               NEW w \in h.type, NEW j \in 1 .. Len(w[2]) - 2, u[1] = w[1]
        PROVE  w[2][j] = u[2][k]
    <3>1. CASE u \in g.type /\ w \in g.type
      BY <2>3, <3>1 DEF Sound, OneValue
    <3>2. ASSUME NEW t \in moved, t[1] = u[1] PROVE w[2][j] = u[2][k]
      <4>1. PICK v : ValuesOf(g, u[1]) = {v}
        BY <1>3, <3>2
      <4>2. <<w[2][j]>> = v /\ <<u[2][k]>> = v
        BY <2>2, <2>3, <4>1
      <4>. QED
        BY <4>2
    <3>3. u \in g.type \/ \E t \in moved : t[1] = u[1]
      BY <1>1
    <3>4. w \in g.type \/ \E t \in moved : t[1] = w[1]
      BY <1>1
    <3>. QED
      BY <2>3, <3>1, <3>2, <3>3, <3>4
  <2>. QED
    BY <2>1, <2>2, <2>3 DEF OneValue
<1>. QED
  BY <1>7, <1>8, <1>10, <1>11 DEF Sound

-----------------------------------------------------------------------------
(* Finalising and joining.  The strategies are in no part of soundness.      *)
LEMMA SameButStrategy ==
  ASSUME NEW Y, NEW g, Sound(Y, g), NEW h,
         h.type = g.type, h.sub = g.sub, h.sliceOf = g.sliceOf, h.axis = g.axis, h.scope = g.scope
  PROVE  Sound(Y, h)
<1>1. Timed(h) = Timed(g) /\ \A i : ValuesOf(h, i) = ValuesOf(g, i)
  BY DEF Timed, ValuesOf, Values, Super, TypesOf
<1>2. Typed(Y, h)
  BY <1>1 DEF Sound, Typed
<1>3. Classes(Y, h)
  BY <1>1, ClassesGrow DEF Sound
<1>4. OneValue(h)
  BY <1>1, SameValues DEF Sound
<1>5. Small(h)
  BY DEF Sound, Small, Within
<1>. QED
  BY <1>2, <1>3, <1>4, <1>5 DEF Sound

(* Attaching the value strategy changes the strategies only.                 *)
LEMMA Attached ==
  ASSUME NEW g, IsGraph(g), NEW h, h = attach_value_strategy(g)
  PROVE  /\ h.type = g.type /\ h.sub = g.sub /\ h.sliceOf = g.sliceOf
         /\ h.axis = g.axis /\ h.scope = g.scope
  BY DEF attach_value_strategy, IsGraph

(* A finalised graph is sound if the graph was, finalised before or not.     *)
LEMMA FinaliseSound ==
  ASSUME NEW Y, PlainTaxonomy(Y), NEW g, Sound(Y, g)
  PROVE  Sound(Y, Finalise(g))
<1>. DEFINE y == YearSlice(g)
            v == ValueSlice(y)
<1>1. IsGraph(y) /\ IsGraph(v)
  BY UnionIsGraph DEF YearSlice, ValueSlice
<1>2. Sound(Y, y)
  BY YearSound
<1>3. Sound(Y, v)
  <2>. HIDE DEF y
  <2>. QED
    BY <1>1, <1>2, ValueSound
<1>4. Finalise(g) = attach_value_strategy(v)
  BY DEF Finalise
<1>. HIDE DEF v
<1>. QED
  BY <1>1, <1>3, <1>4, Attached, SameButStrategy

(* A graph of plain classes, as a source document brings it: nothing in it   *)
(* is sliced, scoped or finalised.                                           *)
FromSource(Y, g) ==
  /\ \A t \in g.type : /\ t = <<t[1], t[1].cls>> /\ t[1].year \in Y /\ t[1].cls \in Plain(Y)
                       /\ RootOf(RootOf(t[1])) = RootOf(t[1])
  /\ g.sub \subseteq Plain(Y) \X Plain(Y)
  /\ \A a \in g.axis : a[1] \in Plain(Y) /\ a[2] = "drive"
  /\ g.sliceOf = {} /\ g.scope = {}
  /\ IsFiniteSet(g.type) /\ IsFiniteSet(g.sub)

(* A sound graph joined with a source's is sound.                            *)
LEMMA JoinSound ==
  ASSUME NEW Y, PlainTaxonomy(Y), NEW g, Sound(Y, g), NEW s, FromSource(Y, s), NEW h, h = Union(g, s)
  PROVE  Sound(Y, h)
<1>1. /\ h.type = g.type \cup s.type /\ h.sub = g.sub \cup s.sub /\ h.axis = g.axis \cup s.axis
      /\ h.sliceOf = g.sliceOf /\ h.scope = g.scope
  BY DEF Union, FromSource
<1>2. Timed(h) = Timed(g)
  BY <1>1 DEF Timed
<1>3. Small(h)
  <2>. PICK I, N : Within(g, I, N)
    BY DEF Sound, Small
  <2>. DEFINE insts == [t \in s.type |-> t[1]]
              names == [t \in s.type |-> t[2]]
              years == [t \in s.type |-> t[1].year]
              lower == [e \in s.sub |-> e[1]]
              upper == [e \in s.sub |-> e[2]]
              J == I \cup {insts[t] : t \in s.type}
              M == N \cup ({names[t] : t \in s.type} \cup ({years[t] : t \in s.type}
                     \cup ({lower[e] : e \in s.sub} \cup {upper[e] : e \in s.sub})))
  <2>0. IsFiniteSet(s.type) /\ IsFiniteSet(s.sub)
    BY DEF FromSource
  <2>1. /\ IsFiniteSet({insts[t] : t \in s.type})
        /\ IsFiniteSet({names[t] : t \in s.type})
        /\ IsFiniteSet({years[t] : t \in s.type})
    BY <2>0, FiniteImage
  <2>2a. IsFiniteSet({lower[e] : e \in s.sub}) /\ IsFiniteSet({upper[e] : e \in s.sub})
    BY <2>0, FiniteImage
  <2>2. IsFiniteSet(J) /\ IsFiniteSet(M)
    <3>. HIDE DEF insts, names, years, lower, upper
    <3>. QED
      BY <2>1, <2>2a, FS_Union DEF Within
  <2>3. s.type \subseteq J \X M /\ s.sub \subseteq M \X M
    <3>1. \A t \in s.type : t[1] \in J /\ t[2] \in M /\ t = <<t[1], t[2]>>
      BY DEF FromSource
    <3>2. \A e \in s.sub : e[1] \in M /\ e[2] \in M /\ e = <<e[1], e[2]>>
      BY DEF FromSource
    <3>. HIDE DEF J, M
    <3>. QED
      BY <3>1, <3>2
  <2>4. \A i \in J : i.year \in M
    BY DEF Within
  <2>5. N \subseteq M /\ I \subseteq J
    OBVIOUS
  <2>. HIDE DEF J, M
  <2>6. /\ g.type \subseteq I \X N /\ g.sub \subseteq N \X N
        /\ g.sliceOf \subseteq N \X N /\ g.scope \subseteq N \X N
    BY DEF Within
  <2>7. h.type \subseteq J \X M /\ h.sub \subseteq M \X M
    BY <1>1, <2>3, <2>5, <2>6
  <2>8. h.sliceOf \subseteq M \X M /\ h.scope \subseteq M \X M
    BY <1>1, <2>5, <2>6
  <2>9. Within(h, J, M)
    BY <2>2, <2>4, <2>7, <2>8 DEF Within
  <2>. QED
    BY <2>9 DEF Small
<1>4. Typed(Y, h)
  <2>1. ASSUME NEW t \in g.type
        PROVE  /\ t = <<t[1], t[2]>> /\ t[1].year \in Y /\ t[1].cls \in Plain(Y)
               /\ RootOf(RootOf(t[1])) = RootOf(t[1]) /\ <<t[1], t[1].cls>> \in g.type
               /\ \/ t[2] = t[1].cls
                  \/ /\ t[2] \in Dated(Y, t[1].year) /\ Base(t[2]) = t[1].cls
                     /\ t[2] \in Timed(g)
    BY DEF Sound, Typed
  <2>2. ASSUME NEW t \in s.type
        PROVE  /\ t = <<t[1], t[2]>> /\ t[1].year \in Y /\ t[1].cls \in Plain(Y)
               /\ RootOf(RootOf(t[1])) = RootOf(t[1]) /\ <<t[1], t[1].cls>> \in s.type
               /\ t[2] = t[1].cls
    <3>1. /\ t = <<t[1], t[1].cls>> /\ t[1].year \in Y /\ t[1].cls \in Plain(Y)
          /\ RootOf(RootOf(t[1])) = RootOf(t[1])
      BY DEF FromSource
    <3>2. t[2] = t[1].cls
      BY <3>1
    <3>. QED
      BY <3>1, <3>2
  <2>. QED
    BY <1>1, <1>2, <2>1, <2>2 DEF Typed
<1>5. Classes(Y, h)
  <2>1. \A e \in s.sub : SubEdge(Y, e)
    BY DEF FromSource, SubEdge
  <2>2. \A a \in s.axis : Mark(Y, a)
    <3>1. \A c \in Plain(Y) : Len(c) = 1
      BY DEF Plain
    <3>. QED
      BY <3>1 DEF FromSource, Mark
  <2>. QED
    BY <1>1, <2>1, <2>2, ClassesGrow DEF Sound
<1>6. OneValue(h)
  <2>1. \A i : ValuesOf(g, i) \subseteq ValuesOf(h, i)
    BY <1>1, <1>3, ValuesGrow DEF Sound, PlainTaxonomy
  <2>2. \A t \in s.type : Len(t[2]) = 1
    BY DEF FromSource, Plain
  <2>. QED
    BY <1>1, <2>1, <2>2, SameValues DEF Sound
<1>. QED
  BY <1>3, <1>4, <1>5, <1>6 DEF Sound

-----------------------------------------------------------------------------
(* Every instance has a time-scoped type, and the slices of its year follow  *)
(* the taxonomy above the class it was authored with.                        *)
RollsUp(g) ==
  \A i \in Instances(g) :
    /\ \E t \in g.type : t[1] = i /\ t[2] # i.cls
    /\ \A e \in Super(g) : e[1] \in Reach(Super(g), {i.cls}) =>
         <<slice_name(e[1], i.year), slice_name(e[2], i.year)>> \in g.sub

(* A pass whose new edges leave no plain class adds nothing above one.       *)
LEMMA SameAbove ==
  ASSUME NEW Y, PlainTaxonomy(Y), NEW g, Classes(Y, g), Small(g), NEW h, Small(h),
         g.sub \subseteq h.sub, \A e \in h.sub \ g.sub : e[1] \notin Plain(Y),
         NEW c \in Plain(Y)
  PROVE  /\ Reach(Super(h), {c}) = Reach(Super(g), {c})
         /\ \A e \in Super(h) : e[1] \in Reach(Super(g), {c}) => e \in Super(g)
<1>1. IsFiniteSet({c}) /\ IsFiniteSet(Super(g)) /\ IsFiniteSet(Super(h))
  BY FS_Singleton, SmallIsFinite DEF PlainTaxonomy
<1>2. Reach(Super(g), {c}) \subseteq Plain(Y)
  BY PlainReach
<1>3. \A e \in Super(h) : e[1] \in Reach(Super(g), {c}) => e \in Super(g)
  BY <1>2 DEF Super
<1>4. Closed(Super(h), Reach(Super(g), {c}))
  BY <1>1, <1>3, ReachLeast DEF Closed
<1>5. Reach(Super(h), {c}) \subseteq Reach(Super(g), {c})
  BY <1>1, <1>4, ReachLeast
<1>6. Super(g) \subseteq Super(h) /\ {c} \subseteq Reach(Super(h), {c})
  BY <1>1, ReachLeast DEF Super
<1>7. Reach(Super(g), {c}) \subseteq Reach(Super(h), {c})
  BY <1>1, <1>6, ReachGrows
<1>. QED
  BY <1>3, <1>5, <1>7

(* From the year leaf of an instance every edge above its class is climbed.  *)
LEMMA ClimbOf ==
  ASSUME NEW h, NEW i, <<YearLeaf(i), i.cls>> \in h.sliceOf, <<YearLeaf(i), i.year>> \in h.scope,
         i.cls \notin Timed(h), NEW e \in Super(h), e[1] \in Reach(Super(h), {i.cls})
  PROVE  \E k \in Climbs(h) : /\ Child(k) = slice_name(e[1], i.year)
                              /\ Above(k) = slice_name(e[2], i.year)
                              /\ k.parent = e[2] /\ k.year = i.year
<1>. DEFINE k == [slc |-> YearLeaf(i), base |-> i.cls, year |-> i.year,
                  cls |-> e[1], parent |-> e[2]]
<1>1. k \in Climbs(h)
  <2>. PICK s \in h.sliceOf : s = <<YearLeaf(i), i.cls>>
    OBVIOUS
  <2>. DEFINE C(r) == {[slc |-> r[1], base |-> r[2], year |-> y, cls |-> d[1], parent |-> d[2]] :
                         y \in Image(h.scope, r[1]),
                         d \in {d \in Super(h) : d[1] \in Reach(Super(h), {r[2]})}}
  <2>1. i.year \in Image(h.scope, s[1])
    BY DEF Image
  <2>2. k \in C(s)
    BY <2>1
  <2>3. s \in {r \in h.sliceOf : r[2] \notin Timed(h)}
    OBVIOUS
  <2>4. Climbs(h) = UNION {C(r) : r \in {r \in h.sliceOf : r[2] \notin Timed(h)}}
    BY DEF Climbs
  <2>. HIDE DEF C, k
  <2>. QED
    BY <2>2, <2>3, <2>4
<1>2. /\ Child(k) = slice_name(e[1], i.year) /\ Above(k) = slice_name(e[2], i.year)
      /\ k.parent = e[2] /\ k.year = i.year
  BY DEF Child, Above, YearLeaf
<1>. HIDE DEF k
<1>. QED
  BY <1>1, <1>2

(* The year pass makes the slices of every instance's year.                  *)
LEMMA YearRollsUp ==
  ASSUME NEW Y, PlainTaxonomy(Y), NEW g, Sound(Y, g), NEW f, f = YearSlice(g)
  PROVE  /\ RollsUp(f)
         /\ \A i \in Instances(f) : <<i, YearLeaf(i)>> \in f.type
<1>. PICK h : h = Union(g, MintLeaves(g))
  OBVIOUS
<1>1. f = Union(h, MintAncestors(h))
  BY DEF YearSlice
<1>2. Sound(Y, h) /\ Sound(Y, f)
  BY <1>1, LeavesSound, AncestorsSound
<1>3. Instances(f) = Instances(g) /\ f.type = h.type
  BY <1>1, YearSliceInstances, AncestorsAdded
<1>4. \A e \in f.sub \ h.sub : e[1] \notin Plain(Y)
  <2>1. ASSUME NEW k \in Climbs(h) PROVE Above(k) \notin Plain(Y) /\ Child(k) \notin Plain(Y)
    <3>1. /\ k.year \in Y /\ k.parent \in Plain(Y) /\ k.cls \in Plain(Y)
          /\ k.slc \in Dated(Y, k.year)
      BY <1>2, ClimbsArePlain DEF Sound
    <3>2. Above(k) \in Dated(Y, k.year) /\ Child(k) \in Dated(Y, k.year)
      BY <3>1, SliceName DEF Above, Child, PlainTaxonomy
    <3>. QED
      BY <3>1, <3>2, NamesApart
  <2>2. f.sub = h.sub \cup {<<Child(k), Above(k)>> : k \in Climbs(h)}
                     \cup {<<Above(k), k.parent>> : k \in Climbs(h)}
    BY <1>1, AncestorsAdded
  <2>. QED
    BY <2>1, <2>2
<1>5. h.sub \subseteq f.sub
  BY <1>1, AncestorsAdded
<1>6. ASSUME NEW i \in Instances(g)
      PROVE  /\ <<i, YearLeaf(i)>> \in f.type /\ YearLeaf(i) # i.cls
             /\ \A e \in Super(f) : e[1] \in Reach(Super(f), {i.cls}) =>
                  <<slice_name(e[1], i.year), slice_name(e[2], i.year)>> \in f.sub
  <2>1. /\ <<i, YearLeaf(i)>> \in h.type /\ <<YearLeaf(i), i.cls>> \in h.sliceOf
        /\ <<YearLeaf(i), i.year>> \in h.scope
    BY LeavesAdded
  <2>2. i.cls \in Plain(Y) /\ i.year \in Y
    BY DEF Sound, Typed, Instances
  <2>3. YearLeaf(i) # i.cls
    BY <2>2, SliceName, NamesApart DEF YearLeaf, PlainTaxonomy
  <2>4. i.cls \notin Timed(h)
    <3>. SUFFICES ASSUME NEW p \in h.scope, p[1] = i.cls PROVE FALSE
      BY DEF Timed
    <3>1. p[2] \in Y /\ p[1] \in Dated(Y, p[2])
      BY <1>2 DEF Sound, Classes, ScopeOf
    <3>. QED
      BY <2>2, <3>1, NamesApart
  <2>5. /\ Reach(Super(f), {i.cls}) = Reach(Super(h), {i.cls})
        /\ \A e \in Super(f) : e[1] \in Reach(Super(h), {i.cls}) => e \in Super(h)
    BY <1>2, <1>4, <1>5, <2>2, SameAbove DEF Sound
  <2>6. ASSUME NEW e \in Super(h), e[1] \in Reach(Super(h), {i.cls})
        PROVE  <<slice_name(e[1], i.year), slice_name(e[2], i.year)>> \in f.sub
    <3>1. PICK k \in Climbs(h) :
            Child(k) = slice_name(e[1], i.year) /\ Above(k) = slice_name(e[2], i.year)
      BY <2>1, <2>4, <2>6, ClimbOf
    <3>3. <<Child(k), Above(k)>> \in f.sub
      BY <1>1, AncestorsAdded
    <3>. QED
      BY <3>1, <3>3
  <2>. QED
    BY <1>3, <2>1, <2>3, <2>5, <2>6
<1>7. \A i \in Instances(g) : \E t \in f.type : t[1] = i /\ t[2] # i.cls
  <2>. TAKE i \in Instances(g)
  <2>. DEFINE t == <<i, YearLeaf(i)>>
  <2>1. t \in f.type /\ t[1] = i /\ t[2] # i.cls
    BY <1>6
  <2>. QED
    BY <2>1
<1>. QED
  BY <1>3, <1>6, <1>7 DEF RollsUp

(* The value pass leaves the slices in place.                                *)
LEMMA ValueRollsUp ==
  ASSUME NEW Y, PlainTaxonomy(Y), NEW g, IsGraph(g), Sound(Y, g), RollsUp(g),
         NEW f, f = ValueSlice(g)
  PROVE  RollsUp(f)
<1>1. Sound(Y, f) /\ Instances(f) = Instances(g)
  BY ValueSound, ValueSliceInstances
<1>2. g.sub \subseteq f.sub /\ \A e \in f.sub \ g.sub : \E t \in Retyped(g) : e[1] = leaf_name(g, t)
  <2>1. Small(g)
    BY DEF Sound
  <2>2. /\ g.sub \subseteq f.sub
        /\ \A e \in (f.sub \ g.sub) \cup (f.sliceOf \ g.sliceOf) :
             \E t \in Retyped(g) : \E b :
               e = <<leaf_name(g, t), b>> /\ (b = t[2] \/ <<t[2], b>> \in g.sliceOf)
    BY <2>1, LeavesEmitted
  <2>3. ASSUME NEW e \in f.sub \ g.sub
        PROVE  \E t \in Retyped(g) : e[1] = leaf_name(g, t)
    <3>0. \E t \in Retyped(g) : \E b :
            e = <<leaf_name(g, t), b>> /\ (b = t[2] \/ <<t[2], b>> \in g.sliceOf)
      BY <2>2, <2>3
    <3>1. PICK t \in Retyped(g) : \E b : e = <<leaf_name(g, t), b>>
      BY <3>0
    <3>2. PICK b : e = <<leaf_name(g, t), b>>
      BY <3>1
    <3>. QED
      BY <3>2
  <2>. QED
    BY <2>2, <2>3
<1>3. ASSUME NEW t \in Retyped(g)
      PROVE  leaf_name(g, t) \notin Plain(Y)
  <2>1. t[1].year \in Y /\ t[2] \in Dated(Y, t[1].year) /\ InFront(Y, g, t)
    BY RetypedTypes
  <2>2. PICK v \in Plain(Y) : leaf_name(g, t) = v \o t[2]
    BY <2>1 DEF InFront
  <2>. QED
    BY <2>1, <2>2, LeafName, NamesApart DEF PlainTaxonomy
<1>4. ASSUME NEW i \in Instances(g), NEW e \in Super(f), e[1] \in Reach(Super(f), {i.cls})
      PROVE  <<slice_name(e[1], i.year), slice_name(e[2], i.year)>> \in f.sub
  <2>1. i.cls \in Plain(Y)
    BY DEF Sound, Typed, Instances
  <2>2. e \in Super(g) /\ e[1] \in Reach(Super(g), {i.cls})
    BY <1>1, <1>2, <1>3, <1>4, <2>1, SameAbove DEF Sound
  <2>. QED
    BY <1>2, <2>2 DEF RollsUp
<1>5. ASSUME NEW i \in Instances(g) PROVE \E u \in f.type : u[1] = i /\ u[2] # i.cls
  <2>1. PICK t \in g.type : t[1] = i /\ t[2] # i.cls
    BY DEF RollsUp
  <2>2. f.type = (g.type \ Retyped(g)) \cup {<<r[1], leaf_name(g, r)>> : r \in Retyped(g)}
    BY LeavesEmitted DEF Sound
  <2>3. CASE t \in Retyped(g)
    <3>1. <<i, leaf_name(g, t)>> \in f.type
      BY <2>1, <2>2, <2>3
    <3>2. i.cls \in Plain(Y)
      BY DEF Sound, Typed, Instances
    <3>3. leaf_name(g, t) # i.cls
      BY <1>3, <2>3, <3>2
    <3>. QED
      BY <3>1, <3>3
  <2>. QED
    BY <2>1, <2>2, <2>3
<1>. QED
  BY <1>1, <1>4, <1>5 DEF RollsUp

(* After finalising, every instance rolls up along the taxonomy.             *)
LEMMA FinaliseRollsUp ==
  ASSUME NEW Y, PlainTaxonomy(Y), NEW g, Sound(Y, g)
  PROVE  RollsUp(Finalise(g))
<1>. DEFINE y == YearSlice(g)
            v == ValueSlice(y)
<1>1. IsGraph(y) /\ IsGraph(v)
  BY UnionIsGraph DEF YearSlice, ValueSlice
<1>2. Sound(Y, y) /\ RollsUp(y)
  BY YearSound, YearRollsUp
<1>3. RollsUp(v)
  <2>. HIDE DEF y
  <2>. QED
    BY <1>1, <1>2, ValueRollsUp
<1>4. PICK f : f = Finalise(g) /\ f = attach_value_strategy(v)
  BY DEF Finalise
<1>. HIDE DEF v
<1>5. f.type = v.type /\ f.sub = v.sub
  BY <1>1, <1>4, Attached
<1>. QED
  BY <1>3, <1>4, <1>5 DEF RollsUp, Instances, Super

-----------------------------------------------------------------------------
(* Without drivetrains: the sliced graph of the instances I under the edges  *)
(* U, in one go.  A climb is an instance and an edge above its class.        *)
Rise(I, U) ==
  {r \in I \X (Hierarchy \cup U) : r[2][1] \in Reach(Hierarchy \cup U, {r[1].cls})}
LowEnd(r) == slice_name(r[2][1], r[1].year)
HighEnd(r) == slice_name(r[2][2], r[1].year)

Sliced(I, U) ==
  [type     |-> {<<i, i.cls>> : i \in I} \cup {<<i, YearLeaf(i)>> : i \in I},
   sub      |-> U \cup {<<YearLeaf(i), i.cls>> : i \in I}
                  \cup {<<LowEnd(r), HighEnd(r)>> : r \in Rise(I, U)}
                  \cup {<<HighEnd(r), r[2][2]>> : r \in Rise(I, U)},
   sliceOf  |-> {<<YearLeaf(i), i.cls>> : i \in I} \cup {<<HighEnd(r), r[2][2]>> : r \in Rise(I, U)},
   axis     |-> {<<YearLeaf(i), "year">> : i \in I} \cup {<<HighEnd(r), "year">> : r \in Rise(I, U)},
   scope    |-> {<<YearLeaf(i), i.year>> : i \in I} \cup {<<HighEnd(r), r[1].year>> : r \in Rise(I, U)},
   strategy |-> {<<HighEnd(r), "equal">> : r \in Rise(I, U)}]

(* The instances J and the edges V, as source documents bring them.          *)
Authored(J, V) ==
  [type |-> {<<i, i.cls>> : i \in J}, sub |-> V, sliceOf |-> {}, axis |-> {}, scope |-> {},
   strategy |-> {}]

(* Names and edges of a source: plain, and finitely many.                    *)
PlainEdges(Y, U) == IsFiniteSet(U) /\ U \subseteq Plain(Y) \X Plain(Y)

(* More edges rise higher.                                                   *)
LEMMA RiseGrows ==
  ASSUME NEW Y, PlainTaxonomy(Y), NEW U, NEW Z, PlainEdges(Y, Z), U \subseteq Z,
         NEW I, NEW K, I \subseteq K
  PROVE  Rise(I, U) \subseteq Rise(K, Z)
<1>1. IsFiniteSet(Hierarchy \cup Z) /\ IsFiniteSet(Hierarchy \cup U)
  BY FS_Union, FS_Subset DEF PlainTaxonomy, PlainEdges
<1>2. ASSUME NEW c PROVE Reach(Hierarchy \cup U, {c}) \subseteq Reach(Hierarchy \cup Z, {c})
  <2>1. IsFiniteSet({c}) /\ Hierarchy \cup U \subseteq Hierarchy \cup Z
    BY FS_Singleton
  <2>2. {c} \subseteq Reach(Hierarchy \cup Z, {c})
    BY <1>1, <2>1, ReachLeast
  <2>. QED
    BY <1>1, <2>1, <2>2, ReachGrows
<1>. SUFFICES ASSUME NEW r \in Rise(I, U) PROVE r \in Rise(K, Z)
  OBVIOUS
<1>3. r \in I \X (Hierarchy \cup U) /\ r[2][1] \in Reach(Hierarchy \cup U, {r[1].cls})
  BY DEF Rise
<1>4. r \in K \X (Hierarchy \cup Z) /\ r[2][1] \in Reach(Hierarchy \cup Z, {r[1].cls})
  BY <1>2, <1>3
<1>. QED
  BY <1>4 DEF Rise

PlainCast(Y, I) == \A i \in I : i.cls \in Plain(Y) /\ i.year \in Y

(* What rises from an instance goes along plain edges, to a dated name.      *)
LEMMA RiseIsPlain ==
  ASSUME NEW Y, PlainTaxonomy(Y), NEW U, PlainEdges(Y, U),
         NEW I, PlainCast(Y, I), NEW r \in Rise(I, U)
  PROVE  /\ r[1] \in I /\ r[2] \in Hierarchy \cup U /\ r[2] = <<r[2][1], r[2][2]>>
         /\ r[2][1] \in Plain(Y) /\ r[2][2] \in Plain(Y)
         /\ r[2][2] \in Reach(Hierarchy \cup U, {r[1].cls})
         /\ HighEnd(r) \in Dated(Y, r[1].year) /\ LowEnd(r) \in Dated(Y, r[1].year)
<1>1. /\ r[1] \in I /\ r[2] \in Hierarchy \cup U /\ r[2][1] \in Reach(Hierarchy \cup U, {r[1].cls})
  BY DEF Rise
<1>2. r[2] \in Plain(Y) \X Plain(Y)
  BY <1>1 DEF PlainTaxonomy, PlainEdges
<1>3. r[2][2] \in Reach(Hierarchy \cup U, {r[1].cls})
  <2>1. IsFiniteSet(Hierarchy \cup U) /\ IsFiniteSet({r[1].cls})
    BY FS_Union, FS_Singleton DEF PlainTaxonomy, PlainEdges
  <2>2. Closed(Hierarchy \cup U, Reach(Hierarchy \cup U, {r[1].cls}))
    BY <2>1, ReachLeast
  <2>. QED
    BY <1>1, <2>2 DEF Closed
<1>4. r[1].year \in Y /\ Y \in SUBSET Word
  BY <1>1 DEF PlainTaxonomy, PlainCast
<1>. QED
  BY <1>1, <1>2, <1>3, <1>4, SliceName DEF HighEnd, LowEnd

(* The sliced graph of I and U, with the instances K and the edges Z in it.   *)
Joined(g, I, U, K, Z) ==
  /\ g.type = {<<i, i.cls>> : i \in K} \cup {<<i, YearLeaf(i)>> : i \in I}
  /\ g.sub = Z \cup {<<YearLeaf(i), i.cls>> : i \in I}
               \cup {<<LowEnd(r), HighEnd(r)>> : r \in Rise(I, U)}
               \cup {<<HighEnd(r), r[2][2]>> : r \in Rise(I, U)}
  /\ g.sliceOf = Sliced(I, U).sliceOf /\ g.axis = Sliced(I, U).axis
  /\ g.scope = Sliced(I, U).scope /\ g.strategy = Sliced(I, U).strategy

(* The year pass makes it the sliced graph of K and Z.                       *)
LEMMA SlicedAgain ==
  ASSUME NEW Y, PlainTaxonomy(Y), NEW I, NEW K, I \subseteq K,
         NEW U, NEW Z, U \subseteq Z, PlainEdges(Y, Z),
         NEW g, Joined(g, I, U, K, Z), Sound(Y, g),
         NEW f, f = YearSlice(g)
  PROVE  f = Sliced(K, Z)
<1>. DEFINE E == Hierarchy \cup Z
<1>1. /\ g.type = {<<i, i.cls>> : i \in K} \cup {<<i, YearLeaf(i)>> : i \in I}
      /\ g.sub = Z \cup {<<YearLeaf(i), i.cls>> : i \in I}
                   \cup {<<LowEnd(r), HighEnd(r)>> : r \in Rise(I, U)}
                   \cup {<<HighEnd(r), r[2][2]>> : r \in Rise(I, U)}
  BY DEF Joined
<1>2. Instances(g) = K
  <2>1. \A i \in K : <<i, i.cls>> \in g.type
    BY <1>1
  <2>2. \A t \in g.type : t[1] \in K
    BY <1>1
  <2>3. \A i \in K : i \in Instances(g)
    <3>. TAKE i \in K
    <3>1. PICK t \in g.type : t = <<i, i.cls>>
      BY <2>1
    <3>. QED
      BY <3>1 DEF Instances
  <2>4. \A i \in Instances(g) : i \in K
    BY <2>2 DEF Instances
  <2>. QED
    BY <2>3, <2>4
<1>3. \A i \in K : i.cls \in Plain(Y) /\ i.year \in Y
  BY <1>2 DEF Sound, Typed, Instances
<1>. PICK h : h = Union(g, MintLeaves(g))
  OBVIOUS
<1>4. /\ h.type = g.type \cup {<<i, YearLeaf(i)>> : i \in K}
      /\ h.sub = g.sub \cup {<<YearLeaf(i), i.cls>> : i \in K}
      /\ h.sliceOf = g.sliceOf \cup {<<YearLeaf(i), i.cls>> : i \in K}
      /\ h.axis = g.axis \cup {<<YearLeaf(i), "year">> : i \in K}
      /\ h.scope = g.scope \cup {<<YearLeaf(i), i.year>> : i \in K}
      /\ h.strategy = g.strategy
  BY <1>2, LeavesAdded
<1>5. Sound(Y, h) /\ f = Union(h, MintAncestors(h))
  BY LeavesSound DEF YearSlice
<1>6. /\ f.type = h.type
      /\ f.sub = h.sub \cup {<<Child(k), Above(k)>> : k \in Climbs(h)}
                       \cup {<<Above(k), k.parent>> : k \in Climbs(h)}
      /\ f.sliceOf = h.sliceOf \cup {<<Above(k), k.parent>> : k \in Climbs(h)}
      /\ f.axis = h.axis \cup {<<Above(k), "year">> : k \in Climbs(h)}
      /\ f.scope = h.scope \cup {<<Above(k), k.year>> : k \in Climbs(h)}
      /\ f.strategy = h.strategy \cup {<<Above(k), "equal">> : k \in Climbs(h)}
  BY <1>5, AncestorsAdded
<1>7. Rise(I, U) \subseteq Rise(K, Z)
  BY RiseGrows
<1>8. ASSUME NEW r \in Rise(K, Z)
      PROVE  /\ r[1] \in K /\ r[2] \in E /\ r[2] = <<r[2][1], r[2][2]>>
             /\ r[2][1] \in Plain(Y) /\ r[2][2] \in Plain(Y) /\ r[2][2] \in Reach(E, {r[1].cls})
             /\ HighEnd(r) \in Dated(Y, r[1].year) /\ LowEnd(r) \in Dated(Y, r[1].year)
  <2>1. PlainCast(Y, K)
    BY <1>3 DEF PlainCast
  <2>. QED
    BY <2>1, RiseIsPlain
<1>9. \A i \in K : YearLeaf(i) \in Dated(Y, i.year)
  BY <1>3, SliceName DEF YearLeaf, PlainTaxonomy
<1>10. IsFiniteSet(E) /\ IsFiniteSet(Super(h)) /\ E \subseteq Super(h)
  BY <1>1, <1>4, <1>5, FS_Union, SmallIsFinite DEF PlainTaxonomy, PlainEdges, Sound, Super
<1>11. \A e \in Super(h) : e[1] \in Plain(Y) => e \in E
  <2>. SUFFICES ASSUME NEW e \in h.sub, e[1] \in Plain(Y), e \notin Z PROVE FALSE
    BY DEF Super
  <2>1. CASE \E i \in K : e = <<YearLeaf(i), i.cls>>
    BY <1>3, <1>9, <2>1, NamesApart
  <2>2. ASSUME NEW r \in Rise(K, Z), e[1] = LowEnd(r) \/ e[1] = HighEnd(r) PROVE FALSE
    <3>1. r[1].year \in Y /\ e[1] \in Dated(Y, r[1].year)
      BY <1>3, <1>8, <2>2
    <3>. QED
      BY <3>1, NamesApart
  <2>3. CASE \E r \in Rise(I, U) : e = <<LowEnd(r), HighEnd(r)>> \/ e = <<HighEnd(r), r[2][2]>>
    <3>1. PICK r \in Rise(I, U) : e = <<LowEnd(r), HighEnd(r)>> \/ e = <<HighEnd(r), r[2][2]>>
      BY <2>3
    <3>2. e[1] = LowEnd(r) \/ e[1] = HighEnd(r)
      BY <3>1
    <3>. QED
      BY <1>7, <2>2, <3>2
  <2>. QED
    BY <1>1, <1>4, <2>1, <2>3
<1>12. ASSUME NEW c \in Plain(Y) PROVE Reach(Super(h), {c}) = Reach(E, {c})
  <2>1. IsFiniteSet({c})
    BY FS_Singleton
  <2>2. /\ {c} \subseteq Reach(E, {c}) /\ Closed(E, Reach(E, {c})) /\ {c} \subseteq Reach(Super(h), {c})
    BY <1>10, <2>1, ReachLeast
  <2>3. Reach(E, {c}) \subseteq Reach(Super(h), {c})
    BY <1>10, <2>1, <2>2, ReachGrows
  <2>4. Reach(Super(h), {c}) \subseteq Plain(Y)
    BY <1>5, PlainReach DEF Sound
  <2>5. Closed(Super(h), Reach(E, {c}))
    BY <1>11, <2>2, <2>3, <2>4 DEF Closed
  <2>6. Reach(Super(h), {c}) \subseteq Reach(E, {c})
    BY <1>10, <2>1, <2>2, <2>5, ReachLeast
  <2>. QED
    BY <2>3, <2>6
(* A climb is a rise of an instance, *)
<1>13. ASSUME NEW k \in Climbs(h)
       PROVE  \E r \in Rise(K, Z) : /\ Child(k) = LowEnd(r) /\ Above(k) = HighEnd(r)
                                    /\ k.parent = r[2][2] /\ k.year = r[1].year
  <2>1. /\ k.year \in Y /\ <<k.slc, k.base>> \in h.sliceOf
        /\ k.slc \in Dated(Y, k.year) /\ k.base \in Plain(Y)
        /\ <<k.cls, k.parent>> \in Super(h) /\ k.cls \in Reach(Super(h), {k.base})
        /\ k.cls \in Plain(Y) /\ k.parent \in Plain(Y)
    BY <1>5, ClimbsArePlain DEF Sound
  <2>2. <<k.cls, k.parent>> \in E /\ k.cls \in Reach(E, {k.base})
    BY <1>11, <1>12, <2>1
  <2>3. PICK i \in K : /\ k.slc = slice_name(k.base, i.year) /\ k.slc \in Dated(Y, i.year)
                       /\ k.base \in Reach(E, {i.cls})
    <3>1. CASE \E i \in K : <<k.slc, k.base>> = <<YearLeaf(i), i.cls>>
      <4>1. PICK i \in K : k.slc = YearLeaf(i) /\ k.base = i.cls
        BY <3>1
      <4>2. IsFiniteSet({i.cls})
        BY FS_Singleton
      <4>3. i.cls \in Reach(E, {i.cls})
        BY <1>10, <4>2, ReachLeast
      <4>. QED
        BY <1>9, <4>1, <4>3 DEF YearLeaf
    <3>2. CASE \E r \in Rise(I, U) : <<k.slc, k.base>> = <<HighEnd(r), r[2][2]>>
      <4>1. PICK r \in Rise(K, Z) : k.slc = HighEnd(r) /\ k.base = r[2][2]
        BY <1>7, <3>2
      <4>. QED
        BY <1>8, <4>1 DEF HighEnd
    <3>3. h.sliceOf = {<<YearLeaf(i), i.cls>> : i \in I} \cup {<<HighEnd(r), r[2][2]>> : r \in Rise(I, U)}
                        \cup {<<YearLeaf(i), i.cls>> : i \in K}
      BY <1>4 DEF Joined, Sliced
    <3>. QED
      BY <2>1, <3>1, <3>2, <3>3
  <2>4. i.year = k.year
    BY <1>3, <2>1, <2>3, NamesApart
  <2>. DEFINE r == <<i, <<k.cls, k.parent>>>>
  <2>5. r \in Rise(K, Z)
    <3>1. IsFiniteSet({k.base}) /\ IsFiniteSet({i.cls}) /\ {k.base} \subseteq Reach(E, {i.cls})
      BY <2>3, FS_Singleton
    <3>2. Reach(E, {k.base}) \subseteq Reach(E, {i.cls})
      BY <1>10, <3>1, ReachGrows
    <3>3. k.cls \in Reach(E, {i.cls})
      BY <2>2, <3>2
    <3>. QED
      BY <2>2, <3>3 DEF Rise
  <2>6. Child(k) = slice_name(k.cls, k.year) /\ Above(k) = slice_name(k.parent, k.year)
    BY <2>3, <2>4 DEF Child, Above
  <2>7. /\ LowEnd(r) = slice_name(k.cls, k.year) /\ HighEnd(r) = slice_name(k.parent, k.year)
        /\ r[2][2] = k.parent /\ r[1].year = k.year
    BY <2>4 DEF LowEnd, HighEnd
  <2>. HIDE DEF r
  <2>. QED
    BY <2>5, <2>6, <2>7
(* and the other way round. *)
<1>14. ASSUME NEW r \in Rise(K, Z)
       PROVE  \E k \in Climbs(h) : /\ Child(k) = LowEnd(r) /\ Above(k) = HighEnd(r)
                                   /\ k.parent = r[2][2] /\ k.year = r[1].year
  <2>. PICK i \in K, e \in E : i = r[1] /\ e = r[2]
    BY <1>8
  <2>1. i.cls \in Plain(Y) /\ i.year \in Y
    BY <1>3
  <2>2. i.cls \notin Timed(h)
    <3>. SUFFICES ASSUME NEW p \in h.scope, p[1] = i.cls PROVE FALSE
      BY DEF Timed
    <3>1. p[2] \in Y /\ p[1] \in Dated(Y, p[2])
      BY <1>5 DEF Sound, Classes, ScopeOf
    <3>. QED
      BY <2>1, <3>1, NamesApart
  <2>3. <<YearLeaf(i), i.cls>> \in h.sliceOf /\ <<YearLeaf(i), i.year>> \in h.scope
    BY <1>4
  <2>4. e \in Super(h) /\ e[1] \in Reach(Super(h), {i.cls})
    <3>1. e[1] \in Reach(E, {i.cls})
      BY DEF Rise
    <3>. QED
      BY <1>10, <1>12, <2>1, <3>1
  <2>. QED
    BY <2>2, <2>3, <2>4, ClimbOf DEF LowEnd, HighEnd
<1>15. {<<Child(k), Above(k)>> : k \in Climbs(h)} = {<<LowEnd(r), HighEnd(r)>> : r \in Rise(K, Z)}
  BY <1>13, <1>14
<1>16. {<<Above(k), k.parent>> : k \in Climbs(h)} = {<<HighEnd(r), r[2][2]>> : r \in Rise(K, Z)}
  BY <1>13, <1>14
<1>17. {<<Above(k), k.year>> : k \in Climbs(h)} = {<<HighEnd(r), r[1].year>> : r \in Rise(K, Z)}
  BY <1>13, <1>14
<1>18. /\ {<<Above(k), "year">> : k \in Climbs(h)} = {<<HighEnd(r), "year">> : r \in Rise(K, Z)}
       /\ {<<Above(k), "equal">> : k \in Climbs(h)} = {<<HighEnd(r), "equal">> : r \in Rise(K, Z)}
  BY <1>13, <1>14
<1>19. /\ {<<i, YearLeaf(i)>> : i \in I} \subseteq {<<i, YearLeaf(i)>> : i \in K}
       /\ {<<YearLeaf(i), i.cls>> : i \in I} \subseteq {<<YearLeaf(i), i.cls>> : i \in K}
       /\ {<<YearLeaf(i), "year">> : i \in I} \subseteq {<<YearLeaf(i), "year">> : i \in K}
       /\ {<<YearLeaf(i), i.year>> : i \in I} \subseteq {<<YearLeaf(i), i.year>> : i \in K}
  OBVIOUS
<1>20. /\ {<<LowEnd(r), HighEnd(r)>> : r \in Rise(I, U)} \subseteq {<<LowEnd(r), HighEnd(r)>> : r \in Rise(K, Z)}
       /\ {<<HighEnd(r), r[2][2]>> : r \in Rise(I, U)} \subseteq {<<HighEnd(r), r[2][2]>> : r \in Rise(K, Z)}
       /\ {<<HighEnd(r), "year">> : r \in Rise(I, U)} \subseteq {<<HighEnd(r), "year">> : r \in Rise(K, Z)}
       /\ {<<HighEnd(r), "equal">> : r \in Rise(I, U)} \subseteq {<<HighEnd(r), "equal">> : r \in Rise(K, Z)}
       /\ {<<HighEnd(r), r[1].year>> : r \in Rise(I, U)} \subseteq {<<HighEnd(r), r[1].year>> : r \in Rise(K, Z)}
  BY <1>7
<1>21. f.type = {<<i, i.cls>> : i \in K} \cup {<<i, YearLeaf(i)>> : i \in K}
  BY <1>1, <1>4, <1>6, <1>19
<1>22. f.sub = Z \cup {<<YearLeaf(i), i.cls>> : i \in K}
                 \cup {<<LowEnd(r), HighEnd(r)>> : r \in Rise(K, Z)}
                 \cup {<<HighEnd(r), r[2][2]>> : r \in Rise(K, Z)}
  BY <1>1, <1>4, <1>6, <1>15, <1>16, <1>19, <1>20
<1>23. /\ g.sliceOf = {<<YearLeaf(i), i.cls>> : i \in I} \cup {<<HighEnd(r), r[2][2]>> : r \in Rise(I, U)}
       /\ g.axis = {<<YearLeaf(i), "year">> : i \in I} \cup {<<HighEnd(r), "year">> : r \in Rise(I, U)}
       /\ g.scope = {<<YearLeaf(i), i.year>> : i \in I} \cup {<<HighEnd(r), r[1].year>> : r \in Rise(I, U)}
       /\ g.strategy = {<<HighEnd(r), "equal">> : r \in Rise(I, U)}
  BY DEF Joined, Sliced
<1>24. f.sliceOf = {<<YearLeaf(i), i.cls>> : i \in K} \cup {<<HighEnd(r), r[2][2]>> : r \in Rise(K, Z)}
  BY <1>23, <1>4, <1>6, <1>16, <1>19, <1>20
<1>25. f.axis = {<<YearLeaf(i), "year">> : i \in K} \cup {<<HighEnd(r), "year">> : r \in Rise(K, Z)}
  BY <1>23, <1>4, <1>6, <1>18, <1>19, <1>20
<1>26. f.scope = {<<YearLeaf(i), i.year>> : i \in K} \cup {<<HighEnd(r), r[1].year>> : r \in Rise(K, Z)}
  BY <1>23, <1>4, <1>6, <1>17, <1>19, <1>20
<1>27. f.strategy = {<<HighEnd(r), "equal">> : r \in Rise(K, Z)}
  BY <1>23, <1>4, <1>6, <1>18, <1>20
<1>28. IsGraph(f)
  BY <1>5, UnionIsGraph
<1>. QED
  BY <1>21, <1>22, <1>24, <1>25, <1>26, <1>27, <1>28 DEF IsGraph, Sliced

(* A source joins a sliced graph.                                            *)
LEMMA JoinAuthored ==
  ASSUME NEW I, NEW U, NEW J, NEW V, NEW g, g = Union(Sliced(I, U), Authored(J, V))
  PROVE  Joined(g, I, U, I \cup J, U \cup V)
<1>1. /\ g.type = Sliced(I, U).type \cup {<<i, i.cls>> : i \in J}
      /\ g.sub = Sliced(I, U).sub \cup V
      /\ g.sliceOf = Sliced(I, U).sliceOf /\ g.axis = Sliced(I, U).axis
      /\ g.scope = Sliced(I, U).scope /\ g.strategy = Sliced(I, U).strategy
  BY DEF Union, Authored, Sliced
<1>2. {<<i, i.cls>> : i \in I \cup J} = {<<i, i.cls>> : i \in I} \cup {<<i, i.cls>> : i \in J}
  OBVIOUS
<1>3. /\ Sliced(I, U).type = {<<i, i.cls>> : i \in I} \cup {<<i, YearLeaf(i)>> : i \in I}
      /\ Sliced(I, U).sub = U \cup {<<YearLeaf(i), i.cls>> : i \in I}
                              \cup {<<LowEnd(r), HighEnd(r)>> : r \in Rise(I, U)}
                              \cup {<<HighEnd(r), r[2][2]>> : r \in Rise(I, U)}
  BY DEF Sliced
<1>. QED
  BY <1>1, <1>2, <1>3 DEF Joined

(* Nothing is sliced of nobody.                                              *)
LEMMA SlicedOfNone == Sliced({}, {}) = EmptyGraph
<1>1. Rise({}, {}) = {}
  BY DEF Rise
<1>. QED
  BY <1>1 DEF Sliced, EmptyGraph

(* Where no instance is retyped the value pass does nothing.                 *)
LEMMA NothingMoved ==
  ASSUME NEW f, IsGraph(f), Retyped(f) = {}
  PROVE  ValueSlice(f) = f
<1>2. emit_leaf(f, {}) = EmptyGraph
  <2>1. /\ UNION { {<<l[1], b>> : b \in Image(f.sliceOf, l[2])} : l \in {} } = {}
        /\ UNION { {<<l[1], ax>> : ax \in {"drive"} \cup Image(f.axis, l[2])} : l \in {} } = {}
        /\ UNION { {<<l[1], y>> : y \in Image(f.scope, l[2])} : l \in {} } = {}
    OBVIOUS
  <2>2. LeafEdges(f, {}) = {}
    BY <2>1 DEF LeafEdges
  <2>. PICK E, A, X : /\ E = LeafEdges(f, {})
                      /\ A = UNION { {<<l[1], ax>> : ax \in {"drive"} \cup Image(f.axis, l[2])} : l \in {} }
                      /\ X = UNION { {<<l[1], y>> : y \in Image(f.scope, l[2])} : l \in {} }
    OBVIOUS
  <2>3. emit_leaf(f, {}) = [EmptyGraph EXCEPT !.sub = E, !.sliceOf = E, !.axis = A, !.scope = X]
    BY DEF emit_leaf
  <2>4. E = {} /\ A = {} /\ X = {}
    BY <2>1, <2>2
  <2>. QED
    BY <2>3, <2>4 DEF EmptyGraph
<1>3. ValueSlice(f) = f
  <2>. DEFINE stay == [f EXCEPT !.type = (@ \ {}) \cup {<<t[1], leaf_name(f, t)>> : t \in {}}]
  <2>1. ValueSlice(f) = Union(stay, emit_leaf(f, {<<leaf_name(f, t), t[2]>> : t \in {}}))
    BY DEF ValueSlice
  <2>2. {<<leaf_name(f, t), t[2]>> : t \in {}} = {} /\ {<<t[1], leaf_name(f, t)>> : t \in {}} = {}
    OBVIOUS
  <2>3. stay = f
    BY <2>2 DEF IsGraph
  <2>4. Union(f, EmptyGraph) = f
    BY DEF Union, EmptyGraph, IsGraph
  <2>. HIDE DEF stay
  <2>. QED
    BY <1>2, <2>1, <2>2, <2>3, <2>4
<1>. QED
  BY <1>3

(* Without a marked value the value axis does nothing.                       *)
LEMMA NoDrivetrain ==
  ASSUME NEW f, IsGraph(f), Values(f) = {}
  PROVE  attach_value_strategy(ValueSlice(f)) = f
<1>1. Retyped(f) = {}
  <2>1. \A i \in Instances(f) : [j \in Instances(f) |-> ValuesOf(f, j)][i] = {}
    BY DEF ValuesOf
  <2>2. \A t \in f.type : t[1] \in Instances(f)
    BY DEF Instances
  <2>3. Cardinality({}) = 0
    BY FS_EmptySet
  <2>. QED
    BY <2>1, <2>2, <2>3 DEF Retyped
<1>3. ValueSlice(f) = f
  BY <1>1, NothingMoved
<1>4. attach_value_strategy(f) = f
  <2>1. {e[2] : e \in {d \in f.sliceOf : d[1] \in Values(f)}} = {}
    OBVIOUS
  <2>2. {s \in f.strategy : s[1] \notin {}} = f.strategy /\ {<<p, "drive">> : p \in {}} = {}
    OBVIOUS
  <2>. QED
    BY <2>1, <2>2 DEF attach_value_strategy, IsGraph
<1>. QED
  BY <1>3, <1>4

(* Slicing again, with more instances and edges, gives what slicing once all *)
(* of them together gives.                                                   *)
LEMMA SlicedJoin ==
  ASSUME NEW Y, PlainTaxonomy(Y), NEW I, NEW J, NEW U, NEW V, PlainEdges(Y, U \cup V),
         NEW g, g = Union(Sliced(I, U), Authored(J, V)), Sound(Y, g)
  PROVE  YearSlice(g) = Sliced(I \cup J, U \cup V)
<1>. PICK K, Z, f : K = I \cup J /\ Z = U \cup V /\ f = YearSlice(g)
  OBVIOUS
<1>1. Joined(g, I, U, K, Z) /\ PlainEdges(Y, Z) /\ I \subseteq K /\ U \subseteq Z
  BY JoinAuthored
<1>2. f = Sliced(K, Z)
  BY <1>1, SlicedAgain
<1>. QED
  BY <1>2

(* And so does finalising, as long as no value is marked.                    *)
LEMMA FinalisedAgain ==
  ASSUME NEW Y, PlainTaxonomy(Y), NEW I, NEW J, NEW U, NEW V, PlainEdges(Y, U \cup V),
         NEW g, g = Union(Sliced(I, U), Authored(J, V)), Sound(Y, g)
  PROVE  Finalise(g) = Sliced(I \cup J, U \cup V)
<1>1. YearSlice(g) = Sliced(I \cup J, U \cup V)
  BY SlicedJoin
<1>2. IsGraph(YearSlice(g))
  BY UnionIsGraph DEF YearSlice
<1>3. Values(Sliced(I \cup J, U \cup V)) = {}
  BY DEF Values, Sliced
<1>. QED
  BY <1>1, <1>2, <1>3, NoDrivetrain DEF Finalise

(* Everything at once: the sliced graph of a sound cast.                     *)
LEMMA SlicedAtOnce ==
  ASSUME NEW Y, PlainTaxonomy(Y), NEW K, NEW Z, PlainEdges(Y, Z),
         FromSource(Y, Authored(K, Z))
  PROVE  /\ Sound(Y, Authored(K, Z))
         /\ YearSlice(Authored(K, Z)) = Sliced(K, Z)
         /\ Sound(Y, Sliced(K, Z))
<1>. PICK g : g = Authored(K, Z)
  OBVIOUS
<1>1. g = Union(EmptyGraph, g)
  BY DEF Union, EmptyGraph, Authored
<1>2. Sound(Y, EmptyGraph)
  <2>1. /\ EmptyGraph.type = {} /\ EmptyGraph.sub = {} /\ EmptyGraph.sliceOf = {}
        /\ EmptyGraph.axis = {} /\ EmptyGraph.scope = {}
    BY DEF EmptyGraph
  <2>2. Within(EmptyGraph, {}, {})
    BY <2>1, FS_EmptySet DEF Within
  <2>. QED
    BY <2>1, <2>2 DEF Sound, Typed, Classes, OneValue, Small
<1>3. Sound(Y, g)
  BY <1>1, <1>2, JoinSound
<1>4. g = Union(Sliced({}, {}), Authored(K, Z))
  BY <1>1, SlicedOfNone
<1>5. YearSlice(g) = Sliced({} \cup K, {} \cup Z)
  <2>1. PlainEdges(Y, {} \cup Z)
    OBVIOUS
  <2>. QED
    BY <1>3, <1>4, <2>1, SlicedJoin
<1>6. {} \cup K = K /\ {} \cup Z = Z
  OBVIOUS
<1>7. YearSlice(g) = Sliced(K, Z)
  BY <1>5, <1>6
<1>. QED
  BY <1>3, <1>7, YearSound

-----------------------------------------------------------------------------
(* No base is shared: no two values meet at one.                             *)
Meeting(g, t, u) == \E b : <<t[2], b>> \in g.sliceOf /\ <<u[2], b>> \in g.sliceOf
Calm(g) ==
  \A t, u \in g.type : Meeting(g, t, u) =>
    \A v \in ValuesOf(g, t[1]), w \in ValuesOf(g, u[1]) : v = w

LEMMA AtMostOne ==
  ASSUME NEW S, IsFiniteSet(S)
  PROVE  ~ (Cardinality(S) > 1) <=> \A v, w \in S : v = w
<1>1. ASSUME NEW v \in S, NEW w \in S, v # w PROVE Cardinality(S) > 1
  <2>1. IsFiniteSet({v}) /\ Cardinality({v}) = 1
    BY FS_Singleton
  <2>2. Cardinality({v} \cup {w}) = 2
    BY <1>1, <2>1, FS_AddElement
  <2>3. {v} \cup {w} \in SUBSET S
    OBVIOUS
  <2>4. Cardinality({v} \cup {w}) <= Cardinality(S)
    BY <2>3, FS_Subset
  <2>5. Cardinality(S) \in Nat
    BY FS_CardinalityType
  <2>. QED
    BY <2>2, <2>4, <2>5
<1>2. ASSUME \A v, w \in S : v = w PROVE ~ (Cardinality(S) > 1)
  <2>1. CASE S = {}
    BY <2>1, FS_EmptySet
  <2>2. ASSUME NEW v \in S PROVE ~ (Cardinality(S) > 1)
    <3>1. S = {v}
      BY <1>2
    <3>. QED
      BY <3>1, FS_Singleton
  <2>. QED
    BY <2>1, <2>2
<1>. QED
  BY <1>1, <1>2

LEMMA UnsharedIsCalm ==
  ASSUME NEW g, Small(g), IsFiniteSet(Hierarchy)
  PROVE  Shared(g, [i \in Instances(g) |-> ValuesOf(g, i)]) = {} <=> Calm(g)
<1>. DEFINE vals == [i \in Instances(g) |-> ValuesOf(g, i)]
            at(b) == {u \in g.type : <<u[2], b>> \in g.sliceOf}
            all(b) == UNION {vals[t[1]] : t \in at(b)}
<1>1. \A t \in g.type : vals[t[1]] = ValuesOf(g, t[1])
  BY DEF Instances
<1>2. ASSUME NEW b PROVE IsFiniteSet(all(b))
  <2>. DEFINE val == [t \in at(b) |-> ValuesOf(g, t[1])]
  <2>1. IsFiniteSet(at(b))
    <3>1. at(b) \subseteq g.type
      OBVIOUS
    <3>. QED
      BY <3>1, SmallIsFinite, FS_Subset
  <2>2. DOMAIN val = at(b) /\ val = [t \in at(b) |-> val[t]] /\ \A t \in at(b) : IsFiniteSet(val[t])
    BY FewValues
  <2>3. all(b) = UNION {val[t] : t \in at(b)}
    BY <1>1
  <2>. HIDE DEF val, at
  <2>4. IsFiniteSet({val[t] : t \in at(b)})
    BY <2>1, <2>2, FiniteImage
  <2>5. \A X \in {val[t] : t \in at(b)} : IsFiniteSet(X)
    BY <2>2
  <2>. QED
    BY <2>3, <2>4, <2>5, FS_UNION
<1>3. \A b : b \in Shared(g, vals) <=> b \in {e[2] : e \in g.sliceOf} /\ Cardinality(all(b)) > 1
  BY DEF Shared
<1>4. \A b : ~ (Cardinality(all(b)) > 1) <=> \A v, w \in all(b) : v = w
  <2>. HIDE DEF all
  <2>. QED
    BY <1>2, AtMostOne
<1>5. \A b, v : v \in all(b) <=> \E t \in g.type : <<t[2], b>> \in g.sliceOf /\ v \in ValuesOf(g, t[1])
  BY <1>1
<1>. HIDE DEF vals, all
<1>6. ASSUME Shared(g, vals) = {}, NEW t \in g.type, NEW u \in g.type, Meeting(g, t, u),
             NEW v \in ValuesOf(g, t[1]), NEW w \in ValuesOf(g, u[1])
      PROVE  v = w
  <2>1. PICK b : <<t[2], b>> \in g.sliceOf /\ <<u[2], b>> \in g.sliceOf
    BY <1>6 DEF Meeting
  <2>2. b \in {e[2] : e \in g.sliceOf}
    <3>1. PICK e \in g.sliceOf : e = <<t[2], b>>
      BY <2>1
    <3>. QED
      BY <3>1
  <2>. QED
    BY <1>3, <1>4, <1>5, <1>6, <2>1, <2>2
<1>7. ASSUME Calm(g), NEW b \in Shared(g, vals) PROVE FALSE
  <2>1. PICK v \in all(b), w \in all(b) : v # w
    BY <1>3, <1>4
  <2>2. PICK t \in g.type : <<t[2], b>> \in g.sliceOf /\ v \in ValuesOf(g, t[1])
    BY <1>5
  <2>3. PICK u \in g.type : <<u[2], b>> \in g.sliceOf /\ w \in ValuesOf(g, u[1])
    BY <1>5
  <2>. QED
    BY <1>7, <2>1, <2>2, <2>3 DEF Calm, Meeting
<1>. QED
  BY <1>6, <1>7 DEF Calm, vals

(* What is calm with more in it is calm.                                     *)
LEMMA CalmGrows ==
  ASSUME NEW g, Small(g), NEW h, Small(h), IsFiniteSet(Hierarchy), Calm(h),
         g.sub \subseteq h.sub, g.axis \subseteq h.axis, g.sliceOf \subseteq h.sliceOf,
         \A t \in g.type : \/ t \in h.type
                           \/ \E u \in h.type : /\ u[1] = t[1] /\ <<u[2], t[2]>> \in h.sub
                                               /\ \A b : <<t[2], b>> \in g.sliceOf => <<u[2], b>> \in h.sliceOf
  PROVE  Calm(g)
<1>1. \A i : ValuesOf(g, i) \subseteq ValuesOf(h, i)
  BY ValuesGrow
<1>2. \A t \in g.type : \E u \in h.type :
         u[1] = t[1] /\ \A b : <<t[2], b>> \in g.sliceOf => <<u[2], b>> \in h.sliceOf
  OBVIOUS
<1>. SUFFICES ASSUME NEW t \in g.type, NEW u \in g.type, Meeting(g, t, u),
                     NEW v \in ValuesOf(g, t[1]), NEW w \in ValuesOf(g, u[1])
              PROVE  v = w
  BY DEF Calm
<1>3. PICK b : <<t[2], b>> \in g.sliceOf /\ <<u[2], b>> \in g.sliceOf
  BY DEF Meeting
<1>4. PICK p \in h.type : p[1] = t[1] /\ <<p[2], b>> \in h.sliceOf
  BY <1>2, <1>3
<1>5. PICK q \in h.type : q[1] = u[1] /\ <<q[2], b>> \in h.sliceOf
  BY <1>2, <1>3
<1>6. Meeting(h, p, q)
  BY <1>4, <1>5 DEF Meeting
<1>7. v \in ValuesOf(h, p[1]) /\ w \in ValuesOf(h, q[1])
  BY <1>1, <1>4, <1>5
<1>. QED
  BY <1>6, <1>7 DEF Calm

(* A value pass over a graph that is not calm leaves one that is not.        *)
LEMMA CalmBefore ==
  ASSUME NEW Y, PlainTaxonomy(Y), NEW g, IsGraph(g), Sound(Y, g), NEW h, h = ValueSlice(g), Calm(h)
  PROVE  Calm(g)
<1>1. Small(g) /\ Small(h) /\ IsFiniteSet(Hierarchy)
  BY ValueSound DEF Sound, PlainTaxonomy
<1>2. LET moved == Retyped(g)
      IN  /\ h.type = (g.type \ moved) \cup {<<t[1], leaf_name(g, t)>> : t \in moved}
          /\ g.sub \subseteq h.sub /\ g.sliceOf \subseteq h.sliceOf /\ g.axis \subseteq h.axis
          /\ \A t \in moved :
               /\ <<leaf_name(g, t), t[2]>> \in h.sub \cap h.sliceOf
               /\ \A b : <<t[2], b>> \in g.sliceOf => <<leaf_name(g, t), b>> \in h.sub \cap h.sliceOf
  BY <1>1, LeavesEmitted
<1>3. ASSUME NEW t \in Retyped(g)
      PROVE  \E u \in h.type : /\ u[1] = t[1] /\ <<u[2], t[2]>> \in h.sub
                               /\ \A b : <<t[2], b>> \in g.sliceOf => <<u[2], b>> \in h.sliceOf
  <2>. DEFINE u == <<t[1], leaf_name(g, t)>>
  <2>1. u \in h.type /\ u[1] = t[1] /\ u[2] = leaf_name(g, t)
    BY <1>2
  <2>. QED
    BY <1>2, <2>1
<1>4. \A t \in g.type : t \in h.type \/ t \in Retyped(g)
  BY <1>2
<1>. QED
  BY <1>1, <1>2, <1>3, <1>4, CalmGrows

-----------------------------------------------------------------------------
(* A graph with the drivetrain marks M on top of g's markers.  The year pass *)
(* does not see them.                                                        *)
Marked(f, g, M) ==
  /\ f.type = g.type /\ f.sub = g.sub /\ f.sliceOf = g.sliceOf /\ f.scope = g.scope
  /\ f.axis = g.axis \cup {<<v, "drive">> : v \in M}

LEMMA MarkedUnion ==
  ASSUME NEW f, NEW g, NEW M, Marked(f, g, M), NEW p, NEW q, NEW N, Marked(p, q, N)
  PROVE  Marked(Union(f, p), Union(g, q), M \cup N)
<1>. PICK a, b : a = Union(f, p) /\ b = Union(g, q)
  OBVIOUS
<1>1. /\ a.type = f.type \cup p.type /\ a.sub = f.sub \cup p.sub
      /\ a.sliceOf = f.sliceOf \cup p.sliceOf /\ a.scope = f.scope \cup p.scope
      /\ a.axis = f.axis \cup p.axis
  BY DEF Union
<1>2. /\ b.type = g.type \cup q.type /\ b.sub = g.sub \cup q.sub
      /\ b.sliceOf = g.sliceOf \cup q.sliceOf /\ b.scope = g.scope \cup q.scope
      /\ b.axis = g.axis \cup q.axis
  BY DEF Union
<1>3. {<<v, "drive">> : v \in M \cup N} = {<<v, "drive">> : v \in M} \cup {<<v, "drive">> : v \in N}
  OBVIOUS
<1>. QED
  BY <1>1, <1>2, <1>3 DEF Marked

LEMMA MarkedYear ==
  ASSUME NEW f, NEW g, NEW M, Marked(f, g, M)
  PROVE  Marked(YearSlice(f), YearSlice(g), M)
<1>1. Unsliced(f) = Unsliced(g)
  <2>1. \A c : <<c, "year">> \in f.axis <=> <<c, "year">> \in g.axis
    <3>1. \A c : <<c, "year">> \notin {<<v, "drive">> : v \in M}
      OBVIOUS
    <3>. QED
      BY <3>1 DEF Marked
  <2>. QED
    BY <2>1 DEF Unsliced, Marked
<1>2. MintLeaves(f) = MintLeaves(g)
  BY <1>1 DEF MintLeaves
<1>3. \A m : Marked(m, m, {})
  BY DEF Marked
<1>. PICK a, b : a = Union(f, MintLeaves(f)) /\ b = Union(g, MintLeaves(g))
  OBVIOUS
<1>4. M \cup {} = M
  OBVIOUS
<1>5. Marked(a, b, M)
  BY <1>2, <1>3, <1>4, MarkedUnion
<1>6. Climbs(a) = Climbs(b)
  <2>1. a.sliceOf = b.sliceOf /\ a.scope = b.scope /\ Super(a) = Super(b) /\ Timed(a) = Timed(b)
    BY <1>5 DEF Marked, Super, Timed
  <2>. QED
    BY <2>1 DEF Climbs
<1>7. MintAncestors(a) = MintAncestors(b)
  BY <1>6 DEF MintAncestors
<1>8. Marked(Union(a, MintAncestors(a)), Union(b, MintAncestors(b)), M)
  BY <1>3, <1>4, <1>5, <1>7, MarkedUnion
<1>. QED
  BY <1>8 DEF YearSlice

(* Calm reads neither strategies nor scopes.                                 *)
LEMMA SameCalm ==
  ASSUME NEW f, NEW h, Calm(f),
         f.type = h.type, f.sub = h.sub, f.sliceOf = h.sliceOf, f.axis = h.axis
  PROVE  Calm(h)
<1>1. \A i : ValuesOf(f, i) = ValuesOf(h, i)
  BY DEF ValuesOf, Values, Super, TypesOf
<1>2. \A t, u : Meeting(f, t, u) <=> Meeting(h, t, u)
  BY DEF Meeting
<1>. QED
  BY <1>1, <1>2 DEF Calm

(* Where it stays calm, finalising is the year pass.                         *)
LEMMA FinalisedCalm ==
  ASSUME NEW Y, PlainTaxonomy(Y), NEW f, NEW g, Sound(Y, g), NEW M, Marked(f, g, M),
         Calm(YearSlice(f))
  PROVE  Marked(Finalise(f), YearSlice(g), M)
<1>. PICK a, b : a = YearSlice(f) /\ b = YearSlice(g)
  OBVIOUS
<1>1. Marked(a, b, M)
  BY MarkedYear
<1>2. IsGraph(a)
  BY UnionIsGraph DEF YearSlice
<1>3. Small(a)
  <2>1. Small(b)
    BY YearSound DEF Sound
  <2>. QED
    BY <1>1, <2>1 DEF Small, Within, Marked
<1>4. Shared(a, [i \in Instances(a) |-> ValuesOf(a, i)]) = {}
  BY <1>3, UnsharedIsCalm DEF PlainTaxonomy
<1>5. Retyped(a) = {}
  BY <1>4 DEF Retyped
<1>6. Finalise(f) = attach_value_strategy(a)
  BY <1>2, <1>5, NothingMoved DEF Finalise
<1>7. PICK h : h = Finalise(f) /\ h = attach_value_strategy(a)
  BY <1>6
<1>8. /\ h.type = a.type /\ h.sub = a.sub /\ h.sliceOf = a.sliceOf
      /\ h.axis = a.axis /\ h.scope = a.scope
  BY <1>2, <1>7, Attached
<1>. QED
  BY <1>1, <1>7, <1>8 DEF Marked

(* A graph that is calm after the whole finalisation was before it.          *)
LEMMA CalmAtYear ==
  ASSUME NEW Y, PlainTaxonomy(Y), NEW f, Sound(Y, f), Calm(Finalise(f))
  PROVE  Calm(YearSlice(f))
<1>. PICK a : a = YearSlice(f)
  OBVIOUS
<1>. PICK v : v = ValueSlice(a)
  OBVIOUS
<1>. PICK h : h = attach_value_strategy(v)
  OBVIOUS
<1>1. IsGraph(a) /\ IsGraph(v)
  BY UnionIsGraph DEF YearSlice, ValueSlice
<1>2. Sound(Y, a)
  BY YearSound
<1>3. /\ h.type = v.type /\ h.sub = v.sub /\ h.sliceOf = v.sliceOf /\ h.axis = v.axis
  BY <1>1, Attached
<1>4. Calm(h)
  BY DEF Finalise
<1>5. Calm(v)
  BY <1>3, <1>4, SameCalm
<1>. QED
  BY <1>1, <1>2, <1>5, CalmBefore

(* The sliced graph of fewer instances, edges and marks is calm if that of   *)
(* more is.                                                                  *)
LEMMA CalmWithLess ==
  ASSUME NEW Y, PlainTaxonomy(Y), NEW U, NEW Z, PlainEdges(Y, Z), U \subseteq Z,
         NEW I, NEW K, I \subseteq K, NEW M, NEW N, M \subseteq N,
         Small(Sliced(I, U)), Small(Sliced(K, Z)),
         NEW f, Marked(f, Sliced(I, U), M), NEW h, Marked(h, Sliced(K, Z), N), Calm(h)
  PROVE  Calm(f)
<1>1. Small(f) /\ Small(h)
  BY DEF Small, Within, Marked
<1>2. Rise(I, U) \subseteq Rise(K, Z)
  BY RiseGrows
<1>. PICK p, q : p = Sliced(I, U) /\ q = Sliced(K, Z)
  OBVIOUS
<1>. PICK A, B : A = Rise(I, U) /\ B = Rise(K, Z)
  OBVIOUS
<1>3. p.type \subseteq q.type /\ p.sub \subseteq q.sub /\ p.sliceOf \subseteq q.sliceOf
      /\ p.axis \subseteq q.axis
  <2>1. /\ p.type = {<<i, i.cls>> : i \in I} \cup {<<i, YearLeaf(i)>> : i \in I}
        /\ p.sub = U \cup {<<YearLeaf(i), i.cls>> : i \in I}
                  \cup {<<LowEnd(r), HighEnd(r)>> : r \in A} \cup {<<HighEnd(r), r[2][2]>> : r \in A}
        /\ p.sliceOf = {<<YearLeaf(i), i.cls>> : i \in I} \cup {<<HighEnd(r), r[2][2]>> : r \in A}
        /\ p.axis = {<<YearLeaf(i), "year">> : i \in I} \cup {<<HighEnd(r), "year">> : r \in A}
    BY DEF Sliced
  <2>2. /\ q.type = {<<i, i.cls>> : i \in K} \cup {<<i, YearLeaf(i)>> : i \in K}
        /\ q.sub = Z \cup {<<YearLeaf(i), i.cls>> : i \in K}
                  \cup {<<LowEnd(r), HighEnd(r)>> : r \in B} \cup {<<HighEnd(r), r[2][2]>> : r \in B}
        /\ q.sliceOf = {<<YearLeaf(i), i.cls>> : i \in K} \cup {<<HighEnd(r), r[2][2]>> : r \in B}
        /\ q.axis = {<<YearLeaf(i), "year">> : i \in K} \cup {<<HighEnd(r), "year">> : r \in B}
    BY DEF Sliced
  <2>3. /\ {<<i, i.cls>> : i \in I} \subseteq {<<i, i.cls>> : i \in K}
        /\ {<<i, YearLeaf(i)>> : i \in I} \subseteq {<<i, YearLeaf(i)>> : i \in K}
        /\ {<<YearLeaf(i), i.cls>> : i \in I} \subseteq {<<YearLeaf(i), i.cls>> : i \in K}
        /\ {<<YearLeaf(i), "year">> : i \in I} \subseteq {<<YearLeaf(i), "year">> : i \in K}
    OBVIOUS
  <2>4. /\ {<<LowEnd(r), HighEnd(r)>> : r \in A} \subseteq {<<LowEnd(r), HighEnd(r)>> : r \in B}
        /\ {<<HighEnd(r), r[2][2]>> : r \in A} \subseteq {<<HighEnd(r), r[2][2]>> : r \in B}
        /\ {<<HighEnd(r), "year">> : r \in A} \subseteq {<<HighEnd(r), "year">> : r \in B}
    BY <1>2
  <2>. QED
    BY <2>1, <2>2, <2>3, <2>4
<1>4. f.type \subseteq h.type /\ f.sub \subseteq h.sub /\ f.sliceOf \subseteq h.sliceOf
      /\ f.axis \subseteq h.axis
  BY <1>3 DEF Marked
<1>. QED
  BY <1>1, <1>4, CalmGrows DEF PlainTaxonomy
=============================================================================
