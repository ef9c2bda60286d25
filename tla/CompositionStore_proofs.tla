----------------------- MODULE CompositionStore_proofs -----------------------
(* What holds of the store for every taxonomy, corpus and sequence of adds:  *)
(* slicing neither loses nor invents an instance, so the store always holds  *)
(* exactly the instances of the sources added, and adding one of them again  *)
(* finds nothing new and leaves the view alone; and however often the store  *)
(* is finalised its classes stay sound, so that nothing in it depends on the *)
(* order of its triples.                                                     *)
(*                                                                           *)
(* The first part is about what the served view owes to which part of the    *)
(* store graph: the row of a class is made of the classes below it, so an    *)
(* add changes the rows of the classes above its new instances and no other. *)
(* These are the classes the affected set names.                             *)
EXTENDS CompositionStore, Slicing_proofs

-----------------------------------------------------------------------------
(* The averaged rows over roll-up edges R, where the classes L pool the facts*)
(* P: the classes that get a row, what each is averaged over, what it pools. *)
FromIn(R, L, c) == {e[1] : e \in {d \in R : d[2] = c /\ d[1] \in Reach(R, L)}}
DownIn(R, L) == {<<e[2], e[1]>> : e \in {d \in R : d[1] \in Reach(R, L)}}
OwnIn(R, L, P, d, c) == IF d \notin L \/ (d = c /\ FromIn(R, L, c) # {}) THEN {} ELSE P[d]
TermIn(R, L, P, c) ==
  {<<d, OwnIn(R, L, P, d, c), FromIn(R, L, d)>> : d \in Reach(DownIn(R, L), {c})}

(* Edges and pools added above and in U leave what is outside U as it was.   *)
Outside(U, R, S, L, M, P, Q) ==
  /\ IsFiniteSet(S) /\ IsFiniteSet(M) /\ R \subseteq S /\ L \subseteq M
  /\ \A e \in S : e = <<e[1], e[2]>>
  /\ Closed(S, U)
  /\ \A e \in S \ R : e[2] \in U
  /\ M \ L \subseteq U
  /\ \A c \in L \ U : P[c] = Q[c]

LEMMA SameTerm ==
  ASSUME NEW U, NEW R, NEW S, NEW L, NEW M, NEW P, NEW Q, Outside(U, R, S, L, M, P, Q),
         NEW c, c \notin U
  PROVE  /\ c \in Reach(S, M) <=> c \in Reach(R, L)
         /\ c \in Reach(R, L) => TermIn(S, M, Q, c) = TermIn(R, L, P, c)
<1>1. IsFiniteSet(R) /\ IsFiniteSet(S) /\ IsFiniteSet(L) /\ IsFiniteSet(M)
  BY FS_Subset DEF Outside
<1>2. /\ L \subseteq Reach(R, L) /\ Closed(R, Reach(R, L))
      /\ M \subseteq Reach(S, M) /\ Closed(S, Reach(S, M))
  BY <1>1, ReachLeast
<1>3. Reach(R, L) \subseteq Reach(S, M)
  <2>1. L \subseteq Reach(S, M)
    BY <1>2 DEF Outside
  <2>. QED
    BY <1>1, <2>1, ReachGrows DEF Outside
<1>4. Reach(S, M) \subseteq Reach(R, L) \cup U
  <2>1. M \subseteq Reach(R, L) \cup U
    BY <1>2 DEF Outside
  <2>2. Closed(S, Reach(R, L) \cup U)
    BY <1>2 DEF Outside, Closed
  <2>. QED
    BY <1>1, <2>1, <2>2, ReachLeast
<1>5. \A d : d \notin U => (d \in Reach(S, M) <=> d \in Reach(R, L))
  BY <1>3, <1>4
(* An edge into a class outside comes from outside, and is old.              *)
<1>6. \A e \in S : e[2] \notin U => e[1] \notin U /\ e \in R
  BY DEF Outside, Closed
<1>7. ASSUME NEW d, d \notin U PROVE FromIn(S, M, d) = FromIn(R, L, d)
  <2>1. \A e : (e \in S /\ e[2] = d /\ e[1] \in Reach(S, M))
                  <=> (e \in R /\ e[2] = d /\ e[1] \in Reach(R, L))
    BY <1>5, <1>6, <1>7 DEF Outside
  <2>. QED
    BY <2>1 DEF FromIn
<1>8. ASSUME NEW d, d \notin U PROVE OwnIn(S, M, Q, d, c) = OwnIn(R, L, P, d, c)
  <2>1. d \in M <=> d \in L
    BY <1>8 DEF Outside
  <2>2. d \in L => P[d] = Q[d]
    BY <1>8 DEF Outside
  <2>. QED
    BY <1>7, <2>1, <2>2 DEF OwnIn
<1>9. \A x : x \in DownIn(S, M) /\ x[1] \notin U => x[2] \notin U /\ x \in DownIn(R, L)
  <2>. SUFFICES ASSUME NEW x \in DownIn(S, M), x[1] \notin U
                PROVE  x[2] \notin U /\ x \in DownIn(R, L)
    OBVIOUS
  <2>1. PICK e \in S : e[1] \in Reach(S, M) /\ x = <<e[2], e[1]>>
    BY DEF DownIn
  <2>. QED
    BY <1>5, <1>6, <2>1 DEF DownIn
<1>10. DownIn(R, L) \subseteq DownIn(S, M)
  BY <1>3 DEF DownIn, Outside
<1>11. IsFiniteSet(DownIn(S, M)) /\ IsFiniteSet(DownIn(R, L))
  <2>. DEFINE flip == [e \in S |-> <<e[2], e[1]>>]
  <2>1. IsFiniteSet({flip[e] : e \in S})
    <3>1. DOMAIN flip = S /\ flip = [e \in S |-> flip[e]]
      OBVIOUS
    <3>. HIDE DEF flip
    <3>. QED
      BY <1>1, <3>1, FiniteImage
  <2>2. DownIn(S, M) \subseteq {flip[e] : e \in S}
    BY DEF DownIn
  <2>. QED
    BY <1>10, <2>1, <2>2, FS_Subset
<1>12. Reach(DownIn(S, M), {c}) = Reach(DownIn(R, L), {c})
       /\ \A d \in Reach(DownIn(R, L), {c}) : d \notin U
  <2>. DEFINE D == {d \in Reach(DownIn(R, L), {c}) : d \notin U}
  <2>1. IsFiniteSet({c})
    BY FS_Singleton
  <2>2. /\ {c} \subseteq Reach(DownIn(R, L), {c}) /\ Closed(DownIn(R, L), Reach(DownIn(R, L), {c}))
        /\ {c} \subseteq Reach(DownIn(S, M), {c})
    BY <1>11, <2>1, ReachLeast
  <2>3. {c} \subseteq D /\ Closed(DownIn(S, M), D)
    BY <1>9, <2>2 DEF Closed
  <2>4. Reach(DownIn(S, M), {c}) \subseteq D
    <3>. HIDE DEF D
    <3>. QED
      BY <1>11, <2>1, <2>3, ReachLeast
  <2>5. Reach(DownIn(R, L), {c}) \subseteq Reach(DownIn(S, M), {c})
    BY <1>10, <1>11, <2>1, <2>2, ReachGrows
  <2>. QED
    BY <2>4, <2>5
<1>13. TermIn(S, M, Q, c) = TermIn(R, L, P, c)
  BY <1>7, <1>8, <1>12 DEF TermIn
<1>. QED
  BY <1>5, <1>13

(* The averaged rows are these.                                              *)
Rollups(g) == {e \in Super(g) : e[1] \in Gate(g, e[2], {e[1]})}
Pool(g, kind, leafOf) ==
  [c \in {leafOf[i] : i \in Instances(g)} |->
     UNION {Facts(g, kind, i, leafOf) : i \in {j \in Instances(g) : leafOf[j] = c}}]
Pooling(g, kind, leafOf) == {c \in DOMAIN Pool(g, kind, leafOf) : Pool(g, kind, leafOf)[c] # {}}

LEMMA AveragedAs ==
  ASSUME NEW g, NEW kind, NEW f
  PROVE  AveragedRows(g, kind, f) =
           {[kind |-> kind, cls |-> c, in |-> NoClass,
             term |-> TermIn(Rollups(g), Pooling(g, kind, f), Pool(g, kind, f), c)] :
               c \in Reach(Rollups(g), Pooling(g, kind, f))}
BY DEF AveragedRows, TermIn, OwnIn, FromIn, DownIn, Rollups, Pool, Pooling

-----------------------------------------------------------------------------
(* The sliced graph of K and Z, as far as the rows read it.                  *)
YearGraph(g, K, Z) ==
  /\ g.type = Sliced(K, Z).type /\ g.sub = Sliced(K, Z).sub
  /\ g.sliceOf = Sliced(K, Z).sliceOf /\ g.scope = Sliced(K, Z).scope
  /\ Sliced(K, Z).axis \subseteq g.axis
  /\ IsFiniteSet(K) /\ IsFiniteSet(g.sub) /\ IsFiniteSet(g.sliceOf)

Dressed(Y, g, K, Z) == PlainTaxonomy(Y) /\ PlainEdges(Y, Z) /\ PlainCast(Y, K) /\ YearGraph(g, K, Z)

(* The edges between the slices, and from a slice to its base.               *)
SliceEdges(K, Z) ==
  {<<YearLeaf(i), i.cls>> : i \in K}
    \cup {<<LowEnd(r), HighEnd(r)>> : r \in Rise(K, Z)}
    \cup {<<HighEnd(r), r[2][2]>> : r \in Rise(K, Z)}

Fields(Y, g, K, Z) ==
  /\ g.type = {<<i, i.cls>> : i \in K} \cup {<<i, YearLeaf(i)>> : i \in K}
  /\ g.sub = Z \cup SliceEdges(K, Z)
  /\ g.sliceOf = {<<YearLeaf(i), i.cls>> : i \in K} \cup {<<HighEnd(r), r[2][2]>> : r \in Rise(K, Z)}
  /\ g.scope = {<<YearLeaf(i), i.year>> : i \in K} \cup {<<HighEnd(r), r[1].year>> : r \in Rise(K, Z)}
  /\ {<<YearLeaf(i), "year">> : i \in K} \cup {<<HighEnd(r), "year">> : r \in Rise(K, Z)} \subseteq g.axis
  /\ IsFiniteSet(Hierarchy \cup Z)
  /\ Hierarchy \cup Z \subseteq Plain(Y) \X Plain(Y)

LEMMA GraphFields ==
  ASSUME NEW Y, NEW K, NEW Z, NEW g, Dressed(Y, g, K, Z)
  PROVE  Fields(Y, g, K, Z)
<1>1. g.sub = Z \cup SliceEdges(K, Z)
  BY DEF Dressed, YearGraph, Sliced, SliceEdges
<1>2. IsFiniteSet(Hierarchy \cup Z) /\ Hierarchy \cup Z \subseteq Plain(Y) \X Plain(Y)
  BY FS_Union DEF Dressed, PlainTaxonomy, PlainEdges
<1>. QED
  BY <1>1, <1>2 DEF Dressed, YearGraph, Sliced, Fields

(* What rises ends in two dated names, of the year of its instance.          *)
InstanceNames(Y, K) ==
  \A i \in K : /\ i.year \in Y /\ i.cls \in Plain(Y) /\ YearLeaf(i) = slice_name(i.cls, i.year)
             /\ YearLeaf(i) \in Dated(Y, i.year)

RiseNames(Y, K, Z) ==
  \A r \in Rise(K, Z) :
    /\ r[1] \in K /\ r[2] \in Hierarchy \cup Z /\ r[2] = <<r[2][1], r[2][2]>>
    /\ r[2][1] \in Plain(Y) /\ r[2][2] \in Plain(Y)
    /\ r[2][1] \in Reach(Hierarchy \cup Z, {r[1].cls})
    /\ r[2][2] \in Reach(Hierarchy \cup Z, {r[1].cls})
    /\ HighEnd(r) = slice_name(r[2][2], r[1].year) /\ HighEnd(r) \in Dated(Y, r[1].year)
    /\ LowEnd(r) = slice_name(r[2][1], r[1].year) /\ LowEnd(r) \in Dated(Y, r[1].year)

LEMMA GraphNames ==
  ASSUME NEW Y, NEW K, NEW Z, NEW g, Dressed(Y, g, K, Z)
  PROVE  InstanceNames(Y, K) /\ RiseNames(Y, K, Z)
<1>1. PlainTaxonomy(Y) /\ PlainEdges(Y, Z) /\ PlainCast(Y, K)
  BY DEF Dressed
<1>2. \A i \in K : i.year \in Y /\ i.cls \in Plain(Y) /\ YearLeaf(i) = slice_name(i.cls, i.year)
  BY <1>1 DEF PlainCast, YearLeaf
<1>3. \A i \in K : YearLeaf(i) \in Dated(Y, i.year)
  BY <1>1, <1>2, SliceName DEF PlainTaxonomy
<1>4. ASSUME NEW r \in Rise(K, Z)
      PROVE  /\ r[1] \in K /\ r[2] \in Hierarchy \cup Z /\ r[2] = <<r[2][1], r[2][2]>>
             /\ r[2][1] \in Plain(Y) /\ r[2][2] \in Plain(Y)
             /\ r[2][2] \in Reach(Hierarchy \cup Z, {r[1].cls})
             /\ HighEnd(r) \in Dated(Y, r[1].year) /\ LowEnd(r) \in Dated(Y, r[1].year)
  BY <1>1, RiseIsPlain
<1>5. \A r \in Rise(K, Z) : r[2][1] \in Reach(Hierarchy \cup Z, {r[1].cls})
  BY DEF Rise
<1>6. \A r : HighEnd(r) = slice_name(r[2][2], r[1].year) /\ LowEnd(r) = slice_name(r[2][1], r[1].year)
  BY DEF HighEnd, LowEnd
<1>. QED
  BY <1>2, <1>3, <1>4, <1>5, <1>6 DEF InstanceNames, RiseNames

LEMMA GraphInstances ==
  ASSUME NEW Y, NEW K, NEW Z, NEW g, Dressed(Y, g, K, Z)
  PROVE  /\ Instances(g) = K
         /\ \A i \in K : TypesOf(g, i) = {i.cls, YearLeaf(i)}
<1>0. Fields(Y, g, K, Z)
  BY GraphFields
<1>1. g.type = {<<i, i.cls>> : i \in K} \cup {<<i, YearLeaf(i)>> : i \in K}
  BY <1>0 DEF Fields
<1>2. \A i \in K : <<i, i.cls>> \in g.type /\ <<i, YearLeaf(i)>> \in g.type
  BY <1>1
<1>3. \A t \in g.type : t[1] \in K /\ t[2] \in {t[1].cls, YearLeaf(t[1])}
  BY <1>1
<1>4. ASSUME NEW i \in K PROVE i \in Instances(g) /\ i.cls \in TypesOf(g, i) /\ YearLeaf(i) \in TypesOf(g, i)
  <2>1. PICK t \in g.type : t = <<i, i.cls>>
    BY <1>2
  <2>2. PICK u \in g.type : u = <<i, YearLeaf(i)>>
    BY <1>2
  <2>. QED
    BY <2>1, <2>2 DEF Instances, TypesOf
<1>5. Instances(g) = K
  BY <1>3, <1>4 DEF Instances
<1>6. \A i \in K : \A c \in TypesOf(g, i) : c \in {i.cls, YearLeaf(i)}
  BY <1>3 DEF TypesOf
<1>. QED
  BY <1>4, <1>5, <1>6

(* The time-scoped classes: every class above an instance, at its year.      *)
SlicesNamed(Y, g) ==
  \A c \in Timed(g) : \E b \in Plain(Y), y \in Y :
    c = slice_name(b, y) /\ <<c, b>> \in g.sliceOf /\ <<c, "year">> \in g.axis

LEMMA GraphTimed ==
  ASSUME NEW Y, NEW K, NEW Z, NEW g, Dressed(Y, g, K, Z)
  PROVE  /\ \A p \in g.scope : p[2] \in Y /\ p[1] \in Dated(Y, p[2])
         /\ Timed(g) \cap Plain(Y) = {}
         /\ \A i \in K : \A c \in Reach(Hierarchy \cup Z, {i.cls}) : <<slice_name(c, i.year), i.year>> \in g.scope
         /\ SlicesNamed(Y, g)
<1>0. Fields(Y, g, K, Z) /\ InstanceNames(Y, K) /\ RiseNames(Y, K, Z)
  BY GraphFields, GraphNames
<1>. DEFINE E == Hierarchy \cup Z
<1>1. /\ g.scope = {<<YearLeaf(i), i.year>> : i \in K} \cup {<<HighEnd(r), r[1].year>> : r \in Rise(K, Z)}
      /\ IsFiniteSet(E) /\ E \subseteq Plain(Y) \X Plain(Y)
      /\ g.sliceOf = {<<YearLeaf(i), i.cls>> : i \in K} \cup {<<HighEnd(r), r[2][2]>> : r \in Rise(K, Z)}
      /\ {<<YearLeaf(i), "year">> : i \in K} \cup {<<HighEnd(r), "year">> : r \in Rise(K, Z)} \subseteq g.axis
  BY <1>0 DEF Fields
<1>2. \A p \in g.scope : p[2] \in Y /\ p[1] \in Dated(Y, p[2])
  <2>1. \A i \in K : i.year \in Y /\ YearLeaf(i) \in Dated(Y, i.year)
    BY <1>0 DEF InstanceNames
  <2>2. \A r \in Rise(K, Z) : r[1].year \in Y /\ HighEnd(r) \in Dated(Y, r[1].year)
    BY <1>0 DEF InstanceNames, RiseNames
  <2>3. \A p \in {<<YearLeaf(i), i.year>> : i \in K} : p[2] \in Y /\ p[1] \in Dated(Y, p[2])
    BY <2>1
  <2>4. \A p \in {<<HighEnd(r), r[1].year>> : r \in Rise(K, Z)} : p[2] \in Y /\ p[1] \in Dated(Y, p[2])
    BY <2>2
  <2>. QED
    BY <1>1, <2>3, <2>4
<1>3. Timed(g) \cap Plain(Y) = {}
  BY <1>2, NamesApart DEF Timed
<1>4. ASSUME NEW i \in K, NEW c \in Reach(E, {i.cls})
      PROVE  <<slice_name(c, i.year), i.year>> \in g.scope
  <2>. DEFINE X == {d \in Reach(E, {i.cls}) : <<slice_name(d, i.year), i.year>> \in g.scope}
  <2>1. IsFiniteSet({i.cls})
    BY FS_Singleton
  <2>2. {i.cls} \subseteq Reach(E, {i.cls}) /\ Closed(E, Reach(E, {i.cls}))
    BY <1>1, <2>1, ReachLeast
  <2>3. i.cls \in X
    <3>1. <<YearLeaf(i), i.year>> \in g.scope
      BY <1>1
    <3>. QED
      BY <2>2, <3>1, <1>0 DEF InstanceNames, RiseNames
  <2>4. Closed(E, X)
    <3>. SUFFICES ASSUME NEW e \in E, e[1] \in X PROVE e[2] \in X
      BY DEF Closed
    <3>1. e[2] \in Reach(E, {i.cls})
      BY <2>2 DEF Closed
    <3>. DEFINE r == <<i, e>>
    <3>2. r \in Rise(K, Z) /\ HighEnd(r) = slice_name(e[2], i.year)
      BY DEF Rise, HighEnd
    <3>3. <<HighEnd(r), r[1].year>> \in g.scope
      BY <1>1, <3>2
    <3>. QED
      BY <3>1, <3>2, <3>3
  <2>5. Reach(E, {i.cls}) \subseteq X
    <3>. HIDE DEF X
    <3>. QED
      BY <1>1, <2>1, <2>3, <2>4, ReachLeast
  <2>. QED
    BY <2>5
<1>5. ASSUME NEW c \in Timed(g)
      PROVE  \E b \in Plain(Y), y \in Y : c = slice_name(b, y) /\ <<c, b>> \in g.sliceOf /\ <<c, "year">> \in g.axis
  <2>1. PICK p \in g.scope : p[1] = c
    BY DEF Timed
  <2>2. CASE \E i \in K : p = <<YearLeaf(i), i.year>>
    <3>1. PICK i \in K : c = YearLeaf(i)
      BY <2>1, <2>2
    <3>2. <<YearLeaf(i), i.cls>> \in g.sliceOf /\ <<YearLeaf(i), "year">> \in g.axis
      BY <1>1
    <3>. QED
      BY <3>1, <3>2, <1>0 DEF InstanceNames, RiseNames
  <2>3. CASE \E r \in Rise(K, Z) : p = <<HighEnd(r), r[1].year>>
    <3>1. PICK r \in Rise(K, Z) : c = HighEnd(r)
      BY <2>1, <2>3
    <3>2. <<HighEnd(r), r[2][2]>> \in g.sliceOf /\ <<HighEnd(r), "year">> \in g.axis
      BY <1>1
    <3>3. r[2][2] \in Plain(Y) /\ r[1] \in K /\ r[1].year \in Y /\ HighEnd(r) = slice_name(r[2][2], r[1].year)
      BY <1>0 DEF InstanceNames, RiseNames
    <3>. QED
      BY <3>1, <3>2, <3>3
  <2>. QED
    BY <1>1, <2>1, <2>2, <2>3
<1>. QED
  BY <1>2, <1>3, <1>4, <1>5 DEF SlicesNamed

(* Every edge from a slice rolls up, and no other: a slice has one scope, and*)
(* an edge between two slices keeps it.                                      *)
LEMMA GraphRollups ==
  ASSUME NEW Y, NEW K, NEW Z, NEW g, Dressed(Y, g, K, Z)
  PROVE  Rollups(g) = SliceEdges(K, Z)
<1>0. Fields(Y, g, K, Z) /\ InstanceNames(Y, K) /\ RiseNames(Y, K, Z)
  BY GraphFields, GraphNames
<1>1. /\ g.sub = Z \cup SliceEdges(K, Z)
      /\ Hierarchy \cup Z \subseteq Plain(Y) \X Plain(Y)
      /\ g.sliceOf = {<<YearLeaf(i), i.cls>> : i \in K} \cup {<<HighEnd(r), r[2][2]>> : r \in Rise(K, Z)}
  BY <1>0 DEF Fields
<1>2. /\ \A p \in g.scope : p[2] \in Y /\ p[1] \in Dated(Y, p[2])
      /\ Timed(g) \cap Plain(Y) = {}
      /\ \A i \in K : \A c \in Reach(Hierarchy \cup Z, {i.cls}) : <<slice_name(c, i.year), i.year>> \in g.scope
  BY GraphTimed
<1>3. \A e : e \in Rollups(g) <=>
               /\ e \in Super(g) /\ e[1] \in Timed(g)
               /\ IF e[2] \in Timed(g) THEN Image(g.scope, e[1]) \subseteq Image(g.scope, e[2])
                                       ELSE \E s \in g.sliceOf : s[2] = e[2]
  BY DEF Rollups, Gate
<1>4. \A e \in Rollups(g) : e \in SliceEdges(K, Z)
  BY <1>1, <1>2, <1>3 DEF Super
<1>5. ASSUME NEW r \in Rise(K, Z)
      PROVE  /\ LowEnd(r) \in Timed(g) /\ HighEnd(r) \in Timed(g)
             /\ r[2][2] \notin Timed(g)
             /\ Image(g.scope, LowEnd(r)) \subseteq Image(g.scope, HighEnd(r))
  <2>1. /\ r[1] \in K /\ r[1].year \in Y /\ r[2][2] \in Plain(Y) /\ LowEnd(r) \in Dated(Y, r[1].year)
        /\ <<LowEnd(r), r[1].year>> \in g.scope /\ <<HighEnd(r), r[1].year>> \in g.scope
    BY <1>2, <1>0 DEF InstanceNames, RiseNames
  <2>2. \A p \in g.scope : p[1] = LowEnd(r) => p[2] = r[1].year
    BY <1>2, <2>1, NamesApart
  <2>3. \A p \in g.scope : p[1] \in Timed(g)
    BY DEF Timed
  <2>4. \A y \in Image(g.scope, LowEnd(r)) : y = r[1].year
    BY <2>2 DEF Image
  <2>5. r[1].year \in Image(g.scope, HighEnd(r))
    <3>1. PICK p \in g.scope : p = <<HighEnd(r), r[1].year>>
      BY <2>1
    <3>. QED
      BY <3>1 DEF Image
  <2>6. LowEnd(r) \in Timed(g) /\ HighEnd(r) \in Timed(g)
    <3>1. PICK p, q \in g.scope : p = <<LowEnd(r), r[1].year>> /\ q = <<HighEnd(r), r[1].year>>
      BY <2>1
    <3>. QED
      BY <2>3, <3>1
  <2>. QED
    BY <1>2, <2>1, <2>4, <2>5, <2>6
<1>6. ASSUME NEW e \in SliceEdges(K, Z) PROVE e \in Rollups(g)
  <2>0. e \in Super(g)
    BY <1>1 DEF Super
  <2>1. CASE \E i \in K : e = <<YearLeaf(i), i.cls>>
    <3>1. PICK i \in K : e = <<YearLeaf(i), i.cls>>
      BY <2>1
    <3>2. e \in g.sliceOf
      BY <1>1, <3>1
    <3>3. i.cls \in Plain(Y) /\ YearLeaf(i) \in Timed(g)
      <4>1. g.scope = {<<YearLeaf(j), j.year>> : j \in K} \cup {<<HighEnd(r), r[1].year>> : r \in Rise(K, Z)}
        BY <1>0 DEF Fields
      <4>2. PICK p \in g.scope : p = <<YearLeaf(i), i.year>>
        BY <4>1
      <4>. QED
        BY <4>2, <1>0 DEF InstanceNames, RiseNames, Timed
    <3>4. e[1] \in Timed(g) /\ e[2] \notin Timed(g)
      BY <1>2, <3>1, <3>3
    <3>. QED
      BY <1>3, <2>0, <3>2, <3>4
  <2>2. CASE \E r \in Rise(K, Z) : e = <<LowEnd(r), HighEnd(r)>>
    <3>1. PICK r \in Rise(K, Z) : e = <<LowEnd(r), HighEnd(r)>>
      BY <2>2
    <3>2. e[1] = LowEnd(r) /\ e[2] = HighEnd(r)
      BY <3>1
    <3>. QED
      BY <1>3, <1>5, <2>0, <3>2
  <2>3. CASE \E r \in Rise(K, Z) : e = <<HighEnd(r), r[2][2]>>
    <3>1. PICK r \in Rise(K, Z) : e = <<HighEnd(r), r[2][2]>>
      BY <2>3
    <3>2. e \in g.sliceOf /\ e[1] = HighEnd(r) /\ e[2] = r[2][2]
      BY <1>1, <3>1
    <3>. QED
      BY <1>3, <1>5, <2>0, <3>2
  <2>. QED
    BY <2>1, <2>2, <2>3 DEF SliceEdges
<1>. QED
  BY <1>4, <1>6

-----------------------------------------------------------------------------
(* From the graph g of K and Z to the graph h of more instances and edges:   *)
(* the new instances bring their wholes with them, the new edges start at or *)
(* above their classes.                                                      *)
Under(F, N) == UNION {Reach(F, {i.cls}) : i \in N}
Touched(Y, F, N) == Under(F, N) \cup UNION {{slice_name(c, y) : y \in Y} : c \in Under(F, N)}

Rooted(K) == \A i \in K : RootOf(i) \in K

Grown(Y, g, h, K, L, Z, W) ==
  /\ Dressed(Y, g, K, Z) /\ Dressed(Y, h, L, W)
  /\ K \subseteq L /\ Z \subseteq W
  /\ \A e \in W \ Z : e[1] \in Under(Hierarchy \cup W, L \ K)
  /\ Rooted(K) /\ Rooted(L)
  /\ \A i \in L \ K : RootOf(i) \notin K

(* The classes above some instances.                                         *)
UnderOK(Y, F, N) ==
  /\ Under(F, N) \subseteq Plain(Y) /\ Closed(F, Under(F, N))
  /\ \A i \in N : i.cls \in Under(F, N) /\ Reach(F, {i.cls}) \subseteq Under(F, N)

LEMMA UnderFacts ==
  ASSUME NEW Y, NEW F, IsFiniteSet(F), F \subseteq Plain(Y) \X Plain(Y),
         NEW N, \A i \in N : i.cls \in Plain(Y)
  PROVE  UnderOK(Y, F, N)
<1>1. ASSUME NEW i \in N
      PROVE  /\ i.cls \in Reach(F, {i.cls}) /\ Closed(F, Reach(F, {i.cls}))
             /\ Reach(F, {i.cls}) \subseteq Plain(Y)
  <2>1. IsFiniteSet({i.cls}) /\ {i.cls} \subseteq Plain(Y)
    BY FS_Singleton
  <2>2. Closed(F, Plain(Y))
    BY DEF Closed
  <2>3. {i.cls} \subseteq Reach(F, {i.cls}) /\ Closed(F, Reach(F, {i.cls}))
    BY <2>1, ReachLeast
  <2>4. Reach(F, {i.cls}) \subseteq Plain(Y)
    BY <2>1, <2>2, ReachLeast
  <2>. QED
    BY <2>3, <2>4
<1>2. \A i \in N : Reach(F, {i.cls}) \subseteq Under(F, N)
  BY DEF Under
<1>3. \A c \in Under(F, N) : \E i \in N : c \in Reach(F, {i.cls})
  BY DEF Under
<1>4. Under(F, N) \subseteq Plain(Y)
  BY <1>1, <1>3
<1>5. Closed(F, Under(F, N))
  <2>. SUFFICES ASSUME NEW e \in F, e[1] \in Under(F, N) PROVE e[2] \in Under(F, N)
    BY DEF Closed
  <2>1. PICK i \in N : e[1] \in Reach(F, {i.cls})
    BY <1>3
  <2>2. e[2] \in Reach(F, {i.cls})
    BY <1>1, <2>1 DEF Closed
  <2>. QED
    BY <1>2, <2>2
<1>. QED
  BY <1>1, <1>2, <1>4, <1>5 DEF UnderOK

(* A slice is touched when its base is.                                      *)
LEMMA TouchedNames ==
  ASSUME NEW Y \in SUBSET Word, NEW F, NEW N, Under(F, N) \subseteq Plain(Y)
  PROVE  /\ \A b \in Plain(Y) : b \in Touched(Y, F, N) <=> b \in Under(F, N)
         /\ \A b \in Plain(Y), y \in Y : slice_name(b, y) \in Touched(Y, F, N) <=> b \in Under(F, N)
         /\ \A c \in Touched(Y, F, N) : \/ c \in Under(F, N)
                                        \/ \E b \in Under(F, N), y \in Y : c = slice_name(b, y)
<1>. PICK P : P = Under(F, N)
  OBVIOUS
<1>1. \A c : c \in Touched(Y, F, N) <=> c \in P \/ \E b \in P, y \in Y : c = slice_name(b, y)
  BY DEF Touched
<1>2. \A b \in Plain(Y), y \in Y : slice_name(b, y) \in Dated(Y, y) /\ Base(slice_name(b, y)) = b
  BY SliceName
<1>3. \A b \in Plain(Y), y \in Y : b \notin Dated(Y, y)
  BY NamesApart
<1>4. ASSUME NEW b \in Plain(Y) PROVE b \in Touched(Y, F, N) <=> b \in P
  BY <1>1, <1>2, <1>3
<1>5. ASSUME NEW b \in Plain(Y), NEW y \in Y PROVE slice_name(b, y) \in Touched(Y, F, N) <=> b \in P
  <2>1. slice_name(b, y) \notin P
    BY <1>2, <1>3
  <2>2. \A d \in P, z \in Y : slice_name(b, y) = slice_name(d, z) => b = d
    BY <1>2
  <2>. QED
    BY <1>1, <2>1, <2>2
<1>. QED
  BY <1>1, <1>4, <1>5

(* What a walk gains from new edges is where they start, or above.           *)
LEMMA MoreReach ==
  ASSUME NEW E, NEW F, IsFiniteSet(F), E \subseteq F,
         NEW P, Closed(F, P), \A e \in F \ E : e[1] \in P, NEW c
  PROVE  Reach(F, {c}) \subseteq Reach(E, {c}) \cup P
<1>1. IsFiniteSet(E) /\ IsFiniteSet({c})
  BY FS_Singleton, FS_Subset
<1>2. {c} \subseteq Reach(E, {c}) /\ Closed(E, Reach(E, {c}))
  BY <1>1, ReachLeast
<1>3. Closed(F, Reach(E, {c}) \cup P)
  BY <1>2 DEF Closed
<1>4. {c} \subseteq Reach(E, {c}) \cup P
  BY <1>2
<1>. PICK T : T = Reach(E, {c}) \cup P
  OBVIOUS
<1>. QED
  BY <1>1, <1>3, <1>4, ReachLeast

(* What is known of the two graphs.                                          *)
Growth(Y, K, L, Z, W) ==
  /\ UnderOK(Y, Hierarchy \cup W, L \ K)
  /\ IsFiniteSet(Hierarchy \cup W) /\ Hierarchy \cup W \subseteq Plain(Y) \X Plain(Y)
  /\ \A e \in W \ Z : e[1] \in Under(Hierarchy \cup W, L \ K)
  /\ K \subseteq L /\ Z \subseteq W
  /\ InstanceNames(Y, L) /\ RiseNames(Y, L, W) /\ Y \in SUBSET Word

LEMMA GrownFacts ==
  ASSUME NEW Y, NEW g, NEW h, NEW K, NEW L, NEW Z, NEW W, Grown(Y, g, h, K, L, Z, W)
  PROVE  Growth(Y, K, L, Z, W)
<1>1. Fields(Y, h, L, W) /\ InstanceNames(Y, L) /\ RiseNames(Y, L, W)
  BY GraphFields, GraphNames DEF Grown
<1>2. IsFiniteSet(Hierarchy \cup W) /\ Hierarchy \cup W \subseteq Plain(Y) \X Plain(Y)
  BY <1>1 DEF Fields
<1>3. \A i \in L \ K : i.cls \in Plain(Y)
  BY <1>1 DEF InstanceNames
<1>4. UnderOK(Y, Hierarchy \cup W, L \ K)
  BY <1>2, <1>3, UnderFacts
<1>. QED
  BY <1>1, <1>2, <1>4 DEF Growth, Grown, Dressed, PlainTaxonomy

(* What rises newly, of a new instance or of an old one, rises to a class    *)
(* above the new instances.                                                  *)
LEMMA MoreRises ==
  ASSUME NEW Y, NEW K, NEW L, NEW Z, NEW W, Growth(Y, K, L, Z, W),
         NEW r \in Rise(L, W), r \notin Rise(K, Z)
  PROVE  r[2][2] \in Under(Hierarchy \cup W, L \ K)
<1>. DEFINE E == Hierarchy \cup Z
            F == Hierarchy \cup W
            P == Under(F, L \ K)
<1>1. /\ r[1] \in L /\ r[2] \in F /\ r[2][1] \in Reach(F, {r[1].cls}) /\ r[2][2] \in Reach(F, {r[1].cls})
  BY DEF Growth, RiseNames
<1>2. Closed(F, P) /\ \A i \in L \ K : Reach(F, {i.cls}) \subseteq P
  BY DEF Growth, UnderOK
<1>3. CASE r[1] \notin K
  BY <1>1, <1>2, <1>3
<1>4. CASE r[1] \in K /\ r[2] \notin E
  <2>1. r[2] \in W \ Z
    BY <1>1, <1>4
  <2>2. r[2][1] \in P
    BY <2>1 DEF Growth
  <2>. QED
    BY <1>1, <1>2, <2>2 DEF Closed
<1>5. CASE r[1] \in K /\ r[2] \in E
  <2>1. r[2][1] \notin Reach(E, {r[1].cls})
    <3>1. r = <<r[1], r[2]>>
      BY DEF Rise
    <3>. QED
      BY <1>5, <3>1 DEF Rise
  <2>2. IsFiniteSet(F) /\ E \subseteq F /\ \A e \in F \ E : e[1] \in P
    BY DEF Growth
  <2>3. Reach(F, {r[1].cls}) \subseteq Reach(E, {r[1].cls}) \cup P
    <3>. HIDE DEF E, F, P
    <3>. QED
      BY <1>2, <2>2, MoreReach
  <2>4. r[2][1] \in P
    BY <1>1, <2>1, <2>3
  <2>. QED
    BY <1>1, <1>2, <2>4 DEF Closed
<1>. QED
  BY <1>3, <1>4, <1>5

(* New edges lead to touched classes, and no edge leads away from them.      *)
EdgesOK(Y, g, h, K, L, Z, W, U) ==
  /\ SliceEdges(K, Z) \subseteq SliceEdges(L, W)
  /\ \A e \in SliceEdges(L, W) \ SliceEdges(K, Z) : e[2] \in U
  /\ Super(g) \subseteq Super(h)
  /\ \A e \in Super(h) \ Super(g) : e[2] \in U
  /\ Closed(Super(h), U)
  /\ \A i \in L \ K : YearLeaf(i) \in U

LEMMA NewEdges ==
  ASSUME NEW Y, NEW g, NEW h, NEW K, NEW L, NEW Z, NEW W, Grown(Y, g, h, K, L, Z, W)
  PROVE  EdgesOK(Y, g, h, K, L, Z, W, Touched(Y, Hierarchy \cup W, L \ K))
<1>. DEFINE F == Hierarchy \cup W
            P == Under(F, L \ K)
            U == Touched(Y, F, L \ K)
<1>0. Growth(Y, K, L, Z, W)
  BY GrownFacts
<1>1. /\ Fields(Y, g, K, Z) /\ Fields(Y, h, L, W)
      /\ InstanceNames(Y, L) /\ RiseNames(Y, L, W) /\ Y \in SUBSET Word
      /\ K \subseteq L /\ Z \subseteq W /\ \A e \in W \ Z : e[1] \in P
  BY <1>0, GraphFields DEF Grown, Growth
<1>2. /\ P \subseteq Plain(Y) /\ Closed(F, P) /\ \A i \in L \ K : i.cls \in P
  BY <1>0 DEF Growth, UnderOK
<1>3. /\ \A b \in Plain(Y) : b \in U <=> b \in P
      /\ \A b \in Plain(Y), y \in Y : slice_name(b, y) \in U <=> b \in P
  BY <1>1, <1>2, TouchedNames
<1>10. Super(g) = (Hierarchy \cup Z) \cup SliceEdges(K, Z) /\ Super(h) = F \cup SliceEdges(L, W)
  BY <1>1 DEF Fields, Super
<1>11. \A e \in F : e[1] \in Plain(Y) /\ e[2] \in Plain(Y)
  BY <1>1 DEF Fields
<1>7. \A r \in Rise(L, W) : r \notin Rise(K, Z) => r[2][2] \in P
  BY <1>0, MoreRises
<1>. HIDE DEF U, P
<1>4. Rise(K, Z) \subseteq Rise(L, W)
  <2>1. PlainTaxonomy(Y) /\ PlainEdges(Y, W) /\ Z \subseteq W /\ K \subseteq L
    BY DEF Grown, Dressed
  <2>. QED
    BY <2>1, RiseGrows
<1>5. SliceEdges(K, Z) \subseteq SliceEdges(L, W)
  <2>1. /\ {<<YearLeaf(i), i.cls>> : i \in K} \subseteq {<<YearLeaf(i), i.cls>> : i \in L}
        /\ {<<LowEnd(r), HighEnd(r)>> : r \in Rise(K, Z)} \subseteq {<<LowEnd(r), HighEnd(r)>> : r \in Rise(L, W)}
        /\ {<<HighEnd(r), r[2][2]>> : r \in Rise(K, Z)} \subseteq {<<HighEnd(r), r[2][2]>> : r \in Rise(L, W)}
    BY <1>4 DEF Grown
  <2>. QED
    BY <2>1 DEF SliceEdges
<1>6. \A i \in L \ K : YearLeaf(i) \in U
  BY <1>1, <1>2, <1>3 DEF InstanceNames
<1>8. \A r \in Rise(L, W) : r[2][2] \in P => r[2][2] \in U /\ HighEnd(r) \in U
  <2>1. \A r \in Rise(L, W) : /\ r[2][2] \in Plain(Y) /\ HighEnd(r) = slice_name(r[2][2], r[1].year)
                              /\ r[1].year \in Y
    BY <1>1 DEF InstanceNames, RiseNames
  <2>. QED
    BY <1>3, <2>1
<1>9. ASSUME NEW e \in SliceEdges(L, W), e \notin SliceEdges(K, Z) PROVE e[2] \in U
  <2>1. ASSUME NEW i \in L, e = <<YearLeaf(i), i.cls>> PROVE e[2] \in U
    <3>1. i \notin K
      BY <1>9, <2>1 DEF SliceEdges
    <3>. QED
      BY <1>2, <1>3, <2>1, <3>1
  <2>2. ASSUME NEW r \in Rise(L, W), e = <<LowEnd(r), HighEnd(r)>> \/ e = <<HighEnd(r), r[2][2]>>
        PROVE  e[2] \in U
    <3>1. r \notin Rise(K, Z)
      BY <1>9, <2>2 DEF SliceEdges
    <3>2. e[2] = HighEnd(r) \/ e[2] = r[2][2]
      BY <2>2
    <3>. QED
      BY <1>7, <1>8, <3>1, <3>2
  <2>. QED
    BY <2>1, <2>2 DEF SliceEdges
<1>12. \A e \in W \ Z : e[2] \in U
  BY <1>1, <1>2, <1>3, <1>11 DEF Closed
<1>13. \A e \in Super(h) \ Super(g) : e[2] \in U
  BY <1>9, <1>10, <1>12
<1>14. Super(g) \subseteq Super(h)
  BY <1>1, <1>5, <1>10
<1>15. ASSUME NEW e \in Super(h), e[1] \in U PROVE e[2] \in U
  <2>1. CASE e \in F
    BY <1>2, <1>3, <1>11, <1>15, <2>1 DEF Closed
  <2>2. ASSUME NEW i \in L, e = <<YearLeaf(i), i.cls>> PROVE e[2] \in U
    BY <1>1, <1>3, <1>15, <2>2 DEF InstanceNames
  <2>3. ASSUME NEW r \in Rise(L, W), e = <<LowEnd(r), HighEnd(r)>> \/ e = <<HighEnd(r), r[2][2]>>
        PROVE  e[2] \in U
    <3>1. /\ r[1].year \in Y /\ r[2] \in F /\ r[2][1] \in Plain(Y) /\ r[2][2] \in Plain(Y)
          /\ HighEnd(r) = slice_name(r[2][2], r[1].year)
          /\ LowEnd(r) = slice_name(r[2][1], r[1].year)
      BY <1>1 DEF InstanceNames, RiseNames
    <3>2. e[1] = LowEnd(r) => r[2][1] \in P
      BY <1>3, <1>15, <3>1
    <3>3. e[1] = HighEnd(r) => r[2][2] \in P
      BY <1>3, <1>15, <3>1
    <3>4. r[2][2] \in P
      BY <1>2, <2>3, <3>1, <3>2, <3>3 DEF Closed
    <3>5. e[2] = HighEnd(r) \/ e[2] = r[2][2]
      BY <2>3
    <3>. QED
      BY <1>8, <3>4, <3>5
  <2>. QED
    BY <1>10, <2>1, <2>2, <2>3 DEF SliceEdges
<1>16. Closed(Super(h), U)
  BY <1>15 DEF Closed
<1>17. EdgesOK(Y, g, h, K, L, Z, W, U)
  BY <1>5, <1>6, <1>9, <1>13, <1>14, <1>16 DEF EdgesOK
<1>. QED
  BY <1>17 DEF U
-----------------------------------------------------------------------------
(* A slice is the one innermost class of its instance.                       *)
Leaves(K) == [i \in K |-> YearLeaf(i)]

LEMMA LeafIsSlice ==
  ASSUME NEW Y, NEW K, NEW Z, NEW g, Dressed(Y, g, K, Z)
  PROVE  [i \in Instances(g) |-> LeafClass(g, i)] = Leaves(K)
<1>0. /\ Fields(Y, g, K, Z) /\ InstanceNames(Y, K) /\ RiseNames(Y, K, Z)
      /\ Instances(g) = K /\ \A i \in K : TypesOf(g, i) = {i.cls, YearLeaf(i)}
  BY GraphFields, GraphNames, GraphInstances
<1>1. g.sub = Z \cup SliceEdges(K, Z) /\ Hierarchy \cup Z \subseteq Plain(Y) \X Plain(Y)
  BY <1>0 DEF Fields
<1>2. IsFiniteSet(Super(g))
  BY FS_Union DEF Dressed, YearGraph, PlainTaxonomy, Super
<1>3. \A e \in SliceEdges(K, Z) : \E y \in Y : e[1] \in Dated(Y, y)
  <2>1. \A i \in K : i.year \in Y /\ YearLeaf(i) \in Dated(Y, i.year)
    BY <1>0 DEF InstanceNames
  <2>2. \A r \in Rise(K, Z) : /\ r[1].year \in Y
                              /\ LowEnd(r) \in Dated(Y, r[1].year) /\ HighEnd(r) \in Dated(Y, r[1].year)
    BY <2>1, <1>0 DEF RiseNames
  <2>. QED
    BY <2>1, <2>2 DEF SliceEdges
<1>4. Closed(Super(g), Plain(Y))
  <2>. SUFFICES ASSUME NEW e \in Super(g), e[1] \in Plain(Y) PROVE e[2] \in Plain(Y)
    BY DEF Closed
  <2>1. e \notin SliceEdges(K, Z)
    BY <1>3, NamesApart
  <2>. QED
    BY <1>1, <2>1 DEF Super
<1>5. ASSUME NEW i \in K PROVE LeafClass(g, i) = YearLeaf(i)
  <2>1. /\ i.cls \in Plain(Y) /\ YearLeaf(i) \notin Plain(Y) /\ i.cls # YearLeaf(i)
    BY <1>0, NamesApart DEF InstanceNames
  <2>2. IsFiniteSet({i.cls}) /\ IsFiniteSet({YearLeaf(i)})
    BY FS_Singleton
  <2>3. {i.cls} \subseteq Plain(Y)
    BY <2>1
  <2>4. Reach(Super(g), {i.cls}) \subseteq Plain(Y)
    BY <1>2, <1>4, <2>2, <2>3, ReachLeast
  <2>5. i.cls \in Reach(Super(g), {YearLeaf(i)})
    <3>1. <<YearLeaf(i), i.cls>> \in Super(g)
      BY <1>1 DEF Super, SliceEdges
    <3>2. /\ {YearLeaf(i)} \subseteq Reach(Super(g), {YearLeaf(i)})
          /\ Closed(Super(g), Reach(Super(g), {YearLeaf(i)}))
      BY <1>2, <2>2, ReachLeast
    <3>. QED
      BY <3>1, <3>2 DEF Closed
  <2>6. TypesOf(g, i) = {i.cls, YearLeaf(i)}
    BY <1>0
  <2>7. TypesOf(g, i) \ {i.cls} = {YearLeaf(i)} /\ TypesOf(g, i) \ {YearLeaf(i)} = {i.cls}
    BY <2>1, <2>6
  <2>8. i.cls \notin Innermost(g, i)
    BY <2>5, <2>7 DEF Innermost
  <2>9. YearLeaf(i) \in Innermost(g, i)
    BY <2>1, <2>4, <2>6, <2>7 DEF Innermost
  <2>10. \A c \in Innermost(g, i) : c = YearLeaf(i)
    BY <2>6, <2>8 DEF Innermost
  <2>. QED
    BY <2>9, <2>10 DEF LeafClass
<1>. QED
  BY <1>0, <1>5 DEF Leaves

-----------------------------------------------------------------------------
(* What an old instance brings to a row it still brings.                     *)
Kinds == {"elements", "components", "parts"}

LEMMA SameFacts ==
  ASSUME NEW Y, NEW g, NEW h, NEW K, NEW L, NEW Z, NEW W, Grown(Y, g, h, K, L, Z, W),
         NEW kind \in Kinds, NEW i \in K
  PROVE  Facts(g, kind, i, Leaves(K)) = Facts(h, kind, i, Leaves(L))
<1>1. Instances(g) = K /\ Instances(h) = L
  BY GraphInstances DEF Grown
<1>2. K \subseteq L /\ \A j \in L \ K : RootOf(j) \notin K
  BY DEF Grown
<1>3. {j \in K \ {i} : RootOf(j) = i} = {j \in L \ {i} : RootOf(j) = i}
  BY <1>2
<1>4. {Leaves(K)[j] : j \in {k \in K \ {i} : RootOf(k) = i}}
        = {Leaves(L)[j] : j \in {k \in L \ {i} : RootOf(k) = i}}
  <2>1. \A j \in {k \in K \ {i} : RootOf(k) = i} : Leaves(K)[j] = Leaves(L)[j]
    BY <1>2 DEF Leaves
  <2>. QED
    BY <1>3, <2>1
<1>. QED
  BY <1>1, <1>4 DEF Facts, Kinds

(* The pools above which no new instance lies are the old ones.              *)
LEMMA NewPools ==
  ASSUME NEW Y, NEW g, NEW h, NEW K, NEW L, NEW Z, NEW W, Grown(Y, g, h, K, L, Z, W),
         NEW kind \in Kinds
  PROVE  Outside(Touched(Y, Hierarchy \cup W, L \ K), Rollups(g), Rollups(h),
                 Pooling(g, kind, Leaves(K)), Pooling(h, kind, Leaves(L)),
                 Pool(g, kind, Leaves(K)), Pool(h, kind, Leaves(L)))
<1>. DEFINE U == Touched(Y, Hierarchy \cup W, L \ K)
            P == Pool(g, kind, Leaves(K))
            Q == Pool(h, kind, Leaves(L))
            A == Pooling(g, kind, Leaves(K))
            B == Pooling(h, kind, Leaves(L))
            old(i) == Facts(g, kind, i, Leaves(K))
            all(i) == Facts(h, kind, i, Leaves(L))
<1>1. EdgesOK(Y, g, h, K, L, Z, W, U)
  BY NewEdges
<1>2. Rollups(g) = SliceEdges(K, Z) /\ Rollups(h) = SliceEdges(L, W)
  BY GraphRollups DEF Grown
<1>3. /\ Instances(g) = K /\ Instances(h) = L /\ K \subseteq L
      /\ \A i \in L \ K : YearLeaf(i) \in U
  BY <1>1, GraphInstances DEF Grown, EdgesOK
<1>4. \A i \in K : old(i) = all(i)
  BY SameFacts
<1>5. /\ DOMAIN P = {YearLeaf(i) : i \in K} /\ DOMAIN Q = {YearLeaf(i) : i \in L}
      /\ \A c \in DOMAIN P : P[c] = UNION {old(i) : i \in {j \in K : YearLeaf(j) = c}}
      /\ \A c \in DOMAIN Q : Q[c] = UNION {all(i) : i \in {j \in L : YearLeaf(j) = c}}
  BY <1>3 DEF Pool, Leaves
<1>6. /\ A = {c \in DOMAIN P : P[c] # {}} /\ B = {c \in DOMAIN Q : Q[c] # {}}
  BY DEF Pooling
<1>7. IsFiniteSet(Rollups(h)) /\ Rollups(h) \subseteq Super(h)
  <2>1. Rollups(h) \subseteq Super(h)
    BY DEF Rollups
  <2>2. IsFiniteSet(Super(h))
    BY FS_Union DEF Grown, Dressed, YearGraph, PlainTaxonomy, Super
  <2>. QED
    BY <2>1, <2>2, FS_Subset
<1>8. IsFiniteSet(B)
  <2>. DEFINE leaf == Leaves(L)
  <2>1. IsFiniteSet(L)
    BY DEF Grown, Dressed, YearGraph
  <2>2. DOMAIN leaf = L /\ leaf = [i \in L |-> leaf[i]] /\ \A i \in L : leaf[i] = YearLeaf(i)
    BY DEF Leaves
  <2>3. IsFiniteSet({leaf[i] : i \in L})
    <3>. HIDE DEF leaf
    <3>. QED
      BY <2>1, <2>2, FiniteImage
  <2>4. B \subseteq {leaf[i] : i \in L}
    BY <1>5, <1>6, <2>2
  <2>. QED
    BY <2>3, <2>4, FS_Subset
<1>. HIDE DEF U, P, Q, A, B, old, all
<1>9. \A c \in A : c \in B
  <2>. SUFFICES ASSUME NEW c \in A PROVE c \in B
    OBVIOUS
  <2>1. PICK i \in K : YearLeaf(i) = c /\ old(i) # {}
    BY <1>5, <1>6
  <2>2. c \in DOMAIN Q /\ all(i) \subseteq Q[c]
    BY <1>3, <1>5, <2>1
  <2>. QED
    BY <1>4, <1>6, <2>1, <2>2
<1>10. \A c \in B : c \notin A => c \in U
  <2>. SUFFICES ASSUME NEW c \in B, c \notin U PROVE c \in A
    OBVIOUS
  <2>1. PICK i \in L : YearLeaf(i) = c /\ all(i) # {}
    BY <1>5, <1>6
  <2>2. i \in K
    BY <1>3, <2>1
  <2>3. c \in DOMAIN P /\ old(i) \subseteq P[c]
    BY <1>5, <2>1, <2>2
  <2>. QED
    BY <1>4, <1>6, <2>1, <2>2, <2>3
<1>11. \A c \in A : c \notin U => P[c] = Q[c]
  <2>. SUFFICES ASSUME NEW c \in A, c \notin U PROVE P[c] = Q[c]
    OBVIOUS
  <2>1. {j \in L : YearLeaf(j) = c} = {j \in K : YearLeaf(j) = c}
    BY <1>3
  <2>2. \A i \in {j \in K : YearLeaf(j) = c} : old(i) = all(i)
    BY <1>4
  <2>3. {old(i) : i \in {j \in K : YearLeaf(j) = c}} = {all(i) : i \in {j \in L : YearLeaf(j) = c}}
    BY <2>1, <2>2
  <2>. QED
    BY <1>5, <1>6, <1>9, <2>3
<1>12. \A e \in Rollups(h) : e = <<e[1], e[2]>>
  BY <1>2 DEF SliceEdges
<1>13. Closed(Rollups(h), U)
  BY <1>1, <1>7 DEF EdgesOK, Closed
<1>14. /\ Rollups(g) \subseteq Rollups(h)
       /\ \A e \in Rollups(h) \ Rollups(g) : e[2] \in U
  BY <1>1, <1>2 DEF EdgesOK
<1>15. Outside(U, Rollups(g), Rollups(h), A, B, P, Q)
  BY <1>7, <1>8, <1>9, <1>10, <1>11, <1>12, <1>13, <1>14 DEF Outside
<1>. QED
  BY <1>15 DEF U, P, Q, A, B

(* The averaged row of a class no new instance is below is the old one.      *)
LEMMA AveragedElsewhere ==
  ASSUME NEW Y, NEW g, NEW h, NEW K, NEW L, NEW Z, NEW W, Grown(Y, g, h, K, L, Z, W),
         NEW kind \in Kinds,
         NEW r, r.cls \notin Touched(Y, Hierarchy \cup W, L \ K)
  PROVE  r \in AveragedRows(g, kind, Leaves(K)) <=> r \in AveragedRows(h, kind, Leaves(L))
<1>. DEFINE U == Touched(Y, Hierarchy \cup W, L \ K)
            R == Rollups(g)
            S == Rollups(h)
            A == Pooling(g, kind, Leaves(K))
            B == Pooling(h, kind, Leaves(L))
            P == Pool(g, kind, Leaves(K))
            Q == Pool(h, kind, Leaves(L))
            row(c, t) == [kind |-> kind, cls |-> c, in |-> NoClass, term |-> t]
<1>1. Outside(U, R, S, A, B, P, Q)
  BY NewPools
<1>2. /\ AveragedRows(g, kind, Leaves(K)) = {row(c, TermIn(R, A, P, c)) : c \in Reach(R, A)}
      /\ AveragedRows(h, kind, Leaves(L)) = {row(c, TermIn(S, B, Q, c)) : c \in Reach(S, B)}
  BY AveragedAs
<1>. HIDE DEF R, S, A, B, P, Q
<1>3. \A c : c \notin U => (c \in Reach(S, B) <=> c \in Reach(R, A))
  BY <1>1, SameTerm
<1>11. \A c : c \notin U /\ c \in Reach(R, A) => TermIn(S, B, Q, c) = TermIn(R, A, P, c)
  BY <1>1, SameTerm
<1>4. \A c, t : row(c, t).cls = c
  OBVIOUS
<1>. HIDE DEF row, U
<1>5. \A x : x \in {row(c, TermIn(R, A, P, c)) : c \in Reach(R, A)} <=>
                 \E c \in Reach(R, A) : x = row(c, TermIn(R, A, P, c))
  OBVIOUS
<1>6. \A x : x \in {row(c, TermIn(S, B, Q, c)) : c \in Reach(S, B)} <=>
                 \E c \in Reach(S, B) : x = row(c, TermIn(S, B, Q, c))
  OBVIOUS
<1>7. r.cls \notin U
  BY DEF U
<1>8. ASSUME NEW c, r = row(c, TermIn(R, A, P, c)), c \in Reach(R, A)
      PROVE  c \in Reach(S, B) /\ r = row(c, TermIn(S, B, Q, c))
  <2>1. c \notin U
    BY <1>4, <1>7, <1>8
  <2>2. c \in Reach(S, B) /\ TermIn(S, B, Q, c) = TermIn(R, A, P, c)
    BY <1>3, <1>11, <1>8, <2>1
  <2>. QED
    BY <1>8, <2>2
<1>9. ASSUME NEW c, r = row(c, TermIn(S, B, Q, c)), c \in Reach(S, B)
      PROVE  c \in Reach(R, A) /\ r = row(c, TermIn(R, A, P, c))
  <2>1. c \notin U
    BY <1>4, <1>7, <1>9
  <2>2. c \in Reach(R, A) /\ TermIn(S, B, Q, c) = TermIn(R, A, P, c)
    BY <1>3, <1>11, <1>9, <2>1
  <2>. QED
    BY <1>9, <2>2
<1>10. (\E c \in Reach(R, A) : r = row(c, TermIn(R, A, P, c)))
         <=> \E c \in Reach(S, B) : r = row(c, TermIn(S, B, Q, c))
  BY <1>8, <1>9
<1>. QED
  BY <1>2, <1>5, <1>6, <1>10

-----------------------------------------------------------------------------
(* The contextual nodes.                                                     *)
Comps(K) == {i \in K : ~IsProduct(i)}
CompLeaves(K) == {YearLeaf(i) : i \in Comps(K)}
GroupsIn(g, K, c) == {c} \cup (Reach(Super(g), {c}) \ CompLeaves(K))
OccursIn(g, K) ==
  UNION {{<<d, YearLeaf(RootOf(i))>> : d \in GroupsIn(g, K, YearLeaf(i))} : i \in Comps(K)}
NodesIn(g, K, o) ==
  {i \in Comps(K) : o[2] = YearLeaf(RootOf(i)) /\ o[1] \in GroupsIn(g, K, YearLeaf(i))}
ScopedRow(g, K, o) ==
  [kind |-> "scoped", cls |-> o[1], in |-> o[2],
   term |-> {<<o[1], {<<i, {}>> : i \in NodesIn(g, K, o)}, {}>>}]

LEMMA ScopedAs ==
  ASSUME NEW g, NEW K, Instances(g) = K, Rooted(K)
  PROVE  ScopedRows(g, Leaves(K)) = {ScopedRow(g, K, o) : o \in OccursIn(g, K)}
<1>. DEFINE leafOf == Leaves(K)
            comps == {i \in Instances(g) : ~IsProduct(i)}
            leafClasses == {leafOf[i] : i \in comps}
            above == [c \in leafClasses |-> Reach(Super(g), {c})]
            groups(c) == {c} \cup (above[c] \ leafClasses)
            occurs == UNION { {<<h, leafOf[RootOf(i)]>> : h \in groups(leafOf[i])} : i \in comps }
            nodes(o) == {i \in comps : o[2] = leafOf[RootOf(i)] /\ o[1] \in groups(leafOf[i])}
<1>1. comps = Comps(K)
  BY DEF Comps
<1>2. \A i \in Comps(K) : leafOf[i] = YearLeaf(i) /\ leafOf[RootOf(i)] = YearLeaf(RootOf(i))
  BY DEF Comps, Leaves, Rooted
<1>3. leafClasses = CompLeaves(K)
  BY <1>1, <1>2 DEF CompLeaves
<1>4. \A i \in Comps(K) : groups(leafOf[i]) = GroupsIn(g, K, YearLeaf(i))
  <2>1. \A i \in Comps(K) : YearLeaf(i) \in leafClasses
    BY <1>3 DEF CompLeaves
  <2>. QED
    BY <1>2, <1>3, <2>1 DEF GroupsIn
<1>5. occurs = OccursIn(g, K)
  <2>1. \A i \in Comps(K) : {<<h, leafOf[RootOf(i)]>> : h \in groups(leafOf[i])}
                               = {<<d, YearLeaf(RootOf(i))>> : d \in GroupsIn(g, K, YearLeaf(i))}
    BY <1>2, <1>4
  <2>2. {{<<h, leafOf[RootOf(i)]>> : h \in groups(leafOf[i])} : i \in comps}
          = {{<<d, YearLeaf(RootOf(i))>> : d \in GroupsIn(g, K, YearLeaf(i))} : i \in Comps(K)}
    <3>. HIDE DEF groups, leafOf, comps
    <3>. QED
      BY <1>1, <2>1
  <2>. QED
    BY <2>2 DEF OccursIn
<1>6. \A o : nodes(o) = NodesIn(g, K, o)
  BY <1>1, <1>2, <1>4 DEF NodesIn
<1>7. ScopedRows(g, Leaves(K)) = {[kind |-> "scoped", cls |-> o[1], in |-> o[2],
                                   term |-> {<<o[1], {<<i, {}>> : i \in nodes(o)}, {}>>}] : o \in occurs}
  BY DEF ScopedRows
<1>8. \A o : ScopedRow(g, K, o) = [kind |-> "scoped", cls |-> o[1], in |-> o[2],
                                   term |-> {<<o[1], {<<i, {}>> : i \in nodes(o)}, {}>>}]
  BY <1>6 DEF ScopedRow
<1>. HIDE DEF occurs, nodes
<1>. QED
  BY <1>5, <1>7, <1>8

(* Outside the touched classes an instance is in the groups it was in.       *)
LEMMA SameGroups ==
  ASSUME NEW Y, NEW g, NEW h, NEW K, NEW L, NEW Z, NEW W, Grown(Y, g, h, K, L, Z, W),
         NEW d, d \notin Touched(Y, Hierarchy \cup W, L \ K), NEW i
  PROVE  (i \in Comps(K) /\ d \in GroupsIn(g, K, YearLeaf(i)))
           <=> (i \in Comps(L) /\ d \in GroupsIn(h, L, YearLeaf(i)))
<1>. DEFINE U == Touched(Y, Hierarchy \cup W, L \ K)
            c == YearLeaf(i)
            R == Super(g)
            S == Super(h)
<1>1. EdgesOK(Y, g, h, K, L, Z, W, U)
  BY NewEdges
<1>. HIDE DEF U
<1>2. /\ R \subseteq S /\ \A e \in S \ R : e[2] \in U
      /\ Closed(S, U) /\ \A j \in L \ K : YearLeaf(j) \in U
  BY <1>1 DEF EdgesOK
<1>3. IsFiniteSet(S) /\ IsFiniteSet(R) /\ IsFiniteSet({c})
  BY FS_Union, FS_Singleton DEF Grown, Dressed, YearGraph, PlainTaxonomy, Super
<1>4. Comps(K) \subseteq Comps(L) /\ \A j \in Comps(L) : j \in L /\ (j \in K => j \in Comps(K))
  BY DEF Comps, Grown
<1>5. CompLeaves(K) \subseteq CompLeaves(L) /\ \A x \in CompLeaves(L) : x \in CompLeaves(K) \/ x \in U
  BY <1>2, <1>4 DEF CompLeaves
<1>6. /\ {c} \subseteq Reach(R, {c}) /\ Closed(R, Reach(R, {c}))
      /\ {c} \subseteq Reach(S, {c}) /\ Closed(S, Reach(S, {c}))
  BY <1>3, ReachLeast
<1>7. Reach(R, {c}) \subseteq Reach(S, {c})
  <2>. HIDE DEF R, S, c
  <2>. QED
    BY <1>2, <1>3, <1>6, ReachGrows
<1>8. Reach(S, {c}) \subseteq Reach(R, {c}) \cup U
  <2>1. Closed(S, Reach(R, {c}) \cup U)
    BY <1>2, <1>6 DEF Closed
  <2>2. {c} \subseteq Reach(R, {c}) \cup U
    BY <1>6
  <2>. PICK T : T = Reach(R, {c}) \cup U
    OBVIOUS
  <2>. HIDE DEF R, S, c
  <2>. QED
    BY <1>3, <2>1, <2>2, ReachLeast
<1>9. c \in U => Reach(S, {c}) \subseteq U
  <2>1. ASSUME c \in U PROVE {c} \subseteq U
    BY <2>1
  <2>. HIDE DEF S, c
  <2>. QED
    BY <1>2, <1>3, <2>1, ReachLeast
<1>10. d \notin U
  BY DEF U
<1>11. d \in GroupsIn(g, K, c) <=> d = c \/ (d \in Reach(R, {c}) /\ d \notin CompLeaves(K))
  BY DEF GroupsIn
<1>12. d \in GroupsIn(h, L, c) <=> d = c \/ (d \in Reach(S, {c}) /\ d \notin CompLeaves(L))
  BY DEF GroupsIn
<1>13. i \in Comps(L) /\ i \notin K => c \in U
  BY <1>2, <1>4
<1>. HIDE DEF R, S, c
<1>14. d \in GroupsIn(g, K, c) => d \in GroupsIn(h, L, c)
  BY <1>5, <1>7, <1>10, <1>11, <1>12
<1>15. d \in GroupsIn(h, L, c) => d \in GroupsIn(g, K, c) /\ c \notin U
  BY <1>5, <1>8, <1>9, <1>10, <1>11, <1>12
<1>. QED
  BY <1>4, <1>13, <1>14, <1>15 DEF c

LEMMA ScopedElsewhere ==
  ASSUME NEW Y, NEW g, NEW h, NEW K, NEW L, NEW Z, NEW W, Grown(Y, g, h, K, L, Z, W),
         NEW r, r.cls \notin Touched(Y, Hierarchy \cup W, L \ K)
  PROVE  r \in ScopedRows(g, Leaves(K)) <=> r \in ScopedRows(h, Leaves(L))
<1>. DEFINE U == Touched(Y, Hierarchy \cup W, L \ K)
<1>1. /\ ScopedRows(g, Leaves(K)) = {ScopedRow(g, K, o) : o \in OccursIn(g, K)}
      /\ ScopedRows(h, Leaves(L)) = {ScopedRow(h, L, o) : o \in OccursIn(h, L)}
  BY GraphInstances, ScopedAs DEF Grown
<1>2. \A d, i : d \notin U =>
                   ((i \in Comps(K) /\ d \in GroupsIn(g, K, YearLeaf(i)))
                     <=> (i \in Comps(L) /\ d \in GroupsIn(h, L, YearLeaf(i))))
  BY SameGroups
<1>3. /\ \A o : o \in OccursIn(g, K) <=> \E i \in Comps(K) : \E d \in GroupsIn(g, K, YearLeaf(i)) :
                                              o = <<d, YearLeaf(RootOf(i))>>
      /\ \A o : o \in OccursIn(h, L) <=> \E i \in Comps(L) : \E d \in GroupsIn(h, L, YearLeaf(i)) :
                                              o = <<d, YearLeaf(RootOf(i))>>
  BY DEF OccursIn
<1>. HIDE DEF U
<1>4. ASSUME NEW o, o[1] \notin U PROVE o \in OccursIn(g, K) <=> o \in OccursIn(h, L)
  <2>1. ASSUME NEW i \in Comps(K), NEW d \in GroupsIn(g, K, YearLeaf(i)), o = <<d, YearLeaf(RootOf(i))>>
        PROVE  o \in OccursIn(h, L)
    <3>1. d \notin U
      BY <1>4, <2>1
    <3>2. i \in Comps(L) /\ d \in GroupsIn(h, L, YearLeaf(i))
      BY <1>2, <3>1
    <3>. QED
      BY <1>3, <2>1, <3>2
  <2>2. ASSUME NEW i \in Comps(L), NEW d \in GroupsIn(h, L, YearLeaf(i)), o = <<d, YearLeaf(RootOf(i))>>
        PROVE  o \in OccursIn(g, K)
    <3>1. d \notin U
      BY <1>4, <2>2
    <3>2. i \in Comps(K) /\ d \in GroupsIn(g, K, YearLeaf(i))
      BY <1>2, <3>1
    <3>. QED
      BY <1>3, <2>2, <3>2
  <2>. QED
    BY <1>3, <2>1, <2>2
<1>5. ASSUME NEW o, o[1] \notin U PROVE ScopedRow(g, K, o) = ScopedRow(h, L, o)
  <2>1. NodesIn(g, K, o) = NodesIn(h, L, o)
    <3>1. \A i : (i \in Comps(K) /\ o[1] \in GroupsIn(g, K, YearLeaf(i)))
                   <=> (i \in Comps(L) /\ o[1] \in GroupsIn(h, L, YearLeaf(i)))
      BY <1>2, <1>5
    <3>. QED
      BY <3>1 DEF NodesIn
  <2>. QED
    BY <2>1 DEF ScopedRow
<1>6. \A o : ScopedRow(g, K, o).cls = o[1] /\ ScopedRow(h, L, o).cls = o[1]
  BY DEF ScopedRow
<1>7. r.cls \notin U
  BY DEF U
<1>8. ASSUME NEW o, r = ScopedRow(g, K, o), o \in OccursIn(g, K)
      PROVE  o \in OccursIn(h, L) /\ r = ScopedRow(h, L, o)
  <2>1. o[1] \notin U
    BY <1>6, <1>7, <1>8
  <2>. QED
    BY <1>4, <1>5, <1>8, <2>1
<1>9. ASSUME NEW o, r = ScopedRow(h, L, o), o \in OccursIn(h, L)
      PROVE  o \in OccursIn(g, K) /\ r = ScopedRow(g, K, o)
  <2>1. o[1] \notin U
    BY <1>6, <1>7, <1>9
  <2>. QED
    BY <1>4, <1>5, <1>9, <2>1
<1>. QED
  BY <1>1, <1>8, <1>9

-----------------------------------------------------------------------------
(* The whole view.                                                           *)
LEMMA RowsAs ==
  ASSUME NEW Y, NEW K, NEW Z, NEW g, Dressed(Y, g, K, Z)
  PROVE  \A r : r \in Rows(g) <=> \/ r \in ScopedRows(g, Leaves(K))
                                 \/ \E k \in Kinds : r \in AveragedRows(g, k, Leaves(K))
<1>1. [i \in Instances(g) |-> LeafClass(g, i)] = Leaves(K)
  BY LeafIsSlice
<1>2. Rows(g) = ScopedRows(g, Leaves(K)) \cup UNION {AveragedRows(g, k, Leaves(K)) : k \in Kinds}
  BY <1>1 DEF Rows, Kinds
<1>. QED
  BY <1>2

LEMMA RowsElsewhere ==
  ASSUME NEW Y, NEW g, NEW h, NEW K, NEW L, NEW Z, NEW W, Grown(Y, g, h, K, L, Z, W),
         NEW r, r.cls \notin Touched(Y, Hierarchy \cup W, L \ K)
  PROVE  r \in Rows(g) <=> r \in Rows(h)
<1>1. r \in ScopedRows(g, Leaves(K)) <=> r \in ScopedRows(h, Leaves(L))
  BY ScopedElsewhere
<1>2. \A k \in Kinds : r \in AveragedRows(g, k, Leaves(K)) <=> r \in AveragedRows(h, k, Leaves(L))
  BY AveragedElsewhere
<1>3. /\ r \in Rows(g) <=> \/ r \in ScopedRows(g, Leaves(K))
                          \/ \E k \in Kinds : r \in AveragedRows(g, k, Leaves(K))
      /\ r \in Rows(h) <=> \/ r \in ScopedRows(h, Leaves(L))
                          \/ \E k \in Kinds : r \in AveragedRows(h, k, Leaves(L))
  BY RowsAs DEF Grown
<1>. QED
  BY <1>1, <1>2, <1>3

(* A row is about an authored class or about a slice.                        *)
Known(Y, g) == Plain(Y) \cup Timed(g)

LEMMA KnownAbove ==
  ASSUME NEW Y, NEW K, NEW Z, NEW g, Dressed(Y, g, K, Z)
  PROVE  /\ Closed(Super(g), Known(Y, g)) /\ \A i \in K : YearLeaf(i) \in Known(Y, g)
         /\ IsFiniteSet(Super(g))
<1>0. Fields(Y, g, K, Z) /\ InstanceNames(Y, K) /\ RiseNames(Y, K, Z)
  BY GraphFields, GraphNames
<1>1. /\ g.sub = Z \cup SliceEdges(K, Z) /\ Hierarchy \cup Z \subseteq Plain(Y) \X Plain(Y)
      /\ g.scope = {<<YearLeaf(i), i.year>> : i \in K} \cup {<<HighEnd(r), r[1].year>> : r \in Rise(K, Z)}
  BY <1>0 DEF Fields
<1>2. \A p \in g.scope : p[1] \in Timed(g)
  BY DEF Timed
<1>3. ASSUME NEW i \in K PROVE YearLeaf(i) \in Timed(g)
  <2>1. PICK p \in g.scope : p = <<YearLeaf(i), i.year>>
    BY <1>1
  <2>. QED
    BY <1>2, <2>1
<1>4. ASSUME NEW r \in Rise(K, Z) PROVE HighEnd(r) \in Timed(g)
  <2>1. PICK p \in g.scope : p = <<HighEnd(r), r[1].year>>
    BY <1>1
  <2>. QED
    BY <1>2, <2>1
<1>5. ASSUME NEW e \in SliceEdges(K, Z) PROVE e[2] \in Known(Y, g)
  <2>1. \A i \in K : i.cls \in Plain(Y)
    BY <1>0 DEF InstanceNames
  <2>2. \A r \in Rise(K, Z) : r[2][2] \in Plain(Y)
    BY <1>0 DEF RiseNames
  <2>. QED
    BY <1>4, <2>1, <2>2 DEF SliceEdges, Known
<1>6. \A e \in Hierarchy \cup Z : e[2] \in Known(Y, g)
  BY <1>1 DEF Known
<1>7. Closed(Super(g), Known(Y, g))
  BY <1>1, <1>5, <1>6 DEF Super, Closed
<1>8. IsFiniteSet(Super(g))
  BY FS_Union DEF Dressed, YearGraph, PlainTaxonomy, Super
<1>. QED
  BY <1>3, <1>7, <1>8 DEF Known

LEMMA RowsKnown ==
  ASSUME NEW Y, NEW K, NEW Z, NEW g, Dressed(Y, g, K, Z), Rooted(K), NEW r \in Rows(g)
  PROVE  r.cls \in Known(Y, g)
<1>. DEFINE N == Known(Y, g)
<1>1. /\ Closed(Super(g), N) /\ \A i \in K : YearLeaf(i) \in N
      /\ IsFiniteSet(Super(g)) /\ Instances(g) = K /\ IsFiniteSet(K)
  BY KnownAbove, GraphInstances DEF Dressed, YearGraph
<1>. HIDE DEF N
<1>2. CASE r \in ScopedRows(g, Leaves(K))
  <2>1. PICK o \in OccursIn(g, K) : r = ScopedRow(g, K, o)
    BY <1>1, <1>2, ScopedAs
  <2>8. PICK i \in Comps(K) : \E d \in GroupsIn(g, K, YearLeaf(i)) : o = <<d, YearLeaf(RootOf(i))>>
    BY DEF OccursIn
  <2>2. PICK d \in GroupsIn(g, K, YearLeaf(i)) : o = <<d, YearLeaf(RootOf(i))>>
    BY <2>8
  <2>3. r.cls = d
    BY <2>1, <2>2 DEF ScopedRow
  <2>. PICK c : c = YearLeaf(i)
    OBVIOUS
  <2>4. c \in N /\ IsFiniteSet({c})
    BY <1>1, FS_Singleton DEF Comps
  <2>5. {c} \subseteq N
    BY <2>4
  <2>6. Reach(Super(g), {c}) \subseteq N
    BY <1>1, <2>4, <2>5, ReachLeast
  <2>7. d = c \/ d \in Reach(Super(g), {c})
    BY DEF GroupsIn
  <2>. QED
    BY <2>3, <2>4, <2>6, <2>7 DEF N
<1>3. ASSUME NEW k \in Kinds, r \in AveragedRows(g, k, Leaves(K)) PROVE r.cls \in N
  <2>. PICK R, A, P : R = Rollups(g) /\ A = Pooling(g, k, Leaves(K)) /\ P = Pool(g, k, Leaves(K))
    OBVIOUS
  <2>1. \E c \in Reach(R, A) : r = [kind |-> k, cls |-> c, in |-> NoClass, term |-> TermIn(R, A, P, c)]
    BY <1>3, AveragedAs
  <2>2. PICK c \in Reach(R, A) : r.cls = c
    BY <2>1
  <2>3. \A x \in A : \E i \in K : x = YearLeaf(i)
    BY <1>1 DEF Pooling, Pool, Leaves
  <2>4. A \subseteq N
    BY <1>1, <2>3
  <2>5. R \subseteq Super(g) /\ IsFiniteSet(R) /\ Closed(R, N)
    <3>1. R \subseteq Super(g)
      BY DEF Rollups
    <3>. QED
      BY <1>1, <3>1, FS_Subset DEF Closed
  <2>6. IsFiniteSet(A)
    <3>. DEFINE leaf == Leaves(K)
    <3>1. DOMAIN leaf = K /\ leaf = [i \in K |-> leaf[i]] /\ \A i \in K : leaf[i] = YearLeaf(i)
      BY DEF Leaves
    <3>. HIDE DEF leaf
    <3>2. IsFiniteSet({leaf[i] : i \in K})
      BY <1>1, <3>1, FiniteImage
    <3>3. A \subseteq {leaf[i] : i \in K}
      BY <2>3, <3>1
    <3>. QED
      BY <3>2, <3>3, FS_Subset
  <2>7. Reach(R, A) \subseteq N
    BY <2>4, <2>5, <2>6, ReachLeast
  <2>. QED
    BY <2>2, <2>7
<1>4. r \in ScopedRows(g, Leaves(K)) \/ \E k \in Kinds : r \in AveragedRows(g, k, Leaves(K))
  BY RowsAs
<1>. QED
  BY <1>2, <1>3, <1>4 DEF N

(* The affected set has every such class above a new instance: up the slices *)
(* of its year to the slice of the class, from there to the class, and down  *)
(* again to its slices of the other years.                                   *)
LEMMA AffectedCovers ==
  ASSUME NEW Y, NEW g, NEW h, NEW K, NEW L, NEW Z, NEW W, Grown(Y, g, h, K, L, Z, W),
         NEW c \in Known(Y, h), c \in Touched(Y, Hierarchy \cup W, L \ K)
  PROVE  c \in Affected(h, L \ K)
<1>. DEFINE F == Hierarchy \cup W
            N == L \ K
            C == Changed(h, N)
            E == h.sub \cup h.sliceOf
            up == Upward(h, C)
            B == {<<e[2], e[1]>> : e \in {d \in h.sliceOf : Image(h.axis, d[1]) # {}}}
            down == Downward(h, up)
<1>0. /\ Growth(Y, K, L, Z, W) /\ Fields(Y, h, L, W) /\ InstanceNames(Y, L) /\ RiseNames(Y, L, W)
      /\ \A i \in L : TypesOf(h, i) = {i.cls, YearLeaf(i)}
  BY GrownFacts, GraphFields, GraphNames, GraphInstances DEF Grown
<1>1. IsFiniteSet(E) /\ IsFiniteSet(N) /\ IsFiniteSet(C) /\ IsFiniteSet(B)
  <2>1. IsFiniteSet(E) /\ IsFiniteSet(N) /\ IsFiniteSet(L) /\ IsFiniteSet(h.sliceOf)
    BY FS_Union, FS_Subset DEF Grown, Dressed, YearGraph
  <2>2. IsFiniteSet(C)
    <3>. DEFINE cls == [i \in N |-> i.cls]
                leaf == [i \in N |-> YearLeaf(i)]
    <3>1. DOMAIN cls = N /\ cls = [i \in N |-> cls[i]] /\ DOMAIN leaf = N /\ leaf = [i \in N |-> leaf[i]]
          /\ \A i \in N : cls[i] = i.cls /\ leaf[i] = YearLeaf(i)
      OBVIOUS
    <3>. HIDE DEF cls, leaf, N
    <3>2. IsFiniteSet({cls[i] : i \in N}) /\ IsFiniteSet({leaf[i] : i \in N})
      BY <2>1, <3>1, FiniteImage
    <3>3. \A i \in N : TypesOf(h, i) = {i.cls, YearLeaf(i)}
      BY <1>0 DEF N
    <3>4. C \subseteq {cls[i] : i \in N} \cup {leaf[i] : i \in N}
      BY <3>1, <3>3 DEF Changed
    <3>. QED
      BY <3>2, <3>4, FS_Union, FS_Subset
  <2>3. IsFiniteSet(B)
    <3>. DEFINE flip == [e \in h.sliceOf |-> <<e[2], e[1]>>]
    <3>1. DOMAIN flip = h.sliceOf /\ flip = [e \in h.sliceOf |-> flip[e]]
          /\ \A e \in h.sliceOf : flip[e] = <<e[2], e[1]>>
      OBVIOUS
    <3>2. B \subseteq {flip[e] : e \in h.sliceOf}
      BY <3>1
    <3>. HIDE DEF flip
    <3>3. IsFiniteSet({flip[e] : e \in h.sliceOf})
      BY <2>1, <3>1, FiniteImage
    <3>. QED
      BY <3>2, <3>3, FS_Subset
  <2>. QED
    BY <2>1, <2>2, <2>3
<1>2. C \subseteq up /\ Closed(E, up) /\ IsFiniteSet(up)
  <2>1. up = Reach(E, C)
    BY DEF Upward
  <2>. HIDE DEF E, C, up
  <2>. QED
    BY <1>1, <2>1, ReachLeast
<1>3. up \subseteq down /\ Closed(B, down)
  <2>1. down = Reach(B, up)
    BY DEF Downward
  <2>. HIDE DEF B, up, down
  <2>. QED
    BY <1>1, <1>2, <2>1, ReachLeast
<1>4. /\ SliceEdges(L, W) \subseteq E /\ IsFiniteSet(F)
  BY <1>0 DEF Fields
<1>5. ASSUME NEW i \in N PROVE Reach(F, {i.cls}) \subseteq up
  <2>. DEFINE T == {d \in Reach(F, {i.cls}) : d \in up /\ slice_name(d, i.year) \in up}
  <2>1. IsFiniteSet({i.cls})
    BY FS_Singleton
  <2>2. {i.cls} \subseteq Reach(F, {i.cls}) /\ Closed(F, Reach(F, {i.cls}))
    <3>. HIDE DEF F
    <3>. QED
      BY <1>4, <2>1, ReachLeast
  <2>3. {i.cls} \subseteq T
    <3>1. i.cls \in C /\ YearLeaf(i) \in C
      BY <1>0 DEF Changed
    <3>2. YearLeaf(i) = slice_name(i.cls, i.year)
      BY <1>0 DEF InstanceNames
    <3>. QED
      BY <1>2, <2>2, <3>1, <3>2
  <2>4. Closed(F, T)
    <3>. SUFFICES ASSUME NEW e \in F, e[1] \in T PROVE e[2] \in T
      BY DEF Closed
    <3>. DEFINE r == <<i, e>>
    <3>1. r \in Rise(L, W)
      BY DEF Rise
    <3>2. LowEnd(r) = slice_name(e[1], i.year) /\ HighEnd(r) = slice_name(e[2], i.year)
      BY DEF LowEnd, HighEnd
    <3>3. <<LowEnd(r), HighEnd(r)>> \in E /\ <<HighEnd(r), r[2][2]>> \in E
      BY <1>4, <3>1 DEF SliceEdges
    <3>4. HighEnd(r) \in up
      BY <1>2, <3>2, <3>3 DEF Closed
    <3>5. r[2][2] \in up
      BY <1>2, <3>3, <3>4 DEF Closed
    <3>6. e[2] \in Reach(F, {i.cls})
      BY <2>2 DEF Closed
    <3>. QED
      BY <3>2, <3>4, <3>5, <3>6
  <2>5. Reach(F, {i.cls}) \subseteq T
    <3>. HIDE DEF F, T
    <3>. QED
      BY <1>4, <2>1, <2>3, <2>4, ReachLeast
  <2>. QED
    BY <2>5
<1>6. Under(F, N) \subseteq up
  BY <1>5 DEF Under
<1>7. /\ \A b \in Plain(Y) : b \in Touched(Y, F, N) <=> b \in Under(F, N)
      /\ \A b \in Plain(Y), y \in Y : slice_name(b, y) \in Touched(Y, F, N) <=> b \in Under(F, N)
  <2>1. Y \in SUBSET Word /\ Under(F, N) \subseteq Plain(Y)
    BY <1>0 DEF Growth, UnderOK
  <2>. HIDE DEF F, N
  <2>. QED
    BY <2>1, TouchedNames
<1>8. c \in down
  <2>1. CASE c \in Plain(Y)
    BY <1>3, <1>6, <1>7, <2>1
  <2>2. CASE c \in Timed(h)
    <3>5. Dressed(Y, h, L, W)
      BY DEF Grown
    <3>6. SlicesNamed(Y, h)
      BY <3>5, GraphTimed
    <3>1. PICK b \in Plain(Y), y \in Y : c = slice_name(b, y) /\ <<c, b>> \in h.sliceOf /\ <<c, "year">> \in h.axis
      BY <2>2, <3>6 DEF SlicesNamed
    <3>2. b \in up
      BY <1>6, <1>7, <3>1
    <3>3. "year" \in Image(h.axis, c)
      BY <3>1 DEF Image
    <3>4. <<b, c>> \in B
      <4>1. PICK d \in h.sliceOf : d = <<c, b>>
        BY <3>1
      <4>2. Image(h.axis, d[1]) # {} /\ <<d[2], d[1]>> = <<b, c>>
        BY <3>3, <4>1
      <4>. QED
        BY <4>2
    <3>. QED
      BY <1>3, <3>2, <3>4 DEF Closed
  <2>. QED
    BY <2>1, <2>2 DEF Known
<1>9. N # {}
  BY DEF Touched, Under
<1>. QED
  BY <1>8, <1>9 DEF Affected

(* So the refresh is exact.                                                  *)
LEMMA RefreshExact ==
  ASSUME NEW Y, NEW g, NEW h, NEW K, NEW L, NEW Z, NEW W, Grown(Y, g, h, K, L, Z, W),
         NEW A, A = Affected(h, L \ K)
  PROVE  Refresh(Rows(g), Project(h, A), A) = Rows(h)
<1>. DEFINE U == Touched(Y, Hierarchy \cup W, L \ K)
<1>1. \A r : r.cls \notin U => (r \in Rows(g) <=> r \in Rows(h))
  BY RowsElsewhere
<1>2. \A r \in Rows(g) : r.cls \in Known(Y, g)
  BY RowsKnown DEF Grown
<1>3. \A r \in Rows(h) : r.cls \in Known(Y, h)
  BY RowsKnown DEF Grown
<1>4. Known(Y, g) \subseteq Known(Y, h)
  <2>1. /\ Fields(Y, g, K, Z) /\ Fields(Y, h, L, W)
    BY GraphFields DEF Grown
  <2>2. Rise(K, Z) \subseteq Rise(L, W)
    BY RiseGrows DEF Grown, Dressed
  <2>3. g.scope \subseteq h.scope
    BY <2>1, <2>2 DEF Fields, Grown
  <2>. QED
    BY <2>3 DEF Known, Timed
<1>5. \A c \in Known(Y, h) : c \in U => c \in A
  BY AffectedCovers
<1>. HIDE DEF U
<1>6. \A r : r \in Refresh(Rows(g), Project(h, A), A) <=>
               \/ r \in Rows(g) /\ r.cls \notin A
               \/ r \in Rows(h) /\ (r.cls \in A \/ (r.kind = "scoped" /\ r.in \in A))
  BY DEF Refresh, Project
<1>. HIDE DEF Known
<1>7. \A r : r \in Refresh(Rows(g), Project(h, A), A) => r \in Rows(h)
  BY <1>1, <1>2, <1>4, <1>5, <1>6
<1>8. \A r \in Rows(h) : r \in Refresh(Rows(g), Project(h, A), A)
  BY <1>1, <1>3, <1>5, <1>6
<1>. QED
  BY <1>7, <1>8

(* Rows are made of types, edges, slices and scopes: markers and strategies  *)
(* are in none.                                                              *)
LEMMA RowsAlike ==
  ASSUME NEW g, NEW h,
         g.type = h.type, g.sub = h.sub, g.sliceOf = h.sliceOf, g.scope = h.scope
  PROVE  Rows(g) = Rows(h)
<1>1. /\ Instances(g) = Instances(h) /\ Super(g) = Super(h) /\ Timed(g) = Timed(h)
      /\ \A i : TypesOf(g, i) = TypesOf(h, i)
  BY DEF Instances, Super, Timed, TypesOf
<1>2. \A i : LeafClass(g, i) = LeafClass(h, i)
  <2>1. \A i : Innermost(g, i) = Innermost(h, i)
    BY <1>1 DEF Innermost
  <2>. QED
    BY <2>1 DEF LeafClass
<1>3. \A p, c : Gate(g, p, c) = Gate(h, p, c)
  BY <1>1 DEF Gate
<1>4. \A k, i, f : Facts(g, k, i, f) = Facts(h, k, i, f)
  BY <1>1 DEF Facts
<1>5. ASSUME NEW f PROVE ScopedRows(g, f) = ScopedRows(h, f)
  BY <1>1 DEF ScopedRows
<1>6. ASSUME NEW k, NEW f PROVE AveragedRows(g, k, f) = AveragedRows(h, k, f)
  <2>1. Rollups(g) = Rollups(h)
    BY <1>1, <1>3 DEF Rollups
  <2>2. Pool(g, k, f) = Pool(h, k, f)
    BY <1>1, <1>4 DEF Pool
  <2>3. Pooling(g, k, f) = Pooling(h, k, f)
    BY <2>2 DEF Pooling
  <2>. QED
    BY <2>1, <2>2, <2>3, AveragedAs
<1>. PICK e, f : e = [i \in Instances(g) |-> LeafClass(g, i)] /\ f = [i \in Instances(h) |-> LeafClass(h, i)]
  OBVIOUS
<1>7. e = f
  BY <1>1, <1>2
<1>8. /\ Rows(g) = ScopedRows(g, e) \cup UNION {AveragedRows(g, k, e) : k \in {"elements", "components", "parts"}}
      /\ Rows(h) = ScopedRows(h, f) \cup UNION {AveragedRows(h, k, f) : k \in {"elements", "components", "parts"}}
  BY DEF Rows
<1>. QED
  BY <1>5, <1>6, <1>7, <1>8

-----------------------------------------------------------------------------
SourceInstances(s) == Instances(SourceGraph(s, corpus[s]))

(* The store holds the instances of the sources added, and no other.         *)
StoreComplete == Instances(store) = UNION {SourceInstances(s) : s \in added}

(* Every class with a value-axis child has the value strategy alone, every   *)
(* other the one the year pass declares.                                     *)
Parents(g) == {e[2] : e \in {d \in g.sliceOf : d[1] \in Values(g)}}
OneStrategy(g) ==
  \A s \in g.strategy : s[2] = IF s[1] \in Parents(g) THEN "drive" ELSE "equal"

(* Empty, or the graph some finalisation left.                               *)
Finalised(g) == Sound(Years, g) /\ RollsUp(g) /\ OneStrategy(g)

IInv ==
  /\ corpus \in [Source -> Docs] /\ added \subseteq Source /\ building \in BOOLEAN
  /\ adds \in 0 .. MaxAdds
  /\ \A r \in view : r.kind \in {"elements", "components", "parts", "scoped"}
  /\ StoreComplete
  /\ Finalised(store)

-----------------------------------------------------------------------------
(* The names of taxonomy and documents are plain ones.                       *)
LEMMA PlainNames ==
  /\ PlainTaxonomy(Years)
  /\ \A c : IsName(c) => c \in Plain(Years)
<1>1. \A c : IsName(c) => c \in Plain(Years)
  BY DEF IsName, Plain, Word
<1>2. \A e \in Hierarchy : e \in Plain(Years) \X Plain(Years)
  BY <1>1, NamesAssumption DEF IsUnder
<1>. QED
  BY <1>1, <1>2, NamesAssumption DEF PlainTaxonomy, Word

(* What a document brings is the graph of plain classes that finalising is   *)
(* defined for.                                                              *)
LEMMA SourceIsPlain ==
  ASSUME NEW s \in Source, NEW d \in Docs
  PROVE  FromSource(Years, SourceGraph(s, d)) /\ SourceGraph(s, d).strategy = {}
<1>. DEFINE top(c) == IF d.product = NoClass THEN c ELSE d.product
            classes == d.parts \cup ({d.product} \ {NoClass})
            triple == [c \in classes |->
                         <<[src |-> s, cls |-> c, year |-> d.year, root |-> top(c)], c>>]
            g == SourceGraph(s, d)
<1>1. /\ g.type = {triple[c] : c \in classes} /\ g.sub = d.under
      /\ g.axis = {<<v, "drive">> : v \in d.values}
      /\ g.sliceOf = {} /\ g.scope = {} /\ g.strategy = {}
  BY DEF SourceGraph, EmptyGraph
<1>2. IsFiniteSet(classes) /\ \A c \in classes : c \in Plain(Years) /\ top(c) \in Plain(Years)
  <2>1. /\ d.product # NoClass => d.product \in Plain(Years)
        /\ \A c \in d.parts : c \in Plain(Years)
    BY PlainNames, NamesAssumption
  <2>2. IsFiniteSet({d.product} \ {NoClass})
    BY FS_Singleton, FS_Subset
  <2>. QED
    BY <2>1, <2>2, NamesAssumption, FS_Union
<1>3. IsFiniteSet(g.type)
  <2>. HIDE DEF classes
  <2>1. IsFiniteSet({triple[c] : c \in classes})
    BY <1>2, FiniteImage
  <2>. QED
    BY <1>1, <2>1
<1>4. ASSUME NEW t \in g.type
      PROVE  /\ t = <<t[1], t[1].cls>> /\ t[1].year \in Years /\ t[1].cls \in Plain(Years)
             /\ RootOf(RootOf(t[1])) = RootOf(t[1])
  <2>. HIDE DEF classes, top
  <2>1. PICK c \in classes : t = <<[src |-> s, cls |-> c, year |-> d.year, root |-> top(c)], c>>
    BY <1>1
  <2>. QED
    BY <1>2, <2>1 DEF RootOf, Years
<1>5. g.sub \subseteq Plain(Years) \X Plain(Years) /\ IsFiniteSet(g.sub)
  BY <1>1, PlainNames, NamesAssumption DEF IsUnder
<1>6. \A a \in g.axis : a[1] \in Plain(Years) /\ a[2] = "drive"
  BY <1>1, PlainNames, NamesAssumption
<1>. HIDE DEF g
<1>. QED
  BY <1>1, <1>3, <1>4, <1>5, <1>6 DEF FromSource, g

(* The empty store of no sources.                                            *)
LEMMA EmptyStore == Instances(EmptyGraph) = {} /\ Finalised(EmptyGraph)
<1>1. /\ EmptyGraph.type = {} /\ EmptyGraph.sub = {} /\ EmptyGraph.sliceOf = {}
      /\ EmptyGraph.axis = {} /\ EmptyGraph.scope = {} /\ EmptyGraph.strategy = {}
  BY DEF EmptyGraph
<1>2. Small(EmptyGraph)
  <2>1. Within(EmptyGraph, {}, {})
    BY <1>1, FS_EmptySet DEF Within
  <2>. QED
    BY <2>1 DEF Small
<1>. QED
  BY <1>1, <1>2 DEF Instances, Finalised, Sound, Typed, Classes, OneValue, RollsUp, OneStrategy

(* A new corpus starts with no store and no view.                            *)
LEMMA InitInv == Init => IInv
<1>. SUFFICES ASSUME Init PROVE IInv
  OBVIOUS
<1>1. building \in BOOLEAN
  BY Zenon DEF Init
<1>2. corpus \in [Source -> Docs] /\ added \subseteq Source /\ adds \in 0 .. MaxAdds /\ view = {}
  BY MaxAddsAssumption DEF Init
<1>3. StoreComplete /\ Finalised(store)
  BY EmptyStore DEF Init, StoreComplete
<1>. QED
  BY <1>1, <1>2, <1>3 DEF IInv

(* Every row the derivation makes is of a served kind.                       *)
LEMMA RowKinds ==
  ASSUME NEW g
  PROVE  \A r \in Rows(g) : r.kind \in {"elements", "components", "parts", "scoped"}
<1>1. ASSUME NEW k, NEW f, NEW r \in AveragedRows(g, k, f) PROVE r.kind = k
  <2>1. \E c, t : r = [kind |-> k, cls |-> c, in |-> NoClass, term |-> t]
    BY <1>1, Zenon DEF AveragedRows
  <2>. QED
    BY <2>1
<1>2. ASSUME NEW f, NEW r \in ScopedRows(g, f) PROVE r.kind = "scoped"
  BY <1>2 DEF ScopedRows
<1>. DEFINE leafOf == [i \in Instances(g) |-> LeafClass(g, i)]
            averaged == {AveragedRows(g, k, leafOf) : k \in {"elements", "components", "parts"}}
<1>3. Rows(g) = ScopedRows(g, leafOf) \cup UNION averaged
  BY DEF Rows
<1>4. ASSUME NEW R \in averaged
      PROVE  \E k \in {"elements", "components", "parts"} : R = AveragedRows(g, k, leafOf)
  OBVIOUS
<1>. HIDE DEF leafOf, averaged
<1>5. SUFFICES ASSUME NEW r \in Rows(g)
               PROVE  r.kind \in {"elements", "components", "parts", "scoped"}
  OBVIOUS
<1>6. CASE r \in ScopedRows(g, leafOf)
  BY <1>6, <1>2
<1>7. CASE r \in UNION averaged
  <2>1. PICK R \in averaged : r \in R
    BY <1>7
  <2>2. PICK k \in {"elements", "components", "parts"} : R = AveragedRows(g, k, leafOf)
    BY <1>4
  <2>3. r.kind = k
    BY <1>1, <2>1, <2>2
  <2>. QED
    BY <2>3
<1>. QED
  BY <1>3, <1>6, <1>7

(* An add brings exactly the instances of its source into the store.         *)
LEMMA AddInstances ==
  ASSUME NEW s \in Source, AddSource(s)
  PROVE  Instances(store') = Instances(store) \cup SourceInstances(s)
<1>1. store' = Finalise(Union(store, SourceGraph(s, corpus[s])))
  BY DEF AddSource
<1>. QED
  BY <1>1, FinaliseInstances, UnionInstances DEF SourceInstances

(* The value strategy replaces whatever a class with a value-axis child      *)
(* declared; no class ever loses its value-axis children.                    *)
LEMMA FinaliseStrategies ==
  ASSUME NEW g, Small(g), NEW h, OneStrategy(h), g.strategy = h.strategy,
         h.sliceOf \subseteq g.sliceOf, h.axis \subseteq g.axis,
         Small(YearSlice(g))
  PROVE  OneStrategy(Finalise(g))
<1>. DEFINE y == YearSlice(g)
            v == ValueSlice(y)
            f == Finalise(g)
<1>1. IsGraph(y) /\ IsGraph(v)
  BY UnionIsGraph DEF YearSlice, ValueSlice
<1>2. /\ g.sliceOf \subseteq y.sliceOf /\ g.axis \subseteq y.axis
      /\ \A s \in y.strategy : s \in g.strategy \/ s[2] = "equal"
  <2>. DEFINE m == MintLeaves(g)
              u == Union(g, m)
              a == MintAncestors(u)
  <2>1. m.strategy = {} /\ a.strategy = {<<e[1], "equal">> : e \in {<<Above(k), k.parent>> : k \in Climbs(u)}}
    BY DEF MintLeaves, MintAncestors, EmptyGraph
  <2>. HIDE DEF m, a
  <2>2. y = Union(u, a)
    BY DEF YearSlice, m, a
  <2>3. \A s \in a.strategy : s[2] = "equal"
    BY <2>1
  <2>. QED
    BY <2>1, <2>2, <2>3 DEF Union
<1>. HIDE DEF y
<1>3. y.sliceOf \subseteq v.sliceOf /\ y.axis \subseteq v.axis /\ v.strategy = y.strategy
  <2>. PICK z : z = v
    OBVIOUS
  <2>. QED
    BY <1>1, LeavesEmitted DEF y
<1>4. f = attach_value_strategy(v)
  BY DEF Finalise, y
<1>. HIDE DEF v, f
<1>5. f.sliceOf = v.sliceOf /\ f.axis = v.axis
  BY <1>1, <1>4, Attached
<1>6. Parents(f) = Parents(v) /\ Parents(h) \subseteq Parents(v)
  BY <1>2, <1>3, <1>5 DEF Parents, Values
<1>7. f.strategy = {s \in v.strategy : s[1] \notin Parents(v)}
                     \cup {<<p, "drive">> : p \in Parents(v)}
  BY <1>1, <1>4 DEF attach_value_strategy, IsGraph, Parents
<1>. SUFFICES ASSUME NEW s \in f.strategy
              PROVE  s[2] = IF s[1] \in Parents(f) THEN "drive" ELSE "equal"
  BY DEF OneStrategy, f
<1>8. CASE s \in v.strategy /\ s[1] \notin Parents(v)
  <2>1. s[2] = "equal"
    BY <1>2, <1>3, <1>6, <1>8 DEF OneStrategy
  <2>. QED
    BY <1>6, <1>8, <2>1
<1>9. CASE \E p \in Parents(v) : s = <<p, "drive">>
  BY <1>6, <1>9
<1>. QED
  BY <1>7, <1>8, <1>9

(* An add finalises what the store and the source make together.             *)
LEMMA AddFinalised ==
  ASSUME NEW s \in Source, AddSource(s), Finalised(store), corpus[s] \in Docs
  PROVE  Finalised(store')
<1>. DEFINE d == SourceGraph(s, corpus[s])
            g == Union(store, d)
<1>1. store' = Finalise(g)
  BY DEF AddSource
<1>2. FromSource(Years, d) /\ d.strategy = {}
  BY SourceIsPlain
<1>3. Sound(Years, g)
  <2>. HIDE DEF d
  <2>. QED
    BY <1>2, PlainNames, JoinSound DEF Finalised
<1>4. /\ g.strategy = store.strategy
      /\ store.sliceOf \subseteq g.sliceOf /\ store.axis \subseteq g.axis
  BY <1>2 DEF Union
<1>. HIDE DEF g
<1>5. Sound(Years, Finalise(g)) /\ RollsUp(Finalise(g)) /\ Sound(Years, YearSlice(g))
  BY <1>3, PlainNames, FinaliseSound, FinaliseRollsUp, YearSound
<1>6. OneStrategy(Finalise(g))
  BY <1>3, <1>4, <1>5, FinaliseStrategies DEF Finalised, Sound
<1>. QED
  BY <1>1, <1>5, <1>6 DEF Finalised

(* Starting, adding and ending a build keep the invariant.                   *)
LEMMA StepInv == IInv /\ [Next]_vars => IInv'
<1>. SUFFICES ASSUME IInv, [Next]_vars PROVE IInv'
  OBVIOUS
<1>1. CASE StartBuild
  <2>1. building' \in BOOLEAN
    BY <1>1, Zenon DEF StartBuild
  <2>2. /\ corpus' \in [Source -> Docs] /\ view' = {}
        /\ added' \subseteq Source /\ adds' \in 0 .. MaxAdds
    BY <1>1, MaxAddsAssumption DEF StartBuild
  <2>3. StoreComplete' /\ Finalised(store')
    BY <1>1, EmptyStore DEF StartBuild, StoreComplete
  <2>. QED
    BY <2>1, <2>2, <2>3 DEF IInv
<1>2. ASSUME NEW s \in Source, AddSource(s) PROVE IInv'
  <2>1. /\ corpus' \in [Source -> Docs] /\ added' \subseteq Source /\ building' \in BOOLEAN
        /\ adds' \in 0 .. MaxAdds
    BY <1>2, MaxAddsAssumption DEF AddSource, IInv
  <2>2. \A r \in view' : r.kind \in {"elements", "components", "parts", "scoped"}
    BY <1>2, RowKinds DEF AddSource, IInv, Refresh, Project
  <2>3. corpus' = corpus /\ added' = added \cup {s}
    BY <1>2 DEF AddSource
  <2>4. StoreComplete'
    BY <1>2, <2>3, AddInstances DEF IInv, StoreComplete, SourceInstances
  <2>5. Finalised(store')
    BY <1>2, AddFinalised DEF IInv
  <2>. QED
    BY <2>1, <2>2, <2>4, <2>5 DEF IInv
<1>3. CASE EndBuild
  <2>1. building' \in BOOLEAN
    BY <1>3, Zenon DEF EndBuild
  <2>2. corpus' = corpus /\ view' = view /\ added' \subseteq Source /\ adds' \in 0 .. MaxAdds
    BY <1>3, MaxAddsAssumption DEF EndBuild
  <2>3. StoreComplete' /\ Finalised(store')
    BY <1>3, EmptyStore DEF EndBuild, StoreComplete
  <2>. QED
    BY <2>1, <2>2, <2>3 DEF IInv
<1>4. CASE UNCHANGED vars
  BY <1>4 DEF vars, IInv, StoreComplete, SourceInstances
<1>. QED
  BY <1>1, <1>2, <1>3, <1>4 DEF Next

(* The inductive invariant holds in every behaviour.                         *)
THEOREM Invariance == Spec => []IInv
  BY InitInv, StepInv, PTL DEF Spec

(* Types of the state, and no instance of a source that was not added.       *)
THEOREM TypeCorrect == Spec => []TypeOK
<1>1. ASSUME NEW s PROVE \A i \in SourceInstances(s) : i.src = s
  BY DEF SourceInstances, SourceGraph, Instances, EmptyGraph
<1>2. IInv => TypeOK
  BY <1>1 DEF IInv, TypeOK, StoreComplete, Instances
<1>. QED
  BY <1>2, Invariance, PTL

(* Nothing new affects nothing, and refreshing nothing changes nothing.      *)
LEMMA NothingAffected ==
  ASSUME NEW g
  PROVE  Refresh(view, Project(g, Affected(g, {})), Affected(g, {})) = view
<1>1. Affected(g, {}) = {}
  BY DEF Affected
<1>. QED
  BY <1>1 DEF Refresh, Project

(* Adding a source the store has leaves the view alone: no instance of it is *)
(* new, because no add and no slicing ever lost one.                         *)
THEOREM ReaddIdempotent == Spec => ReaddKeepsView
<1>1. ASSUME IInv, [Next]_vars, adds' > adds, added' = added, view # {}
      PROVE  view' = view
  <2>1. PICK s \in Source : AddSource(s)
    BY <1>1, MaxAddsAssumption DEF IInv, Next, StartBuild, EndBuild, vars
  <2>2. s \in added
    BY <1>1, <2>1 DEF AddSource
  <2>3. Instances(store') \ Instances(store) = {}
    BY <1>1, <2>1, <2>2, AddInstances DEF IInv, StoreComplete
  <2>4. view' = Refresh(view, Project(store', Affected(store', {})), Affected(store', {}))
    BY <1>1, <2>1, <2>3 DEF AddSource
  <2>. QED
    BY <2>4, NothingAffected
<1>2. IInv /\ [Next]_vars => [adds' > adds /\ added' = added /\ view # {} => view' = view]_vars
  BY <1>1
<1>. QED
  BY <1>2, Invariance, PTL DEF Spec, ReaddKeepsView

-----------------------------------------------------------------------------
(* Names.  No slice name holds a second year, because no pass appends one to *)
(* a name that is time-scoped already.                                       *)
THEOREM SlicedOnce == Spec => []NoDoubleSlice
<1>1. ASSUME IInv, NEW p \in store.scope
      PROVE  /\ {k \in DOMAIN p[1] : p[1][k] \in Years} = {Len(p[1])}
             /\ p[1][Len(p[1])] = p[2]
  <2>1. p[2] \in Years /\ p[1] \in Dated(Years, p[2])
    BY <1>1 DEF IInv, Finalised, Sound, Classes, ScopeOf
  <2>. PICK c \in Seq(Word) : c = p[1]
    BY <2>1 DEF Dated
  <2>2. /\ Len(c) \in Nat /\ Len(c) > 1 /\ DOMAIN c = 1 .. Len(c) /\ c[Len(c)] = p[2]
        /\ \A k \in 1 .. Len(c) - 1 : c[k] \notin Years
    BY <2>1 DEF Dated
  <2>. QED
    BY <2>1, <2>2
<1>2. IInv => NoDoubleSlice
  BY <1>1 DEF NoDoubleSlice
<1>. QED
  BY <1>2, Invariance, PTL

-----------------------------------------------------------------------------
(* The longest of the names an instance is typed by.                         *)
LEMMA Longest ==
  ASSUME NEW T, IsFiniteSet(T), T # {}, \A c \in T : Len(c) \in Nat
  PROVE  \E c \in T : \A d \in T : Len(d) <= Len(c)
<1>. DEFINE below(c) == {d \in T : Len(d) <= Len(c)}
            B == {below(c) : c \in T}
<1>1. B \in SUBSET SUBSET T /\ B # {}
  <2>1. PICK c \in T : TRUE
    OBVIOUS
  <2>2. below(c) \in B
    OBVIOUS
  <2>. QED
    BY <2>2
<1>2. PICK X \in B : \A Z \in B : X \subseteq Z => X = Z
  <2>. HIDE DEF B
  <2>. QED
    BY <1>1, Greatest
<1>3. PICK c \in T : X = below(c)
  OBVIOUS
<1>4. ASSUME NEW d \in T, ~ (Len(d) <= Len(c)) PROVE FALSE
  <2>. PICK m \in Nat, n \in Nat : m = Len(c) /\ n = Len(d)
    OBVIOUS
  <2>1. m < n
    BY <1>4
  <2>2. ASSUME NEW e \in below(c) PROVE e \in below(d)
    <3>. PICK k \in Nat : k = Len(e)
      BY <2>2
    <3>1. k <= m
      BY <2>2
    <3>2. Len(e) <= Len(d)
      BY <2>1, <3>1
    <3>. QED
      BY <2>2, <3>2
  <2>3. below(d) \in B /\ below(c) \subseteq below(d)
    BY <2>2
  <2>4. below(c) = below(d)
    BY <1>2, <1>3, <2>3
  <2>5. d \in below(d) /\ d \notin below(c)
    BY <1>4
  <2>. QED
    BY <2>4, <2>5
<1>. QED
  BY <1>4

(* Two types of an instance: the longer is a slice, directly, of the other.  *)
LEMMA TypesInLine ==
  ASSUME NEW Y, PlainTaxonomy(Y), NEW g, Sound(Y, g), NEW i \in Instances(g),
         NEW c \in TypesOf(g, i), NEW d \in TypesOf(g, i), c # d, Len(d) <= Len(c)
  PROVE  /\ <<c, d>> \in g.sliceOf /\ <<c, d>> \in g.sub
         /\ c \in Dated(Y, i.year) /\ i.year \in Y
         /\ d \in Plain(Y) \/ (d \in Dated(Y, i.year) /\ Shorter(d, c))
<1>1. PICK t \in g.type : t[1] = i /\ t[2] = c
  BY DEF TypesOf
<1>2. PICK u \in g.type : u[1] = i /\ u[2] = d
  BY DEF TypesOf
<1>3. /\ i.year \in Y /\ i.cls \in Plain(Y)
      /\ c = i.cls \/ (c \in Dated(Y, i.year) /\ Base(c) = i.cls /\ c \in Timed(g))
      /\ d = i.cls \/ (d \in Dated(Y, i.year) /\ Base(d) = i.cls)
  BY <1>1, <1>2 DEF Sound, Typed
<1>4. c \in Dated(Y, i.year) /\ Base(c) = i.cls /\ c \in Timed(g)
  <2>1. CASE c = i.cls
    <3>1. d \in Dated(Y, i.year) /\ Shorter(c, d) /\ Len(c) = 1
      BY <1>3, <2>1, NamesApart
    <3>. PICK n \in Nat : n = Len(d) /\ n > 1
      BY <1>3, <3>1, NamesApart
    <3>. QED
      BY <3>1
  <2>. QED
    BY <1>3, <2>1
<1>5. PICK p \in g.scope : p[1] = c
  BY <1>4 DEF Timed
<1>6. ScopeOf(Y, g, p) /\ p[2] = i.year
  <2>1. ScopeOf(Y, g, p)
    BY DEF Sound, Classes
  <2>. QED
    BY <1>3, <1>4, <1>5, <2>1, NamesApart DEF ScopeOf
<1>7. CASE d = i.cls
  <2>1. <<c, d>> \in g.sliceOf
    BY <1>4, <1>5, <1>6, <1>7 DEF ScopeOf
  <2>2. <<c, d>> \in g.sub
    BY <2>1 DEF Sound, Classes, SliceEdge
  <2>. QED
    BY <1>3, <1>4, <1>7, <2>1, <2>2
<1>8. CASE d \in Dated(Y, i.year) /\ Base(d) = i.cls
  <2>1. \A j \in 1 .. Len(c) - 2, k \in 1 .. Len(d) - 2 : c[j] = d[k]
    <3>. TAKE j \in 1 .. Len(c) - 2, k \in 1 .. Len(d) - 2
    <3>1. \A w \in g.type : \A m \in 1 .. Len(w[2]) - 2 : u[1] = w[1] => w[2][m] = u[2][k]
      BY <1>2 DEF Sound, OneValue
    <3>2. t[2][j] = u[2][k]
      BY <1>1, <1>2, <3>1
    <3>. QED
      BY <1>1, <1>2, <3>2
  <2>2. Y \in SUBSET Word
    BY DEF PlainTaxonomy
  <2>3. Tails(c, d)
    BY <1>3, <1>4, <1>8, <2>1, <2>2, OneChain
  <2>4. <<c, d>> \in g.sliceOf
    BY <1>5, <1>6, <1>8, <2>3 DEF ScopeOf
  <2>5. <<c, d>> \in g.sub
    BY <2>4 DEF Sound, Classes, SliceEdge
  <2>. QED
    BY <1>3, <1>4, <1>8, <2>3, <2>4, <2>5 DEF Tails
<1>. QED
  BY <1>3, <1>7, <1>8

(* A walk never leads from a name to a longer one of its year.               *)
LEMMA NoWayDown ==
  ASSUME NEW Y, PlainTaxonomy(Y), NEW g, Sound(Y, g), NEW y \in Y, NEW c \in Dated(Y, y),
         NEW d, d \in Plain(Y) \/ (d \in Dated(Y, y) /\ Shorter(d, c))
  PROVE  c \notin Reach(Super(g), {d})
<1>1. IsFiniteSet({d}) /\ IsFiniteSet(Super(g))
  BY FS_Singleton, SmallIsFinite DEF PlainTaxonomy, Sound
<1>. DEFINE T == Plain(Y) \cup {x \in Dated(Y, y) : Shorter(x, c)}
<1>2. Closed(Super(g), T)
  <2>. SUFFICES ASSUME NEW e \in Super(g), e[1] \in T PROVE e[2] \in T
    BY DEF Closed
  <2>1. CASE e[1] \in Plain(Y)
    BY <2>1, PlainEdge DEF Sound
  <2>2. CASE e[1] \in Dated(Y, y) /\ Shorter(e[1], c)
    <3>1. e \in g.sub
      BY <2>2, NamesApart DEF Super, PlainTaxonomy
    <3>2. SubEdge(Y, e)
      BY <3>1 DEF Sound, Classes
    <3>3. \/ e[2] \in Plain(Y)
          \/ e[2] \in Dated(Y, y) /\ (Len(e[2]) = 2 \/ Shorter(e[2], e[1]))
      BY <2>2, <3>2, NamesApart DEF SubEdge
    <3>0. \A a \in Nat, b \in Nat, n \in Nat : a < b /\ a > 1 /\ (n = 2 \/ n < a) => n < b
      OBVIOUS
    <3>. PICK k \in Nat, m \in Nat : k = Len(c) /\ m = Len(e[1]) /\ m > 1
      BY <2>2, NamesApart
    <3>4. m < k
      BY <2>2 DEF Shorter
    <3>5. ASSUME e[2] \in Dated(Y, y), Len(e[2]) = 2 \/ Shorter(e[2], e[1]) PROVE Shorter(e[2], c)
      <4>. PICK n \in Nat : n = Len(e[2])
        BY <3>5, NamesApart
      <4>1. n = 2 \/ n < m
        BY <3>5 DEF Shorter
      <4>2. n < k
        BY <3>0, <3>4, <4>1
      <4>. QED
        BY <4>2 DEF Shorter
    <3>. QED
      BY <3>3, <3>5
  <2>. QED
    BY <2>1, <2>2
<1>3. c \notin T
  <2>. PICK n \in Nat : n = Len(c)
    BY NamesApart
  <2>. QED
    BY NamesApart DEF Shorter
<1>4. {d} \subseteq T
  OBVIOUS
<1>. HIDE DEF T
<1>. QED
  BY <1>1, <1>2, <1>3, <1>4, ReachLeast

(* An instance has one innermost type, which every other type of it is an    *)
(* edge away from, and at which _leaf_class counts it.                       *)
LEMMA OneInnermost ==
  ASSUME NEW Y, PlainTaxonomy(Y), NEW g, Sound(Y, g), NEW i \in Instances(g)
  PROVE  \E c \in TypesOf(g, i) :
            /\ Innermost(g, i) = {c} /\ LeafClass(g, i) = c
            /\ \A d \in TypesOf(g, i) \ {c} :
                 /\ <<c, d>> \in g.sub
                 /\ c \in Dated(Y, i.year) /\ Len(d) <= Len(c)
<1>. DEFINE T == TypesOf(g, i)
<1>1. IsFiniteSet(T) /\ IsFiniteSet(Super(g))
  BY SmallIsFinite DEF PlainTaxonomy, Sound
<1>2. T # {}
  BY DEF Instances, TypesOf
<1>3. \A c \in T : Len(c) \in Nat
  <2>1. ASSUME NEW t \in g.type PROVE Len(t[2]) \in Nat
    <3>1. /\ t[1].year \in Y
          /\ t[2] \in Plain(Y) \/ t[2] \in Dated(Y, t[1].year)
      BY DEF Sound, Typed
    <3>. QED
      BY <3>1, NamesApart
  <2>. QED
    BY <2>1 DEF TypesOf
<1>. HIDE DEF T
<1>4. PICK c \in T : \A d \in T : Len(d) <= Len(c)
  BY <1>1, <1>2, <1>3, Longest
<1>5. \A d \in T \ {c} :
        /\ <<c, d>> \in g.sub
        /\ c \in Dated(Y, i.year) /\ i.year \in Y
        /\ d \in Plain(Y) \/ (d \in Dated(Y, i.year) /\ Shorter(d, c))
  BY <1>4, TypesInLine DEF T
<1>6. \A d \in T \ {c} : c \notin Reach(Super(g), {d})
  BY <1>5, NoWayDown
<1>7. \A d \in T \ {c} : d \in Reach(Super(g), {c})
  <2>1. IsFiniteSet({c})
    BY FS_Singleton
  <2>2. {c} \subseteq Reach(Super(g), {c}) /\ Closed(Super(g), Reach(Super(g), {c}))
    BY <1>1, <2>1, ReachLeast
  <2>. QED
    <3>. SUFFICES ASSUME NEW d \in T \ {c} PROVE d \in Reach(Super(g), {c})
      OBVIOUS
    <3>1. <<c, d>> \in Super(g)
      BY <1>5 DEF Super
    <3>. QED
      BY <2>2, <3>1 DEF Closed
<1>8. Innermost(g, i) = {c}
  BY <1>6, <1>7 DEF Innermost, T
<1>9. LeafClass(g, i) = c
  BY <1>8 DEF LeafClass
<1>. QED
  BY <1>4, <1>5, <1>8, <1>9 DEF T

(* Nothing in the store is left to the order its triples are met in.         *)
THEOREM NoTripleOrder == Spec => []OrderIndependent
<1>1. ASSUME IInv, NEW i \in Instances(store)
      PROVE  Cardinality(Innermost(store, i)) = 1
  <2>1. PICK c : Innermost(store, i) = {c}
    <3>1. Sound(Years, store)
      BY <1>1 DEF IInv, Finalised
    <3>2. \E c \in TypesOf(store, i) :
             /\ Innermost(store, i) = {c} /\ LeafClass(store, i) = c
             /\ \A d \in TypesOf(store, i) \ {c} :
                  /\ <<c, d>> \in store.sub
                  /\ c \in Dated(Years, i.year) /\ Len(d) <= Len(c)
      BY <3>1, PlainNames, OneInnermost
    <3>. QED
      BY <3>2
  <2>. QED
    BY <2>1, FS_Singleton
<1>2. ASSUME IInv, NEW c \in Timed(store)
      PROVE  /\ Cardinality(Image(store.scope, c)) = 1
             /\ Cardinality(Image(store.sliceOf, c) \ Timed(store)) = 1
  <2>0. \A p \in store.scope : ScopeOf(Years, store, p)
    BY <1>2 DEF IInv, Finalised, Sound, Classes
  <2>1. PICK p \in store.scope : p[1] = c
    BY <1>2 DEF Timed
  <2>2. /\ p[2] \in Years /\ c \in Dated(Years, p[2]) /\ <<c, Base(c)>> \in store.sliceOf
    BY <2>0, <2>1 DEF ScopeOf
  <2>3. Image(store.scope, c) = {p[2]}
    <3>1. \A q \in store.scope : q[1] = c => q[2] = p[2]
      <4>. SUFFICES ASSUME NEW q \in store.scope, q[1] = c, q[2] # p[2] PROVE FALSE
        OBVIOUS
      <4>1. q[2] \in Years /\ c \in Dated(Years, q[2])
        BY <2>0 DEF ScopeOf
      <4>2. \A z : z # p[2] => Dated(Years, p[2]) \cap Dated(Years, z) = {}
        BY <2>2, NamesApart
      <4>. QED
        BY <2>2, <4>1, <4>2
    <3>. QED
      BY <2>1, <3>1 DEF Image
  <2>4. \A x \in Plain(Years) : x \notin Timed(store)
    <3>. SUFFICES ASSUME NEW q \in store.scope, q[1] \in Plain(Years) PROVE FALSE
      BY DEF Timed
    <3>1. q[2] \in Years /\ q[1] \in Dated(Years, q[2])
      BY <2>0 DEF ScopeOf
    <3>. QED
      BY <3>1, NamesApart
  <2>5. Base(c) \in Plain(Years)
    BY <2>2, NamesApart
  <2>6. ASSUME NEW e \in store.sliceOf, e[1] = c, e[2] \notin Timed(store) PROVE e[2] = Base(c)
    <3>1. e[2] \in Plain(Years) /\ Base(e[2]) = Base(c)
      BY <1>2, <2>6 DEF IInv, Finalised, Sound, Classes, SliceEdge
    <3>. QED
      BY <2>2, <3>1, NamesApart
  <2>7. Image(store.sliceOf, c) \ Timed(store) = {Base(c)}
    <3>1. Base(c) \in Image(store.sliceOf, c)
      BY <2>2 DEF Image
    <3>2. \A x \in Image(store.sliceOf, c) \ Timed(store) : x = Base(c)
      BY <2>6 DEF Image
    <3>. QED
      BY <2>4, <2>5, <3>1, <3>2
  <2>. QED
    BY <2>3, <2>7, FS_Singleton
<1>3. ASSUME IInv, NEW s \in store.strategy PROVE Image(store.strategy, s[1]) = {s[2]}
  <2>1. \A u \in store.strategy : u[1] = s[1] => u[2] = s[2]
    BY <1>3 DEF IInv, Finalised, OneStrategy
  <2>. QED
    BY <2>1 DEF Image
<1>4. IInv => OrderIndependent
  BY <1>1, <1>2, <1>3 DEF OrderIndependent
<1>. QED
  BY <1>4, Invariance, PTL

-----------------------------------------------------------------------------
(* The class an instance is counted under still rolls up into the slices of  *)
(* its year of all classes above the one it was authored with.               *)
THEOREM RetypingStaysUnder == Spec => []StaysUnderBase
<1>1. ASSUME IInv, NEW i \in Instances(store), NEW c \in Reach(Super(store), {i.cls})
      PROVE  slice_name(c, i.year) \in Reach(Super(store), {LeafClass(store, i)})
  <2>. DEFINE y == i.year
              S == Super(store)
  <2>0. Sound(Years, store) /\ RollsUp(store)
    BY <1>1 DEF IInv, Finalised
  <2>1. PICK l \in TypesOf(store, i) :
          /\ LeafClass(store, i) = l
          /\ \A d \in TypesOf(store, i) \ {l} : <<l, d>> \in store.sub
    BY <2>0, PlainNames, OneInnermost
  <2>2. y \in Years /\ i.cls \in Plain(Years)
    BY <2>0 DEF Sound, Typed, Instances
  <2>3. PICK t \in store.type : t[1] = i /\ t[2] # i.cls
    BY <2>0 DEF RollsUp
  <2>4. t[2] \in Dated(Years, y)
    BY <2>0, <2>3 DEF Sound, Typed
  <2>5. l # i.cls
    <3>1. SUFFICES ASSUME l = i.cls PROVE FALSE
      OBVIOUS
    <3>2. t[2] \in TypesOf(store, i) \ {l}
      BY <2>3, <3>1 DEF TypesOf
    <3>3. <<i.cls, t[2]>> \in Super(store)
      BY <2>1, <3>1, <3>2 DEF Super
    <3>4. t[2] \in Plain(Years)
      BY <2>0, <2>2, <3>3, PlainNames, PlainEdge DEF Sound
    <3>. QED
      BY <2>2, <2>4, <3>4, NamesApart
  <2>6. l \in Dated(Years, y) /\ Base(l) = i.cls /\ l \in Timed(store)
    <3>1. PICK u \in store.type : u[1] = i /\ u[2] = l
      BY DEF TypesOf
    <3>. QED
      BY <2>0, <2>5, <3>1 DEF Sound, Typed
  <2>7. IsFiniteSet(S) /\ IsFiniteSet({l}) /\ IsFiniteSet({i.cls})
    BY <2>0, PlainNames, SmallIsFinite, FS_Singleton DEF PlainTaxonomy, Sound
  <2>8. {l} \subseteq Reach(S, {l}) /\ Closed(S, Reach(S, {l}))
    BY <2>7, ReachLeast
  <2>9. YearLeaf(i) \in Reach(S, {l})
    <3>1. /\ YearLeaf(i) \in Dated(Years, y) /\ Len(YearLeaf(i)) = 2 /\ Base(YearLeaf(i)) = i.cls
      BY <2>2, PlainNames, SliceName DEF PlainTaxonomy, YearLeaf
    <3>2. Len(l) \in Nat /\ Len(l) > 1
      BY <2>2, <2>6, NamesApart
    <3>3. l = YearLeaf(i) \/ Tails(l, YearLeaf(i))
      <4>1. \A j \in 1 .. Len(l) - 2, k \in 1 .. Len(YearLeaf(i)) - 2 : l[j] = YearLeaf(i)[k]
        BY <3>1
      <4>. QED
        <5>. PICK n \in Nat : n = Len(l) /\ n > 1
          BY <3>2
        <5>1. Len(YearLeaf(i)) <= Len(l) /\ Years \in SUBSET Word
          BY <3>1, PlainNames DEF PlainTaxonomy
        <5>. QED
          BY <2>2, <2>6, <3>1, <4>1, <5>1, OneChain
    <3>4. CASE Tails(l, YearLeaf(i))
      <4>1. PICK p \in store.scope : p[1] = l
        BY <2>6 DEF Timed
      <4>2. ScopeOf(Years, store, p)
        BY <2>0 DEF Sound, Classes
      <4>3. p[2] = y
        BY <2>2, <2>6, <4>1, <4>2, NamesApart DEF ScopeOf
      <4>4. <<l, YearLeaf(i)>> \in store.sliceOf
        BY <3>1, <3>4, <4>1, <4>2, <4>3 DEF ScopeOf
      <4>5. <<l, YearLeaf(i)>> \in S
        BY <2>0, <4>4 DEF Sound, Classes, SliceEdge, Super
      <4>. QED
        BY <2>8, <4>5 DEF Closed
    <3>. QED
      BY <2>8, <3>3, <3>4
  <2>. DEFINE T == {x \in Reach(S, {i.cls}) : slice_name(x, y) \in Reach(S, {l})}
  <2>10. {i.cls} \subseteq Reach(S, {i.cls}) /\ Closed(S, Reach(S, {i.cls}))
    BY <2>7, ReachLeast
  <2>11. {i.cls} \subseteq T
    BY <2>9, <2>10 DEF YearLeaf
  <2>12. Closed(S, T)
    <3>. SUFFICES ASSUME NEW e \in S, e[1] \in T PROVE e[2] \in T
      BY DEF Closed
    <3>1. e[2] \in Reach(S, {i.cls})
      BY <2>10 DEF Closed
    <3>2. <<slice_name(e[1], y), slice_name(e[2], y)>> \in S
      BY <2>0 DEF RollsUp, Super
    <3>3. slice_name(e[2], y) \in Reach(S, {l})
      BY <2>8, <3>2 DEF Closed
    <3>. QED
      BY <3>1, <3>3
  <2>13. Reach(S, {i.cls}) \subseteq T
    <3>. HIDE DEF T
    <3>. QED
      BY <2>7, <2>11, <2>12, ReachLeast
  <2>. QED
    BY <2>1, <2>13
<1>2. IInv => StaysUnderBase
  BY <1>1 DEF StaysUnderBase
<1>. QED
  BY <1>2, Invariance, PTL

-----------------------------------------------------------------------------
(* Drivetrains.  Every edge of a sliced graph follows the names it slices:   *)
(* it keeps the base or goes along an edge of U from base to base; and the   *)
(* plain classes marked as values are in W.                                  *)
Guided(Y, U, W, g) ==
  /\ \A e \in g.sub : Base(e[1]) = Base(e[2]) \/ <<Base(e[1]), Base(e[2])>> \in U
  /\ \A v \in Values(g) \cap Plain(Y) : v \in W

(* The classes that are no value leaf.                                       *)
Low(Y) == Plain(Y) \cup {c \in Seq(Word) : Len(c) = 2 /\ \E y \in Y : c \in Dated(Y, y)}

(* The top of a part-of tree is never retyped.                               *)
TopsStay(Y, g) == \A t \in g.type : t[1].root = t[1].cls => t[2] \in Low(Y)

(* Edges the year pass adds keep to the taxonomy above the classes.          *)
LEMMA YearGuided ==
  ASSUME NEW Y, PlainTaxonomy(Y), NEW U, Hierarchy \subseteq U, NEW W,
         NEW g, Sound(Y, g), Guided(Y, U, W, g), NEW f, f = YearSlice(g)
  PROVE  Guided(Y, U, W, f)
<1>. PICK h : h = Union(g, MintLeaves(g))
  OBVIOUS
<1>1. f = Union(h, MintAncestors(h)) /\ Sound(Y, h)
  BY LeavesSound DEF YearSlice
<1>2. \A i \in Instances(g) : /\ i.cls \in Plain(Y) /\ i.year \in Y
                              /\ Base(YearLeaf(i)) = i.cls /\ Base(i.cls) = i.cls
  <2>. TAKE i \in Instances(g)
  <2>1. i.cls \in Plain(Y) /\ i.year \in Y
    BY DEF Sound, Typed, Instances
  <2>. QED
    BY <2>1, SliceName, NamesApart DEF YearLeaf, PlainTaxonomy
<1>3. Values(h) = Values(g) /\ Values(f) = Values(h)
  <2>1. h.axis = g.axis \cup {<<YearLeaf(i), "year">> : i \in Instances(g)}
    BY LeavesAdded
  <2>2. f.axis = h.axis \cup {<<Above(k), "year">> : k \in Climbs(h)}
    BY <1>1, AncestorsAdded
  <2>. QED
    BY <2>1, <2>2 DEF Values
<1>4. \A e \in h.sub : Base(e[1]) = Base(e[2]) \/ <<Base(e[1]), Base(e[2])>> \in U
  <2>1. h.sub = g.sub \cup {<<YearLeaf(i), i.cls>> : i \in Instances(g)}
    BY LeavesAdded
  <2>. QED
    BY <1>2, <2>1 DEF Guided
<1>5. ASSUME NEW k \in Climbs(h)
      PROVE  /\ Base(Child(k)) = k.cls /\ Base(Above(k)) = k.parent /\ Base(k.parent) = k.parent
             /\ k.cls = k.parent \/ <<k.cls, k.parent>> \in U
  <2>1. /\ k.year \in Y /\ Base(k.slc) = k.base /\ <<k.cls, k.parent>> \in Super(h)
        /\ k.cls \in Plain(Y) /\ k.parent \in Plain(Y) /\ Y \in SUBSET Word
    BY <1>1, ClimbsArePlain DEF Sound, PlainTaxonomy
  <2>2. Base(k.cls) = k.cls /\ Base(k.parent) = k.parent
    BY <2>1, NamesApart
  <2>3. Base(Child(k)) = k.cls /\ Base(Above(k)) = k.parent
    BY <2>1, SliceName DEF Child, Above
  <2>4. k.cls = k.parent \/ <<k.cls, k.parent>> \in U
    BY <1>4, <2>1, <2>2 DEF Super
  <2>. QED
    BY <2>2, <2>3, <2>4
<1>6. f.sub = h.sub \cup {<<Child(k), Above(k)>> : k \in Climbs(h)}
                    \cup {<<Above(k), k.parent>> : k \in Climbs(h)}
  BY <1>1, AncestorsAdded
<1>7. \A e \in f.sub : Base(e[1]) = Base(e[2]) \/ <<Base(e[1]), Base(e[2])>> \in U
  <2>. TAKE e \in f.sub
  <2>1. CASE e \in h.sub
    BY <1>4, <2>1
  <2>2. ASSUME NEW k \in Climbs(h), e = <<Child(k), Above(k)>> \/ e = <<Above(k), k.parent>>
        PROVE  Base(e[1]) = Base(e[2]) \/ <<Base(e[1]), Base(e[2])>> \in U
    <3>1. CASE e = <<Child(k), Above(k)>>
      <4>1. e[1] = Child(k) /\ e[2] = Above(k)
        BY <3>1
      <4>. QED
        BY <1>5, <4>1
    <3>2. CASE e = <<Above(k), k.parent>>
      <4>1. e[1] = Above(k) /\ e[2] = k.parent
        BY <3>2
      <4>. QED
        BY <1>5, <4>1
    <3>. QED
      BY <2>2, <3>1, <3>2
  <2>. QED
    BY <1>6, <2>1, <2>2
<1>. QED
  BY <1>3, <1>7 DEF Guided

(* So do the edges of the value pass, and it marks leaves only.              *)
LEMMA ValueGuided ==
  ASSUME NEW Y, PlainTaxonomy(Y), NEW U, NEW W,
         NEW g, IsGraph(g), Sound(Y, g), Guided(Y, U, W, g), NEW f, f = ValueSlice(g)
  PROVE  /\ Guided(Y, U, W, f)
         /\ \A e \in f.sub \ g.sub : e[1] \notin Low(Y)
         /\ \A a \in f.axis \ g.axis : a[1] \notin Low(Y)
<1>1. Small(g)
  BY DEF Sound
<1>2. ASSUME NEW t \in Retyped(g)
      PROVE  leaf_name(g, t) \notin Low(Y) /\ Base(leaf_name(g, t)) = Base(t[2])
  <2>1. /\ t[1].year \in Y /\ t[2] \in Dated(Y, t[1].year) /\ InFront(Y, g, t)
        /\ Y \in SUBSET Word
    BY RetypedTypes DEF PlainTaxonomy
  <2>2. PICK v \in Plain(Y) : leaf_name(g, t) = v \o t[2]
    BY <2>1 DEF InFront
  <2>3. /\ leaf_name(g, t) \in Dated(Y, t[1].year) /\ Len(leaf_name(g, t)) # 2
        /\ Base(leaf_name(g, t)) = Base(t[2])
    BY <2>1, <2>2, LeafName
  <2>. QED
    BY <2>1, <2>3, NamesApart DEF Low
<1>3. ASSUME NEW e \in f.sub \ g.sub
      PROVE  e[1] \notin Low(Y) /\ Base(e[1]) = Base(e[2])
  <2>0. \A d \in (f.sub \ g.sub) \cup (f.sliceOf \ g.sliceOf) :
           \E t \in Retyped(g) : \E b :
             d = <<leaf_name(g, t), b>> /\ (b = t[2] \/ <<t[2], b>> \in g.sliceOf)
    BY <1>1, LeavesEmitted
  <2>1. PICK t \in Retyped(g) : \E b :
           e = <<leaf_name(g, t), b>> /\ (b = t[2] \/ <<t[2], b>> \in g.sliceOf)
    BY <1>3, <2>0
  <2>2. PICK b : e = <<leaf_name(g, t), b>> /\ (b = t[2] \/ <<t[2], b>> \in g.sliceOf)
    BY <2>1
  <2>3. Base(b) = Base(t[2])
    <3>1. \A d \in g.sliceOf : Base(d[2]) = Base(d[1])
      BY DEF Sound, Classes, SliceEdge
    <3>. QED
      BY <2>2, <3>1
  <2>. QED
    BY <1>2, <2>2, <2>3
<1>4. ASSUME NEW a \in f.axis \ g.axis PROVE a[1] \notin Low(Y)
  <2>1. PICK t \in Retyped(g) : a[1] = leaf_name(g, t)
    BY <1>1, LeavesEmitted
  <2>. QED
    BY <1>2, <2>1
<1>5. Values(f) \cap Plain(Y) \subseteq Values(g)
  BY <1>4 DEF Values, Low
<1>. QED
  BY <1>3, <1>4, <1>5 DEF Guided

-----------------------------------------------------------------------------
(* The instances and their drivetrains, over the edges U and the marked      *)
(* values W of all documents: the values above the top of a part-of tree are *)
(* one at most, a sample of a component that is its own top has none, and a  *)
(* product is its own top.                                                   *)
Cast(U, W, I) ==
  \A i \in I :
    /\ RootOf(i).cls = i.root /\ RootOf(i).root = i.root
    /\ \A v, w \in W \cap Reach(U, {i.root}) : v = w
    /\ i.root = i.cls /\ i.cls \notin ProductClass => W \cap Reach(U, {i.cls}) = {}
    /\ i.cls \in ProductClass => i.root = i.cls

(* From classes that are no value leaf a walk reaches no value leaf, and     *)
(* goes from base to base.                                                   *)
LEMMA LowReach ==
  ASSUME NEW Y, PlainTaxonomy(Y), NEW U, IsFiniteSet(U), Hierarchy \subseteq U, NEW W,
         NEW g, Sound(Y, g), Guided(Y, U, W, g),
         NEW c, NEW T, IsFiniteSet(T), \A d \in T : d \in Low(Y) /\ Base(d) = c
  PROVE  /\ Reach(Super(g), T) \subseteq Low(Y)
         /\ \A d \in Reach(Super(g), T) : Base(d) \in Reach(U, {c})
<1>. DEFINE R == Reach(U, {c})
            X == {d \in Low(Y) : Base(d) \in R}
<1>1. IsFiniteSet(Super(g)) /\ IsFiniteSet({c})
  BY FS_Singleton, SmallIsFinite DEF PlainTaxonomy, Sound
<1>2. {c} \subseteq R /\ Closed(U, R)
  BY <1>1, ReachLeast
<1>3. T \subseteq X
  BY <1>2
<1>. HIDE DEF R
<1>4. Closed(Super(g), X)
  <2>. SUFFICES ASSUME NEW e \in Super(g), e[1] \in X PROVE e[2] \in X
    BY DEF Closed
  <2>1. CASE e \in Hierarchy
    <3>1. /\ e[1] \in Plain(Y) /\ e[2] \in Plain(Y) /\ e = <<e[1], e[2]>> /\ e \in U
      BY <2>1 DEF PlainTaxonomy
    <3>2. Base(e[1]) = e[1] /\ Base(e[2]) = e[2]
      BY <3>1 DEF Plain, Base
    <3>. QED
      BY <1>2, <3>1, <3>2 DEF Closed, Low
  <2>2. CASE e \in g.sub
    <3>1. Base(e[2]) \in R
      <4>1. Base(e[1]) = Base(e[2]) \/ <<Base(e[1]), Base(e[2])>> \in U
        BY <2>2 DEF Guided
      <4>. QED
        BY <1>2, <4>1 DEF Closed
    <3>2. SubEdge(Y, e)
      BY <2>2 DEF Sound, Classes
    <3>3. CASE e[1] \in Plain(Y) /\ e[2] \in Plain(Y)
      BY <3>1, <3>3 DEF Low
    <3>4. ASSUME NEW y \in Y, e[1] \in Dated(Y, y), e[2] \in Plain(Y) PROVE e[2] \in X
      BY <3>1, <3>4 DEF Low
    <3>5. ASSUME NEW y \in Y, e[1] \in Dated(Y, y), e[2] \in Dated(Y, y),
                 Len(e[2]) = 2 \/ Shorter(e[2], e[1])
          PROVE  e[2] \in X
      <4>1. Len(e[1]) = 2
        BY <3>5, NamesApart DEF Low
      <4>2. Len(e[2]) = 2
        BY <3>5, <4>1, NamesApart
      <4>3. e[2] \in Low(Y)
        BY <3>5, <4>2 DEF Low, Dated
      <4>. QED
        BY <3>1, <4>3
    <3>. QED
      BY <3>2, <3>3, <3>4, <3>5 DEF SubEdge
  <2>. QED
    BY <2>1, <2>2 DEF Super
<1>5. Reach(Super(g), T) \subseteq X
  <2>. HIDE DEF X
  <2>. QED
    BY <1>1, <1>3, <1>4, ReachLeast
<1>. QED
  BY <1>5 DEF R

(* The types of the top of an instance are no value leaves, and its values   *)
(* are marked classes above the class of the top.                            *)
LEMMA TopValues ==
  ASSUME NEW Y, PlainTaxonomy(Y), NEW U, IsFiniteSet(U), Hierarchy \subseteq U, NEW W,
         NEW g, Sound(Y, g), Guided(Y, U, W, g), TopsStay(Y, g), Cast(U, W, Instances(g)),
         NEW i \in Instances(g)
  PROVE  /\ Reach(Super(g), TypesOf(g, RootOf(i))) \subseteq Low(Y)
         /\ ValuesOf(g, i) \subseteq W \cap Reach(U, {i.root})
<1>. DEFINE r == RootOf(i)
            T == TypesOf(g, r)
<1>1. r.cls = i.root /\ r.root = i.root
  BY DEF Cast
<1>2. IsFiniteSet(T)
  BY SmallIsFinite DEF PlainTaxonomy, Sound
<1>. HIDE DEF r
<1>3. \A d \in T : d \in Low(Y) /\ Base(d) = i.root
  <2>. SUFFICES ASSUME NEW t \in g.type, t[1] = r PROVE t[2] \in Low(Y) /\ Base(t[2]) = i.root
    BY DEF TypesOf
  <2>1. t[2] \in Low(Y)
    BY <1>1 DEF TopsStay
  <2>2. t[1].year \in Y /\ t[1].cls \in Plain(Y) /\ (t[2] = t[1].cls \/ Base(t[2]) = t[1].cls)
    BY DEF Sound, Typed
  <2>. QED
    BY <1>1, <2>1, <2>2, NamesApart
<1>. HIDE DEF T
<1>4. /\ Reach(Super(g), T) \subseteq Low(Y)
      /\ \A d \in Reach(Super(g), T) : Base(d) \in Reach(U, {i.root})
  BY <1>2, <1>3, LowReach
<1>5. ASSUME NEW v \in Values(g), v \in Reach(Super(g), T)
      PROVE  v \in W /\ v \in Reach(U, {i.root})
  <2>1. Len(v) # 2
    <3>1. \E a \in g.axis : a[1] = v /\ a[2] = "drive"
      BY DEF Values
    <3>. QED
      BY <3>1 DEF Sound, Classes, Mark
  <2>2. v \in Plain(Y)
    BY <1>4, <1>5, <2>1 DEF Low
  <2>3. Base(v) = v
    BY <2>2 DEF Plain, Base
  <2>. QED
    BY <1>4, <1>5, <2>2, <2>3 DEF Guided
<1>6. ValuesOf(g, i) = Values(g) \cap Reach(Super(g), T)
  BY DEF ValuesOf, T, r
<1>. QED
  BY <1>4, <1>5, <1>6 DEF T, r

(* The values of the instances at the slices of a class are finitely many.   *)
LEMMA FewShared ==
  ASSUME NEW g, Small(g), IsFiniteSet(Hierarchy), NEW S \in SUBSET g.type, NEW vals,
         \A t \in S : vals[t[1]] = ValuesOf(g, t[1])
  PROVE  IsFiniteSet(UNION {vals[t[1]] : t \in S})
<1>. DEFINE val == [t \in S |-> vals[t[1]]]
<1>1. IsFiniteSet(S)
  BY SmallIsFinite, FS_Subset
<1>2. IsFiniteSet({val[t] : t \in S})
  <2>1. DOMAIN val = S /\ val = [t \in S |-> val[t]]
    OBVIOUS
  <2>. HIDE DEF val
  <2>. QED
    BY <1>1, <2>1, FiniteImage
<1>3. {val[t] : t \in S} = {vals[t[1]] : t \in S}
  OBVIOUS
<1>4. \A V \in {vals[t[1]] : t \in S} : IsFiniteSet(V)
  BY FewValues
<1>. QED
  BY <1>2, <1>3, <1>4, FS_UNION

(* No pass retypes the top of a part-of tree: a product class has the values *)
(* of one class only, so it is never shared.                                 *)
LEMMA TopsUnmoved ==
  ASSUME NEW Y, PlainTaxonomy(Y), NEW U, IsFiniteSet(U), Hierarchy \subseteq U, NEW W,
         NEW g, Sound(Y, g), Guided(Y, U, W, g), TopsStay(Y, g), Cast(U, W, Instances(g)),
         NEW t \in Retyped(g)
  PROVE  t[1].root # t[1].cls
<1>. SUFFICES ASSUME t[1].root = t[1].cls PROVE FALSE
  OBVIOUS
<1>. DEFINE vals == [i \in Instances(g) |-> ValuesOf(g, i)]
            at(b) == {u \in g.type : <<u[2], b>> \in g.sliceOf}
            P == t[1].cls
            D == W \cap Reach(U, {P})
<1>1. /\ t \in g.type /\ Cardinality(ValuesOf(g, t[1])) = 1 /\ t[1] \in Instances(g)
      /\ Image(g.sliceOf, t[2]) \cap Shared(g, vals) # {}
  BY DEF Retyped, Instances
<1>2. PICK v : ValuesOf(g, t[1]) = {v}
  BY <1>1, FewValues, FS_Singleton DEF PlainTaxonomy, Sound
<1>3. D # {} /\ \A w, x \in D : w = x
  <2>1. ValuesOf(g, t[1]) \subseteq D
    BY <1>1, TopValues
  <2>. QED
    BY <1>1, <1>2, <2>1 DEF Cast
<1>4. P \in ProductClass
  BY <1>1, <1>3 DEF Cast
<1>5. PICK b \in Image(g.sliceOf, t[2]) : b \in Shared(g, vals)
  BY <1>1
<1>6. Cardinality(UNION {vals[u[1]] : u \in at(b)}) > 1
  BY <1>5 DEF Shared
<1>7. /\ \A u \in g.type : t[1].year \in Y /\ u[1].cls \in Plain(Y) /\ u[1] \in Instances(g)
                           /\ (u[2] = u[1].cls \/ Base(u[2]) = u[1].cls)
      /\ \A u \in g.type : u[2] = u[1].cls => Base(u[2]) = u[1].cls
  BY <1>1, NamesApart DEF Sound, Typed, Instances
<1>8. \A e \in g.sliceOf : Base(e[2]) = Base(e[1])
  BY DEF Sound, Classes, SliceEdge
<1>9. Base(b) = P
  <2>1. PICK e \in g.sliceOf : e[1] = t[2] /\ e[2] = b
    BY <1>5 DEF Image
  <2>. QED
    BY <1>1, <1>7, <1>8, <2>1
<1>10. ASSUME NEW u \in at(b) PROVE vals[u[1]] \subseteq D
  <2>1. u \in g.type /\ <<u[2], b>> \in g.sliceOf
    OBVIOUS
  <2>2. Base(u[2]) = P
    BY <1>8, <1>9, <2>1
  <2>3. u[1].cls = P /\ u[1] \in Instances(g)
    BY <1>7, <2>1, <2>2
  <2>4. u[1].root = P
    BY <1>4, <2>3 DEF Cast
  <2>. QED
    BY <2>3, <2>4, TopValues
<1>. HIDE DEF at, D
<1>11. UNION {vals[u[1]] : u \in at(b)} \subseteq D
  BY <1>10
<1>12. D \in {{w} : w \in D}
  BY <1>3
<1>13. PICK w : D = {w}
  BY <1>12
<1>14. PICK S : S = UNION {vals[u[1]] : u \in at(b)}
  OBVIOUS
<1>. HIDE DEF vals
<1>15. S = {} \/ S = {w}
  BY <1>11, <1>13, <1>14
<1>16. Cardinality({}) = 0 /\ Cardinality({w}) = 1
  BY FS_EmptySet, FS_Singleton
<1>17. Cardinality(S) > 1
  BY <1>6, <1>14
<1>. QED
  BY <1>15, <1>16, <1>17

(* The value pass leaves the tops where they are, and every instance its     *)
(* values.                                                                   *)
LEMMA ValuesKept ==
  ASSUME NEW Y, PlainTaxonomy(Y), NEW U, IsFiniteSet(U), Hierarchy \subseteq U, NEW W,
         NEW g, IsGraph(g), Sound(Y, g), Guided(Y, U, W, g), TopsStay(Y, g),
         Cast(U, W, Instances(g)), NEW f, f = ValueSlice(g)
  PROVE  /\ TopsStay(Y, f)
         /\ \A i \in Instances(g) : ValuesOf(f, i) = ValuesOf(g, i)
<1>1. Small(g) /\ Small(f)
  BY ValueSound DEF Sound
<1>2. /\ f.type = (g.type \ Retyped(g)) \cup {<<t[1], leaf_name(g, t)>> : t \in Retyped(g)}
      /\ g.sub \subseteq f.sub /\ g.axis \subseteq f.axis
  BY <1>1, LeavesEmitted
<1>3. /\ \A e \in f.sub \ g.sub : e[1] \notin Low(Y)
      /\ \A a \in f.axis \ g.axis : a[1] \notin Low(Y)
  BY ValueGuided
<1>4. \A t \in Retyped(g) : t \in g.type /\ t[1].root # t[1].cls
  BY TopsUnmoved DEF Retyped
<1>5. \A t \in f.type : t[1].root = t[1].cls => t \in g.type
  <2>. SUFFICES ASSUME NEW t \in f.type, t[1].root = t[1].cls, t \notin g.type PROVE FALSE
    OBVIOUS
  <2>1. PICK u \in Retyped(g) : t = <<u[1], leaf_name(g, u)>>
    BY <1>2
  <2>. QED
    BY <1>4, <2>1
<1>6. TopsStay(Y, f)
  BY <1>5 DEF TopsStay
<1>7. ASSUME NEW i \in Instances(g) PROVE ValuesOf(f, i) = ValuesOf(g, i)
  <2>1. PICK r : r = RootOf(i) /\ r.root = r.cls
    BY DEF Cast
  <2>2. TypesOf(f, r) = TypesOf(g, r)
    <3>1. \A t \in g.type : t[1] = r => t \in f.type
      BY <1>2, <1>4, <2>1
    <3>2. \A t \in f.type : t[1] = r => t \in g.type
      BY <1>5, <2>1
    <3>. QED
      BY <3>1, <3>2 DEF TypesOf
  <2>. PICK T : T = TypesOf(g, r)
    OBVIOUS
  <2>3. IsFiniteSet(T) /\ IsFiniteSet(Super(f)) /\ IsFiniteSet(Super(g))
    BY <1>1, SmallIsFinite DEF PlainTaxonomy
  <2>4. Reach(Super(g), T) \subseteq Low(Y)
    BY <2>1, TopValues
  <2>5. T \subseteq Reach(Super(g), T) /\ Closed(Super(g), Reach(Super(g), T))
        /\ T \subseteq Reach(Super(f), T)
    BY <2>3, ReachLeast
  <2>6. Closed(Super(f), Reach(Super(g), T))
    BY <1>3, <2>4, <2>5 DEF Closed, Super
  <2>7. Super(g) \subseteq Super(f)
    BY <1>2 DEF Super
  <2>8. Reach(Super(f), T) = Reach(Super(g), T)
    <3>1. Reach(Super(f), T) \subseteq Reach(Super(g), T)
      BY <2>3, <2>5, <2>6, ReachLeast
    <3>2. Reach(Super(g), T) \subseteq Reach(Super(f), T)
      BY <2>3, <2>5, <2>7, ReachGrows
    <3>. QED
      BY <3>1, <3>2
  <2>9. Values(f) \cap Low(Y) = Values(g) \cap Low(Y)
    BY <1>2, <1>3 DEF Values
  <2>10. /\ ValuesOf(f, i) = Values(f) \cap Reach(Super(f), T)
         /\ ValuesOf(g, i) = Values(g) \cap Reach(Super(g), T)
    BY <2>1, <2>2 DEF ValuesOf
  <2>. QED
    BY <2>4, <2>8, <2>9, <2>10
<1>. QED
  BY <1>6, <1>7

(* Two instances of one class with one value each, which differ: their base  *)
(* is shared, so every time-scoped type of theirs is moved to a leaf.        *)
LEMMA DifferentMoved ==
  ASSUME NEW Y, PlainTaxonomy(Y), NEW g, Sound(Y, g),
         NEW i \in Instances(g), NEW j \in Instances(g), i.cls = j.cls,
         <<i, YearLeaf(i)>> \in g.type, <<j, YearLeaf(j)>> \in g.type,
         NEW v, ValuesOf(g, i) = {v}, NEW w, ValuesOf(g, j) = {w}, v # w
  PROVE  \A t \in g.type : t[1] = i /\ t[2] # i.cls => t \in Retyped(g)
<1>. DEFINE vals == [k \in Instances(g) |-> ValuesOf(g, k)]
            b == i.cls
            at == {u \in g.type : <<u[2], b>> \in g.sliceOf}
<1>1. \A t \in g.type : (t[1] = i \/ t[1] = j) /\ t[2] # b => <<t[2], b>> \in g.sliceOf
  <2>. SUFFICES ASSUME NEW t \in g.type, t[1] = i \/ t[1] = j, t[2] # b
                PROVE  <<t[2], b>> \in g.sliceOf
    OBVIOUS
  <2>1. t[2] \in Timed(g) /\ Base(t[2]) = b
    BY DEF Sound, Typed
  <2>2. PICK p \in g.scope : p[1] = t[2]
    BY <2>1 DEF Timed
  <2>. QED
    BY <2>1, <2>2 DEF Sound, Classes, ScopeOf
<1>2. /\ <<i, YearLeaf(i)>> \in at /\ <<j, YearLeaf(j)>> \in at
  <2>1. /\ i.year \in Y /\ j.year \in Y /\ b \in Plain(Y)
    BY DEF Sound, Typed, Instances
  <2>2. YearLeaf(i) # b /\ YearLeaf(j) # b
    BY <2>1, SliceName, NamesApart DEF YearLeaf, PlainTaxonomy
  <2>3. <<YearLeaf(i), b>> \in g.sliceOf
    BY <1>1, <2>2
  <2>4. <<YearLeaf(j), b>> \in g.sliceOf
    BY <1>1, <2>2
  <2>. QED
    BY <2>3, <2>4
<1>3. b \in {e[2] : e \in g.sliceOf}
  <2>1. PICK e \in g.sliceOf : e = <<YearLeaf(i), b>>
    BY <1>2
  <2>. QED
    BY <2>1
<1>. PICK S : S = UNION {vals[t[1]] : t \in at}
  OBVIOUS
<1>4. v \in S /\ w \in S
  <2>1. vals[i] = {v} /\ vals[j] = {w}
    OBVIOUS
  <2>2. PICK t \in at, u \in at : t[1] = i /\ u[1] = j
    BY <1>2
  <2>. HIDE DEF at, vals
  <2>3. vals[t[1]] \in {vals[x[1]] : x \in at} /\ vals[u[1]] \in {vals[x[1]] : x \in at}
    OBVIOUS
  <2>. QED
    BY <2>1, <2>2, <2>3
<1>5. IsFiniteSet(S)
  <2>1. \A t \in at : vals[t[1]] = ValuesOf(g, t[1])
    BY DEF Instances
  <2>2. at \in SUBSET g.type /\ Small(g) /\ IsFiniteSet(Hierarchy)
    BY DEF Sound, PlainTaxonomy
  <2>. HIDE DEF at, vals
  <2>. QED
    BY <2>1, <2>2, FewShared
<1>6. Cardinality(S) > 1
  <2>. PICK A, B : A = {v} /\ B = A \cup {w}
    OBVIOUS
  <2>1. IsFiniteSet(A) /\ Cardinality(A) = 1 /\ w \notin A /\ B \in SUBSET S
    BY <1>4, FS_Singleton
  <2>2. Cardinality(B) = Cardinality(A) + 1
    BY <2>1, FS_AddElement
  <2>3. Cardinality(B) <= Cardinality(S) /\ Cardinality(S) \in Nat
    BY <1>5, <2>1, FS_Subset, FS_CardinalityType
  <2>. QED
    BY <2>1, <2>2, <2>3
<1>7. b \in Shared(g, vals)
  <2>. HIDE DEF vals
  <2>. QED
    BY <1>3, <1>6 DEF Shared
<1>. SUFFICES ASSUME NEW t \in g.type, t[1] = i, t[2] # i.cls PROVE t \in Retyped(g)
  OBVIOUS
<1>8. <<t[2], b>> \in g.sliceOf
  BY <1>1
<1>9. b \in Image(g.sliceOf, t[2])
  <2>1. PICK e \in g.sliceOf : e = <<t[2], b>>
    BY <1>8
  <2>. QED
    BY <2>1 DEF Image
<1>10. Cardinality(vals[t[1]]) = 1
  BY FS_Singleton
<1>. QED
  BY <1>7, <1>9, <1>10 DEF Retyped

(* No class of a graph mixes drivetrains.                                    *)
Separated(g) ==
  \A i, j \in Instances(g) :
    /\ LeafClass(g, i) = LeafClass(g, j) /\ ValuesOf(g, i) # {} /\ ValuesOf(g, j) # {}
    => ValuesOf(g, i) = ValuesOf(g, j)

(* The value pass after the year pass separates the drivetrains.             *)
LEMMA ValueSeparates ==
  ASSUME NEW Y, PlainTaxonomy(Y), NEW U, IsFiniteSet(U), Hierarchy \subseteq U, NEW W,
         NEW g, IsGraph(g), Sound(Y, g), Guided(Y, U, W, g), TopsStay(Y, g),
         Cast(U, W, Instances(g)), RollsUp(g),
         \A i \in Instances(g) : <<i, YearLeaf(i)>> \in g.type,
         NEW f, f = ValueSlice(g)
  PROVE  Separated(f)
<1>1. /\ Sound(Y, f) /\ RollsUp(f) /\ Instances(f) = Instances(g)
      /\ \A i \in Instances(g) : ValuesOf(f, i) = ValuesOf(g, i)
      /\ f.type = (g.type \ Retyped(g)) \cup {<<t[1], leaf_name(g, t)>> : t \in Retyped(g)}
  BY ValueSound, ValueRollsUp, ValueSliceInstances, ValuesKept, LeavesEmitted DEF Sound
<1>. SUFFICES ASSUME NEW i \in Instances(g), NEW j \in Instances(g),
                     LeafClass(f, i) = LeafClass(f, j),
                     NEW v \in ValuesOf(g, i), NEW w \in ValuesOf(g, j),
                     ValuesOf(g, i) # ValuesOf(g, j)
              PROVE  FALSE
  BY <1>1 DEF Separated
<1>2. ValuesOf(g, i) = {v} /\ ValuesOf(g, j) = {w} /\ v # w
  <2>1. /\ \A x, z \in ValuesOf(g, i) : x = z
        /\ \A x, z \in ValuesOf(g, j) : x = z
    <3>1. \A k \in Instances(g) : ValuesOf(g, k) \subseteq W \cap Reach(U, {k.root})
      BY TopValues
    <3>. QED
      BY <3>1 DEF Cast
  <2>. QED
    BY <2>1
<1>3. ASSUME NEW k \in Instances(g)
      PROVE  /\ LeafClass(f, k) \in TypesOf(f, k)
             /\ LeafClass(f, k) \in Dated(Y, k.year) /\ Base(LeafClass(f, k)) = k.cls
             /\ LeafClass(f, k) # k.cls /\ k.year \in Y
  <2>1. PICK l \in TypesOf(f, k) :
          /\ LeafClass(f, k) = l
          /\ \A d \in TypesOf(f, k) \ {l} : l \in Dated(Y, k.year)
    BY <1>1, OneInnermost
  <2>2. PICK t \in f.type : t[1] = k /\ t[2] # k.cls
    BY <1>1 DEF RollsUp
  <2>3. PICK u \in f.type : u[1] = k /\ u[2] = l
    BY DEF TypesOf
  <2>4. /\ k.year \in Y /\ k.cls \in Plain(Y)
        /\ l = k.cls \/ (l \in Dated(Y, k.year) /\ Base(l) = k.cls)
    BY <1>1, <2>3 DEF Sound, Typed
  <2>5. l # k.cls
    <3>1. l = k.cls => t[2] \in TypesOf(f, k) \ {l}
      BY <2>2 DEF TypesOf
    <3>. QED
      BY <2>1, <2>4, <3>1, NamesApart
  <2>. QED
    BY <2>1, <2>4, <2>5
<1>4. i.cls = j.cls
  BY <1>3
<1>5. ASSUME NEW k \in Instances(g), NEW x, ValuesOf(g, k) = {x},
             \A t \in g.type : t[1] = k /\ t[2] # k.cls => t \in Retyped(g)
      PROVE  LeafClass(f, k)[1] = x[1] /\ x \in Plain(Y)
  <2>1. PICK t \in f.type : t[1] = k /\ t[2] = LeafClass(f, k)
    BY <1>3 DEF TypesOf
  <2>2. t[2] # k.cls
    BY <1>3, <2>1
  <2>3. t \notin g.type \ Retyped(g)
    BY <1>5, <2>1, <2>2
  <2>4. PICK u \in Retyped(g) : t = <<u[1], leaf_name(g, u)>>
    BY <1>1, <2>3
  <2>5. /\ u[1] = k /\ InFront(Y, g, u) /\ u[1].year \in Y /\ u[2] \in Dated(Y, u[1].year)
        /\ Y \in SUBSET Word
    BY <2>1, <2>4, RetypedTypes DEF PlainTaxonomy
  <2>6. PICK z \in Plain(Y) : ValuesOf(g, k) = {z} /\ leaf_name(g, u) = z \o u[2]
    BY <2>5 DEF InFront
  <2>7. z = x
    BY <1>5, <2>6
  <2>8. (z \o u[2])[1] = z[1]
    BY <2>5, LeafName
  <2>. QED
    BY <2>1, <2>4, <2>6, <2>7, <2>8
<1>6. LeafClass(f, i)[1] = v[1] /\ v \in Plain(Y)
  <2>1. \A t \in g.type : t[1] = i /\ t[2] # i.cls => t \in Retyped(g)
    BY <1>2, <1>4, DifferentMoved
  <2>. QED
    BY <1>2, <1>5, <2>1
<1>7. LeafClass(f, j)[1] = w[1] /\ w \in Plain(Y)
  <2>1. \A t \in g.type : t[1] = j /\ t[2] # j.cls => t \in Retyped(g)
    BY <1>2, <1>4, DifferentMoved
  <2>. QED
    BY <1>2, <1>5, <2>1
<1>8. v[1] = w[1]
  BY <1>6, <1>7
<1>. QED
  BY <1>2, <1>6, <1>7, <1>8 DEF Plain

(* Finalising separates them, and keeps what that rests on.                  *)
LEMMA FinaliseSeparates ==
  ASSUME NEW Y, PlainTaxonomy(Y), NEW U, IsFiniteSet(U), Hierarchy \subseteq U, NEW W,
         NEW g, Sound(Y, g), Guided(Y, U, W, g), TopsStay(Y, g), Cast(U, W, Instances(g))
  PROVE  LET f == Finalise(g) IN Guided(Y, U, W, f) /\ TopsStay(Y, f) /\ Separated(f)
<1>. PICK y : y = YearSlice(g)
  OBVIOUS
<1>. PICK v : v = ValueSlice(y)
  OBVIOUS
<1>. PICK f : f = Finalise(g)
  OBVIOUS
<1>1. IsGraph(y) /\ IsGraph(v)
  BY UnionIsGraph DEF YearSlice, ValueSlice
<1>2. /\ Sound(Y, y) /\ Guided(Y, U, W, y) /\ RollsUp(y) /\ Instances(y) = Instances(g)
      /\ \A i \in Instances(y) : <<i, YearLeaf(i)>> \in y.type
  BY YearSound, YearGuided, YearRollsUp, YearSliceInstances
<1>3. TopsStay(Y, y)
  <2>. PICK h : h = Union(g, MintLeaves(g))
    OBVIOUS
  <2>1. y.type = g.type \cup {<<i, YearLeaf(i)>> : i \in Instances(g)}
    <3>1. y = Union(h, MintAncestors(h))
      BY DEF YearSlice
    <3>. QED
      BY <3>1, LeavesAdded, AncestorsAdded
  <2>2. \A i \in Instances(g) : YearLeaf(i) \in Low(Y)
    <3>. TAKE i \in Instances(g)
    <3>1. i.cls \in Plain(Y) /\ i.year \in Y
      BY DEF Sound, Typed, Instances
    <3>2. YearLeaf(i) \in Dated(Y, i.year) /\ Len(YearLeaf(i)) = 2
      BY <3>1, SliceName DEF YearLeaf, PlainTaxonomy
    <3>. QED
      BY <3>1, <3>2 DEF Low, Dated
  <2>. QED
    BY <2>1, <2>2 DEF TopsStay
<1>4. Guided(Y, U, W, v) /\ TopsStay(Y, v) /\ Separated(v)
  BY <1>1, <1>2, <1>3, ValueGuided, ValuesKept, ValueSeparates
<1>5. /\ f.type = v.type /\ f.sub = v.sub /\ f.axis = v.axis
  BY <1>1, Attached DEF Finalise
<1>6. /\ Values(f) = Values(v) /\ Super(f) = Super(v) /\ Instances(f) = Instances(v)
      /\ \A i : TypesOf(f, i) = TypesOf(v, i)
  BY <1>5 DEF Values, Super, Instances, TypesOf
<1>7. \A i : ValuesOf(f, i) = ValuesOf(v, i) /\ LeafClass(f, i) = LeafClass(v, i)
  BY <1>6 DEF ValuesOf, LeafClass, Innermost
<1>. QED
  BY <1>4, <1>5, <1>6, <1>7 DEF Guided, TopsStay, Separated

(* What OneDrivetrain says of the instances of a document.                   *)
LEMMA Casting ==
  ASSUME OneDrivetrain, NEW s \in Source, NEW d \in Docs
  PROVE  Cast(AllUnder, AllValues, Instances(SourceGraph(s, d)))
<1>. DEFINE top(c) == IF d.product = NoClass THEN c ELSE d.product
            classes == d.parts \cup ({d.product} \ {NoClass})
            inst(c) == [src |-> s, cls |-> c, year |-> d.year, root |-> top(c)]
<1>1. SourceGraph(s, d).type = {<<inst(c), c>> : c \in classes}
  BY DEF SourceGraph, EmptyGraph
<1>. SUFFICES ASSUME NEW i \in Instances(SourceGraph(s, d))
              PROVE  /\ RootOf(i).cls = i.root /\ RootOf(i).root = i.root
                     /\ \A v, w \in Drives(i.root) : v = w
                     /\ i.root = i.cls /\ i.cls \notin ProductClass => Drives(i.cls) = {}
                     /\ i.cls \in ProductClass => i.root = i.cls
  BY DEF Cast, Drives
<1>2. PICK c \in classes : i = inst(c)
  <2>. HIDE DEF classes, inst
  <2>1. PICK t \in SourceGraph(s, d).type : i = t[1]
    BY DEF Instances
  <2>2. PICK c \in classes : t = <<inst(c), c>>
    BY <1>1, <2>1
  <2>. QED
    BY <2>1, <2>2
<1>3. RootOf(i).cls = i.root /\ RootOf(i).root = i.root /\ i.cls = c /\ i.root = top(c)
  BY <1>2 DEF RootOf
<1>4. /\ \A v, w \in Drives(d.product) : v = w
      /\ \A e \in d.parts : e \notin ProductClass /\ Drives(e) = {}
      /\ d.product = NoClass \/ d.product \in ProductClass
  BY DocsAssumption DEF OneDrivetrain
<1>5. CASE c \in d.parts
  BY <1>3, <1>4, <1>5
<1>6. CASE c = d.product /\ c # NoClass
  BY <1>3, <1>4, <1>6
<1>. QED
  BY <1>5, <1>6

(* The edges of all documents are finitely many.                             *)
LEMMA FewEdges ==
  ASSUME OneDrivetrain
  PROVE  IsFiniteSet(AllUnder) /\ Hierarchy \subseteq AllUnder
<1>. DEFINE under == [d \in Docs |-> d.under]
<1>1. IsFiniteSet({under[d] : d \in Docs})
  <2>1. DOMAIN under = Docs /\ under = [d \in Docs |-> under[d]] /\ IsFiniteSet(Docs)
    BY DEF OneDrivetrain
  <2>. HIDE DEF under
  <2>. QED
    BY <2>1, FiniteImage
<1>2. {under[d] : d \in Docs} = {d.under : d \in Docs}
  OBVIOUS
<1>3. \A U \in {d.under : d \in Docs} : IsFiniteSet(U)
  BY NamesAssumption
<1>4. IsFiniteSet(UNION {d.under : d \in Docs})
  BY <1>1, <1>2, <1>3, FS_UNION
<1>. QED
  BY <1>4, NamesAssumption, FS_Union DEF AllUnder

(* The part of the invariant that rests on OneDrivetrain.                    *)
Driven == Guided(Years, AllUnder, AllValues, store) /\ TopsStay(Years, store) /\ Separated(store)

(* Joining a source's graph keeps it.                                        *)
LEMMA AddDriven ==
  ASSUME OneDrivetrain, IInv, Driven, NEW s \in Source, AddSource(s)
  PROVE  Driven'
<1>. PICK d : d = corpus[s]
  OBVIOUS
<1>. PICK g : g = Union(store, SourceGraph(s, d))
  OBVIOUS
<1>1. store' = Finalise(g) /\ d \in Docs
  BY DEF AddSource, IInv
<1>. PICK x : x = SourceGraph(s, d)
  OBVIOUS
<1>2. FromSource(Years, x) /\ Sound(Years, store)
  BY <1>1, SourceIsPlain DEF IInv, Finalised
<1>3. Sound(Years, g)
  BY <1>2, PlainNames, JoinSound
<1>4. IsFiniteSet(AllUnder) /\ Hierarchy \subseteq AllUnder
  BY FewEdges
<1>5. x.sub = d.under /\ x.axis = {<<v, "drive">> : v \in d.values}
  BY DEF SourceGraph, EmptyGraph
<1>6. Guided(Years, AllUnder, AllValues, g)
  <2>1. ASSUME NEW e \in g.sub PROVE Base(e[1]) = Base(e[2]) \/ <<Base(e[1]), Base(e[2])>> \in AllUnder
    <3>1. CASE e \in store.sub
      BY <3>1 DEF Driven, Guided
    <3>2. CASE e \in d.under
      <4>1. e \in AllUnder /\ e[1] \in Plain(Years) /\ e[2] \in Plain(Years) /\ e = <<e[1], e[2]>>
        BY <1>1, <3>2, NamesAssumption, PlainNames DEF AllUnder, IsUnder
      <4>2. Base(e[1]) = e[1] /\ Base(e[2]) = e[2]
        BY <4>1 DEF Plain, Base
      <4>. QED
        BY <4>1, <4>2
    <3>. QED
      BY <1>5, <3>1, <3>2 DEF Union
  <2>2. ASSUME NEW v \in Values(g) \cap Plain(Years) PROVE v \in AllValues
    <3>1. PICK a \in g.axis : a[1] = v /\ a[2] = "drive"
      BY DEF Values
    <3>2. CASE a \in store.axis
      BY <3>1, <3>2 DEF Driven, Guided, Values
    <3>3. CASE a \in x.axis
      BY <1>1, <1>5, <3>1, <3>3 DEF AllValues
    <3>. QED
      BY <3>2, <3>3 DEF Union
  <2>. QED
    BY <2>1, <2>2 DEF Guided
<1>7. TopsStay(Years, g)
  <2>1. \A t \in x.type : t[2] \in Plain(Years)
    BY <1>2 DEF FromSource
  <2>. QED
    BY <2>1 DEF Union, Driven, TopsStay, Low
<1>8. Cast(AllUnder, AllValues, Instances(g))
  <2>1. \A i \in Instances(g) : i \in Instances(x) \/ \E r \in added : i \in SourceInstances(r)
    <3>1. Instances(g) = Instances(store) \cup Instances(x)
      BY UnionInstances
    <3>2. StoreComplete
      BY DEF IInv
    <3>3. \A i \in Instances(store) : \E r \in added : i \in SourceInstances(r)
      BY <3>2 DEF StoreComplete
    <3>. QED
      BY <3>1, <3>3
  <2>2. \A r \in added : Cast(AllUnder, AllValues, SourceInstances(r))
    BY Casting DEF IInv, SourceInstances
  <2>3. Cast(AllUnder, AllValues, Instances(x))
    BY <1>1, Casting
  <2>. QED
    <3>. SUFFICES ASSUME NEW i \in Instances(g) PROVE Cast(AllUnder, AllValues, {i})
      BY DEF Cast
    <3>1. CASE i \in Instances(x)
      BY <2>3, <3>1 DEF Cast
    <3>2. ASSUME NEW r \in added, i \in SourceInstances(r) PROVE Cast(AllUnder, AllValues, {i})
      BY <2>2, <3>2 DEF Cast
    <3>. QED
      BY <2>1, <3>1, <3>2
<1>9. LET f == Finalise(g)
      IN  Guided(Years, AllUnder, AllValues, f) /\ TopsStay(Years, f) /\ Separated(f)
  BY <1>3, <1>4, <1>6, <1>7, <1>8, PlainNames, FinaliseSeparates
<1>. QED
  BY <1>1, <1>9 DEF Driven

(* So does every step.                                                       *)
LEMMA DrivenInv ==
  ASSUME OneDrivetrain
  PROVE  (Init => Driven) /\ (IInv /\ Driven /\ [Next]_vars => Driven')
<1>1. ASSUME NEW g, g = EmptyGraph
      PROVE  Guided(Years, AllUnder, AllValues, g) /\ TopsStay(Years, g) /\ Separated(g)
  <2>1. g.type = {} /\ g.sub = {} /\ g.axis = {}
    BY <1>1 DEF EmptyGraph
  <2>. QED
    BY <2>1 DEF Guided, TopsStay, Separated, Instances, Values
<1>2. Init => Driven
  BY <1>1 DEF Init, Driven
<1>3. ASSUME IInv, Driven, [Next]_vars PROVE Driven'
  <2>1. CASE StartBuild \/ EndBuild
    <3>1. store' = EmptyGraph
      BY <2>1 DEF StartBuild, EndBuild
    <3>. QED
      BY <1>1, <3>1 DEF Driven
  <2>2. ASSUME NEW s \in Source, AddSource(s) PROVE Driven'
    BY <1>3, <2>2, AddDriven
  <2>3. CASE UNCHANGED vars
    BY <1>3, <2>3 DEF vars, Driven
  <2>. QED
    BY <1>3, <2>1, <2>2, <2>3 DEF Next
<1>. QED
  BY <1>2, <1>3

(* As long as no product is below two drivetrains and no component below     *)
(* one, no class of components mixes drivetrains, whatever is added in       *)
(* whatever order.                                                           *)
THEOREM DrivetrainsSeparate ==
  ASSUME OneDrivetrain
  PROVE  Spec => []ValueSeparation
<1>1. Init => Driven
  BY DrivenInv
<1>2. IInv /\ Driven /\ [Next]_vars => Driven'
  BY DrivenInv
<1>3. Driven => ValueSeparation
  BY DEF Driven, Separated, ValueSeparation
<1>. QED
  BY <1>1, <1>2, <1>3, Invariance, PTL DEF Spec

-----------------------------------------------------------------------------
(* One finalisation instead of many.  While no document marks a value, the   *)
(* store is a function of the instances and edges added, so finalising on    *)
(* every add and finalising once come to the same graph.                     *)
Unmarked == \A d \in Docs : d.values = {}
Edges == UNION {corpus[s].under : s \in added}
SlicedStore == IsFiniteSet(Edges) /\ store = Sliced(Instances(store), Edges)

(* A document is its instances, its edges and its marks.                     *)
LEMMA SourceMarked ==
  ASSUME NEW s \in Source, NEW d \in Docs
  PROVE  Marked(SourceGraph(s, d), Authored(Instances(SourceGraph(s, d)), d.under), d.values)
<1>. PICK g : g = SourceGraph(s, d)
  OBVIOUS
<1>1. /\ g.sub = d.under /\ g.sliceOf = {} /\ g.scope = {}
      /\ g.axis = {<<v, "drive">> : v \in d.values}
  BY DEF SourceGraph, EmptyGraph
<1>2. g.type = {<<i, i.cls>> : i \in Instances(g)}
  <2>1. \A t \in g.type : t = <<t[1], t[1].cls>>
    BY SourceIsPlain DEF FromSource
  <2>. QED
    BY <2>1 DEF Instances
<1>. PICK h : h = Authored(Instances(g), d.under)
  OBVIOUS
<1>3. /\ h.type = {<<i, i.cls>> : i \in Instances(g)} /\ h.sub = d.under
      /\ h.sliceOf = {} /\ h.scope = {} /\ h.axis = {}
  BY DEF Authored
<1>. QED
  BY <1>1, <1>2, <1>3 DEF Marked

(* A document without marks is its instances and its edges.                  *)
LEMMA SourceAuthored ==
  ASSUME Unmarked, NEW s \in Source, NEW d \in Docs
  PROVE  SourceGraph(s, d) = Authored(Instances(SourceGraph(s, d)), d.under)
<1>. PICK g, h : g = SourceGraph(s, d) /\ h = Authored(Instances(SourceGraph(s, d)), d.under)
  OBVIOUS
<1>1. IsGraph(g) /\ g.strategy = {}
  BY DEF SourceGraph, EmptyGraph, IsGraph
<1>2. IsGraph(h) /\ h.strategy = {}
  BY DEF Authored, IsGraph
<1>3. Marked(g, h, {})
  BY SourceMarked DEF Unmarked
<1>4. g.axis = h.axis
  <2>1. {<<v, "drive">> : v \in {}} = {}
    OBVIOUS
  <2>. QED
    BY <1>3, <2>1 DEF Marked
<1>. QED
  BY <1>1, <1>2, <1>3, <1>4 DEF Marked, IsGraph

(* The edges of the documents are plain, and finitely many in each.          *)
LEMMA PlainUnder ==
  ASSUME NEW d \in Docs
  PROVE  IsFiniteSet(d.under) /\ d.under \subseteq Plain(Years) \X Plain(Years)
BY PlainNames, NamesAssumption DEF IsUnder

(* The instances of the store and the edges added are what a source could    *)
(* bring all at once.                                                        *)
LEMMA StoreCast ==
  ASSUME IInv, IsFiniteSet(Edges)
  PROVE  PlainEdges(Years, Edges) /\ FromSource(Years, Authored(Instances(store), Edges))
<1>. PICK K, g : K = Instances(store) /\ g = Authored(Instances(store), Edges)
  OBVIOUS
<1>1. PlainEdges(Years, Edges)
  <2>1. \A s \in added : corpus[s].under \subseteq Plain(Years) \X Plain(Years)
    BY PlainUnder DEF IInv
  <2>. QED
    BY <2>1 DEF PlainEdges, Edges
<1>2. Sound(Years, store)
  BY DEF IInv, Finalised
<1>3. \A i \in K : i.year \in Years /\ i.cls \in Plain(Years) /\ RootOf(RootOf(i)) = RootOf(i)
  BY <1>2 DEF Sound, Typed, Instances
<1>4. IsFiniteSet(K)
  <2>. PICK I, N : Within(store, I, N)
    BY <1>2 DEF Sound, Small
  <2>1. K \subseteq I /\ IsFiniteSet(I)
    BY DEF Within, Instances
  <2>. QED
    BY <2>1, FS_Subset
<1>5. /\ g.type = {<<i, i.cls>> : i \in K} /\ g.sub = Edges
      /\ g.sliceOf = {} /\ g.scope = {} /\ g.axis = {}
  BY DEF Authored
<1>6. IsFiniteSet(g.type)
  <2>. DEFINE triple == [i \in K |-> <<i, i.cls>>]
  <2>1. g.type = {triple[i] : i \in K}
    BY <1>5
  <2>2. DOMAIN triple = K /\ triple = [i \in K |-> triple[i]]
    OBVIOUS
  <2>. HIDE DEF triple
  <2>. QED
    BY <1>4, <2>1, <2>2, FiniteImage
<1>7. \A t \in g.type : t[1] \in K /\ t = <<t[1], t[1].cls>>
  BY <1>5
<1>8. \A t \in g.type : /\ t = <<t[1], t[1].cls>> /\ t[1].year \in Years /\ t[1].cls \in Plain(Years)
                        /\ RootOf(RootOf(t[1])) = RootOf(t[1])
  BY <1>3, <1>7
<1>9. g.sub \subseteq Plain(Years) \X Plain(Years) /\ IsFiniteSet(g.sub)
  BY <1>1, <1>5 DEF PlainEdges
<1>10. FromSource(Years, g)
  BY <1>5, <1>6, <1>8, <1>9 DEF FromSource
<1>. QED
  BY <1>1, <1>10

(* The one-shot derive finalises all sources merged: their instances, edges  *)
(* and marks.                                                                *)
Marks == UNION {corpus[s].values : s \in added}
Merged ==
  [EmptyGraph EXCEPT
    !.type = UNION {SourceGraph(s, corpus[s]).type : s \in added},
    !.sub  = UNION {corpus[s].under : s \in added},
    !.axis = UNION {{<<v, "drive">> : v \in corpus[s].values} : s \in added}]

LEMMA SourcesMerged ==
  ASSUME IInv
  PROVE  /\ OneShot = Finalise(Merged) /\ IsGraph(Merged) /\ Merged.strategy = {}
         /\ Marked(Merged, Authored(Instances(store), Edges), Marks)
         /\ Marks \subseteq Plain(Years)
<1>. PICK K, g, h : K = Instances(store) /\ g = Merged /\ h = Authored(Instances(store), Edges)
  OBVIOUS
<1>1. \A s \in added : s \in Source /\ corpus[s] \in Docs
  BY DEF IInv
<1>2. /\ g.type = UNION {SourceGraph(s, corpus[s]).type : s \in added} /\ g.sub = Edges
      /\ g.axis = UNION {{<<v, "drive">> : v \in corpus[s].values} : s \in added}
      /\ g.sliceOf = {} /\ g.scope = {} /\ g.strategy = {} /\ IsGraph(g)
  BY DEF EmptyGraph, Edges, IsGraph, Merged
<1>3. g.axis = {<<v, "drive">> : v \in Marks}
  BY <1>2 DEF Marks
<1>4. g.type = {<<i, i.cls>> : i \in K}
  <2>1. K = UNION {SourceInstances(s) : s \in added}
    BY DEF IInv, StoreComplete
  <2>2. ASSUME NEW s \in added
        PROVE  SourceGraph(s, corpus[s]).type = {<<i, i.cls>> : i \in SourceInstances(s)}
    BY <1>1, SourceMarked DEF SourceInstances, Authored, Marked
  <2>. QED
    BY <1>2, <2>1, <2>2
<1>5. /\ h.type = {<<i, i.cls>> : i \in K} /\ h.sub = Edges /\ h.axis = {}
      /\ h.sliceOf = {} /\ h.scope = {}
  BY DEF Authored
<1>6. Marked(g, h, Marks)
  BY <1>2, <1>3, <1>4, <1>5 DEF Marked
<1>7. Marks \subseteq Plain(Years)
  BY <1>1, PlainNames, NamesAssumption DEF Marks
<1>. QED
  BY <1>2, <1>6, <1>7 DEF OneShot, Merged

(* An add slices the instances and edges of its source with the others.      *)
LEMMA AddSliced ==
  ASSUME Unmarked, IInv, SlicedStore, NEW s \in Source, AddSource(s)
  PROVE  SlicedStore'
<1>. PICK J, V, K : J = SourceInstances(s) /\ V = corpus[s].under /\ K = Instances(store)
  OBVIOUS
<1>1. corpus[s] \in Docs /\ \A r \in added : corpus[r] \in Docs
  BY DEF IInv
<1>2. Edges' = Edges \cup V
  BY DEF AddSource, Edges
<1>3. PlainEdges(Years, Edges \cup V)
  <2>1. IsFiniteSet(Edges) /\ IsFiniteSet(V) /\ V \subseteq Plain(Years) \X Plain(Years)
    BY <1>1, PlainUnder DEF SlicedStore
  <2>2. \A r \in added : corpus[r].under \subseteq Plain(Years) \X Plain(Years)
    BY <1>1, PlainUnder
  <2>3. Edges \subseteq Plain(Years) \X Plain(Years)
    BY <2>2 DEF Edges
  <2>. QED
    BY <2>1, <2>3, FS_Union DEF PlainEdges
<1>. PICK g : g = Union(store, SourceGraph(s, corpus[s]))
  OBVIOUS
<1>4. g = Union(Sliced(K, Edges), Authored(J, V))
  BY <1>1, SourceAuthored DEF SlicedStore, SourceInstances
<1>5. Sound(Years, g)
  <2>1. Sound(Years, store)
    BY DEF IInv, Finalised
  <2>2. FromSource(Years, SourceGraph(s, corpus[s]))
    BY <1>1, SourceIsPlain
  <2>. QED
    BY <2>1, <2>2, PlainNames, JoinSound
<1>6. Finalise(g) = Sliced(K \cup J, Edges \cup V)
  BY <1>3, <1>4, <1>5, PlainNames, FinalisedAgain
<1>7. store' = Finalise(g) /\ Instances(store') = K \cup J
  BY AddInstances DEF AddSource
<1>8. IsFiniteSet(Edges')
  BY <1>2, <1>3 DEF PlainEdges
<1>9. store' = Sliced(Instances(store'), Edges')
  BY <1>2, <1>6, <1>7
<1>. QED
  BY <1>8, <1>9 DEF SlicedStore

(* The one-shot derive of the sources added slices the same.                 *)
LEMMA OneShotSliced ==
  ASSUME Unmarked, IInv, SlicedStore
  PROVE  OneShot = store
<1>. PICK g, h : g = Merged /\ h = Authored(Instances(store), Edges)
  OBVIOUS
<1>1. PlainEdges(Years, Edges) /\ FromSource(Years, h)
  BY StoreCast DEF SlicedStore
<1>2. IsGraph(h) /\ h.strategy = {}
  BY DEF Authored, IsGraph
<1>3. Marks = {}
  <2>1. \A s \in added : corpus[s] \in Docs
    BY DEF IInv
  <2>. QED
    BY <2>1 DEF Unmarked, Marks
<1>4. IsGraph(g) /\ g.strategy = {} /\ Marked(g, h, {}) /\ OneShot = Finalise(g)
  BY <1>3, SourcesMerged
<1>5. g = h
  <2>1. {<<v, "drive">> : v \in {}} = {}
    OBVIOUS
  <2>. QED
    BY <1>2, <1>4, <2>1 DEF Marked, IsGraph
<1>6. YearSlice(g) = Sliced(Instances(store), Edges)
  BY <1>1, <1>5, PlainNames, SlicedAtOnce
<1>7. IsGraph(YearSlice(g)) /\ Values(YearSlice(g)) = {}
  <2>1. IsGraph(YearSlice(g))
    BY UnionIsGraph DEF YearSlice
  <2>2. Values(Sliced(Instances(store), Edges)) = {}
    BY DEF Values, Sliced
  <2>. QED
    BY <1>6, <2>1, <2>2
<1>8. Finalise(g) = YearSlice(g)
  BY <1>7, NoDrivetrain DEF Finalise
<1>. QED
  BY <1>4, <1>6, <1>8 DEF SlicedStore

LEMMA SlicedInv ==
  ASSUME Unmarked
  PROVE  /\ Init => SlicedStore
         /\ IInv /\ SlicedStore /\ [Next]_vars => SlicedStore'
<1>1. store = EmptyGraph /\ added = {} => SlicedStore
  <2>1. added = {} => Edges = {}
    BY DEF Edges
  <2>. QED
    BY <2>1, EmptyStore, SlicedOfNone, FS_EmptySet DEF SlicedStore
<1>2. store' = EmptyGraph /\ added' = {} => SlicedStore'
  <2>1. added' = {} => Edges' = {}
    BY DEF Edges
  <2>. QED
    BY <2>1, EmptyStore, SlicedOfNone, FS_EmptySet DEF SlicedStore
<1>3. IInv /\ SlicedStore /\ [Next]_vars => SlicedStore'
  <2>. SUFFICES ASSUME IInv, SlicedStore, [Next]_vars PROVE SlicedStore'
    OBVIOUS
  <2>1. CASE StartBuild \/ EndBuild
    BY <1>2, <2>1 DEF StartBuild, EndBuild
  <2>2. CASE \E s \in Source : AddSource(s)
    BY <2>2, AddSliced
  <2>3. CASE UNCHANGED vars
    BY <2>3 DEF vars, SlicedStore, Edges
  <2>. QED
    BY <2>1, <2>2, <2>3 DEF Next
<1>. QED
  BY <1>1, <1>3 DEF Init

(* Finalising on every add is finalising once: while the year is the only    *)
(* axis the sources use, the store is at every moment the graph one derive   *)
(* of the sources added gives, in whatever order, and how often, they came.  *)
THEOREM FinalisedOnEveryAdd == ASSUME Unmarked PROVE Spec => []FinaliseIdempotent
<1>1. IInv /\ SlicedStore => FinaliseIdempotent
  BY OneShotSliced DEF FinaliseIdempotent
<1>2. Init => SlicedStore
  BY SlicedInv
<1>3. IInv /\ SlicedStore /\ [Next]_vars => SlicedStore'
  BY SlicedInv
<1>. QED
  BY <1>1, <1>2, <1>3, Invariance, PTL DEF Spec

-----------------------------------------------------------------------------
(* The patched view.  While a build runs it is the view of the store.        *)
FreshView == building => view = IF added = {} THEN {} ELSE Rows(store)

(* The instances of a source, with their wholes.                             *)
SourceClasses(d) == d.parts \cup ({d.product} \ {NoClass})

Brings(J, s, d) ==
  /\ Rooted(J) /\ \A i \in J : i.src = s /\ RootOf(i).src = s
  /\ \A c \in SourceClasses(d) : \E i \in J : i.cls = c

LEMMA SourceBrings ==
  ASSUME NEW s \in Source, NEW d \in Docs
  PROVE  Brings(Instances(SourceGraph(s, d)), s, d)
<1>. DEFINE top(c) == IF d.product = NoClass THEN c ELSE d.product
            classes == d.parts \cup ({d.product} \ {NoClass})
            inst(c) == [src |-> s, cls |-> c, year |-> d.year, root |-> top(c)]
            J == Instances(SourceGraph(s, d))
<1>1. SourceGraph(s, d).type = {<<inst(c), c>> : c \in classes}
  BY DEF SourceGraph, EmptyGraph
<1>2. \A c \in classes : top(c) \in classes /\ top(top(c)) = top(c)
  OBVIOUS
<1>3. \A c : inst(c).src = s /\ inst(c).cls = c /\ RootOf(inst(c)) = inst(top(c))
  <2>. SUFFICES ASSUME NEW c PROVE RootOf(inst(c)) = inst(top(c))
    OBVIOUS
  <2>1. top(top(c)) = top(c)
    OBVIOUS
  <2>. HIDE DEF top
  <2>. QED
    BY <2>1 DEF RootOf
<1>. HIDE DEF top, classes, inst
<1>4. \A i : i \in J <=> \E c \in classes : i = inst(c)
  <2>1. ASSUME NEW i \in J PROVE \E c \in classes : i = inst(c)
    <3>1. PICK t \in SourceGraph(s, d).type : i = t[1]
      BY DEF Instances
    <3>. QED
      BY <1>1, <3>1
  <2>2. ASSUME NEW c \in classes PROVE inst(c) \in J
    <3>1. PICK t \in SourceGraph(s, d).type : t = <<inst(c), c>>
      BY <1>1
    <3>. QED
      BY <3>1 DEF Instances
  <2>. QED
    BY <2>1, <2>2
<1>5. \A i \in J : i.src = s /\ RootOf(i).src = s /\ RootOf(i) \in J
  BY <1>2, <1>3, <1>4
<1>6. \A c \in classes : \E i \in J : i.cls = c
  BY <1>3, <1>4
<1>. QED
  BY <1>5, <1>6 DEF Brings, Rooted, SourceClasses, classes

(* The store is the sliced graph of its instances and edges, apart from the  *)
(* marks on it.                                                              *)
MarkedStore == IsFiniteSet(Edges) /\ \E M : Marked(store, Sliced(Instances(store), Edges), M)

LEMMA StoreDressed ==
  ASSUME IInv, MarkedStore
  PROVE  Dressed(Years, store, Instances(store), Edges) /\ Rooted(Instances(store))
<1>. DEFINE K == Instances(store)
<1>1. \A s \in added : s \in Source /\ corpus[s] \in Docs
  BY DEF IInv
<1>2. PlainEdges(Years, Edges)
  BY StoreCast DEF MarkedStore
<1>3. Sound(Years, store)
  BY DEF IInv, Finalised
<1>4. PlainCast(Years, K)
  BY <1>3 DEF Sound, Typed, Instances, PlainCast
<1>5. IsFiniteSet(K) /\ IsFiniteSet(store.sub) /\ IsFiniteSet(store.sliceOf)
  <2>. PICK I, N : Within(store, I, N)
    BY <1>3 DEF Sound, Small
  <2>1. K \subseteq I /\ IsFiniteSet(I) /\ IsFiniteSet(N \X N)
    BY FS_Product DEF Within, Instances
  <2>. QED
    BY <2>1, FS_Subset DEF Within
<1>6. YearGraph(store, K, Edges)
  <2>1. PICK M : Marked(store, Sliced(K, Edges), M)
    BY DEF MarkedStore
  <2>. HIDE DEF K
  <2>2. /\ store.type = Sliced(K, Edges).type /\ store.sub = Sliced(K, Edges).sub
        /\ store.sliceOf = Sliced(K, Edges).sliceOf /\ store.scope = Sliced(K, Edges).scope
        /\ Sliced(K, Edges).axis \subseteq store.axis
    BY <2>1 DEF Marked
  <2>. QED
    BY <1>5, <2>2 DEF YearGraph
<1>7. Rooted(K)
  <2>1. K = UNION {SourceInstances(s) : s \in added}
    BY DEF IInv, StoreComplete
  <2>2. \A s \in added : Rooted(SourceInstances(s))
    BY <1>1, SourceBrings DEF Brings, SourceInstances
  <2>. QED
    BY <2>1, <2>2 DEF Rooted
<1>. QED
  BY <1>2, <1>4, <1>6, <1>7, PlainNames DEF Dressed

(* An add grows the store by the instances of its source, wholes included,   *)
(* and by edges that start above them; a source added again brings none.     *)
LEMMA AddGrows ==
  ASSUME OwnEdges, IInv, IInv', MarkedStore, MarkedStore', NEW s \in Source, AddSource(s)
  PROVE  Grown(Years, store, store', Instances(store), Instances(store'), Edges, Edges')
<1>. DEFINE K == Instances(store)
            L == Instances(store')
            J == SourceInstances(s)
            d == corpus[s]
            F == Hierarchy \cup Edges'
            C == SourceClasses(d)
            P == Under(F, L \ K)
<1>1. d \in Docs /\ \A r \in added : r \in Source /\ corpus[r] \in Docs
  BY DEF IInv
<1>2. L = K \cup J
  BY AddInstances
<1>3. Edges' = Edges \cup d.under
  BY DEF AddSource, Edges
<1>4. Dressed(Years, store, K, Edges) /\ Rooted(K)
  BY StoreDressed
<1>5. Dressed(Years, store', L, Edges') /\ Rooted(L)
  <2>1. ASSUME IInv', MarkedStore'
        PROVE  (Dressed(Years, store, Instances(store), Edges) /\ Rooted(Instances(store)))'
    BY <2>1, StoreDressed, PTL
  <2>. QED
    BY <2>1
<1>6. Brings(J, s, d)
  BY <1>1, SourceBrings DEF SourceInstances
<1>7. K = UNION {SourceInstances(r) : r \in added}
  BY DEF IInv, StoreComplete
<1>8. \A r \in added : \A i \in SourceInstances(r) : i.src = r
  BY <1>1, SourceBrings DEF Brings, SourceInstances
<1>9. s \in added => L = K /\ Edges' = Edges
  <2>1. s \in added => J \subseteq K
    BY <1>7
  <2>2. s \in added => d.under \subseteq Edges
    BY DEF Edges
  <2>. QED
    BY <1>2, <1>3, <2>1, <2>2
<1>10. s \notin added => L \ K = J
  <2>1. ASSUME s \notin added, NEW i \in J PROVE i \notin K
    BY <1>6, <1>7, <1>8, <2>1 DEF Brings
  <2>. QED
    BY <1>2, <2>1
<1>11. \A i \in L \ K : RootOf(i) \notin K
  <2>1. ASSUME s \notin added, NEW i \in J PROVE RootOf(i) \notin K
    BY <1>6, <1>7, <1>8, <2>1 DEF Brings
  <2>. QED
    BY <1>9, <1>10, <2>1
<1>12. ASSUME NEW e \in Edges' \ Edges PROVE e[1] \in P
  <2>1. s \notin added /\ e \in d.under /\ L \ K = J
    BY <1>3, <1>9, <1>10
  <2>2. e[1] \in Reach(Hierarchy \cup d.under, C)
    BY <1>1, <2>1 DEF OwnEdges, SourceClasses
  <2>3. IsFiniteSet(F) /\ F \subseteq Plain(Years) \X Plain(Years)
    <3>1. Fields(Years, store', L, Edges')
      BY <1>5, GraphFields
    <3>. QED
      BY <3>1 DEF Fields
  <2>4. InstanceNames(Years, L)
    BY <1>5, GraphNames
  <2>5. UnderOK(Years, F, L \ K)
    <3>1. \A i \in L \ K : i.cls \in Plain(Years)
      BY <2>4 DEF InstanceNames
    <3>. HIDE DEF F, L, K
    <3>. QED
      BY <2>3, <3>1, UnderFacts
  <2>6. C \subseteq P
    BY <1>6, <2>1, <2>5 DEF Brings, UnderOK
  <2>7. Closed(Hierarchy \cup d.under, P)
    BY <1>3, <2>5 DEF UnderOK, Closed
  <2>8. IsFiniteSet(C) /\ IsFiniteSet(Hierarchy \cup d.under)
    <3>1. IsFiniteSet(Hierarchy \cup d.under)
      BY <1>1, NamesAssumption, FS_Union
    <3>2. IsFiniteSet(C)
      BY <1>1, NamesAssumption, FS_Union, FS_Subset, FS_Singleton DEF SourceClasses
    <3>. QED
      BY <3>1, <3>2
  <2>. HIDE DEF C, P, d
  <2>9. Reach(Hierarchy \cup d.under, C) \subseteq P
    BY <2>6, <2>7, <2>8, ReachLeast
  <2>. QED
    BY <2>2, <2>9
<1>13. K \subseteq L /\ Edges \subseteq Edges'
  BY <1>2, <1>3
<1>. QED
  BY <1>4, <1>5, <1>11, <1>12, <1>13 DEF Grown

(* The refresh of an add leaves the view of the store.                       *)
LEMMA AddFresh ==
  ASSUME OwnEdges, IInv, IInv', MarkedStore, MarkedStore', FreshView, NEW s \in Source, AddSource(s)
  PROVE  FreshView'
<1>. DEFINE A == Affected(store', Instances(store') \ Instances(store))
<1>1. /\ building /\ added' # {}
      /\ view' = IF view = {} THEN Rows(store') ELSE Refresh(view, Project(store', A), A)
  BY DEF AddSource
<1>2. ASSUME view # {} PROVE view' = Rows(store')
  <2>1. view = Rows(store)
    BY <1>1, <1>2 DEF FreshView
  <2>2. Grown(Years, store, store', Instances(store), Instances(store'), Edges, Edges')
    BY AddGrows
  <2>3. Refresh(Rows(store), Project(store', A), A) = Rows(store')
    BY <2>2, RefreshExact
  <2>. QED
    BY <1>1, <1>2, <2>1, <2>3
<1>. QED
  BY <1>1, <1>2 DEF FreshView

-----------------------------------------------------------------------------
(* Drivetrains no two of which meet at a base.  The marks are then in the    *)
(* store and nowhere else: calm after the year pass, it is not retyped.      *)
Driving(K, Z, M) == [Sliced(K, Z) EXCEPT !.axis = @ \cup {<<v, "drive">> : v \in M}]
Quiet == Calm(Driving(Instances(store), Edges, Marks))
SlicedWhileQuiet ==
  IsFiniteSet(Edges) /\ (Quiet => Marked(store, Sliced(Instances(store), Edges), Marks))

LEMMA DrivingMarked ==
  ASSUME NEW K, NEW Z, NEW M
  PROVE  Marked(Driving(K, Z, M), Sliced(K, Z), M)
BY DEF Driving, Sliced, Marked

(* One calm graph of those instances, edges and marks: all of them are.      *)
LEMMA MarkedQuiet ==
  ASSUME NEW f, NEW K, NEW Z, NEW M, Marked(f, Sliced(K, Z), M)
  PROVE  Calm(f) <=> Calm(Driving(K, Z, M))
<1>. PICK h : h = Driving(K, Z, M)
  OBVIOUS
<1>1. f.type = h.type /\ f.sub = h.sub /\ f.sliceOf = h.sliceOf /\ f.axis = h.axis
  BY DrivingMarked DEF Marked
<1>. QED
  BY <1>1, SameCalm

(* An add can only end the quiet; while it lasts the add slices by year.     *)
LEMMA AddQuiet ==
  ASSUME IInv, IInv', SlicedWhileQuiet, NEW s \in Source, AddSource(s)
  PROVE  SlicedWhileQuiet' /\ (Quiet' => Quiet)
<1>. PICK J, V, W, K : /\ J = SourceInstances(s) /\ V = corpus[s].under /\ W = corpus[s].values
                       /\ K = Instances(store)
  OBVIOUS
<1>. PICK L : L = Instances(store')
  OBVIOUS
<1>. PICK Z, M : Z = Edges /\ M = Marks
  OBVIOUS
<1>1. corpus[s] \in Docs
  BY DEF IInv
<1>2. L = K \cup J /\ Edges' = Z \cup V /\ Marks' = M \cup W
  <2>1. L = K \cup J
    BY AddInstances
  <2>. QED
    BY <2>1 DEF AddSource, Edges, Marks
<1>3. IsFiniteSet(Z) /\ IsFiniteSet(Z \cup V)
  BY <1>1, PlainUnder, FS_Union DEF SlicedWhileQuiet
<1>4. PlainEdges(Years, Z) /\ FromSource(Years, Authored(K, Z))
  BY <1>3, StoreCast
<1>5. PlainEdges(Years, Z \cup V) /\ FromSource(Years, Authored(L, Z \cup V))
  <2>1. ASSUME IInv', IsFiniteSet(Edges)'
        PROVE  (PlainEdges(Years, Edges) /\ FromSource(Years, Authored(Instances(store), Edges)))'
    BY <2>1, StoreCast, PTL
  <2>2. IsFiniteSet(Edges')
    BY <1>2, <1>3
  <2>3. PlainEdges(Years, Edges') /\ FromSource(Years, Authored(Instances(store'), Edges'))
    BY <2>1, <2>2
  <2>. QED
    BY <1>2, <2>3
<1>6. Sound(Years, Sliced(K, Z)) /\ Sound(Years, Sliced(L, Z \cup V))
  BY <1>4, <1>5, PlainNames, SlicedAtOnce
<1>. PICK d, h : d = Driving(K, Z, M) /\ h = Driving(L, Z \cup V, M \cup W)
  OBVIOUS
<1>7. Calm(h) => Calm(d)
  <2>1. /\ Marked(d, Sliced(K, Z), M) /\ Marked(h, Sliced(L, Z \cup V), M \cup W)
        /\ Small(Sliced(K, Z)) /\ Small(Sliced(L, Z \cup V))
        /\ K \subseteq L /\ Z \subseteq Z \cup V /\ M \subseteq M \cup W
    BY <1>2, <1>6, DrivingMarked DEF Sound
  <2>. QED
    BY <1>5, <2>1, PlainNames, CalmWithLess
<1>8. (Quiet <=> Calm(d)) /\ (Quiet' <=> Calm(h))
  BY <1>2 DEF Quiet
<1>. PICK f, g : f = Union(store, SourceGraph(s, corpus[s])) /\ g = Union(Sliced(K, Z), Authored(J, V))
  OBVIOUS
<1>9. ASSUME Calm(h) PROVE Marked(store', Sliced(L, Z \cup V), M \cup W)
  <2>1. Marked(store, Sliced(K, Z), M)
    BY <1>7, <1>8, <1>9 DEF SlicedWhileQuiet
  <2>2. Marked(SourceGraph(s, corpus[s]), Authored(J, V), W)
    BY <1>1, SourceMarked DEF SourceInstances
  <2>3. Marked(f, g, M \cup W)
    BY <2>1, <2>2, MarkedUnion
  <2>4. Sound(Years, g)
    <3>1. FromSource(Years, Authored(J, V))
      <4>1. FromSource(Years, SourceGraph(s, corpus[s]))
        BY <1>1, SourceIsPlain
      <4>2. Authored(J, V).axis = {}
        BY DEF Authored
      <4>. QED
        BY <2>2, <4>1, <4>2 DEF FromSource, Marked
    <3>. QED
      BY <1>6, <3>1, PlainNames, JoinSound
  <2>5. YearSlice(g) = Sliced(L, Z \cup V)
    BY <1>2, <1>5, <2>4, PlainNames, SlicedJoin
  <2>6. Marked(YearSlice(f), Sliced(L, Z \cup V), M \cup W)
    BY <2>3, <2>5, MarkedYear
  <2>7. Calm(YearSlice(f))
    BY <1>9, <2>6, MarkedQuiet
  <2>8. Marked(Finalise(f), YearSlice(g), M \cup W)
    BY <2>3, <2>4, <2>7, PlainNames, FinalisedCalm
  <2>9. store' = Finalise(f)
    BY DEF AddSource
  <2>. QED
    BY <2>5, <2>8, <2>9
<1>10. SlicedWhileQuiet'
  BY <1>2, <1>3, <1>8, <1>9 DEF SlicedWhileQuiet
<1>. QED
  BY <1>7, <1>8, <1>10

(* Where the one-shot derive shares no base, it has the rows of the store.   *)
Unshared == Shared(OneShot, [i \in Instances(OneShot) |-> ValuesOf(OneShot, i)]) = {}

LEMMA OneShotQuiet ==
  ASSUME IInv, SlicedWhileQuiet, Unshared
  PROVE  Quiet /\ Rows(OneShot) = Rows(store)
<1>. PICK m, h : m = Merged /\ h = Authored(Instances(store), Edges)
  OBVIOUS
<1>1. PlainEdges(Years, Edges) /\ FromSource(Years, h)
  BY StoreCast DEF SlicedWhileQuiet
<1>2. OneShot = Finalise(m) /\ Marked(m, h, Marks) /\ Marks \subseteq Plain(Years)
      /\ IsGraph(m)
  BY SourcesMerged
<1>3. Sound(Years, h) /\ YearSlice(h) = Sliced(Instances(store), Edges)
  BY <1>1, PlainNames, SlicedAtOnce
<1>4. Sound(Years, m)
  <2>1. FromSource(Years, m)
    <3>1. \A a \in m.axis : a[1] \in Plain(Years) /\ a[2] = "drive"
      BY <1>1, <1>2 DEF FromSource, Marked
    <3>. QED
      BY <1>1, <1>2, <3>1 DEF FromSource, Marked
  <2>2. m = [Union(EmptyGraph, m) EXCEPT !.strategy = m.strategy]
    BY <1>2 DEF Union, EmptyGraph, IsGraph
  <2>3. PICK u : u = Union(EmptyGraph, m)
    OBVIOUS
  <2>4. Sound(Years, u)
    BY <2>1, <2>3, EmptyStore, PlainNames, JoinSound DEF Finalised
  <2>5. /\ m.type = u.type /\ m.sub = u.sub /\ m.sliceOf = u.sliceOf
        /\ m.axis = u.axis /\ m.scope = u.scope
    BY <2>3 DEF Union, EmptyGraph
  <2>. QED
    BY <2>4, <2>5, SameButStrategy
<1>5. Calm(Finalise(m))
  <2>1. Small(OneShot)
    BY <1>2, <1>4, PlainNames, FinaliseSound DEF Sound
  <2>2. Calm(OneShot)
    BY <2>1, PlainNames, UnsharedIsCalm DEF Unshared, PlainTaxonomy
  <2>. QED
    BY <1>2, <2>2
<1>6. Calm(YearSlice(m))
  BY <1>4, <1>5, PlainNames, CalmAtYear
<1>7. Marked(YearSlice(m), Sliced(Instances(store), Edges), Marks)
  BY <1>2, <1>3, MarkedYear
<1>8. Quiet
  BY <1>6, <1>7, MarkedQuiet DEF Quiet
<1>9. Marked(OneShot, Sliced(Instances(store), Edges), Marks)
  BY <1>2, <1>3, <1>6, PlainNames, FinalisedCalm
<1>10. Marked(store, Sliced(Instances(store), Edges), Marks)
  BY <1>8 DEF SlicedWhileQuiet
<1>11. /\ OneShot.type = store.type /\ OneShot.sub = store.sub
       /\ OneShot.sliceOf = store.sliceOf /\ OneShot.scope = store.scope
  BY <1>9, <1>10 DEF Marked
<1>12. Rows(OneShot) = Rows(store)
  BY <1>11, RowsAlike
<1>. QED
  BY <1>8, <1>12

(* The year slices of the store, and the view of it, last as long as the     *)
(* quiet.                                                                    *)
QuietInv == SlicedWhileQuiet /\ (Quiet => FreshView)

LEMMA QuietHolds ==
  ASSUME OwnEdges
  PROVE  /\ Init => QuietInv
         /\ IInv /\ IInv' /\ QuietInv /\ [Next]_vars => QuietInv'
<1>1. store = EmptyGraph /\ added = {} => SlicedWhileQuiet
  <2>1. added = {} => Edges = {} /\ Marks = {}
    BY DEF Edges, Marks
  <2>2. Marked(EmptyGraph, EmptyGraph, {})
    BY DEF Marked
  <2>. QED
    BY <2>1, <2>2, EmptyStore, SlicedOfNone, FS_EmptySet DEF SlicedWhileQuiet
<1>2. store' = EmptyGraph /\ added' = {} => SlicedWhileQuiet'
  <2>1. added' = {} => Edges' = {} /\ Marks' = {}
    BY DEF Edges, Marks
  <2>2. Marked(EmptyGraph, EmptyGraph, {})
    BY DEF Marked
  <2>. QED
    BY <2>1, <2>2, EmptyStore, SlicedOfNone, FS_EmptySet DEF SlicedWhileQuiet
<1>3. Init => QuietInv
  BY <1>1 DEF Init, QuietInv, FreshView
<1>4. ASSUME IInv, IInv', QuietInv, [Next]_vars PROVE QuietInv'
  <2>1. CASE StartBuild
    BY <1>2, <2>1 DEF StartBuild, QuietInv, FreshView
  <2>2. CASE EndBuild
    BY <1>2, <2>2 DEF EndBuild, QuietInv, FreshView
  <2>3. ASSUME NEW s \in Source, AddSource(s) PROVE QuietInv'
    <3>1. SlicedWhileQuiet' /\ (Quiet' => Quiet)
      BY <1>4, <2>3, AddQuiet DEF QuietInv
    <3>2. ASSUME Quiet' PROVE FreshView'
      <4>1. MarkedStore /\ FreshView
        BY <1>4, <3>1, <3>2 DEF QuietInv, SlicedWhileQuiet, MarkedStore
      <4>2. MarkedStore'
        BY <3>1, <3>2 DEF SlicedWhileQuiet, MarkedStore
      <4>. QED
        BY <1>4, <2>3, <4>1, <4>2, AddFresh
    <3>. QED
      BY <3>1, <3>2 DEF QuietInv
  <2>4. CASE UNCHANGED vars
    BY <1>4, <2>4 DEF vars, QuietInv, SlicedWhileQuiet, Quiet, FreshView, Edges, Marks
  <2>. QED
    BY <1>4, <2>1, <2>2, <2>3, <2>4 DEF Next
<1>. QED
  BY <1>3, <1>4

(* As long as no component base is shared between drivetrain values, the     *)
(* patched view is the one-shot view: for any taxonomy, documents and marks  *)
(* whose documents author the edges of their own classes, any number of adds *)
(* in any order, re-adds and interrupted builds.  What add_source promises   *)
(* ("Value-identical to a full re-derive") can be broken by the rewriting    *)
(* axis alone.                                                               *)
THEOREM FreshUnlessShared == ASSUME OwnEdges PROVE Spec => []FreshWhileUnshared
<1>1. IInv /\ QuietInv => FreshWhileUnshared
  <2>. SUFFICES ASSUME IInv, QuietInv, Serving, Unshared PROVE view = Rows(OneShot)
    BY DEF FreshWhileUnshared, Unshared
  <2>1. Quiet /\ Rows(OneShot) = Rows(store)
    BY OneShotQuiet DEF QuietInv
  <2>. QED
    BY <2>1 DEF QuietInv, FreshView, Serving
<1>2. Init => QuietInv
  BY QuietHolds
<1>3. IInv /\ IInv' /\ QuietInv /\ [Next]_vars => QuietInv'
  BY QuietHolds
<1>. QED
  BY <1>1, <1>2, <1>3, Invariance, PTL DEF Spec

(* While the year is the only axis nothing is shared, so the same holds of   *)
(* the store at any time: every add leaves exactly the rows a derive of all  *)
(* sources at once would have (add_source, "Value-identical to a full        *)
(* re-derive").                                                              *)
THEOREM PatchedViewExact == ASSUME Unmarked, OwnEdges PROVE Spec => []ServedFresh
<1>1. IInv => Quiet
  <2>. SUFFICES ASSUME IInv PROVE Quiet
    OBVIOUS
  <2>1. Marks = {}
    BY DEF Unmarked, Marks, IInv
  <2>2. Values(Driving(Instances(store), Edges, {})) = {}
    BY DEF Driving, Sliced, Values
  <2>. QED
    BY <2>1, <2>2 DEF Quiet, Calm, ValuesOf
<1>2. IInv /\ SlicedStore /\ QuietInv => ServedFresh
  BY <1>1, OneShotSliced DEF QuietInv, FreshView, ServedFresh, Serving
<1>3. Init => SlicedStore /\ QuietInv
  BY SlicedInv, QuietHolds
<1>4. IInv /\ IInv' /\ SlicedStore /\ QuietInv /\ [Next]_vars => SlicedStore' /\ QuietInv'
  BY SlicedInv, QuietHolds
<1>. QED
  BY <1>2, <1>3, <1>4, Invariance, PTL DEF Spec
=============================================================================
