-------------------------- MODULE Resolver_proofs --------------------------
(* A projection of some classes agrees with the projection of all, for every *)
(* composition graph and choice of classes: what a plugin computes for a     *)
(* class never depends on which other classes are wanted.  No amount is      *)
(* computed here; the walks and the sums over them stay unopened.            *)
EXTENDS Resolver, TLAPS

-----------------------------------------------------------------------------
(* Owners of rows.                                                           *)

(* What the projection w owns of some rows.                                  *)
Mine(w, rows) == {r \in rows : \E c \in Owners(r.subject) : wants(w, c)}

(* A class owns its own rows.                                                *)
LEMMA OwnersPlain ==
  ASSUME NEW c
  PROVE  Owners(<<c>>) = {c}
  BY DEF Owners, ToSet, Last

(* A scope is owned by its component and its product.                        *)
LEMMA OwnersScope ==
  ASSUME NEW c, NEW p, c \notin Unknowns
  PROVE  Owners(<<c, p>>) = {c, p}
  BY DEF Owners, ToSet, Last

(* A filler is a row of the subject it fills.                                *)
LEMMA BalanceOf ==
  ASSUME NEW subject, NEW rows, NEW base, NEW level, NEW r \in balance(subject, rows, base, level)
  PROVE  r.subject = subject
<1>1. balance(subject, rows, base, level) =
        IF base - SumAmt(rows) <= 0 THEN {}
        ELSE {Row(subject, <<UnknownOf(level)>>, base - SumAmt(rows), base, None)}
  BY DEF balance, Once
<1>. QED
  BY <1>1 DEF Row

(* So is every row of an element level.                                      *)
LEMMA ElementLevelOf ==
  ASSUME NEW ix, NEW subject, NEW base, NEW sums, NEW spreads,
         NEW r \in ElementLevel(ix, subject, base, sums, spreads)
  PROVE  r.subject = subject
<1>. DEFINE named == {x \in {Row(subject, <<ec>>, sums[ec], base, spreads[ec]) : ec \in DOMAIN sums} : x.amt > 0}
<1>1. ElementLevel(ix, subject, base, sums, spreads) =
        IF named = {} THEN {} ELSE named \cup balance(subject, named, base, "Element")
  BY DEF ElementLevel, Once
<1>2. \A x \in named : x.subject = subject
  BY DEF Row
<1>. HIDE DEF named
<1>. QED
  BY <1>1, <1>2, BalanceOf

(* The elements plugin.                                                      *)
LEMMA ElementsAgree ==
  ASSUME NEW ix, NEW tops, NEW w
  PROVE  ElementAmounts(ix, tops, w) = Mine(w, ElementAmounts(ix, tops, All))
<1>. DEFINE sums(d) == [ec \in ElementClasses(ix) |->
                          Mean(InstancesOf(ix, tops, d), LAMBDA n : element_in_whole(ix, n, ec))]
            nones == [ec \in ElementClasses(ix) |-> None]
            Of(d) == ElementLevel(ix, <<d>>, Unit, sums(d), nones)
<1>1. \A v : ElementAmounts(ix, tops, v) = UNION {Of(c) : c \in {c \in LeafClasses(ix, tops) : wants(v, c)}}
  BY DEF ElementAmounts
<1>. HIDE DEF sums, nones
<1>2. \A c : \A r \in Of(c) : Owners(r.subject) = {c}
  BY OwnersPlain, ElementLevelOf
<1>. HIDE DEF Of
<1>. QED
  BY <1>1, <1>2 DEF Mine, wants

(* No class is named like what stands for the unknown.                       *)
Apart(ix) ==
  /\ \A n \in DOMAIN ix.level : ix.cls[n] \notin Unknowns
  /\ \A u \in ix.under : u[2] \notin Unknowns

(* Dropping what is there already looks at rows of the same subject only.    *)
LEMMA DedupAgrees ==
  ASSUME NEW rows, NEW up, NEW w
  PROVE  dedup(Mine(w, rows), Mine(w, up)) = Mine(w, dedup(rows, up))
BY DEF dedup, Mine

(* The component plugin: classes, scopes and groups.                         *)
LEMMA ComponentAgrees ==
  ASSUME NEW ix, Apart(ix), NEW w, NEW up
  PROVE  Component(ix, w, Mine(w, up)) = Mine(w, Component(ix, All, up))
<1>. DEFINE raw(v) == LeafRows(ix, v) \cup ScopeRows(ix, v) \cup GroupRows(ix, v)
<1>1. \A subject, nodes : \A r \in MeanRows(ix, subject, nodes) : r.subject = subject
  <2>. SUFFICES ASSUME NEW subject, NEW nodes, NEW r \in MeanRows(ix, subject, nodes)
                PROVE  r.subject = subject
    OBVIOUS
  <2>. DEFINE sums == [ec \in ElementClasses(ix) |-> Mean(nodes, LAMBDA n : element_in_whole(ix, n, ec))]
              spreads == [ec \in ElementClasses(ix) |-> over_nodes(ix, nodes, ec)]
  <2>1. MeanRows(ix, subject, nodes) = ElementLevel(ix, subject, Unit, sums, spreads)
    BY DEF MeanRows
  <2>. HIDE DEF sums, spreads
  <2>. QED
    BY <2>1, ElementLevelOf
<1>2. \A s, p : \A r \in GroupScope(ix, s, p) : r.subject = <<s, p>>
  <2>. SUFFICES ASSUME NEW s, NEW p, NEW r \in GroupScope(ix, s, p)
                PROVE  r.subject = <<s, p>>
    OBVIOUS
  <2>. DEFINE nodes == GroupNodes(ix, s, p)
              mass == MapThenSumSet(LAMBDA n : ix.mass[n], nodes)
              sums == [ec \in ElementClasses(ix) |->
                        MapThenSumSet(LAMBDA n : element_in_whole(ix, n, ec) * ix.mass[n], nodes)]
              spreads == [ec \in ElementClasses(ix) |-> over_nodes_weighted(ix, nodes, ec)]
  <2>1. GroupScope(ix, s, p) = IF mass = 0 THEN {} ELSE ElementLevel(ix, <<s, p>>, Unit * mass, sums, spreads)
    BY DEF GroupScope
  <2>. HIDE DEF sums, spreads, mass
  <2>. QED
    BY <2>1, ElementLevelOf
<1>3. LeafRows(ix, w) = Mine(w, LeafRows(ix, All))
  <2>. DEFINE S == LeafClasses(ix, component_nodes(ix))
              R(c) == ClassRows(ix, c)
  <2>1. \A c \in S : \A r \in R(c) : Owners(r.subject) = {c}
    <3>. HIDE DEF S
    <3>. QED
      BY <1>1, OwnersPlain DEF ClassRows
  <2>2. \A v : LeafRows(ix, v) = UNION {R(c) : c \in {c \in S : wants(v, c)}}
    BY DEF LeafRows
  <2>. HIDE DEF S, R
  <2>. QED
    BY <2>1, <2>2 DEF Mine, wants
<1>4. ScopeRows(ix, w) = Mine(w, ScopeRows(ix, All))
  <2>. DEFINE S == {<<ix.cls[n], ProductOf(ix, n)>> : n \in component_nodes(ix)}
              R(s) == MeanRows(ix, <<s[1], s[2]>>, InProduct(ix, s[1], s[2]))
  <2>1. \A v : ScopeRows(ix, v) = UNION {R(s) : s \in {s \in S : ScopeWanted(v, s[1], s[2])}}
    BY DEF ScopeRows
  <2>2. \A s \in S : s[1] \notin Unknowns
    BY DEF Apart, component_nodes
  <2>3. \A s \in S : \A r \in R(s) : Owners(r.subject) = {s[1], s[2]}
    <3>. HIDE DEF S
    <3>. QED
      BY <1>1, <2>2, OwnersScope
  <2>. HIDE DEF S, R
  <2>. QED
    BY <2>1, <2>3 DEF Mine, wants, ScopeWanted
<1>5. GroupRows(ix, w) = Mine(w, GroupRows(ix, All))
  <2>. DEFINE S == Groups(ix) \X {ProductOf(ix, n) : n \in component_nodes(ix)}
  <2>1. \A v : GroupRows(ix, v) = UNION {GroupScope(ix, s[1], s[2]) : s \in {s \in S : ScopeWanted(v, s[1], s[2])}}
    BY DEF GroupRows
  <2>2. \A s \in S : s[1] \notin Unknowns
    BY DEF Apart, Groups
  <2>3. \A s \in S : \A r \in GroupScope(ix, s[1], s[2]) : Owners(r.subject) = {s[1], s[2]}
    <3>. HIDE DEF S
    <3>. QED
      BY <1>2, <2>2, OwnersScope
  <2>. HIDE DEF S
  <2>. QED
    BY <2>1, <2>3 DEF Mine, wants, ScopeWanted
<1>6. \A v, u : Component(ix, v, u) = dedup(raw(v), u)
  BY DEF Component
<1>7. raw(w) = Mine(w, raw(All))
  BY <1>3, <1>4, <1>5 DEF Mine
<1>. HIDE DEF raw
<1>. QED
  BY <1>6, <1>7, DedupAgrees

(* The stamp of a pair depends on the rows of that pair only.                *)
LEMMA StampsAgree ==
  ASSUME NEW g, NEW ix, NEW tops, NEW w, NEW rows
  PROVE  Uncertainty(g, ix, tops, Mine(w, rows)) = Mine(w, Uncertainty(g, ix, tops, rows))
<1>. DEFINE pairs(up) == {<<r.subject, r.part>> : r \in up}
            carried(up, pair) == \E r \in up : <<r.subject, r.part>> = pair /\ r.spread # None
            stamp(pair, b) ==
              [subject |-> pair[1], part |-> pair[2],
               spread |-> IF Len(pair[1]) # 1 \/ Len(pair[2]) # 1 THEN None
                          ELSE Spread(g, ix, tops, pair[1][1], pair[2][1], b)]
            owned(pair) == \E c \in Owners(pair[1]) : wants(w, c)
<1>1. \A up : Uncertainty(g, ix, tops, up) =
                {st \in {stamp(pair, carried(up, pair)) : pair \in pairs(up)} : st.spread # None}
  BY DEF Uncertainty, Stamp
<1>2. \A pair, b : stamp(pair, b).subject = pair[1]
  OBVIOUS
<1>. HIDE DEF stamp
<1>3. \A pair \in pairs(Mine(w, rows)) : owned(pair) /\ pair \in pairs(rows)
  BY DEF Mine
<1>4. \A pair \in pairs(rows) : owned(pair) => pair \in pairs(Mine(w, rows))
  BY DEF Mine
<1>5. \A pair : owned(pair) => carried(Mine(w, rows), pair) = carried(rows, pair)
  BY DEF Mine
<1>. HIDE DEF pairs, carried
<1>. QED
  BY <1>1, <1>2, <1>3, <1>4, <1>5 DEF Mine

-----------------------------------------------------------------------------
(* The part-of plugin.                                                       *)

(* A row of c alone.                                                         *)
OwnedBy(r, c) == Owners(r.subject) = {c}

(* What may be a whole, and what is within a product.                        *)
Wholes == {"Product", "Component", "Material"}
Inner == {"Component", "Material"}

(* What is unknown has four names.                                           *)
LEMMA UnknownNames ==
  /\ \A level \in {"Product", "Component", "Material", "Element"} : UnknownOf(level) \in Unknowns
  /\ \A level \in Wholes : UnknownOf(level) \in Unknowns
BY DEF UnknownOf, Unknowns, Levels, Wholes

(* A holder below c.                                                         *)
HolderOf(h, c) ==
  h \in Seq(Unknowns \cup {c}) /\ h # <<>> /\ Head(h) \in Unknowns /\ Last(h) = c

(* A holder is owned by the class at its root,                               *)
LEMMA HolderOwner ==
  ASSUME NEW h, NEW c, HolderOf(h, c)
  PROVE  Owners(h) = {c}
BY DEF HolderOf, Owners

(* be it directly under the class                                            *)
LEMMA FirstHolder ==
  ASSUME NEW u \in Unknowns, NEW c
  PROVE  HolderOf(<<u, c>>, c)
<1>1. <<u, c>> \in Seq(Unknowns \cup {c}) /\ <<u, c>> # <<>> /\ Head(<<u, c>>) = u /\ Last(<<u, c>>) = c
  BY DEF Last
<1>. QED
  BY <1>1 DEF HolderOf

(* or under another holder.                                                  *)
LEMMA HolderBelow ==
  ASSUME NEW h, NEW c, HolderOf(h, c), NEW u \in Unknowns
  PROVE  HolderOf(<<u>> \o h, c)
<1>. DEFINE T == Unknowns \cup {c}
<1>1. h \in Seq(T) /\ h # <<>> /\ Last(h) = c /\ u \in T
  BY DEF HolderOf
<1>. HIDE DEF T
<1>2. /\ <<u>> \o h \in Seq(T) /\ <<u>> \o h # <<>> /\ Head(<<u>> \o h) = u
      /\ Len(<<u>> \o h) = Len(h) + 1 /\ (<<u>> \o h)[Len(h) + 1] = h[Len(h)]
  BY <1>1
<1>3. Last(<<u>> \o h) = c
  BY <1>1, <1>2 DEF Last
<1>. QED
  BY <1>2, <1>3 DEF HolderOf, T

(* A state of the filling that has only rows below c.                        *)
Below(s, c) == HolderOf(s.holder, c) /\ \A r \in s.rows : OwnedBy(r, c)

(* Filling a holder adds rows of it, and a holder below it.                  *)
LEMMA FillStays ==
  ASSUME NEW ix, NEW plans, NEW s, NEW c, Below(s, c),
         NEW child \in {"Product", "Component", "Material", "Element"}
  PROVE  Below(Fill(ix, plans, s, child), c)
<1>. DEFINE ending == {p \in plans : Len(p.key.tail) = s.depth}
            named == Named(ix, ending, s, child)
            rest == s.mass - SumAmt(named)
<1>1. Fill(ix, plans, s, child) = IF s.mass <= 0 THEN s ELSE Held(s, child, named, rest)
  BY DEF Fill, Once
<1>2. \A r \in named : r.subject = s.holder
  <2>. DEFINE S == {pc \in {p.key.part : p \in ending} : ClassLevel[pc] = child}
              amount(pc) == Min({MapThenSumSet(LAMBDA p : p.amt, {p \in ending : p.key.part = pc}), s.mass})
  <2>1. named = {Row(s.holder, <<pc>>, amount(pc), s.mass, None) : pc \in S}
    BY DEF Named
  <2>. HIDE DEF S, amount, named
  <2>. QED
    BY <2>1 DEF Row
<1>. HIDE DEF named, rest
<1>3. Below(Held(s, child, named, rest), c)
  <2>. DEFINE t == Held(s, child, named, rest)
  <2>1. t.holder = <<UnknownOf(child)>> \o s.holder
        /\ \A r \in t.rows : r \in s.rows \/ r.subject = s.holder
    BY <1>2 DEF Held, Row
  <2>2. HolderOf(s.holder, c) /\ Owners(s.holder) = {c}
    BY HolderOwner DEF Below
  <2>3. HolderOf(t.holder, c)
    BY <2>1, <2>2, UnknownNames, HolderBelow
  <2>4. \A r \in t.rows : OwnedBy(r, c)
    <3>1. \A r \in s.rows : OwnedBy(r, c)
      BY DEF Below
    <3>. HIDE DEF t
    <3>. QED
      BY <2>1, <2>2, <3>1 DEF OwnedBy
  <2>. HIDE DEF t
  <2>5. Below(t, c)
    BY <2>3, <2>4 DEF Below
  <2>. QED
    BY <2>5 DEF t
<1>. QED
  BY <1>1, <1>3

(* The greatest of at most three numbers.                                    *)
LEMMA MaxOfThree ==
  ASSUME NEW I \in SUBSET (1 .. 3), I # {}
  PROVE  Max(I) \in I /\ \A y \in I : y <= Max(I)
<1>1. \E x \in I : \A y \in I : x >= y
  <2>1. CASE 3 \in I
    BY <2>1
  <2>2. CASE 3 \notin I /\ 2 \in I
    BY <2>2
  <2>3. CASE 3 \notin I /\ 2 \notin I
    <3>1. \A y \in I : y = 1
      BY <2>3
    <3>2. PICK x \in I : TRUE
      OBVIOUS
    <3>3. x = 1 /\ \A y \in I : x >= y
      BY <3>1
    <3>. QED
      BY <3>3
  <2>. QED
    BY <2>1, <2>2, <2>3
<1>2. Max(I) \in I /\ \A y \in I : Max(I) >= y
  BY <1>1 DEF Max
<1>. QED
  BY <1>2

(* The content of a holder is below its class: a fold over three levels at   *)
(* most.                                                                     *)
LEMMA DecomposedBelow ==
  ASSUME NEW ix, NEW c, NEW level \in Wholes, NEW h, HolderOf(h, c), NEW mass, NEW plans,
         NEW r \in Decompose(ix, h, level, mass, plans)
  PROVE  OwnedBy(r, c)
<1>. DEFINE D == SubSeq(Levels, Rank(level) + 1, 4)
            n == Len(D)
            s0 == [holder |-> h, mass |-> mass, depth |-> 0, rows |-> {}]
            one(x, s) == Fill(ix, plans, s, D[x])
            next(f, I) == IF I = {} THEN s0 ELSE one(Max(I), f[I \ {Max(I)}])
            F == CHOOSE f : f = [I \in SUBSET (1 .. n) |-> next(f, I)]
<1>1. n \in 1 .. 3 /\ DOMAIN D = 1 .. n
      /\ \A i \in 1 .. n : D[i] \in {"Product", "Component", "Material", "Element"}
  <2>1. Levels \in Seq({"Product", "Component", "Material", "Element"}) /\ Len(Levels) = 4
    BY DEF Levels
  <2>2. Rank(level) \in 1 .. 3
    <3>1. \E i \in 1 .. 4 : Levels[i] = level
      BY DEF Levels, Wholes
    <3>2. Rank(level) \in 1 .. 4 /\ Levels[Rank(level)] = level
      BY <3>1 DEF Rank
    <3>3. Levels[4] = "Element" /\ level # "Element"
      BY DEF Levels, Wholes
    <3>. QED
      BY <3>2, <3>3
  <2>3. /\ Len(D) = 4 - Rank(level) /\ DOMAIN D = 1 .. Len(D)
        /\ \A i \in 1 .. 4 - Rank(level) : D[i] = Levels[Rank(level) + i]
    <3>1. \A T : \A q \in Seq(T) : \A k \in 1 .. 3 : Len(q) = 4 =>
            /\ Len(SubSeq(q, k + 1, 4)) = 4 - k
            /\ DOMAIN SubSeq(q, k + 1, 4) = 1 .. 4 - k
            /\ \A i \in 1 .. 4 - k : SubSeq(q, k + 1, 4)[i] = q[k + i]
      <4>. SUFFICES ASSUME NEW T, NEW q \in Seq(T), NEW k \in 1 .. 3, Len(q) = 4
                    PROVE  /\ Len(SubSeq(q, k + 1, 4)) = 4 - k
                           /\ DOMAIN SubSeq(q, k + 1, 4) = 1 .. 4 - k
                           /\ \A i \in 1 .. 4 - k : SubSeq(q, k + 1, 4)[i] = q[k + i]
        OBVIOUS
      <4>1. SubSeq(q, k + 1, 4) = [i \in 1 .. 4 - k |-> q[k + i]]
        OBVIOUS
      <4>2. Len(SubSeq(q, k + 1, 4)) = 4 - k
        OBVIOUS
      <4>. QED
        BY <4>1, <4>2
    <3>. QED
      BY <2>1, <2>2, <3>1
  <2>4. \A j \in 1 .. 4 : Levels[j] \in {"Product", "Component", "Material", "Element"}
    BY DEF Levels
  <2>. HIDE DEF D
  <2>5. ASSUME NEW i \in 1 .. n PROVE D[i] \in {"Product", "Component", "Material", "Element"}
    <3>1. i \in 1 .. 4 - Rank(level) /\ Rank(level) + i \in 1 .. 4
      BY <2>2, <2>3
    <3>. QED
      BY <2>3, <2>4, <3>1
  <2>. QED
    BY <2>2, <2>3, <2>5
<1>2. Decompose(ix, h, level, mass, plans) = F[1 .. n].rows
  <2>1. Decompose(ix, h, level, mass, plans)
          = (CHOOSE f : f = [I \in SUBSET DOMAIN D |-> next(f, I)])[DOMAIN D].rows
    BY DEF Decompose, FoldLeft, MapThenFoldSet
  <2>. HIDE DEF next, n, D
  <2>. QED
    BY <1>1, <2>1
<1>3. Below(s0, c)
  BY DEF Below
<1>4. \A x \in 1 .. n : \A s : Below(s, c) => Below(one(x, s), c)
  <2>. HIDE DEF D, n
  <2>. QED
    BY <1>1, FillStays
<1>. HIDE DEF D, n, s0, one
<1>5. F = [I \in SUBSET (1 .. n) |-> next(F, I)]
  <2>. DEFINE a1(I) == IF 1 \in I THEN one(1, s0) ELSE s0
              a2(I) == IF 2 \in I THEN one(2, a1(I)) ELSE a1(I)
              a3(I) == IF 3 \in I THEN one(3, a2(I)) ELSE a2(I)
              G == [I \in SUBSET (1 .. n) |-> a3(I)]
  <2>1. ASSUME NEW I \in SUBSET (1 .. n) PROVE a3(I) = next(G, I)
    <3>1. CASE I = {}
      BY <3>1
    <3>2. CASE I # {}
      <4>. DEFINE m == Max(I)
                  J == I \ {m}
      <4>1. m \in I /\ m \in 1 .. 3 /\ \A y \in I : y <= m
        <5>1. I \in SUBSET (1 .. 3)
          BY <1>1
        <5>2. Max(I) \in I /\ \A y \in I : y <= Max(I)
          BY <3>2, <5>1, MaxOfThree
        <5>. QED
          BY <5>1, <5>2
      <4>2. next(G, I) = one(m, a3(J)) /\ J \in SUBSET (1 .. n)
        BY <3>2
      <4>. HIDE DEF m
      <4>3. CASE m = 3
        <5>1. a3(I) = one(3, a2(I)) /\ a2(J) = a2(I) /\ a3(J) = a2(J)
          BY <4>1, <4>3
        <5>. QED
          BY <4>2, <4>3, <5>1
      <4>4. CASE m = 2
        <5>1. 3 \notin I /\ 3 \notin J /\ 2 \notin J /\ 2 \in I /\ (1 \in J <=> 1 \in I)
          BY <4>1, <4>4
        <5>2. a3(I) = one(2, a1(I)) /\ a1(J) = a1(I) /\ a3(J) = a1(J)
          BY <5>1
        <5>. QED
          BY <4>2, <4>4, <5>2
      <4>5. CASE m = 1
        <5>1. 3 \notin I /\ 2 \notin I /\ 1 \in I /\ 1 \notin J /\ 2 \notin J /\ 3 \notin J
          BY <4>1, <4>5
        <5>2. a3(I) = one(1, s0) /\ a3(J) = s0
          BY <5>1
        <5>. QED
          BY <4>2, <4>5, <5>2
      <4>. QED
        BY <4>1, <4>3, <4>4, <4>5
    <3>. QED
      BY <3>1, <3>2
  <2>. HIDE DEF a3, next
  <2>2. G = [I \in SUBSET (1 .. n) |-> next(G, I)]
    BY <2>1
  <2>. HIDE DEF G
  <2>. QED
    BY <2>2
<1>. HIDE DEF F
<1>6. Below(F[{}], c)
  <2>1. {} \in SUBSET (1 .. n)
    OBVIOUS
  <2>2. F[{}] = next(F, {})
    <3>. HIDE DEF next
    <3>. QED
      BY <1>5, <2>1
  <2>. QED
    BY <1>3, <2>2
<1>7. ASSUME NEW k \in 1 .. n, Below(F[1 .. k - 1], c) PROVE Below(F[1 .. k], c)
  <2>1. k \in 1 .. 3 /\ (1 .. k) \in SUBSET (1 .. n) /\ (1 .. k) \in SUBSET (1 .. 3) /\ (1 .. k) # {}
        /\ k \in 1 .. k
    BY <1>1
  <2>2. Max(1 .. k) = k
    <3>1. Max(1 .. k) \in 1 .. k /\ k <= Max(1 .. k)
      BY <2>1, MaxOfThree
    <3>. QED
      BY <2>1, <3>1
  <2>3. (1 .. k) \ {k} = 1 .. k - 1
    BY <2>1
  <2>4. F[1 .. k] = next(F, 1 .. k)
    <3>. HIDE DEF next
    <3>. QED
      BY <1>5, <2>1
  <2>5. F[1 .. k] = one(k, F[1 .. k - 1])
    BY <2>1, <2>2, <2>3, <2>4
  <2>. QED
    BY <1>4, <1>7, <2>5
<1>8. Below(F[1 .. n], c)
  <2>1. 1 .. 1 - 1 = {} /\ 1 \in 1 .. n
    BY <1>1
  <2>2. Below(F[1 .. 1], c)
    <3>1. Below(F[1 .. 1 - 1], c)
      BY <1>6, <2>1
    <3>. QED
      BY <1>7, <2>1, <3>1
  <2>3. n >= 2 => Below(F[1 .. 2], c)
    <3>. SUFFICES ASSUME n >= 2 PROVE Below(F[1 .. 2], c)
      OBVIOUS
    <3>1. 2 \in 1 .. n /\ 2 - 1 = 1
      BY <1>1
    <3>2. Below(F[1 .. 2 - 1], c)
      BY <2>2, <3>1
    <3>. QED
      BY <1>7, <3>1, <3>2
  <2>4. n >= 3 => Below(F[1 .. 3], c)
    <3>. SUFFICES ASSUME n >= 3 PROVE Below(F[1 .. 3], c)
      OBVIOUS
    <3>1. 3 \in 1 .. n /\ 3 - 1 = 2 /\ n >= 2
      BY <1>1
    <3>2. Below(F[1 .. 3 - 1], c)
      BY <2>3, <3>1
    <3>. QED
      BY <1>7, <3>1, <3>2
  <2>5. n = 1 \/ n = 2 \/ n = 3
    BY <1>1
  <2>6. CASE n = 1
    BY <2>2, <2>6
  <2>7. CASE n = 2
    BY <2>3, <2>7
  <2>8. CASE n = 3
    BY <2>4, <2>8
  <2>. QED
    BY <2>5, <2>6, <2>7, <2>8
<1>. QED
  BY <1>2, <1>8 DEF Below

(* So is a remainder,                                                        *)
LEMMA RemainderBelow ==
  ASSUME NEW ix, NEW c, NEW level \in Wholes, NEW mass, NEW plans,
         NEW there, NEW r \in Remainder(ix, c, level, mass, plans, there)
  PROVE  OwnedBy(r, c)
<1>. DEFINE h == <<UnknownOf(level), c>>
<1>1. r = Row(<<c>>, h, mass, Unit, None) \/ r \in Decompose(ix, h, level, mass, plans)
  BY DEF Remainder
<1>2. HolderOf(h, c)
  BY UnknownNames, FirstHolder
<1>. HIDE DEF h
<1>3. CASE r \in Decompose(ix, h, level, mass, plans)
  BY <1>2, <1>3, DecomposedBelow
<1>4. CASE r = Row(<<c>>, h, mass, Unit, None)
  <2>1. r.subject = <<c>>
    BY <1>4 DEF Row
  <2>. QED
    BY <2>1, OwnersPlain DEF OwnedBy
<1>. QED
  BY <1>1, <1>3, <1>4

(* What is owned of a union.                                                 *)
LEMMA MineUnion ==
  ASSUME NEW w, NEW a, NEW b
  PROVE  Mine(w, a \cup b) = Mine(w, a) \cup Mine(w, b)
BY DEF Mine

(* and whether it is there already shows in the rows of its class.           *)
LEMMA RemainderAgrees ==
  ASSUME NEW ix, NEW w, NEW c, wants(w, c), NEW level \in Wholes,
         NEW mass, NEW plans, NEW there
  PROVE  Remainder(ix, c, level, mass, plans, Mine(w, there)) = Remainder(ix, c, level, mass, plans, there)
<1>. DEFINE holder == <<UnknownOf(level), c>>
            has(t) == \E r \in t : r.subject = holder \/ (r.subject = <<c>> /\ r.part = holder)
<1>1. Owners(holder) = {c} /\ Owners(<<c>>) = {c}
  BY UnknownNames, FirstHolder, HolderOwner, OwnersPlain
<1>. HIDE DEF holder
<1>2. has(Mine(w, there)) <=> has(there)
  BY <1>1 DEF Mine
<1>3. \A t : Remainder(ix, c, level, mass, plans, t) =
               IF has(t) THEN {}
               ELSE {Row(<<c>>, holder, mass, Unit, None)} \cup Decompose(ix, holder, level, mass, plans)
  BY DEF Remainder, holder
<1>. HIDE DEF has
<1>. QED
  BY <1>2, <1>3

(* The parts of one class with their gap.                                    *)
LEMMA PartLevelIs ==
  ASSUME NEW ix, NEW c, NEW level, NEW parts, NEW plans, NEW there
  PROVE  LET rows == {Row(<<c>>, <<s.part>>, s.amt, Unit, None) : s \in parts}
         IN  PartLevel(ix, c, level, parts, plans, there) =
               rows \cup IF plans = {} THEN balance(<<c>>, rows, Unit, level)
                         ELSE Remainder(ix, c, level,
                                IF SumAmt(rows) < Unit THEN Unit - SumAmt(rows) ELSE SumAmt(plans),
                                plans, there)
BY DEF PartLevel, Once

(* They are rows below the class,                                            *)
LEMMA PartLevelBelow ==
  ASSUME NEW ix, NEW c, NEW level \in Inner, NEW parts, NEW plans, NEW there,
         NEW r \in PartLevel(ix, c, level, parts, plans, there)
  PROVE  OwnedBy(r, c)
<1>. DEFINE rows == {Row(<<c>>, <<s.part>>, s.amt, Unit, None) : s \in parts}
            mass == IF SumAmt(rows) < Unit THEN Unit - SumAmt(rows) ELSE SumAmt(plans)
<1>1. PartLevel(ix, c, level, parts, plans, there) =
        rows \cup IF plans = {} THEN balance(<<c>>, rows, Unit, level)
                  ELSE Remainder(ix, c, level, mass, plans, there)
  BY PartLevelIs
<1>2. \A x \in rows : x.subject = <<c>>
  BY DEF Row
<1>3. level \in Wholes
  BY DEF Inner, Wholes
<1>. HIDE DEF rows, mass
<1>4. CASE r \in rows \/ r \in balance(<<c>>, rows, Unit, level)
  <2>1. r.subject = <<c>>
    BY <1>2, <1>4, BalanceOf
  <2>. QED
    BY <2>1, OwnersPlain DEF OwnedBy
<1>5. CASE r \in Remainder(ix, c, level, mass, plans, there)
  BY <1>3, <1>5, RemainderBelow
<1>. QED
  BY <1>1, <1>4, <1>5

(* the same whatever other classes are wanted.                               *)
LEMMA PartLevelAgrees ==
  ASSUME NEW ix, NEW w, NEW c, wants(w, c), NEW level \in Inner, NEW parts, NEW plans, NEW there
  PROVE  PartLevel(ix, c, level, parts, plans, Mine(w, there)) = PartLevel(ix, c, level, parts, plans, there)
<1>. DEFINE rows == {Row(<<c>>, <<s.part>>, s.amt, Unit, None) : s \in parts}
            mass == IF SumAmt(rows) < Unit THEN Unit - SumAmt(rows) ELSE SumAmt(plans)
<1>1. \A t : PartLevel(ix, c, level, parts, plans, t) =
               rows \cup IF plans = {} THEN balance(<<c>>, rows, Unit, level)
                         ELSE Remainder(ix, c, level, mass, plans, t)
  BY PartLevelIs
<1>2. level \in Wholes
  BY DEF Inner, Wholes
<1>. HIDE DEF rows, mass
<1>3. Remainder(ix, c, level, mass, plans, Mine(w, there)) = Remainder(ix, c, level, mass, plans, there)
  BY <1>2, RemainderAgrees
<1>. QED
  BY <1>1, <1>3

(* One map of the part-of plugin,                                            *)
LEMMA PartRowsAgree ==
  ASSUME NEW ix, NEW mapping, NEW level \in Inner, NEW inferred, NEW w, NEW there
  PROVE  PartRows(ix, mapping, level, inferred, w, Mine(w, there))
           = Mine(w, PartRows(ix, mapping, level, inferred, All, there))
<1>. DEFINE S == {c \in DOMAIN mapping : \/ mapping[c] # {}
                                         \/ c \in DOMAIN inferred /\ inferred[c] # {}}
            R(c, t) == PartLevel(ix, c, level, mapping[c], PlansAt(inferred, c, level), t)
<1>1. \A v, t : PartRows(ix, mapping, level, inferred, v, t) = UNION {R(c, t) : c \in {c \in S : wants(v, c)}}
  BY DEF PartRows
<1>2. ASSUME NEW c, NEW r \in R(c, there) PROVE OwnedBy(r, c)
  BY PartLevelBelow
<1>3. ASSUME NEW c, wants(w, c) PROVE R(c, Mine(w, there)) = R(c, there)
  <2>. DEFINE parts == mapping[c]
              plans == PlansAt(inferred, c, level)
  <2>. HIDE DEF parts, plans
  <2>1. PartLevel(ix, c, level, parts, plans, Mine(w, there)) = PartLevel(ix, c, level, parts, plans, there)
    BY <1>3, PartLevelAgrees
  <2>2. \A t : R(c, t) = PartLevel(ix, c, level, parts, plans, t)
    BY DEF parts, plans
  <2>. HIDE DEF R
  <2>. QED
    BY <2>1, <2>2
<1>. DEFINE Q(c) == R(c, there)
<1>4. PartRows(ix, mapping, level, inferred, w, Mine(w, there)) = UNION {Q(c) : c \in {c \in S : wants(w, c)}}
  <2>. HIDE DEF S, R
  <2>1. \A c \in {c \in S : wants(w, c)} : R(c, Mine(w, there)) = R(c, there)
    BY <1>3
  <2>. QED
    BY <1>1, <2>1
<1>5. PartRows(ix, mapping, level, inferred, All, there) = UNION {Q(c) : c \in S}
  <2>. HIDE DEF S, R
  <2>. QED
    BY <1>1 DEF wants
<1>6. \A c : \A r \in Q(c) : Owners(r.subject) = {c}
  <2>. HIDE DEF S, R
  <2>. QED
    BY <1>2 DEF OwnedBy
<1>. HIDE DEF S, Q
<1>7. UNION {Q(c) : c \in {c \in S : wants(w, c)}} = Mine(w, UNION {Q(c) : c \in S})
  BY <1>6 DEF Mine, wants
<1>. QED
  BY <1>4, <1>5, <1>7

(* the chains that start at a product,                                       *)
LEMMA ProductsAgree ==
  ASSUME NEW ix, NEW inferred, NEW w, NEW there
  PROVE  ProductRemainders(ix, inferred, w, Mine(w, there))
           = Mine(w, ProductRemainders(ix, inferred, All, there))
<1>. DEFINE plans(c) == PlansAt(inferred, c, "Product")
            S == {c \in DOMAIN inferred : plans(c) # {}}
            R(c, t) == Remainder(ix, c, "Product", SumAmt(plans(c)), plans(c), t)
<1>1. \A v, t : ProductRemainders(ix, inferred, v, t) = UNION {R(c, t) : c \in {c \in S : wants(v, c)}}
  BY DEF ProductRemainders
<1>. HIDE DEF plans
<1>2. ASSUME NEW c, NEW r \in R(c, there) PROVE OwnedBy(r, c)
  <2>1. "Product" \in Wholes
    BY DEF Wholes
  <2>. QED
    BY <2>1, RemainderBelow
<1>3. ASSUME NEW c, wants(w, c) PROVE R(c, Mine(w, there)) = R(c, there)
  <2>. DEFINE mass == SumAmt(plans(c))
              own == plans(c)
  <2>. HIDE DEF mass, own
  <2>1. "Product" \in Wholes
    BY DEF Wholes
  <2>2. Remainder(ix, c, "Product", mass, own, Mine(w, there)) = Remainder(ix, c, "Product", mass, own, there)
    BY <1>3, <2>1, RemainderAgrees
  <2>. QED
    BY <2>2 DEF mass, own
<1>. DEFINE Q(c) == R(c, there)
<1>4. ProductRemainders(ix, inferred, w, Mine(w, there)) = UNION {Q(c) : c \in {c \in S : wants(w, c)}}
  <2>. HIDE DEF S, R
  <2>1. \A c \in {c \in S : wants(w, c)} : R(c, Mine(w, there)) = R(c, there)
    BY <1>3
  <2>. QED
    BY <1>1, <2>1
<1>5. ProductRemainders(ix, inferred, All, there) = UNION {Q(c) : c \in S}
  <2>. HIDE DEF S, R
  <2>. QED
    BY <1>1 DEF wants
<1>6. \A c : \A r \in Q(c) : Owners(r.subject) = {c}
  <2>. HIDE DEF S, R
  <2>. QED
    BY <1>2 DEF OwnedBy
<1>. HIDE DEF S, Q
<1>7. UNION {Q(c) : c \in {c \in S : wants(w, c)}} = Mine(w, UNION {Q(c) : c \in S})
  BY <1>6 DEF Mine, wants
<1>. QED
  BY <1>4, <1>5, <1>7

(* the three maps one after the other,                                       *)
LEMMA StructureAgrees ==
  ASSUME NEW ix, NEW tops, NEW inferred, NEW w, NEW up
  PROVE  Structure(ix, tops, inferred, w, Mine(w, up)) = Mine(w, Structure(ix, tops, inferred, All, up))
<1>. DEFINE sec(v, u, rows, nodes, level) ==
              rows \cup PartRows(ix, Shares(ix, nodes, level), level, inferred, v, u \cup rows)
            three(v, u) ==
              sec(v, u, sec(v, u, sec(v, u, {}, tops, "Component"), tops, "Material"),
                  component_nodes(ix), "Material")
<1>1. \A v, u : Structure(ix, tops, inferred, v, u) = three(v, u)
  BY DEF Structure, Once
<1>2. ASSUME NEW rows, NEW nodes, NEW level \in Inner
      PROVE  sec(w, Mine(w, up), Mine(w, rows), nodes, level) = Mine(w, sec(All, up, rows, nodes, level))
  <2>1. Mine(w, up) \cup Mine(w, rows) = Mine(w, up \cup rows)
    BY MineUnion
  <2>. DEFINE shares == Shares(ix, nodes, level)
  <2>. HIDE DEF shares
  <2>2. PartRows(ix, shares, level, inferred, w, Mine(w, up \cup rows))
          = Mine(w, PartRows(ix, shares, level, inferred, All, up \cup rows))
    BY PartRowsAgree
  <2>3. sec(w, Mine(w, up), Mine(w, rows), nodes, level)
          = Mine(w, rows) \cup PartRows(ix, shares, level, inferred, w, Mine(w, up \cup rows))
    BY <2>1 DEF shares
  <2>4. sec(All, up, rows, nodes, level) = rows \cup PartRows(ix, shares, level, inferred, All, up \cup rows)
    BY DEF shares
  <2>. DEFINE own == PartRows(ix, shares, level, inferred, All, up \cup rows)
  <2>. HIDE DEF sec, own
  <2>5. Mine(w, rows \cup own) = Mine(w, rows) \cup Mine(w, own)
    BY MineUnion
  <2>. QED
    BY <2>2, <2>3, <2>4, <2>5 DEF own
<1>3. Mine(w, {}) = {}
  BY DEF Mine
<1>. HIDE DEF sec
<1>4. three(w, Mine(w, up)) = Mine(w, three(All, up))
  <2>1. "Component" \in Inner /\ "Material" \in Inner
    BY DEF Inner
  <2>. QED
    BY <1>2, <1>3, <2>1
<1>. HIDE DEF three
<1>. QED
  BY <1>1, <1>4

(* and the plugin.                                                           *)
LEMMA PartOfAgrees ==
  ASSUME NEW ix, NEW tops, NEW w, Structural(ix, w), NEW up
  PROVE  PartOf(ix, tops, w, Mine(w, up)) = Mine(w, PartOf(ix, tops, All, up))
<1>. DEFINE inferred == Inferred(ix, tops)
            rows(v, u) == Structure(ix, tops, inferred, v, u)
            rest(v, u) == ProductRemainders(ix, inferred, v, u \cup rows(v, u))
<1>1. \A v, u : Structural(ix, v) =>
                  PartOf(ix, tops, v, u) = dedup(rows(v, u) \cup rest(v, u), u)
  BY DEF PartOf, Once
<1>2. Structural(ix, All)
  BY DEF Structural
<1>. HIDE DEF inferred
<1>3. rows(w, Mine(w, up)) = Mine(w, rows(All, up))
  BY StructureAgrees
<1>. HIDE DEF rows
<1>4. rest(w, Mine(w, up)) = Mine(w, rest(All, up))
  <2>1. Mine(w, up) \cup rows(w, Mine(w, up)) = Mine(w, up \cup rows(All, up))
    BY <1>3, MineUnion
  <2>2. ProductRemainders(ix, inferred, w, Mine(w, up \cup rows(All, up)))
          = Mine(w, ProductRemainders(ix, inferred, All, up \cup rows(All, up)))
    BY ProductsAgree
  <2>. QED
    BY <2>1, <2>2
<1>. HIDE DEF rest
<1>5. rows(w, Mine(w, up)) \cup rest(w, Mine(w, up)) = Mine(w, rows(All, up) \cup rest(All, up))
  BY <1>3, <1>4, MineUnion
<1>. DEFINE all == rows(All, up) \cup rest(All, up)
<1>6. PartOf(ix, tops, w, Mine(w, up)) = dedup(Mine(w, all), Mine(w, up))
  BY <1>1, <1>5
<1>7. PartOf(ix, tops, All, up) = dedup(all, up)
  BY <1>1, <1>2
<1>. HIDE DEF all
<1>. QED
  BY <1>6, <1>7, DedupAgrees

-----------------------------------------------------------------------------
(* A projection run.                                                         *)

(* What each plugin has made follows from the index and the projection.      *)
Tops == top_instances(idx, {})
TopsAfter == top_instances(idx, walked)
Ran(p) == p \in DOMAIN produced
RunInv ==
  /\ graph \in Graphs
  /\ idx # None => idx = build_index(graph)
  /\ DOMAIN produced \subseteq DOMAIN Deps
  /\ DOMAIN produced # {} => idx # None
  /\ Ran("component") => Ran("elements")
  /\ Ran("partof") => Ran("component")
  /\ walked = IF Ran("partof") /\ Structural(idx, want) THEN WalkedBy(idx) ELSE {}
  /\ Ran("elements") => produced["elements"] = ElementAmounts(idx, Tops, want)
  /\ Ran("component") => produced["component"] = Component(idx, want, produced["elements"])
  /\ Ran("partof") => produced["partof"] =
       PartOf(idx, TopsAfter, want, produced["elements"] \cup produced["component"])
  /\ status = "served" => /\ Ran("partof")
                          /\ stamps = Uncertainty(graph, idx, TopsAfter, Rows)

(* The plugins and what each waits for.                                      *)
LEMMA PluginsAre ==
  /\ DOMAIN Deps = {"elements", "component", "partof"}
  /\ Deps["elements"] = {} /\ Deps["component"] = {"elements"}
  /\ Deps["partof"] = {"elements", "component"}
BY DEF Deps

(* Every step keeps this.                                                    *)
LEMMA RunStep == RunInv /\ [Next]_vars => RunInv'
<1>. SUFFICES ASSUME RunInv, [Next]_vars PROVE RunInv'
  OBVIOUS
<1>. USE DEF Ran, Tops, TopsAfter
<1>1. CASE UNCHANGED vars
  BY <1>1 DEF RunInv, vars, Rows
<1>2. CASE Index
  BY <1>2 DEF RunInv, Index, Rows
<1>3. CASE RunElements
  BY <1>3, PluginsAre DEF RunInv, RunElements, Ready, Produce, Rows
<1>4. CASE Refuse
  BY <1>4 DEF RunInv, Refuse, Ready, Rows
<1>5. CASE RunComponent
  <2>1. Upstream("component") = produced["elements"]
    BY PluginsAre DEF Upstream
  <2>. QED
    BY <1>5, <2>1, PluginsAre DEF RunInv, RunComponent, Ready, Produce, Rows
<1>6. CASE RunPartOf
  <2>1. Upstream("partof") = produced["elements"] \cup produced["component"]
    BY PluginsAre DEF Upstream
  <2>. QED
    BY <1>6, <2>1, PluginsAre DEF RunInv, RunPartOf, Ready, Produce, Rows
<1>7. CASE RunUncertainty
  BY <1>7, PluginsAre DEF RunInv, RunUncertainty, Rows
<1>. QED
  BY <1>1, <1>2, <1>3, <1>4, <1>5, <1>6, <1>7 DEF Next

(* It holds throughout.                                                      *)
LEMMA RunInvariant == Spec => []RunInv
<1>1. Init => RunInv
  BY DEF Init, RunInv, Ran
<1>. QED
  BY <1>1, RunStep, PTL DEF Spec

(* What is served is then what the full projection has of the wanted         *)
(* classes.                                                                  *)
LEMMA ServedAgrees == RunInv => OnlyAgrees
<1>. SUFFICES ASSUME RunInv, status = "served", Structural(idx, want)
              PROVE  /\ Rows = Owned(FullRows)
                     /\ stamps = Owned(Uncertainty(graph, idx, top_instances(idx, WalkedBy(idx)), FullRows))
  BY DEF OnlyAgrees
<1>. DEFINE after == top_instances(idx, WalkedBy(idx))
            first == ElementAmounts(idx, Tops, All)
            comp == Component(idx, All, first)
            second == first \cup comp
            part == PartOf(idx, after, All, second)
<1>1. Ran("elements") /\ Ran("component") /\ Ran("partof") /\ walked = WalkedBy(idx)
      /\ idx = build_index(graph) /\ graph \in Graphs /\ DOMAIN produced = DOMAIN Deps
  BY PluginsAre DEF RunInv, Ran
<1>2. Apart(idx)
  BY <1>1, GraphsAssumption DEF Apart, build_index
<1>3. FullRows = second \cup part
  BY DEF FullRows, Tops
<1>4. \A rows : Owned(rows) = Mine(want, rows)
  BY DEF Owned, Mine
<1>5. TopsAfter = after
  BY <1>1 DEF TopsAfter
<1>. HIDE DEF after
<1>6. produced["elements"] = Mine(want, first)
  BY <1>1, ElementsAgree DEF RunInv
<1>. HIDE DEF first
<1>7. produced["component"] = Mine(want, comp)
  <2>1. produced["component"] = Component(idx, want, Mine(want, first))
    BY <1>1, <1>6 DEF RunInv
  <2>. QED
    BY <1>2, <2>1, ComponentAgrees
<1>. HIDE DEF comp
<1>8. produced["elements"] \cup produced["component"] = Mine(want, second)
  BY <1>6, <1>7, MineUnion
<1>. HIDE DEF second
<1>9. produced["partof"] = Mine(want, part)
  <2>1. produced["partof"] = PartOf(idx, after, want, Mine(want, second))
    BY <1>1, <1>5, <1>8 DEF RunInv
  <2>. QED
    BY <2>1, PartOfAgrees
<1>. HIDE DEF part
<1>10. Rows = Mine(want, second \cup part)
  <2>1. Rows = (produced["elements"] \cup produced["component"]) \cup produced["partof"]
    BY <1>1, PluginsAre DEF Rows
  <2>. QED
    BY <1>8, <1>9, <2>1, MineUnion
<1>. DEFINE full == second \cup part
<1>11. Rows = Mine(want, full) /\ FullRows = full
  BY <1>3, <1>10
<1>. HIDE DEF full
<1>12. stamps = Mine(want, Uncertainty(graph, idx, after, full))
  <2>1. stamps = Uncertainty(graph, idx, after, Mine(want, full))
    BY <1>5, <1>11 DEF RunInv
  <2>. QED
    BY <2>1, StampsAgree
<1>. QED
  BY <1>4, <1>11, <1>12 DEF after

(* A projection of some classes serves exactly the rows and stamps that the  *)
(* projection of all serves for them (context.py, store.py:138).             *)
THEOREM ProjectionsAgree == Spec => []OnlyAgrees
BY RunInvariant, ServedAgrees, PTL
=============================================================================
