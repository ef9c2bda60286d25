----------------------------- MODULE Statements -----------------------------
(* The index of a composition graph and the walks over it (builder/index.py  *)
(* build_index, builder/aggregate.py).                                       *)
(*                                                                           *)
(* A graph is [level, cls, mass, stated, timed, under]: level and class of   *)
(* every node, the measured mass of some (0: none), the statements, the      *)
(* classes with a reference time, and the pairs class-below-class.  A        *)
(* statement is [whole, part, best, lo, up, dist, limit, scores], fractions  *)
(* in quarters, `up` the upper margin (hi - best)/best in quarters.          *)
(*                                                                           *)
(* The index keeps, for every node, the paths below it: sequences of edges.  *)
(* Every walk of aggregate.py is a sum or a maximum over some of them.  A    *)
(* component has one whole; materials and elements may be shared.            *)
EXTENDS Ruleset, Functions

CONSTANT Unit        \* the integer that stands for 1 kg/kg

Levels == <<"Product", "Component", "Material", "Element">>
Rank(level) == CHOOSE i \in 1..4 : Levels[i] = level

(* f quarters of v, exact for the depths of the instances.                   *)
Quarter(v, f) == (v * f) \div 4

LevelsSkipped(g, s) == Rank(g.level[s.part]) - Rank(g.level[s.whole]) > 1

(* The half-width of a rectangular statement is read from the distribution   *)
(* or derived from the scores; no rule for the vector means a width of zero. *)
HalfWidth(s) ==
  LET derived == limit_from_scores(s.scores)
  IN  IF s.limit # None THEN s.limit ELSE IF derived = None THEN 0 ELSE derived

Low(s) == IF s.dist = "rectangular" THEN (s.best * (4 - HalfWidth(s))) \div 4 ELSE s.lo

(* The lightest credible fraction: the minimum of a bounded distribution.    *)
Floor(s) == IF s.dist = "normal" THEN s.best ELSE Low(s)

(* The spread an edge carries (_edge_rel_u), and its score (edge_dq).        *)
EdgeSpread(s) == OfLimit(IF s.dist = "rectangular" THEN HalfWidth(s) ELSE s.up)
RelationDq(s) ==
  LET u == statement_uncertainty(s.scores) IN IF u = None THEN None ELSE u.dqs

Edge(s) == [whole |-> s.whole, part |-> s.part, best |-> s.best, lo |-> Low(s),
            floor |-> Floor(s), u2 |-> IF s.best = 0 THEN 0 ELSE EdgeSpread(s),
            dqs |-> RelationDq(s)]

PathsBelow(nodes, adj) ==
  LET below[n \in nodes] ==
        UNION {{<<e>>} \cup {<<e>> \o p : p \in below[e.part]} : e \in {e \in adj : e.whole = n}}
  IN  [n \in nodes |-> below[n]]

build_index(g) ==
  LET steps == {s \in g.stated : ~LevelsSkipped(g, s)}
      adj == {Edge(s) : s \in steps}
  IN  [level |-> g.level, cls |-> g.cls, mass |-> g.mass, timed |-> g.timed, under |-> g.under,
       adj |-> adj, below |-> PathsBelow(DOMAIN g.level, adj),
       coarse |-> {[whole |-> s.whole, part |-> s.part, lo |-> Low(s)] : s \in g.stated \ steps}]

---------------------------------------------------------------------------
(* Walks.                                                                    *)

Best(path) == FoldLeft(LAMBDA v, e : Quarter(v, e.best), Unit, path)
Lightest(path) == FoldLeft(LAMBDA v, e : Quarter(v, e.floor), Unit, path)
Lowest(path) == FoldLeft(LAMBDA v, e : Quarter(v, e.lo), Unit, path)

ToPart(idx, n, part) == {p \in idx.below[n] : Last(p).part = part}
ToElement(idx, n, ec) ==
  {p \in idx.below[n] : idx.level[Last(p).part] = "Element" /\ idx.cls[Last(p).part] = ec}

ClassesAt(idx, level) == {idx.cls[n] : n \in {n \in DOMAIN idx.level : idx.level[n] = level}}

(* The wholes that are no part.  The adjacency is a defaultdict: a walk that *)
(* looked up a node without edges left it there as a whole (`walked`).       *)
top_instances(idx, walked) ==
  ({e.whole : e \in idx.adj} \cup walked) \ {e.part : e \in idx.adj}

(* The one whole of the tree a product or component belongs to.              *)
TopOf(idx, n) ==
  IF \E e \in idx.adj : e.part = n
  THEN CHOOSE t \in {e.whole : e \in idx.adj} :
         ToPart(idx, t, n) # {} /\ \A e \in idx.adj : e.part # t
  ELSE n

element_in_whole(idx, n, ec) == MapThenSumSet(Best, ToElement(idx, n, ec))

(* The leaf terms below some nodes, Share(n, v) being what v counts for in   *)
(* the amount.  Only the last edge of a path carries uncertainty and score.  *)
Terms(idx, nodes, Share(_, _), ec) ==
  UNION {{[of |-> p, val |-> Share(n, Best(p)), u2 |-> Last(p).u2, dqs |-> Last(p).dqs]
            : p \in ToElement(idx, n, ec)} : n \in nodes}

(* Uncertainty and score of an equal mean (element_uncertainty_over_nodes).  *)
over_nodes(idx, nodes, ec) ==
  combine(Terms(idx, nodes, LAMBDA n, v : v \div Cardinality(nodes), ec))

(* The twin of a mass-weighted mean; the sum of the masses is left undivided *)
(* here as in the amount.                                                    *)
\* mutant: the nodes count equally
BugOverNodesWeighted(idx, nodes, ec) == over_nodes(idx, nodes, ec)
over_nodes_weighted(idx, nodes, ec) ==
  combine(Terms(idx, {n \in nodes : idx.mass[n] > 0}, LAMBDA n, v : v * idx.mass[n], ec))

(* The share of a class at a level, not looking below a node of that class.  *)
constituent_total(idx, root, level, pc) ==
  LET hit(n) == idx.level[n] = level /\ idx.cls[n] = pc
  IN  MapThenSumSet(Best, {p \in idx.below[root] :
        hit(Last(p).part) /\ \A i \in 1..Len(p) - 1 : ~hit(p[i].part)})

---------------------------------------------------------------------------
(* The unknown chains (unknowns): for every part stated across levels, the   *)
(* amount that no known path and no deeper statement accounts for.           *)

granular_sum(idx, whole, part) == MapThenSumSet(Lightest, ToPart(idx, whole, part))

path_fraction(idx, n, top) ==
  IF n = top THEN Unit ELSE Max({0} \cup {Lowest(p) : p \in ToPart(idx, top, n)})

Between(w, p) == SubSeq(Levels, Rank(w) + 1, Rank(p) - 1)

(* The levels between: those of the deepest known path, else the ranks'.     *)
known_path_levels(idx, whole, part) ==
  LET known == ToPart(idx, whole, part)
      deepest == CHOOSE p \in known : \A q \in known : Len(p) >= Len(q)
  IN  IF known = {} THEN Between(idx.level[whole], idx.level[part])
      ELSE [i \in 1..Len(deepest) - 1 |-> idx.level[deepest[i].part]]

(* The bounders of a part in one tree, deepest level first.                  *)
Bounders(idx, top, part) ==
  SetToSortSeq({c \in idx.coarse : c.part = part /\ TopOf(idx, c.whole) = top},
               LAMBDA c, d : Rank(idx.level[c.whole]) > Rank(idx.level[d.whole]))

Plan(idx, top, c, amount) ==
  [top |-> top, whole |-> c.whole, part |-> c.part, amount |-> amount,
   fillers |-> known_path_levels(idx, c.whole, c.part)]

(* What a bounder says of its part, per kg of the top.                       *)
Bound(idx, top, c) == Quarter(path_fraction(idx, c.whole, top), c.lo)

\* mutant: every bounder subtracts what is known, none the deeper bounders
BugPlansOf(idx, top, part) ==
  LET known == granular_sum(idx, top, part)
      open == {c \in ToSet(Bounders(idx, top, part)) : Bound(idx, top, c) > known}
  IN  {Plan(idx, top, c, Bound(idx, top, c) - known) : c \in open}
PlansOf(idx, top, part) ==
  LET Step(acc, c) ==
        Once(Bound(idx, top, c), LAMBDA bound :
          [deeper |-> bound,
           plans |-> IF bound > acc.deeper
                     THEN acc.plans \cup {Plan(idx, top, c, bound - acc.deeper)} ELSE acc.plans])
  IN  FoldLeft(Step, [deeper |-> granular_sum(idx, top, part), plans |-> {}],
               Bounders(idx, top, part)).plans

unknowns(idx) ==
  UNION {PlansOf(idx, TopOf(idx, c.whole), c.part) : c \in idx.coarse}

(* The nodes the planning looked up: its tops and everything below its       *)
(* wholes.                                                                   *)
WalkedBy(idx) ==
  UNION {{n} \cup {Last(p).part : p \in idx.below[n]}
           : n \in {c.whole : c \in idx.coarse} \cup {TopOf(idx, c.whole) : c \in idx.coarse}}
=============================================================================
