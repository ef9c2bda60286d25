------------------------------- MODULE Plugins -------------------------------
(* The plugins that put amounts into the served graph: elements, component,  *)
(* part-of and uncertainty (resolver/plugins/*.py, resolver/uncertainty.py). *)
(*                                                                           *)
(* An amount is a row [subject, part, amt, base, spread]: amt/base kg of     *)
(* part per kg of subject, spread the uncertainty it carries or None.  The   *)
(* subject is the sequence of the names joined by "_in_": <<"motor">>,       *)
(* <<"motor", "car">>, <<"unknownMaterial", "car">>.  As in the graph, a     *)
(* (subject, part) pair is one node, and two rows of a pair are two values   *)
(* of that node.                                                             *)
(*                                                                           *)
(* Groups of classes are timeless here, so no class is averaged over its     *)
(* subclasses; that part of every plugin is module Rollup.                   *)
EXTENDS Statements

CONSTANTS All,         \* the projection of every class (only=None)
          ClassLevel   \* the TBox: the level of every class, groups included

UnknownOf(level) == CASE level = "Product"   -> "unknownProduct"
                      [] level = "Component" -> "unknownComponent"
                      [] level = "Material"  -> "unknownMaterial"
                      [] OTHER               -> "unknownElement"
Unknowns == {UnknownOf(Levels[i]) : i \in 1..4}

wants(want, c) == want = All \/ c \in want

Row(subject, part, amt, base, spread) ==
  [subject |-> subject, part |-> part, amt |-> amt, base |-> base, spread |-> spread]

SumAmt(rows) == MapThenSumSet(LAMBDA r : r.amt, rows)

(* The filler row that brings a level to one; an overshoot gets none.        *)
balance(subject, rows, base, level) ==
  Once(base - SumAmt(rows), LAMBDA gap :
    IF gap <= 0 THEN {} ELSE {Row(subject, <<UnknownOf(level)>>, gap, base, None)})

(* A remainder a dependency already has is dropped.  Within one plugin a     *)
(* (subject, part) is one node, so there is nothing else to collapse.        *)
dedup(rows, seen) ==
  {r \in rows : ~(/\ Head(r.part) \in Unknowns
                  /\ \E s \in seen : s.subject = r.subject /\ s.part = r.part)}

ElementClasses(idx) == ClassesAt(idx, "Element")

(* Amounts of the elements with a positive sum, and the balance of their     *)
(* level.                                                                    *)
ElementLevel(idx, subject, base, sums, spreads) ==
  Once({r \in {Row(subject, <<ec>>, sums[ec], base, spreads[ec]) : ec \in DOMAIN sums} : r.amt > 0},
       LAMBDA named :
         IF named = {} THEN {} ELSE named \cup balance(subject, named, base, "Element"))

Mean(nodes, Of(_)) == MapThenSumSet(Of, nodes) \div Cardinality(nodes)

---------------------------------------------------------------------------
(* elements.py: per class the equal mean over its top instances.             *)

InstancesOf(idx, nodes, c) == {n \in nodes : idx.cls[n] = c}
LeafClasses(idx, nodes) == {idx.cls[n] : n \in nodes}

(* Classes of top instances without a reference time stop the projection.    *)
MissingTime(idx, tops) ==
  {c \in LeafClasses(idx, tops) : /\ c \notin idx.timed
                                  /\ ClassLevel[c] \in {"Product", "Component"}}

ElementAmounts(idx, tops, want) ==
  LET Of(c) ==
        ElementLevel(idx, <<c>>, Unit,
          [ec \in ElementClasses(idx) |->
             Mean(InstancesOf(idx, tops, c), LAMBDA n : element_in_whole(idx, n, ec))],
          [ec \in ElementClasses(idx) |-> None])
  IN  UNION {Of(c) : c \in {c \in LeafClasses(idx, tops) : wants(want, c)}}

---------------------------------------------------------------------------
(* component.py.                                                             *)

component_nodes(idx) == {n \in DOMAIN idx.level : idx.level[n] = "Component"}
ProductOf(idx, n) == idx.cls[TopOf(idx, n)]

(* One mean over nodes, and its spread over the same nodes.                  *)
MeanRows(idx, subject, nodes) ==
  ElementLevel(idx, subject, Unit,
    [ec \in ElementClasses(idx) |-> Mean(nodes, LAMBDA n : element_in_whole(idx, n, ec))],
    [ec \in ElementClasses(idx) |-> over_nodes(idx, nodes, ec)])

ClassRows(idx, cc) == MeanRows(idx, <<cc>>, InstancesOf(idx, component_nodes(idx), cc))
LeafRows(idx, want) ==
  UNION {ClassRows(idx, cc) :
           cc \in {cc \in LeafClasses(idx, component_nodes(idx)) : wants(want, cc)}}

InProduct(idx, cc, pc) ==
  {n \in InstancesOf(idx, component_nodes(idx), cc) : ProductOf(idx, n) = pc}

(* A scope is wanted with its component or with its product.                 *)
\* mutant: a scope is wanted with its component only
BugScopeWanted(want, cc, pc) == wants(want, cc)
ScopeWanted(want, cc, pc) == wants(want, cc) \/ wants(want, pc)

ScopeRows(idx, want) ==
  UNION {MeanRows(idx, <<s[1], s[2]>>, InProduct(idx, s[1], s[2])) :
           s \in {s \in {<<idx.cls[n], ProductOf(idx, n)>> : n \in component_nodes(idx)}
                    : ScopeWanted(want, s[1], s[2])}}

(* <group>_in_<product>: the mass-weighted sum over the leaves of a group,   *)
(* whose mass is the sum of theirs.                                          *)
Groups(idx) ==
  {u[2] : u \in idx.under} \ LeafClasses(idx, component_nodes(idx))
GroupNodes(idx, grp, pc) ==
  {n \in component_nodes(idx) : <<idx.cls[n], grp>> \in idx.under /\ ProductOf(idx, n) = pc}
GroupScope(idx, grp, pc) ==
  LET nodes == GroupNodes(idx, grp, pc)
      mass == MapThenSumSet(LAMBDA n : idx.mass[n], nodes)
  IN  IF mass = 0 THEN {}
      ELSE ElementLevel(idx, <<grp, pc>>, Unit * mass,
             [ec \in ElementClasses(idx) |->
                MapThenSumSet(LAMBDA n : element_in_whole(idx, n, ec) * idx.mass[n], nodes)],
             [ec \in ElementClasses(idx) |-> over_nodes_weighted(idx, nodes, ec)])
GroupRows(idx, want) ==
  LET products == {ProductOf(idx, n) : n \in component_nodes(idx)}
  IN  UNION {GroupScope(idx, s[1], s[2]) :
               s \in {s \in Groups(idx) \X products : ScopeWanted(want, s[1], s[2])}}

Component(idx, want, upstream) ==
  dedup(LeafRows(idx, want) \cup ScopeRows(idx, want) \cup GroupRows(idx, want), upstream)

---------------------------------------------------------------------------
(* partof.py.                                                                *)

(* [class -> {[part, amt]}] at a level, over some nodes.                     *)
Shares(idx, nodes, level) ==
  [c \in LeafClasses(idx, nodes) |->
     {s \in {[part |-> pc, amt |-> Mean(InstancesOf(idx, nodes, c),
                                        LAMBDA n : constituent_total(idx, n, level, pc))]
               : pc \in ClassesAt(idx, level)} : s.amt > 0}]

(* The unknown chains of a class: the mean over its top instances of what    *)
(* unknowns() plans for each, one per first level, tail and part class.      *)
ChainKey(idx, p) ==
  [first |-> IF p.fillers = <<>> THEN idx.level[p.part] ELSE Head(p.fillers),
   tail |-> IF p.fillers = <<>> THEN <<>> ELSE Tail(p.fillers),
   part |-> idx.cls[p.part]]
MeanChains(idx, plans, instances) ==
  {[key |-> k, amt |-> MapThenSumSet(LAMBDA p : p.amount, {p \in plans : ChainKey(idx, p) = k})
                         \div Cardinality(instances)]
     : k \in {ChainKey(idx, p) : p \in plans}}
Inferred(idx, tops) ==
  Once(unknowns(idx), LAMBDA plans :
    [c \in LeafClasses(idx, tops) |->
       MeanChains(idx, {p \in plans : p.top \in InstancesOf(idx, tops, c)}, InstancesOf(idx, tops, c))])

(* The content of an unknown holder, one level down at a time: a chain that  *)
(* ends at a level is named there, at most as much as the holder has; what   *)
(* is left goes into the next holder.  A chain whose part is not of the      *)
(* level it ends at is dropped.                                              *)
Named(idx, ending, s, child) ==
  {Row(s.holder, <<pc>>,
       Min({MapThenSumSet(LAMBDA p : p.amt, {p \in ending : p.key.part = pc}), s.mass}), s.mass, None)
     : pc \in {pc \in {p.key.part : p \in ending} : ClassLevel[pc] = child}}

Held(s, child, named, rest) ==
  [holder |-> <<UnknownOf(child)>> \o s.holder, mass |-> rest, depth |-> s.depth + 1,
   rows |-> s.rows \cup named \cup
            IF rest > 0 THEN {Row(s.holder, <<UnknownOf(child)>> \o s.holder, rest, s.mass, None)}
            ELSE {}]

Fill(idx, plans, s, child) ==
  IF s.mass <= 0 THEN s
  ELSE Once(Named(idx, {p \in plans : Len(p.key.tail) = s.depth}, s, child),
            LAMBDA named : Held(s, child, named, s.mass - SumAmt(named)))

Decompose(idx, holder, level, mass, plans) ==
  FoldLeft(LAMBDA s, child : Fill(idx, plans, s, child),
           [holder |-> holder, mass |-> mass, depth |-> 0, rows |-> {}],
           SubSeq(Levels, Rank(level) + 1, 4)).rows

(* A remainder of mass kg under a class: a holder with its content, unless   *)
(* this holder is there already.                                             *)
Remainder(idx, c, level, mass, plans, there) ==
  LET holder == <<UnknownOf(level), c>>
  IN  IF \E r \in there : r.subject = holder \/ (r.subject = <<c>> /\ r.part = holder) THEN {}
      ELSE {Row(<<c>>, holder, mass, Unit, None)} \cup Decompose(idx, holder, level, mass, plans)

PlansAt(inferred, c, level) ==
  IF c \in DOMAIN inferred THEN {p \in inferred[c] : p.key.first = level} ELSE {}

(* The parts of one class at a level, then the gap: a plain filler, or the   *)
(* holder of the chains that start here (of their own mass, without a gap).  *)
PartLevel(idx, c, level, parts, plans, there) ==
  Once({Row(<<c>>, <<s.part>>, s.amt, Unit, None) : s \in parts}, LAMBDA rows :
    rows \cup
      IF plans = {} THEN balance(<<c>>, rows, Unit, level)
      ELSE Remainder(idx, c, level,
             IF SumAmt(rows) < Unit THEN Unit - SumAmt(rows) ELSE SumAmt(plans), plans, there))

(* A class without parts has rows only if something was inferred for it.     *)
PartRows(idx, mapping, level, inferred, want, there) ==
  LET shown == {c \in DOMAIN mapping : /\ wants(want, c)
                                       /\ \/ mapping[c] # {}
                                          \/ c \in DOMAIN inferred /\ inferred[c] # {}}
  IN  UNION {PartLevel(idx, c, level, mapping[c], PlansAt(inferred, c, level), there) : c \in shown}

(* Chains that start at product level (a product inside a product).          *)
ProductRemainders(idx, inferred, want, there) ==
  UNION {Remainder(idx, c, "Product", SumAmt(PlansAt(inferred, c, "Product")),
                   PlansAt(inferred, c, "Product"), there)
           : c \in {c \in DOMAIN inferred : wants(want, c) /\ PlansAt(inferred, c, "Product") # {}}}

Structural(idx, want) ==
  want = All \/ \E c \in want : ClassLevel[c] \in {"Product", "Component", "Material"}

(* The three maps, in this order: each sees the rows of those before it.     *)
Structure(idx, tops, inferred, want, upstream) ==
  LET Section(rows, nodes, level) ==
        rows \cup PartRows(idx, Shares(idx, nodes, level), level, inferred, want, upstream \cup rows)
  IN  Once(Section({}, tops, "Component"), LAMBDA first :
        Once(Section(first, tops, "Material"), LAMBDA second :
          Section(second, component_nodes(idx), "Material")))

PartOf(idx, tops, want, upstream) ==
  IF ~Structural(idx, want) THEN {}
  ELSE Once(Inferred(idx, tops), LAMBDA inferred :
         Once(Structure(idx, tops, inferred, want, upstream), LAMBDA rows :
           dedup(rows \cup ProductRemainders(idx, inferred, want, upstream \cup rows), upstream)))

---------------------------------------------------------------------------
(* uncertainty.py: stamps on the amounts of the other plugins.               *)

(* What a statement says of its own uncertainty: the half-width of its       *)
(* distribution, else the band of its scores.                                *)
StatementSigma(s) ==
  LET limit == IF s.limit # None \/ s.dist # "rectangular" THEN s.limit
               ELSE limit_from_scores(s.scores)
  IN  Once(statement_uncertainty(s.scores), LAMBDA res :
        IF limit = None THEN res
        ELSE [u2 |-> OfLimit(limit), dqs |-> IF res = None THEN None ELSE res.dqs])

Contribution(of, val, sigma) == [of |-> of, val |-> val, u2 |-> sigma.u2, dqs |-> sigma.dqs]

(* The statements between two classes, coarse ones included.                 *)
Contributions(stated, of, val) ==
  {Contribution(of, val, sigma) : sigma \in {StatementSigma(s) : s \in stated} \ {None}}
by_pair(g, wc, pc) ==
  UNION {Contributions({s}, <<s.whole, s.part>>, Quarter(Unit, s.best)) :
           s \in {s \in g.stated : g.cls[s.whole] = wc /\ g.cls[s.part] = pc}}

(* Two and three steps from a top, the last one's statement scaled by the    *)
(* way to it: product-material, component-element, product-element.          *)
Steps(idx, tops, length) ==
  LET paths == {p \in UNION {idx.below[t] : t \in tops} : Len(p) = length}
  IN  {p \in paths : /\ idx.level[p[2].part] = "Material"
                     /\ length = 3 => idx.level[p[3].part] = "Element"}
Scaled(g, path, from, to) ==
  Contributions({s \in g.stated : s.whole = path[to].whole /\ s.part = path[to].part}, path,
                Best(SubSeq(path, from, to)))

indirect_by_pair(g, idx, tops, wc, pc) ==
  UNION {Scaled(g, run.path, run.from, run.to) :
           run \in {run \in UNION {[path : Steps(idx, tops, r.len), from : {r.from}, to : {r.to}]
                                    : r \in {[len |-> 2, from |-> 1, to |-> 2],
                                             [len |-> 3, from |-> 2, to |-> 3],
                                             [len |-> 3, from |-> 1, to |-> 3]}} :
                      /\ idx.cls[run.path[run.from].whole] = wc
                      /\ idx.cls[run.path[run.to].part] = pc}}

(* A pair that was stated has the statements' spread, whatever it carries;   *)
(* an amount that carries one keeps it; the others get the indirect one.     *)
Spread(g, idx, tops, wc, pc, carried) ==
  Once(by_pair(g, wc, pc), LAMBDA direct :
    combine(IF direct # {} THEN direct
            ELSE IF carried THEN {} ELSE indirect_by_pair(g, idx, tops, wc, pc)))
Stamp(g, idx, tops, upstream, pair) ==
  [subject |-> pair[1], part |-> pair[2],
   spread |-> IF Len(pair[1]) # 1 \/ Len(pair[2]) # 1 THEN None
              ELSE Spread(g, idx, tops, pair[1][1], pair[2][1],
                     \E r \in upstream : <<r.subject, r.part>> = pair /\ r.spread # None)]

Uncertainty(g, idx, tops, upstream) ==
  {st \in {Stamp(g, idx, tops, upstream, pair) :
            pair \in {<<r.subject, r.part>> : r \in upstream}} : st.spread # None}
=============================================================================
