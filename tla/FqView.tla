------------------------------- MODULE FqView -------------------------------
(* The fq view as a derivation of the store graph (builder/index.py,         *)
(* aggregate.py, resolver/plugins) and the incremental part of               *)
(* builder/store.py: the affected set and the wholesale refresh.             *)
(*                                                                           *)
(* A row is [kind, cls, in, term].  The kinds are the served angles:         *)
(*   "elements"   aggregate() over the top instances of a class              *)
(*   "components" the component plugin over every component node of a class  *)
(*   "parts"      the part-of plugin: the component classes in a product     *)
(*   "scoped"     the contextual node <cls>_in_<in>                          *)
(* A term is not a number but what the number is a function of: the class    *)
(* subtree that is averaged, with the instances pooled at each class of it.  *)
(* Equal terms are equal values; the order and the divisor of the averaging  *)
(* fixpoint are functions of that subtree and are not modelled here.         *)
EXTENDS Slicing

CONSTANT ProductClass   \* the classes below futuram:Product

NoClass == <<>>

IsTop(i) == i.root = i.cls
IsProduct(i) == i.cls \in ProductClass

(* The types of i with no other type of i strictly below them.               *)
Innermost(g, i) ==
  {c \in TypesOf(g, i) : \A d \in TypesOf(g, i) \ {c} : c \notin Reach(Super(g), {d})}

(* _leaf_class returns the first innermost type, in no particular order.     *)
LeafClass(g, i) == CHOOSE c \in Innermost(g, i) : TRUE

(* What a row of this kind pools from instance i.                            *)
Facts(g, kind, i, leafOf) ==
  CASE kind = "elements"   -> IF IsTop(i) THEN {<<i, {}>>} ELSE {}
    [] kind = "components" -> IF IsProduct(i) THEN {} ELSE {<<i, {}>>}
    [] kind = "parts"      -> IF IsProduct(i)
                              THEN {<<i, {leafOf[j] : j \in {k \in Instances(g) \ {i} : RootOf(k) = i}}>>}
                              ELSE {}

(* parent_gate: which direct subclasses a class may average over.            *)
Gate(g, parent, candidates) ==
  {c \in candidates :
     /\ c \in Timed(g)
     /\ IF parent \in Timed(g) THEN Image(g.scope, c) \subseteq Image(g.scope, parent)
                               ELSE \E e \in g.sliceOf : e[2] = parent}

(* The rows of one averaged kind: one per class that pools instances or has  *)
(* a contributing subclass.  A class with contributors is overwritten by     *)
(* their mean, so its own pool does not reach its own row.                   *)
AveragedRows(g, kind, leafOf) ==
  LET super == Super(g)
      pool == [c \in {leafOf[i] : i \in Instances(g)} |->
                 UNION {Facts(g, kind, i, leafOf) : i \in {j \in Instances(g) : leafOf[j] = c}}]
      leaves == {c \in DOMAIN pool : pool[c] # {}}
      rollup == {e \in super : e[1] \in Gate(g, e[2], {e[1]})}
      agg == Reach(rollup, leaves)
      from(c) == {e[1] : e \in {d \in rollup : d[2] = c /\ d[1] \in agg}}
      down == {<<e[2], e[1]>> : e \in {d \in rollup : d[1] \in agg}}
      own(d, c) == IF d \notin leaves \/ (d = c /\ from(c) # {}) THEN {} ELSE pool[d]
  IN  {[kind |-> kind, cls |-> c, in |-> NoClass,
        term |-> {<<d, own(d, c), from(d)>> : d \in Reach(down, {c})}] : c \in agg}

(* The contextual nodes: each component class, and each component group that *)
(* is no leaf class itself, in each product class it occurs in.              *)
ScopedRows(g, leafOf) ==
  LET comps == {i \in Instances(g) : ~IsProduct(i)}
      leafClasses == {leafOf[i] : i \in comps}
      above == [c \in leafClasses |-> Reach(Super(g), {c})]
      groups(c) == {c} \cup (above[c] \ leafClasses)
      occurs == UNION { {<<h, leafOf[RootOf(i)]>> : h \in groups(leafOf[i])} : i \in comps }
      nodes(o) == {i \in comps : o[2] = leafOf[RootOf(i)] /\ o[1] \in groups(leafOf[i])}
  IN  {[kind |-> "scoped", cls |-> o[1], in |-> o[2],
        term |-> {<<o[1], {<<i, {}>> : i \in nodes(o)}, {}>>}] : o \in occurs}

(* The served graph of the whole store.                                      *)
Rows(g) ==
  LET leafOf == [i \in Instances(g) |-> LeafClass(g, i)]
  IN  ScopedRows(g, leafOf)
        \cup UNION {AveragedRows(g, k, leafOf) : k \in {"elements", "components", "parts"}}

(* derive_fq(affected): the projection sweep restricted to `want`.  A        *)
(* contextual node is emitted for either of its two classes.                 *)
Project(g, want) ==
  {r \in Rows(g) : r.cls \in want \/ (r.kind = "scoped" /\ r.in \in want)}

-----------------------------------------------------------------------------
(* _changed_classes: the types of the wholes of the new relations.  Every    *)
(* instance is a whole, and a relation belongs to one instance.              *)
Changed(g, new) == UNION {TypesOf(g, i) : i \in new}

(* affected_classes: the changed classes, everything upward along subclass   *)
(* and slice edges of the store, then everything downward along slice edges. *)
(* The containers' branch of the query follows futuram:hasComposition, which *)
(* no store graph carries, and adds nothing.                                 *)
Upward(g, S) == Reach(g.sub \cup g.sliceOf, S)
Downward(g, S) == Reach({<<e[2], e[1]>> : e \in {d \in g.sliceOf : Image(g.axis, d[1]) # {}}}, S)
BugAffected(g, new) ==     \* mutant: changed classes and their slices only
  IF new = {} THEN {} ELSE Downward(g, Changed(g, new))
Affected(g, new) ==
  IF new = {} THEN {} ELSE Downward(g, Upward(g, Changed(g, new)))

(* refresh: an affected class's rows are deleted and the fresh ones added.   *)
Refresh(view, rows, affected) == {r \in view : r.cls \notin affected} \cup rows
=============================================================================
