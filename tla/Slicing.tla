------------------------------ MODULE Slicing ------------------------------
(* The two axis slicers of src/builder/slicer.py and the store finalisation  *)
(* of src/builder/derive.py, as operators on an RDF graph.                   *)
(*                                                                           *)
(* A class is a sequence of strings.  <<"C">> is the taxonomy class C,       *)
(* slice_name and _leaf_name only concatenate, so C_Y2020 is <<"C", "2020">> *)
(* and elvBEV_C_Y2020 is <<"elvBEV", "C", "2020">>.  Years stand for every   *)
(* time scope (a reference period is one more scope name).                   *)
(*                                                                           *)
(* An instance is [src, cls, year, root]: the source document that authored  *)
(* it, the class the ETL typed it with, its production year, and the class   *)
(* of the top of its part-of tree (its own class when it is itself the top). *)
(* It identifies the measured content below it, which no slicer reads.       *)
EXTENDS Naturals, Sequences, FiniteSets

CONSTANT Hierarchy      \* pairs <<c, d>> of the frozen taxonomy: c subClassOf d

(* The triples of the store graph that slicing reads or writes.              *)
EmptyGraph ==
  [type |-> {}, sub |-> {}, sliceOf |-> {}, axis |-> {}, scope |-> {}, strategy |-> {}]

Union(g, h) ==
  [type     |-> g.type \cup h.type,         sub   |-> g.sub \cup h.sub,
   sliceOf  |-> g.sliceOf \cup h.sliceOf,   axis  |-> g.axis \cup h.axis,
   scope    |-> g.scope \cup h.scope,       strategy |-> g.strategy \cup h.strategy]

Instances(g) == {t[1] : t \in g.type}
TypesOf(g, i) == {t[2] : t \in {u \in g.type : u[1] = i}}
RootOf(i) == [i EXCEPT !.cls = i.root]

(* The image of a class under a set of pairs.                                *)
Image(E, c) == {e[2] : e \in {d \in E : d[1] = c}}

(* Everything a walk along E reaches from S, S included.                     *)
Reach(E, S) ==
  LET Nodes == S \cup {e[2] : e \in E}
      grow[X \in SUBSET Nodes] ==
        LET next == X \cup {e[2] : e \in {d \in E : d[1] \in X}}
        IN  IF next = X THEN X ELSE grow[next]
  IN  grow[S]

Super(g) == Hierarchy \cup g.sub
Timed(g) == {p[1] : p \in g.scope}

-----------------------------------------------------------------------------
(* Year axis: mint <base>_Y<scope> for every type of an instance that is not *)
(* a year slice yet, then give every time-scoped class the slices of its     *)
(* base's ancestors.                                                         *)
slice_name(base, year) == Append(base, year)

(* The types the idempotency guard lets through: a class already carrying    *)
(* the year axis marker is not sliced again.                                 *)
BugUnsliced(g) == g.type     \* mutant: no idempotency guard
Unsliced(g) == {t \in g.type : <<t[2], "year">> \notin g.axis}

MintLeaves(g) ==
  LET leaf(t) == slice_name(t[2], t[1].year)
      edges == {<<leaf(t), t[2]>> : t \in Unsliced(g)}
  IN  [EmptyGraph EXCEPT
         !.type    = {<<t[1], leaf(t)>> : t \in Unsliced(g)},
         !.sub     = edges,
         !.sliceOf = edges,
         !.axis    = {<<e[1], "year">> : e \in edges},
         !.scope   = {<<leaf(t), t[1].year>> : t \in Unsliced(g)}]

(* One slice per ancestor of the base, at the scope of the slice.  The base  *)
(* is the slice's sliceOf target that is itself timeless; a climb is one     *)
(* taxonomy edge on the way up from it.                                      *)
Climbs(g) ==
  UNION { {[slc |-> s[1], base |-> s[2], year |-> y, cls |-> e[1], parent |-> e[2]] :
             y \in Image(g.scope, s[1]),
             e \in {d \in Super(g) : d[1] \in Reach(Super(g), {s[2]})}} :
          s \in {e \in g.sliceOf : e[2] \notin Timed(g)} }

Above(k) == slice_name(k.parent, k.year)
Child(k) == IF k.cls = k.base THEN k.slc ELSE slice_name(k.cls, k.year)

MintAncestors(g) ==
  LET climbs == Climbs(g)
      edges == {<<Above(k), k.parent>> : k \in climbs}
  IN  [EmptyGraph EXCEPT
         !.sub      = {<<Child(k), Above(k)>> : k \in climbs} \cup edges,
         !.sliceOf  = edges,
         !.axis     = {<<e[1], "year">> : e \in edges},
         !.strategy = {<<e[1], "equal">> : e \in edges},
         !.scope    = {<<Above(k), k.year>> : k \in climbs}]

YearSlice(g) ==
  LET h == Union(g, MintLeaves(g))
  IN  Union(h, MintAncestors(h))

-----------------------------------------------------------------------------
(* Value axis (the drivetrain): a base whose instances reach two or more     *)
(* value classes is shared, and each of its instances is retyped, slice by   *)
(* slice, onto <value>_<slice>.                                              *)
Values(g) == {a[1] : a \in {b \in g.axis : b[2] = "drive"}}

(* The values the top of i's part-of tree reaches.                           *)
ValuesOf(g, i) == Values(g) \cap Reach(Super(g), TypesOf(g, RootOf(i)))

(* _index: the bases whose instances' values make them shared.               *)
BugShared(g, vals) ==     \* mutant: three values needed
  {b \in {e[2] : e \in g.sliceOf} :
     Cardinality(UNION {vals[t[1]] : t \in {u \in g.type : <<u[2], b>> \in g.sliceOf}}) > 2}
Shared(g, vals) ==
  {b \in {e[2] : e \in g.sliceOf} :
     Cardinality(UNION {vals[t[1]] : t \in {u \in g.type : <<u[2], b>> \in g.sliceOf}}) > 1}

(* The type triples to rewrite: an instance with one value, at a slice of a  *)
(* shared base.                                                              *)
Retyped(g) ==
  LET vals == [i \in Instances(g) |-> ValuesOf(g, i)]
      shared == Shared(g, vals)
  IN  {t \in g.type : Cardinality(vals[t[1]]) = 1 /\ Image(g.sliceOf, t[2]) \cap shared # {}}

leaf_name(g, t) == (CHOOSE v \in ValuesOf(g, t[1]) : TRUE) \o t[2]

(* _emit_leaf: a leaf is a slice of the slice it refines and of everything   *)
(* that one is a slice of, on the value axis and on each axis of that one,   *)
(* and has its scope.                                                        *)
BugLeafEdges(g, leaves) ==     \* mutant: only the inherited edges
  UNION { {<<l[1], b>> : b \in Image(g.sliceOf, l[2])} : l \in leaves }
LeafEdges(g, leaves) ==
  leaves \cup UNION { {<<l[1], b>> : b \in Image(g.sliceOf, l[2])} : l \in leaves }

BugEmitLeaf(g, leaves) ==     \* mutant: sliceOf without subClassOf
  [EmptyGraph EXCEPT
     !.sliceOf = LeafEdges(g, leaves),
     !.axis    = {<<l[1], "drive">> : l \in leaves},
     !.scope   = UNION { {<<l[1], y>> : y \in Image(g.scope, l[2])} : l \in leaves }]
emit_leaf(g, leaves) ==
  [EmptyGraph EXCEPT
     !.sub     = LeafEdges(g, leaves),
     !.sliceOf = LeafEdges(g, leaves),
     !.axis    = UNION { {<<l[1], ax>> : ax \in {"drive"} \cup Image(g.axis, l[2])} : l \in leaves },
     !.scope   = UNION { {<<l[1], y>> : y \in Image(g.scope, l[2])} : l \in leaves }]

(* apply: the rewriting pass over the whole graph.                           *)
ValueSlice(g) ==
  LET moved == Retyped(g)
      stay == [g EXCEPT !.type = (@ \ moved) \cup {<<t[1], leaf_name(g, t)>> : t \in moved}]
  IN  Union(stay, emit_leaf(g, {<<leaf_name(g, t), t[2]>> : t \in moved}))

(* Every class with a value-axis child declares the value strategy, and      *)
(* nothing else.                                                             *)
attach_value_strategy(g) ==
  LET parents == {e[2] : e \in {d \in g.sliceOf : d[1] \in Values(g)}}
  IN  [g EXCEPT !.strategy = {s \in @ : s[1] \notin parents} \cup {<<p, "drive">> : p \in parents}]

(* _finalise_store: year axis first, then the value axis.  The content hash  *)
(* stamped at the end is not read by anything modelled here.                 *)
Finalise(g) == attach_value_strategy(ValueSlice(YearSlice(g)))
=============================================================================
