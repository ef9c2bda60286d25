--------------------------- MODULE CompositionStore ---------------------------
(* The composition store and its incremental derivation (builder/store.py,   *)
(* etl/serve_corpus.py): sources are added one at a time to an in-memory     *)
(* graph that is finalised on every add, and the fq view on disk is patched  *)
(* for the affected classes only.                                            *)
EXTENDS FqView

CONSTANTS
  Source,       \* source ids
  Docs,         \* documents: [product, year, parts, values, under]
  MaxAdds       \* bound on the adds of one build, re-adds included

(* A document describes one product with component parts, or component       *)
(* samples when product = NoClass.  values are the classes it marks as       *)
(* drivetrain values, under its authored subclass edges.                     *)
ASSUME DocsAssumption ==
  \A d \in Docs : d.product = NoClass \/ d.product \in ProductClass
ASSUME MaxAddsAssumption == MaxAdds \in Nat

(* A class name of the taxonomy or of a document is one word, and no year:   *)
(* what ends in a year is a slice, and the slicers alone mint slices.        *)
Years == {d.year : d \in Docs}
IsName(c) == c = <<c[1]>> /\ c[1] \in STRING /\ c[1] \notin Years
IsUnder(e) == e = <<e[1], e[2]>> /\ IsName(e[1]) /\ IsName(e[2])
ASSUME NamesAssumption ==
  /\ Years \subseteq STRING
  /\ IsFiniteSet(Hierarchy) /\ \A e \in Hierarchy : IsUnder(e)
  /\ \A d \in Docs : /\ d.product # NoClass => IsName(d.product)
                     /\ IsFiniteSet(d.parts) /\ \A c \in d.parts : IsName(c)
                     /\ \A v \in d.values : IsName(v)
                     /\ IsFiniteSet(d.under) /\ \A e \in d.under : IsUnder(e)

(* What the drivetrain axis takes for granted of all documents together: a   *)
(* product class is below at most one marked value, a component class is no  *)
(* product class and below none.                                             *)
AllUnder == Hierarchy \cup UNION {d.under : d \in Docs}
AllValues == UNION {d.values : d \in Docs}
Drives(c) == AllValues \cap Reach(AllUnder, {c})
OneDrivetrain ==
  /\ IsFiniteSet(Docs)
  /\ \A d \in Docs : /\ \A v, w \in Drives(d.product) : v = w
                     /\ \A c \in d.parts : c \notin ProductClass /\ Drives(c) = {}

(* A document authors the subclass edges of its own product and classes      *)
(* (csv_to_rdf writes subclass_of for those alone).                          *)
OwnEdges ==
  \A d \in Docs : \A e \in d.under :
    e[1] \in Reach(Hierarchy \cup d.under, d.parts \cup ({d.product} \ {NoClass}))

VARIABLES
  corpus,       \* the composition documents on disk, one per source
  store,        \* Store.graph
  view,         \* the fq view on disk; {} when the file does not exist
  added,        \* the sources added to this store
  adds,         \* how many adds this build has made
  building      \* a process holds the store in memory

vars == <<corpus, store, view, added, adds, building>>

(* composition_rdf, namespaced by source: instances typed by their timeless  *)
(* class, their year as data.                                                *)
SourceGraph(s, d) ==
  LET top(c) == IF d.product = NoClass THEN c ELSE d.product
      classes == d.parts \cup ({d.product} \ {NoClass})
  IN  [EmptyGraph EXCEPT
         !.type = {<<[src |-> s, cls |-> c, year |-> d.year, root |-> top(c)], c>> : c \in classes},
         !.sub  = d.under,
         !.axis = {<<v, "drive">> : v \in d.values}]

Init ==
  /\ corpus \in [Source -> Docs]
  /\ store = EmptyGraph
  /\ view = {}
  /\ added = {}
  /\ adds = 0
  /\ building = FALSE

(* add_sources starts: the old view is unlinked, the store is fresh, and the *)
(* corpus may have changed since the last build.                             *)
BugStartBuild ==     \* mutant: the old view is not unlinked
  /\ ~building
  /\ corpus' \in [Source -> Docs]
  /\ store' = EmptyGraph
  /\ added' = {}
  /\ adds' = 0
  /\ building' = TRUE
  /\ UNCHANGED view
StartBuild ==
  /\ ~building
  /\ corpus' \in [Source -> Docs]
  /\ store' = EmptyGraph
  /\ view' = {}
  /\ added' = {}
  /\ adds' = 0
  /\ building' = TRUE

(* add_source: union, finalise, affected set, re-derive, splice, save.  The  *)
(* first add (no view yet) derives everything; a later one projects only the *)
(* affected classes.  Adding a source again is the same code.                *)
BugAddSource(s) ==     \* mutant: every stored relation counts as new
  /\ building
  /\ adds < MaxAdds
  /\ LET g == Finalise(Union(store, SourceGraph(s, corpus[s])))
         affected == Affected(g, Instances(g))
     IN  /\ store' = g
         /\ view' = IF view = {} THEN Rows(g)
                                 ELSE Refresh(view, Project(g, affected), affected)
  /\ added' = added \cup {s}
  /\ adds' = adds + 1
  /\ UNCHANGED <<corpus, building>>
AddSource(s) ==
  /\ building
  /\ adds < MaxAdds
  /\ LET g == Finalise(Union(store, SourceGraph(s, corpus[s])))
         affected == Affected(g, Instances(g) \ Instances(store))
     IN  /\ store' = g
         /\ view' = IF view = {} THEN Rows(g)
                                 ELSE Refresh(view, Project(g, affected), affected)
  /\ added' = added \cup {s}
  /\ adds' = adds + 1
  /\ UNCHANGED <<corpus, building>>

(* The process ends, with or without having added every source: the store    *)
(* is gone, the view file stays as the last add wrote it.                    *)
BugEndBuild ==     \* mutant: the store outlives the build
  /\ building
  /\ added' = {}
  /\ adds' = 0
  /\ building' = FALSE
  /\ UNCHANGED <<corpus, store, view>>
EndBuild ==
  /\ building
  /\ store' = EmptyGraph
  /\ added' = {}
  /\ adds' = 0
  /\ building' = FALSE
  /\ UNCHANGED <<corpus, view>>

Next == StartBuild \/ (\E s \in Source : AddSource(s)) \/ EndBuild

Spec == Init /\ [][Next]_vars

-----------------------------------------------------------------------------
(* merge_sources + derive_all: the one-shot build of the same sources.       *)
OneShot ==
  Finalise([EmptyGraph EXCEPT
    !.type = UNION {SourceGraph(s, corpus[s]).type : s \in added},
    !.sub  = UNION {corpus[s].under : s \in added},
    !.axis = UNION {{<<v, "drive">> : v \in corpus[s].values} : s \in added}])

(* The view on disk belongs to the sources added so far.                     *)
Serving == building /\ added # {}

TypeOK ==
  /\ corpus \in [Source -> Docs]
  /\ added \subseteq Source /\ adds \in 0 .. MaxAdds
  /\ building \in BOOLEAN
  /\ \A t \in store.type : t[1].src \in added
  /\ \A r \in view : r.kind \in {"elements", "components", "parts", "scoped"}

(* An increment leaves exactly the rows a one-shot derive of the same        *)
(* sources has: no stale row, none missing, in any order of adds, after a    *)
(* re-add and after an interrupted build (add_source, "Value-identical to a  *)
(* full re-derive").                                                         *)
ServedFresh == Serving => view = Rows(OneShot)

(* The same promise for the rows of the part-of plugin alone: what a product *)
(* contains is named by the classes its parts have now.                      *)
PartRowsFresh ==
  Serving => {r \in view : r.kind = "parts"} = {r \in Rows(OneShot) : r.kind = "parts"}

(* _finalise_store is idempotent: the store, finalised on every add, is the  *)
(* graph one finalisation of the merged sources gives.                       *)
FinaliseIdempotent == store = OneShot

(* As long as no component base is shared between drivetrain values, the     *)
(* increment is exact; what breaks it is the rewriting axis alone.           *)
FreshWhileUnshared ==
  LET g == OneShot
  IN  Serving /\ Shared(g, [i \in Instances(g) |-> ValuesOf(g, i)]) = {} => view = Rows(g)

(* Nothing is left to the iteration order of an RDF graph: every instance    *)
(* has one innermost type (_leaf_class returns the first it meets), every    *)
(* time-scoped class one scope and one timeless base (YearSlicer keeps the   *)
(* last it meets), every class at most one strategy, the value strategy      *)
(* having replaced the one the year pass declares again.                     *)
OrderIndependent ==
  /\ \A i \in Instances(store) : Cardinality(Innermost(store, i)) = 1
  /\ \A c \in Timed(store) : /\ Cardinality(Image(store.scope, c)) = 1
                             /\ Cardinality(Image(store.sliceOf, c) \ Timed(store)) = 1
  /\ \A s \in store.strategy : Image(store.strategy, s[1]) = {s[2]}

(* No class is sliced twice along the year axis, however often the store is  *)
(* finalised: a slice name holds one year, its own scope.                    *)
NoDoubleSlice ==
  \A p \in store.scope : /\ {k \in DOMAIN p[1] : p[1][k] \in Years} = {Len(p[1])}
                         /\ p[1][Len(p[1])] = p[2]

(* No class row of a component mixes drivetrains once its base is shared,    *)
(* whichever of the sources came first.                                      *)
ValueSeparation ==
  LET vals == [i \in Instances(store) |-> ValuesOf(store, i)]
  IN  \A i, j \in Instances(store) :
        LeafClass(store, i) = LeafClass(store, j) /\ vals[i] # {} /\ vals[j] # {}
          => vals[i] = vals[j]

(* Retyping never takes a sample out of its class: the class an instance is  *)
(* counted under still rolls up into the year slice of the class it was      *)
(* authored with and of each taxonomy ancestor of it.                        *)
StaysUnderBase ==
  Serving =>
    \A i \in Instances(store) : \A c \in Reach(Super(store), {i.cls}) \ Timed(store) :
      slice_name(c, i.year) \in Reach(Super(store), {LeafClass(store, i)})

(* A source added again leaves the view as it is, although the store is      *)
(* finalised, and may be re-sliced, once more (test_readd_is_idempotent).    *)
ReaddKeepsView ==
  [][adds' > adds /\ added' = added /\ view # {} => view' = view]_vars
=============================================================================
