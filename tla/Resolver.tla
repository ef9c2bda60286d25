------------------------------ MODULE Resolver ------------------------------
(* One projection run (resolver/engine.py, context.py): the plugins in the   *)
(* order of their dependencies, each handed what its dependencies made, over *)
(* one index of the composition graph.  The index is built once and read by  *)
(* all, but not read-only: the walks of the part-of plugin leave entries in  *)
(* its adjacency, which later reads of the top instances see.                *)
EXTENDS Plugins

CONSTANTS Graphs,      \* the composition graphs considered
          Wants        \* the projections considered: All or sets of classes

(* Nothing measured, and no group of what is measured, is of a class that    *)
(* stands for the unknown: the ETL omits such rows (csv_to_rdf.py:187) and   *)
(* the TBox has no class below one.                                          *)
ASSUME GraphsAssumption ==
  \A g \in Graphs : /\ \A n \in DOMAIN g.level : g.cls[n] \notin Unknowns
                    /\ \A u \in g.under : u[2] \notin Unknowns

VARIABLES graph,       \* the input
          want,        \* ResolverContext.want
          idx,         \* the cached index, None before its first read
          walked,      \* nodes the walks have left in the adjacency
          produced,    \* plugin -> the rows it made, for the plugins that ran
          stamps,      \* what the uncertainty plugin made
          status         \* "running", "served" or "refused"

vars == <<graph, want, idx, walked, produced, stamps, status>>

Deps == [elements |-> {}, component |-> {"elements"}, partof |-> {"elements", "component"}]

Init ==
  /\ graph \in Graphs /\ want \in Wants
  /\ idx = None /\ walked = {}
  /\ produced = <<>> /\ stamps = {} /\ status = "running"

Ready(plugin) ==
  /\ status = "running" /\ idx # None
  /\ plugin \notin DOMAIN produced /\ Deps[plugin] \subseteq DOMAIN produced

Upstream(plugin) == UNION {produced[d] : d \in Deps[plugin]}

Produce(plugin, rows) ==
  /\ produced' = [p \in DOMAIN produced \cup {plugin} |->
                   IF p = plugin THEN rows ELSE produced[p]]
  /\ UNCHANGED <<graph, want, idx, stamps>>

Index ==
  /\ status = "running" /\ idx = None
  /\ idx' = build_index(graph)
  /\ UNCHANGED <<graph, want, walked, produced, stamps, status>>

(* The aggregates are computed for all classes before any is projected, so a *)
(* class without a time stops every projection.                              *)
RunElements ==
  /\ Ready("elements")
  /\ MissingTime(idx, top_instances(idx, walked)) = {}
  /\ Produce("elements", ElementAmounts(idx, top_instances(idx, walked), want))
  /\ UNCHANGED <<walked, status>>

Refuse ==
  /\ Ready("elements")
  /\ MissingTime(idx, top_instances(idx, walked)) # {}
  /\ status' = "refused"
  /\ UNCHANGED <<graph, want, idx, walked, produced, stamps>>

RunComponent ==
  /\ Ready("component")
  /\ Produce("component", Component(idx, want, Upstream("component")))
  /\ UNCHANGED <<walked, status>>

(* The chains are planned first, so the tops are read from what that left.   *)
RunPartOf ==
  /\ Ready("partof")
  /\ walked' = IF Structural(idx, want) THEN walked \cup WalkedBy(idx) ELSE walked
  /\ Produce("partof", PartOf(idx, top_instances(idx, walked'), want, Upstream("partof")))
  /\ UNCHANGED status

Rows == UNION {produced[p] : p \in DOMAIN produced}

RunUncertainty ==
  /\ status = "running" /\ DOMAIN produced = DOMAIN Deps
  /\ stamps' = Uncertainty(graph, idx, top_instances(idx, walked), Rows)
  /\ status' = "served"
  /\ UNCHANGED <<graph, want, idx, walked, produced>>

Next == Index \/ RunElements \/ Refuse \/ RunComponent \/ RunPartOf \/ RunUncertainty

Spec == Init /\ [][Next]_vars

---------------------------------------------------------------------------
(* Properties.                                                               *)

(* A row belongs to its class, a scope to its component and its product, the *)
(* content of a holder to the class at its root.                             *)
Owners(subject) ==
  IF Head(subject) \in Unknowns THEN {Last(subject)} ELSE ToSet(subject)
Owned(rows) == {r \in rows : \E c \in Owners(r.subject) : wants(want, c)}

FullRows ==
  LET planned == WalkedBy(idx)
      first == ElementAmounts(idx, top_instances(idx, {}), All)
      second == first \cup Component(idx, All, first)
  IN  second \cup PartOf(idx, top_instances(idx, planned), All, second)

(* A projection of some classes serves exactly the rows and stamps that the  *)
(* projection of all serves for them, so an incremental derivation that      *)
(* replaces them one class at a time (store.derive_fq) ends where a full one *)
(* would.                                                                    *)
OnlyAgrees ==
  status = "served" /\ Structural(idx, want) =>
    \E full \in {FullRows} :
      /\ Rows = Owned(full)
      /\ stamps = Owned(Uncertainty(graph, idx, top_instances(idx, WalkedBy(idx)), full))

(* No component inside a component: the stamps follow two and three steps.   *)
Flat == \A e \in idx.adj : idx.level[e.part] = "Component" => idx.level[e.whole] = "Product"
AllScored == \A s \in graph.stated : StatementSigma(s) # None
CoarsePair(r) ==
  \E c \in idx.coarse : <<idx.cls[c.whole]>> = r.subject /\ <<idx.cls[c.part]>> = r.part
Count(subject) == Cardinality({n \in DOMAIN idx.cls : <<idx.cls[n]>> = subject})

(* The terms an uncertainty was combined from are the terms of the amount it *)
(* is stamped on: their sum is the amount itself for a spread propagated     *)
(* along the tree (also under mass weights), and the amount times the number *)
(* of instances for one combined from statements.  A node served by a spread *)
(* of something else would be the silent failure.                            *)
SpreadOfTheValue ==
  status = "served" /\ Flat =>
    \A r \in Rows :
      /\ r.spread # None => r.spread.tot = r.amt
      /\ \A st \in {st \in stamps : st.subject = r.subject /\ st.part = r.part} :
           AllScored /\ ~CoarsePair(r) => st.spread.tot = Count(r.subject) * r.amt

(* The bounders of a part in a tree, deepest first, do not contradict each   *)
(* other: the known mass is within the deepest and each within the next; one *)
(* at each depth, the last one at the top.                                   *)
Consistent(top, part) ==
  LET seq == Bounders(idx, top, part)
      bound(i) == Bound(idx, top, seq[i])
  IN  /\ seq # <<>> /\ Last(seq).whole = top
      /\ granular_sum(idx, top, part) <= bound(1)
      /\ \A i \in 1..Len(seq) - 1 : bound(i) <= bound(i + 1)
      /\ \A i, j \in DOMAIN seq :
           i # j => idx.level[seq[i].whole] # idx.level[seq[j].whole]

(* What was measured and is in nothing else, by its steps or across levels.  *)
Measured == {s.whole : s \in graph.stated} \ {e.part : e \in idx.adj}

(* The holders of the chains of a class are as large as the chains.          *)
Fits(c) ==
  \A r \in Rows : /\ r.subject = <<c>> /\ Len(r.part) = 2
                  => \A level \in ToSet(Levels) : r.part = <<UnknownOf(level), c>> =>
                       SumAmt(PlansAt(Inferred(idx, Measured), c, level)) <= r.amt

(* What is served of a part below the unknown holders of a class.            *)
Unknown(c, pc) ==
  SumAmt({r \in Rows : Head(r.subject) \in Unknowns /\ Last(r.subject) = c /\ r.part = <<pc>>})

(* A coarse statement is a partition: the known chains at their lightest and *)
(* the served content of the unknown holders add up to it, whichever deeper  *)
(* bounds lie between and also for a product that has nothing but the coarse *)
(* statement.                                                                *)
ReconciledTotal ==
  status = "served" /\ Flat =>
    \A part \in {c.part : c \in idx.coarse} :
      \A cls \in LeafClasses(idx, Measured) :
        LET tops == InstancesOf(idx, Measured, cls)
        IN  wants(want, cls) /\ (\A t \in tops : Consistent(t, part)) /\ Fits(cls) =>
              Unknown(cls, idx.cls[part]) + Mean(tops, LAMBDA t : granular_sum(idx, t, part))
                = Mean(tops, LAMBDA t : Bound(idx, t, Last(Bounders(idx, t, part))))
=============================================================================
