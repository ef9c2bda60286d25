------------------------------ MODULE MCRollup ------------------------------
(* Class trees and pools for Rollup.                                         *)
EXTENDS Rollup, TLC

MCWhole == 43200   \* 60 * 60 * 12: exact under three means of up to five

\* a pool of one element, of both, and of none
Cu == [e \in {"Cu"} |-> MCWhole]
CuAl == [e \in {"Cu", "Al"} |-> MCWhole \div 2]
Nil == [e \in {} |-> 0]

Mixed == {Cu, CuAl, Nil}

\* every tree over three classes, in every order of their names, all of one period
SameYear == [c \in 1 .. 3 |-> <<2020, 2020>>]
RECURSIVE Up(_, _)
Up(sub, S) == LET T == S \cup {e[2] : e \in {d \in sub : d[1] \in S}}
              IN  IF T = S THEN S ELSE Up(sub, T)
Acyclic(sub) == \A e \in sub : e[1] \notin Up(sub, {e[2]})
Trees == {[sub |-> sub, scope |-> SameYear, base |-> {}, free |-> {}] :
            sub \in {r \in SUBSET ((1 .. 3) \X (1 .. 3)) : r # {} /\ Acyclic(r)}}

\* a period class over two years of which one is outside it, below an untimed
\* class that is a base of slices, and a material class above nothing timed
Periods ==
  {[sub |-> {<<3, 2>>, <<4, 2>>, <<2, 1>>, <<2, 5>>, <<4, 6>>},
    scope |-> (2 :> <<2010, 2020>>) @@ (3 :> <<2015, 2015>>) @@ (4 :> <<2025, 2025>>),
    base |-> {5}, free |-> {6}]}

\* the slices of a shared component: leaves BEV_C_Y2020 (1) and DSL_C_Y2020 (2)
\* below C_Y2020 (4), and all of them below the base C (3); a product is never
\* retyped to a value leaf, so it is the component family that averages these
Slices ==
  {[sub |-> {<<1, 4>>, <<2, 4>>, <<1, 3>>, <<2, 3>>, <<4, 3>>},
    scope |-> (1 :> <<2020, 2020>>) @@ (2 :> <<2020, 2020>>) @@ (4 :> <<2020, 2020>>),
    base |-> {3}, free |-> {}]}

MCShapes == Trees \cup Periods \cup Slices
=============================================================================
