----------------------------- MODULE MCResolver -----------------------------
(* Small composition graphs: cars of a body and a drive (a motor, a pack),   *)
(* of two materials and two elements, with and without statements across     *)
(* levels.                                                                   *)
EXTENDS Resolver

Level == [c |-> "Component", m |-> "Material", e |-> "Element", p |-> "Product"]

(* A node is <<kind, class, name, mass>>.                                    *)
P(n) == <<"p", "car", n, 9>>
C(cls, n, mass) == <<"c", cls, n, mass>>
M(n) == <<"m", n, n, 0>>
E(n) == <<"e", n, n, 0>>

Full == [a |-> 1, b |-> 2]
Poor == [a |-> 3, b |-> 4]
Half == [a |-> 2]
Point(w, p, best, scores) ==
  [whole |-> w, part |-> p, best |-> best, lo |-> best, up |-> 0, dist |-> "triangular",
   limit |-> None, scores |-> scores]
Span(w, p, best, lo) == [Point(w, p, best, Full) EXCEPT !.lo = lo, !.up = 1]
Rect(w, p, best, scores) == [Point(w, p, best, scores) EXCEPT !.dist = "rectangular"]
Normal(w, p, best, lo) == [Span(w, p, best, lo) EXCEPT !.dist = "normal"]

Graph(nodes, stated) ==
  LET names == {n[3] : n \in nodes}
      Of(name) == CHOOSE n \in nodes : n[3] = name
  IN  [level |-> [n \in names |-> Level[Of(n)[1]]], cls |-> [n \in names |-> Of(n)[2]],
       mass |-> [n \in names |-> Of(n)[4]], stated |-> stated,
       timed |-> {"car", "body", "motor"},
       under |-> {<<"motor", "drive">>, <<"pack", "drive">>}]

(* One car; how its statements are distributed and scored.                   *)
OneNodes == {P("c1"), C("body", "b1", 2), C("motor", "m1", 1), M("steel"), M("wire"), E("Fe"), E("Cu")}
OneCar(share, dist(_, _, _), wire, copper) ==
  {Span("c1", "b1", share, 1), dist("c1", "m1", 1), Point("b1", "steel", 2, Full),
   dist("m1", "wire", 2), Point("m1", "steel", 1, Poor), Point("steel", "Fe", 3, Full),
   Point("wire", "Cu", wire, Poor), Point("steel", "Cu", 4 - wire, copper)}
(* What may be stated across levels, at most one deeper than the car.        *)
Coarse == {{}, {Point("c1", "Cu", 2, Full)}, {Point("c1", "Cu", 2, Full), Point("m1", "Cu", 3, Full)},
           {Point("m1", "Cu", 3, Full)}, {Span("c1", "wire", 2, 1)},
           {Point("c1", "Cu", 3, Full), Point("c1", "wire", 1, Full), Point("m1", "Cu", 4, Full)}}
Ones ==
  {Graph(OneNodes, OneCar(share, LAMBDA w, p, b : Rect(w, p, 2, scores), wire, scores) \cup c) :
     share \in {1, 2}, scores \in {Full, Poor, Half}, wire \in {0, 1, 4}, c \in Coarse}
  \cup {Graph(OneNodes, OneCar(share, LAMBDA w, p, b : Normal(w, p, b, 0), wire, Half) \cup c) :
     share \in {1, 2}, wire \in {1, 4}, c \in Coarse}
(* A motor of which only its copper is known.                                *)
Lean ==
  {Graph(OneNodes, {Span("c1", "b1", 2, 1), Span("c1", "m1", 1, 1), Point("b1", "steel", 3, Full),
                    Point("steel", "Fe", 3, Full), Point("steel", "Cu", 1, Full)} \cup c) : c \in Coarse}

(* Two cars of a class: the same motor class, a pack in the second.          *)
TwoNodes == OneNodes \cup {P("c2"), C("motor", "m2", 3), C("pack", "k2", 2)}
Second(pack, cell) ==
  {Point("c2", "m2", 1, Full), pack, Point("m2", "wire", 2, Poor), Point("k2", cell, 3, Full)}
Twos ==
  {Graph(TwoNodes, OneCar(1, LAMBDA w, p, b : Rect(w, p, 2, Full), 1, Poor) \cup Second(pack, cell) \cup c \cup d) :
     pack \in {Point("c2", "k2", 1, Full), Rect("c2", "k2", 2, Full)}, cell \in {"steel", "wire"}, c \in Coarse,
     d \in {{}, {Point("c2", "Cu", 1, Full)}, {Point("c2", "Cu", 2, Full), Point("k2", "Cu", 2, Full)}}}

(* A car with nothing but a coarse statement; one with a component inside    *)
(* another; one whose class has no time.                                     *)
Bare == {Graph({P("c1"), M("wire"), E("Cu")}, {Point("c1", "Cu", cu, Full)} \cup w) :
           cu \in {1, 4}, w \in {{}, {Point("wire", "Cu", 4, Full)}, {Point("c1", "wire", 2, Full)}}}
Nested == {Graph({P("c1"), C("pack", "k1", 4), C("motor", "m1", 2), M("wire"), E("Cu")},
             {Point("c1", "k1", 2, Full), Point("k1", "m1", 2, Full), Point("m1", "wire", 4, Full),
              Point("k1", "wire", 1, Poor), Point("wire", "Cu", cu, Full)}) : cu \in {1, 4}}
Untimed == {[g EXCEPT !.timed = {}] : g \in Bare \cup Nested}

(* A component inside a product beside one measured alone is left out: it    *)
(* has two values.  So are two bounders at one depth (see the README).       *)

MCGraphs == Ones \cup Lean \cup Twos \cup Bare \cup Nested \cup Untimed
MCWants == {All, {"car"}, {"motor"}, {"pack", "body"}, {"steel"}, {"drive"}}

MCClassLevel ==
  [c \in {"car"} |-> "Product"] @@ [c \in {"body", "motor", "pack", "drive"} |-> "Component"]
  @@ [c \in {"steel", "wire"} |-> "Material"] @@ [c \in {"Fe", "Cu"} |-> "Element"]
MCWeight == [a |-> 1, b |-> 2]
MCLimitBands == {[lo |-> 0, hi |-> 6, limit |-> 2], [lo |-> 6, hi |-> 99, limit |-> 4]}
MCDqsBands == {[lo |-> 0, hi |-> 2, dqs |-> 1, unc |-> 1], [lo |-> 2, hi |-> 3, dqs |-> 2, unc |-> 2],
               [lo |-> 3, hi |-> 99, dqs |-> 3, unc |-> 3]}
=============================================================================
