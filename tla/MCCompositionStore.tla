-------------------------- MODULE MCCompositionStore --------------------------
(* Small corpora for CompositionStore.                                       *)
EXTENDS CompositionStore

\* classes: a segment of one of two drivetrain products, two components, one group
V01 == <<"V01">>
BEV == <<"elvBEV">>
DSL == <<"elvDiesel">>
VEH == <<"elvVehicle">>
MOT == <<"motor">>
ECU == <<"ecu">>
EMB == <<"embedded">>

MCHierarchy == {<<BEV, VEH>>, <<DSL, VEH>>, <<MOT, EMB>>, <<ECU, EMB>>}
MCProductClass == {V01, BEV, DSL, VEH}

Doc(p, y, parts, values) ==
  [product |-> p, year |-> y, parts |-> parts, values |-> values, under |-> {}]

\* no drivetrain marker: only the year axis slices; one product is a segment
\* below the others' class, by an edge its document authors
YearDocs == {[Doc(V01, "2015", {MOT}, {}) EXCEPT !.under = {<<V01, BEV>>}], Doc(BEV, "2020", {MOT, ECU}, {}),
             Doc(DSL, "2020", {ECU}, {}), Doc(NoClass, "2020", {MOT}, {})}

\* marked drivetrains, one product class a segment below its drivetrain: a
\* component found under both is shared, and so may be a group of components
\* that is measured as a whole
DriveDocs ==
  {[Doc(V01, "2020", {MOT, EMB}, {BEV}) EXCEPT !.under = {<<V01, BEV>>}],
   Doc(DSL, "2020", {MOT}, {DSL}), Doc(DSL, "2015", {MOT, EMB}, {DSL}),
   Doc(NoClass, "2020", {MOT}, {})}

\* both corpora keep to what the theorems about values and the view need
ASSUME CorpusAssumption == OneDrivetrain /\ OwnEdges
=============================================================================
