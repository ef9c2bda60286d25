------------------------------- MODULE MCAgent -------------------------------
(* Small cases for AgentLoop: one endpoint, a handful of queries, and five   *)
(* kinds of expectation with the answers that separate their gates.          *)
EXTENDS AgentLoop

fq(n) == [kind |-> "iri", ns |-> "fq", name |-> n]
FQ(n) == [kind |-> "iri", ns |-> "futuram-query", name |-> n]
typo(n) == [kind |-> "iri", ns |-> "http-futuram", name |-> n]
pn(n) == [kind |-> "pname", ns |-> "fq", name |-> n]
v(n) == [kind |-> "var", ns |-> "", name |-> n]

MCVoid == [prefixes |-> [p \in {"fq"} |-> "futuram-query"],
           classes |-> {FQ("Vehicle")}, preds |-> {FQ("contains")}]
MCOtherPreds == {[kind |-> "iri", ns |-> "futuram", name |-> "hasPart"]}
MCData == {<<FQ("car"), Type, FQ("Vehicle")>>, <<FQ("car"), FQ("contains"), FQ("A")>>,
           <<FQ("car"), FQ("contains"), FQ("B")>>, <<FQ("A"), SubClassOf, FQ("Metal")>>}
MCNearMiss == [n \in {"http-futuram"} |-> "futuram-query"]

Base == [decl |-> <<>>, branches |-> <<>>, matches |-> {}, listed |-> 0,
         filter |-> "none", nums |-> <<>>]
(* Undeclared prefix, and the same query with the IRI misspelt.              *)
qTwo == [Base EXCEPT !.branches = << << <<v("w"), Type, pn("Vehicle")>> >> >>,
                     !.nums = <<2000>>]
qThree == [Base EXCEPT !.branches = << << <<v("w"), typo("contains"), v("m")>>,
                                          <<v("m"), SubClassOf, pn("Metal")>> >> >>,
                       !.nums = <<3000>>]
qInvented == [Base EXCEPT !.branches = << << <<v("w"), Type, FQ("Truck")>> >> >>]
qUncatalogued == [Base EXCEPT !.branches = << << <<v("m"), SubClassOf, FQ("Metal")>> >> >>]
qOther == [Base EXCEPT !.branches = << << <<v("w"),
              [kind |-> "iri", ns |-> "futuram", name |-> "hasPart"], v("m")>> >> >>]
qFishing == [Base EXCEPT !.branches = << << <<v("w"), Type, v("c")>> >> >>,
                         !.matches = {[var |-> v("c"), word |-> "concept"]}]

L(k) == [iri |-> TRUE, key |-> k]
Bare(k) == [iri |-> FALSE, key |-> k]
Ans(vals, labs, us, unit) ==
  [NoAnswer EXCEPT !.values = vals, !.labels = labs, !.uncs = us, !.unit = unit]

AB == <<L("A"), L("B")>>
Breakdown ==
  [exp |-> [Expectation EXCEPT !.values = <<2000, 3000>>, !.labels = AB,
                               !.uncs = <<200, 300>>, !.score_uncertainty = TRUE],
   answers |-> {Ans(<<2000, 3000>>, AB, <<200, 300>>, "kg"),
                Ans(<<400, 600>>, AB, <<200, 300>>, "kg/kg"),
                Ans(<<2000, 3000>>, AB, <<900, 300>>, "kg"),
                Ans(<<4000, 6000>>, AB, <<>>, "kg")},
   turns |-> {<<"two", "three">>}, skills |-> FALSE, ask |-> FALSE]
Total5 ==
  [exp |-> [Expectation EXCEPT !.values = <<5000>>],
   answers |-> {[NoAnswer EXCEPT !.value = 5000], Ans(<<2000, 3000>>, <<>>, <<>>, "kg"),
                [NoAnswer EXCEPT !.value = 4500]},
   turns |-> {<<Skill, "two", "three">>}, skills |-> TRUE, ask |-> FALSE]
Members ==
  [exp |-> [Expectation EXCEPT !.labels = AB, !.names_only = TRUE],
   answers |-> {Ans(<<>>, AB, <<>>, "kg"), Ans(<<>>, <<L("A")>>, <<>>, "kg"),
                Ans(<<>>, <<Bare("A"), L("B")>>, <<>>, "kg")},
   turns |-> {<<"uncatalogued", "invented">>, <<"other", "fishing">>},
   skills |-> FALSE, ask |-> FALSE]
BA == <<L("B"), L("A")>>
Rows == {<<"A", "Fe", "melt">>, <<"B", "Al", "leach">>}
Ranking ==
  [exp |-> [Expectation EXCEPT !.values = <<3000, 2000>>, !.labels = BA, !.ranked = TRUE,
                               !.route_rows = Rows],
   answers |-> {[Ans(<<3000, 2000>>, BA, <<>>, "kg") EXCEPT !.routes = SetToSeq(Rows)],
                [Ans(<<2000, 3000>>, AB, <<>>, "kg") EXCEPT !.routes = SetToSeq(Rows)],
                Ans(<<3000, 3000>>, BA, <<>>, "kg"), Ans(<<3000, 2000>>, <<>>, <<>>, "kg")},
   turns |-> {<<"three">>}, skills |-> FALSE, ask |-> FALSE]
Asked ==
  [exp |-> Expectation, answers |-> {[NoAnswer EXCEPT !.value = 2000]},
   turns |-> {<<"two">>, <<"invented", "other">>}, skills |-> FALSE, ask |-> TRUE]

MCTestCase ==
  [c \in {"breakdown", "total", "members", "ranking", "asked"} |->
     CASE c = "breakdown" -> Breakdown [] c = "total" -> Total5 [] c = "members" -> Members
       [] c = "ranking" -> Ranking [] c = "asked" -> Asked]
MCQuery ==
  [n \in {"two", "three", "invented", "uncatalogued", "other", "fishing"} |->
     CASE n = "two" -> qTwo [] n = "three" -> qThree [] n = "invented" -> qInvented
       [] n = "uncatalogued" -> qUncatalogued [] n = "other" -> qOther
       [] n = "fishing" -> qFishing]
MCReplyTokens == {1}

(* The cases are ones the theorem on right answers is about.                 *)
ASSUME FairAssumption == FairCases
=============================================================================
