------------------------------- MODULE Guards -------------------------------
(* What stands between a query the model wrote and the endpoint              *)
(* (bench/helpers): autoprefix repairs namespaces, four guards may block the *)
(* query.  They read a query as text; here it is read as the patterns in it. *)
(*                                                                           *)
(* A term is [kind, ns, name]: a "var", an "iri" in namespace ns, or a       *)
(* "pname" under the prefix ns.  A query declares prefixes, has one list of  *)
(* triples (or one per UNION branch), may match strings against variables,   *)
(* may hand-list class IRIs, and filters.                                    *)
EXTENDS Naturals, Sequences, FiniteSets, SequencesExt, FiniteSetsExt, Functions

CONSTANTS
  Void,           \* the endpoint's VoID: [prefixes, classes, preds]
  OtherPreds,     \* predicates in the VoID of the other endpoints
  Data,           \* the triples the endpoint serves
  NearMiss        \* misspelt namespace -> the VoID namespace it normalises to

Std == {"rdf", "rdfs", "owl"}
Type == [kind |-> "iri", ns |-> "rdf", name |-> "type"]
SubClassOf == [kind |-> "iri", ns |-> "rdfs", name |-> "subClassOf"]
OwlClass == [kind |-> "iri", ns |-> "owl", name |-> "Class"]

Term == [kind : {"var", "iri", "pname"}, ns : STRING, name : STRING]
IsVar(t) == t.kind = "var"
Triples(q) == UNION {ToSet(q.branches[i]) : i \in DOMAIN q.branches}
TermsOf(q) == UNION {{t[1], t[2], t[3]} : t \in Triples(q)}

---------------------------------------------------------------------------
(* autoprefix.                                                               *)

(* A wrong namespace of a known prefix is rewritten, a near miss of a VoID   *)
(* namespace too, and a prefix used without a declaration is declared.       *)
Fix(ns) == IF ns \in DOMAIN NearMiss THEN NearMiss[ns] ELSE ns
Declarations(q) ==
  LET known == Void.prefixes
      used == {t.ns : t \in {u \in TermsOf(q) : u.kind = "pname"}}
      missing == (used \ DOMAIN q.decl) \cap DOMAIN known
  IN  [p \in DOMAIN q.decl \cup missing |->
         IF p \in DOMAIN known THEN known[p] ELSE Fix(q.decl[p])]
autoprefix(q) ==
  LET repair(t) == IF t.kind = "iri" THEN [t EXCEPT !.ns = Fix(@)] ELSE t
      mend(b) == [i \in DOMAIN b |-> <<repair(b[i][1]), repair(b[i][2]), repair(b[i][3])>>]
  IN  [q EXCEPT !.decl = Declarations(q),
                !.branches = [i \in DOMAIN @ |-> mend(@[i])]]

(* A name whose prefix nobody declares does not expand; no guard looks at it.*)
Expand(t, q) ==
  CASE t.kind = "pname" /\ t.ns \in DOMAIN q.decl ->
         {[kind |-> "iri", ns |-> q.decl[t.ns], name |-> t.name]}
    [] t.kind = "iri"                             -> {t}
    [] OTHER                                      -> {}

---------------------------------------------------------------------------
(* The guards.  exists caches what an ASK said of a term, TRUE also when the *)
(* probe failed.                                                             *)

Occurs(iri) == \E t \in Data : iri \in {t[1], t[3]}
OccursAsPredicate(iri) == \E t \in Data : iri = t[2]

ClassTerms(q) ==
  (UNION {Expand(t[3], q) : t \in {u \in Triples(q) : u[2] \in {Type, SubClassOf}}})
  \cup (UNION {Expand(t[1], q) : t \in {u \in Triples(q) : u[2] = SubClassOf}})
PredicateTerms(q) == UNION {Expand(t[2], q) : t \in Triples(q)}

(* The terms a guard asks the endpoint about.                                *)
SuspectClasses(q) ==
  IF Void.classes = {} THEN {}
  ELSE {i \in ClassTerms(q) : i.ns \notin Std /\ i \notin Void.classes}
SuspectPredicates(q) ==
  IF Void.preds = {} THEN {}
  ELSE {i \in PredicateTerms(q) :
          /\ i.ns \notin Std /\ i \notin Void.preds
          /\ i.ns \in {p.ns : p \in Void.preds} \/ i \in OtherPreds}

ClassVars(q) ==
  {t[1] : t \in {u \in Triples(q) : u[2] = SubClassOf \/ (u[2] = Type /\ u[3] = OwlClass)}}
  \cup {t[3] : t \in {u \in Triples(q) : u[2] \in {Type, SubClassOf}}}
FishesInIri(q) == \E m \in q.matches : m.var \in ClassVars(q) /\ m.word = "concept"

MinHandlisted == 3
HandLists(q) == q.listed >= MinHandlisted

(* What the two asking guards, each with a cache of its own, want to know.   *)
Suspects(q) == ({"class"} \X SuspectClasses(q)) \cup ({"predicate"} \X SuspectPredicates(q))
Missing(s) == IF s[1] = "class" THEN ~Occurs(s[2]) ELSE ~OccursAsPredicate(s[2])

(* The first guard that objects; the terms it objects to must be absent.     *)
BugBlockedBy(q, absent) ==     \* mutant: what the VoID omits does not exist
  IF SuspectClasses(q) # {}                        THEN "class"
  ELSE IF SuspectPredicates(q) # {}                THEN "predicate"
  ELSE IF FishesInIri(q)                           THEN "iri"
  ELSE IF HandLists(q)                             THEN "values"
  ELSE "none"
BlockedBy(q, absent) ==
  IF \E t \in SuspectClasses(q) : <<"class", t>> \in absent               THEN "class"
  ELSE IF \E t \in SuspectPredicates(q) : <<"predicate", t>> \in absent  THEN "predicate"
  ELSE IF FishesInIri(q)                           THEN "iri"
  ELSE IF HandLists(q)                             THEN "values"
  ELSE "none"

---------------------------------------------------------------------------
(* What the endpoint answers.                                                *)

Nodes == UNION {{t[1], t[2], t[3]} : t \in Data}
Solves(triples, q) ==
  LET vars == {v \in UNION {{t[1], t[2], t[3]} : t \in triples} : IsVar(v)}
      val(t, s) == IF IsVar(t) THEN {s[t]} ELSE Expand(t, q)
  IN  \E s \in [vars -> Nodes] :
        \A t \in triples : (val(t[1], s) \X val(t[2], s) \X val(t[3], s)) \cap Data # {}
HasRows(q) ==
  q.filter # "drops" /\ \E i \in DOMAIN q.branches : Solves(ToSet(q.branches[i]), q)
=============================================================================
