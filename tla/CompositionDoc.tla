--------------------------- MODULE CompositionDoc ---------------------------
(* What happens to a composition document before it is written               *)
(* (etl/chain_loader.py, canonicalize_materials.material_comps,              *)
(* csv_to_rdf.split_em_doc, composition_rdf.py): one make-up for each        *)
(* material class, the chemistry split off, and the RDF graph of what is     *)
(* left.  A document is [nodes, stmts, sub]; a graph [types, stmts, sub].    *)
EXTENDS CsvEtl

LevelOf(doc, n) == doc.nodes[n].level
OfLevel(doc, level) == {n \in DOMAIN doc.nodes : LevelOf(doc, n) = level}
Between(doc, whole, part) ==
  {s \in doc.stmts : LevelOf(doc, s.whole) = whole /\ LevelOf(doc, s.part) = part}
Chemistry(doc) == Between(doc, "Material", "Element")
SumBest(stmts) == MapThenSumSet(LAMBDA s : s.best, stmts)

(* The measured make-up of a material node, by element class: two element    *)
(* nodes of one class (Cr and Cr_Mo) are added up.                           *)
ClassOf(doc, n) == doc.nodes[n].class
material_comps(doc, mat) ==
  LET own == {s \in Chemistry(doc) : s.whole = mat}
  IN  [c \in {ClassOf(doc, s.part) : s \in own} |->
         SumBest({s \in own : ClassOf(doc, s.part) = c})]

(* The component class a material is part of; none when its statement was    *)
(* not authored.                                                             *)
Contexts(doc, mat) ==
  {ClassOf(doc, s.whole).of : s \in {x \in Between(doc, "Component", "Material") : x.part = mat}}
ContextsOf(doc, class) ==
  UNION {Contexts(doc, m) : m \in {n \in OfLevel(doc, "Material") : ClassOf(doc, n) = class}}
Context(doc, mat) ==
  LET class == ClassOf(doc, mat)
      real == IF Contexts(doc, mat) # {} THEN Contexts(doc, mat) ELSE ContextsOf(doc, class)
  IN  IF Cardinality(real) = 1 THEN CHOOSE c \in real : TRUE ELSE class.of

(* A class found in several components becomes one class for each.           *)
TargetClass(doc, mat) ==
  LET class == ClassOf(doc, mat)
  IN  IF Cardinality(ContextsOf(doc, class)) > 1
      THEN [class EXCEPT !.in = Context(doc, mat)] ELSE class

(* The make-up of a class: the mean over the nodes that have one.            *)
CanonicalComp(doc, group) ==
  LET with == {m \in group : material_comps(doc, m) # <<>>}
      of(m, c) == IF c \in DOMAIN material_comps(doc, m) THEN material_comps(doc, m)[c] ELSE 0
  IN  [c \in UNION {DOMAIN material_comps(doc, m) : m \in with} |->
         MapThenSumSet(LAMBDA m : of(m, c), with) \div Cardinality(with)]

(* What a node lacks of the make-up of its class.                            *)
Have(doc, m) == {ClassOf(doc, s.part) : s \in {x \in Chemistry(doc) : x.whole = m}}
BugLacking(doc, m, comp) ==     \* mutant: only nodes without elements are completed
  IF Have(doc, m) = {} THEN DOMAIN comp ELSE {}
Lacking(doc, m, comp) == DOMAIN comp \ Have(doc, m)

(* The document with these classes for its materials and make-ups for those. *)
Rewrite(doc, mats, target, canon) ==
  LET lacking(m) == Lacking(doc, m, canon[target[m]])
      minted(m, c) == [m EXCEPT !.el = c.of]
      new == UNION {{minted(m, c) : c \in lacking(m)} : m \in mats}
      rewritten == {[s EXCEPT !.best = canon[target[s.whole]][ClassOf(doc, s.part)]] :
                      s \in Chemistry(doc)}
      template == CHOOSE s \in Chemistry(doc) : TRUE     \* the first one, of any material
      filled == UNION {{[whole |-> m, part |-> minted(m, c), best |-> canon[target[m]][c],
                         q |-> template.q] : c \in lacking(m)} : m \in mats}
  IN  [nodes |-> [n \in DOMAIN doc.nodes \cup new |->
                    IF n \in mats THEN [doc.nodes[n] EXCEPT !.class = target[n]]
                    ELSE IF n \in DOMAIN doc.nodes THEN doc.nodes[n]
                    ELSE [level |-> "Element", class |-> Class(n.el), mass |-> 0]],
       stmts |-> (doc.stmts \ Chemistry(doc)) \cup rewritten \cup filled,
       sub |-> doc.sub \cup {<<t, [t EXCEPT !.in = ""]>> : t \in {x \in Range(target) : x.in # ""}}]
canonicalize_doc(doc) ==
  Once(OfLevel(doc, "Material"), LAMBDA mats :
    Once([m \in mats |-> TargetClass(doc, m)], LAMBDA target :
      Once([t \in Range(target) |-> CanonicalComp(doc, {m \in mats : target[m] = t})],
           LAMBDA canon : Rewrite(doc, mats, target, canon))))

---------------------------------------------------------------------------
(* split_em_doc: the chemistry and its nodes; the rest and all nodes.        *)
Structural(doc) == [doc EXCEPT !.stmts = @ \ Chemistry(doc)]
EmDoc(doc) ==
  LET em == Chemistry(doc)
  IN  [nodes |-> Restrict(doc.nodes, {s.whole : s \in em} \cup {s.part : s \in em}),
       stmts |-> em, sub |-> doc.sub]

(* The RDF of a document.                                                    *)
composition_rdf(doc) ==
  [types |-> {<<n, doc.nodes[n].class, doc.nodes[n].level, doc.nodes[n].mass>> :
                n \in DOMAIN doc.nodes},
   stmts |-> doc.stmts, sub |-> doc.sub]
=============================================================================
