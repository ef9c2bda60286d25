------------------------------- MODULE CsvEtl -------------------------------
(* From the rows of a dataset to composition documents (etl/csv_to_rdf.py,   *)
(* chain_loader.py, limit_corrections.py): pure operators, no state.         *)
(*                                                                           *)
(* A row is [code, prod, parent, year, comp, mat, el, value, q]: comp and mat*)
(* are key paths, value an absolute mass, q the data-quality scores given.   *)
(* A fraction is an integer in parts of Unit.  A node is named by product,   *)
(* time (<<>> for matter, which has none), component, material and element.  *)
(* A class is [of, in]: `in` is the component context that splits a material *)
(* class, "" when there is none.                                             *)
EXTENDS Integers, Sequences, FiniteSets, FiniteSetsExt, SequencesExt, Functions

CONSTANTS
  Unit,            \* a whole, in parts
  Declared,        \* the class names of the ontology
  Catchall,        \* source keys that spell "other", "undefined", "mixed", ...
  Alias,           \* source key -> the declared name it misspells
  SymbolToElement, \* chemical symbol, alone or first of a compound -> element class
  DefaultQuality,  \* dimension -> score, of all the dimensions
  Corrections,     \* [comp, mat, q] -> the scores that replace the given ones
  EmYearTol        \* how many parts a fraction may drift across the years

ASSUME EtlAssumption == Unit \in Nat \ {0} /\ EmYearTol \in Nat
(* SYMBOL_TO_ELEMENT: no symbol is spelled like an element class (nor is the *)
(* name of a minted element node, chain_loader.py:118, that of a measured    *)
(* one), and "" is neither.                                                  *)
ASSUME SymbolAssumption ==
  /\ "" \notin DOMAIN SymbolToElement \cup Range(SymbolToElement)
  /\ DOMAIN SymbolToElement \cap Range(SymbolToElement) = {}

Codes == {"c-p", "m-c", "e-m"}     \* LEVEL_OF_CODE; any other row is ignored
Refused == "refused"               \* the transform raises
NoDoc == [nodes |-> <<>>, stmts |-> {}, sub |-> {}]
(* op(value), with the value computed once.                                  *)
Once(value, op(_)) == CHOOSE result \in {op(x) : x \in {value}} : TRUE
Leaf(path) == path[Len(path)]
Class(name) == [of |-> name, in |-> ""]
Node(prod, at, comp, mat, el) ==
  [prod |-> prod, at |-> at, comp |-> comp, mat |-> mat, el |-> el]

fill_quality(q) == [d \in DOMAIN DefaultQuality |->
                      IF d \in DOMAIN q THEN q[d] ELSE DefaultQuality[d]]
(* A recorded correction replaces scores of the rows it names exactly.       *)
lookup(comp, mat, q) ==
  LET key == [comp |-> comp, mat |-> mat, q |-> q]
  IN  IF key \in DOMAIN Corrections THEN Corrections[key] @@ q ELSE q

---------------------------------------------------------------------------
(* Classes of the source keys.  A remainder is never authored.               *)

class_for(key, unknown) ==
  LET k == IF key \in DOMAIN Alias THEN Alias[key] ELSE key
  IN  CASE k = "elvRest"     -> unknown
        [] k # "elvRest" /\ k \in Declared -> k
        [] k \notin Declared \cup {"elvRest"} /\ k \in Catchall -> unknown
        [] OTHER             -> Refused
element_class(symbol) ==
  IF symbol \in DOMAIN SymbolToElement
  THEN IF SymbolToElement[symbol] \in Declared THEN SymbolToElement[symbol] ELSE Refused
  ELSE IF symbol \in Catchall THEN "unknownElement" ELSE Refused
IsOmitted(class) == class \in {"unknownComponent", "unknownMaterial", "unknownElement"}

---------------------------------------------------------------------------
(* One instance: the facts of a product and year, masses bottom-up, layers   *)
(* top-down.                                                                 *)

Rows(rows, code) == SelectSeq(rows, LAMBDA r : r.code = code)
Mean(s) == FoldSeq(LAMBDA r, acc : r.value + acc, 0, s) \div Len(s)
RowsOf(rows, k) == SelectSeq(rows, LAMBDA r : r.comp = k[1] /\ r.mat = k[2])
RowsFor(rows, k, el) == SelectSeq(RowsOf(rows, k), LAMBDA r : r.el = el)
Keys(rows) == {<<r.comp, r.mat>> : r \in ToSet(rows)}
Masses(rows) ==
  LET mc == Rows(rows, "m-c") IN [k \in Keys(mc) |-> Mean(RowsOf(mc, k))]
CompMass(masses, comp) ==
  MapThenSumSet(LAMBDA k : IF k[1] = comp THEN masses[k] ELSE 0, DOMAIN masses)
ItemMass(masses) == MapThenSumSet(LAMBDA k : masses[k], DOMAIN masses)

Statement(whole, part, value, whole_mass, q) ==
  {[whole |-> whole, part |-> part, best |-> (value * Unit) \div w, q |-> q] :
     w \in {m \in {whole_mass} : m # 0 /\ (value * Unit) \div m > 0}}

KeptComps(masses) ==
  {k[1] : k \in {x \in DOMAIN masses :
                   ~IsOmitted(class_for(Leaf(x[1]), "unknownComponent"))}}
KeptKeys(masses) ==
  {k \in DOMAIN masses : k[1] \in KeptComps(masses)
                         /\ ~IsOmitted(class_for(Leaf(k[2]), "unknownMaterial"))}
KeptElements(rows, k) ==
  {r.el : r \in {x \in ToSet(RowsOf(Rows(rows, "e-m"), k)) :
                   ~IsOmitted(element_class(x.el))}}

(* Whether every key of the rows that are kept resolves.                     *)
Resolves(rows) ==
  \A k \in Keys(Rows(rows, "m-c")) :
    /\ class_for(Leaf(k[1]), "unknownComponent") # Refused
    /\ class_for(Leaf(k[2]), "unknownMaterial") # Refused
    /\ k \in KeptKeys(Masses(rows)) =>
         \A r \in ToSet(RowsOf(Rows(rows, "e-m"), k)) : element_class(r.el) # Refused

(* at is <<first, last>>; canon the year-invariant material-element table.   *)
InstanceOf(prod, at, rows, masses, canon) ==
  LET car == Node(prod, at, "", "", "")
      cn(comp) == Node(prod, at, Leaf(comp), "", "")
      mn(k) == Node(prod, <<>>, Leaf(k[1]), Leaf(k[2]), "")
      en(k, el) == Node(prod, <<>>, Leaf(k[1]), Leaf(k[2]), el)
      spec(level, class, mass) == [level |-> level, class |-> Class(class), mass |-> mass]
      first(k) == RowsOf(Rows(rows, "m-c"), k)[1]
      nodes ==
        {<<car, spec("Product", prod, ItemMass(masses))>>}
        \cup {<<cn(c), spec("Component", class_for(Leaf(c), "unknownComponent"),
                            CompMass(masses, c))>> : c \in KeptComps(masses)}
        \cup {<<mn(k), spec("Material", class_for(Leaf(k[2]), "unknownMaterial"), 0)>> :
                k \in KeptKeys(masses)}
        \cup UNION {{<<en(k, e), spec("Element", element_class(e), 0)>> :
                       e \in KeptElements(rows, k)} : k \in KeptKeys(masses)}
      shares == UNION {Statement(car, cn(c), CompMass(masses, c), ItemMass(masses),
                                 DefaultQuality) : c \in KeptComps(masses)}
      materials == UNION {Statement(cn(k[1]), mn(k), masses[k], CompMass(masses, k[1]),
                            lookup(Leaf(k[1]), Leaf(k[2]), fill_quality(first(k).q))) :
                          k \in KeptKeys(masses)}
      chemistry ==
        UNION {UNION {Statement(mn(k), en(k, e), canon[<<prod, k>>][e].best, Unit,
                        lookup(Leaf(k[1]), Leaf(k[2]), canon[<<prod, k>>][e].q)) :
                      e \in KeptElements(rows, k)
                            \cap (IF <<prod, k>> \in DOMAIN canon
                                  THEN DOMAIN canon[<<prod, k>>] ELSE {})} :
               k \in KeptKeys(masses)}
  IN  [nodes |-> nodes, stmts |-> shares \cup materials \cup chemistry]
build_instance(prod, at, rows, canon) ==
  Once(rows, LAMBDA rs : Once(Masses(rs), LAMBDA ms : InstanceOf(prod, at, rs, ms, canon)))

---------------------------------------------------------------------------
(* The whole dataset.                                                        *)

(* One instance for each product and year of the rows that are asked for.    *)
Instances(rows, years) ==
  {<<r.prod, r.year>> : r \in {x \in ToSet(rows) : x.code \in Codes /\ x.year \in years}}
At(rows, prod, year) ==
  SelectSeq(rows, LAMBDA r : r.code \in Codes /\ r.prod = prod /\ r.year = year)
YearsOf(insts, prod) == {i[2] : i \in {x \in insts : x[1] = prod}}

(* What decides that two years are the same composition.                     *)
Fingerprint(rows) ==
  LET mc == Rows(rows, "m-c")  em == Rows(rows, "e-m")  cp == Rows(rows, "c-p")
      alike(rs) == <<Mean(rs), rs[1].q>>
  IN  [mc |-> [k \in Keys(mc) |-> alike(RowsOf(mc, k))],
       em |-> [k \in {<<<<r.comp, r.mat>>, r.el>> : r \in ToSet(em)} |->
                 alike(RowsFor(em, k[1], k[2]))],
       cp |-> [c \in {r.comp : r \in ToSet(cp)} |->
                 FoldSeq(LAMBDA r, acc : r.value + acc, 0,
                         SelectSeq(cp, LAMBDA r : r.comp = c))]]

(* The runs of a product, <<first, last>>: consecutive years equal to the    *)
(* first, each run as long as can be (equality is exact here).               *)
BugDedup(rows, insts, prod) ==     \* mutant: years need not be consecutive
  LET years == YearsOf(insts, prod)
      of == [y \in years |-> Fingerprint(At(rows, prod, y))]
      within(a, b) == \A y \in years \cap (a .. b) : of[y] = of[a]
  IN  {r \in years \X years : /\ r[1] <= r[2] /\ within(r[1], r[2])
                             /\ \A y \in years : /\ y < r[1] => ~within(y, r[1])
                                                 /\ y > r[2] => ~within(r[1], y)}
Dedup(rows, insts, prod) ==
  LET years == YearsOf(insts, prod)
      of == [y \in years |-> Fingerprint(At(rows, prod, y))]
      joins(y, z) == y \in years /\ z \in years /\ of[y] = of[z]
  IN  {r \in years \X years : /\ r[1] <= r[2]
                             /\ \A y \in r[1] .. r[2] : joins(y, r[1])
                             /\ ~joins(r[1] - 1, r[1]) /\ ~joins(r[2] + 1, r[1])}

(* The material-element table: the mean over the years that have the         *)
(* element, of the years in which the material has elements at all.          *)
EmFractions(rows, prod, k, year) ==
  LET here == At(rows, prod, year)
      em == RowsOf(Rows(here, "e-m"), k)
      masses == Masses(here)
  IN  IF k \notin DOMAIN masses \/ masses[k] = 0 THEN <<>>
      ELSE [e \in {r.el : r \in ToSet(em)} |->
              [best |-> (Mean(RowsFor(em, k, e)) * Unit) \div masses[k],
               q |-> fill_quality(RowsFor(em, k, e)[1].q)]]
EmTableOf(per) ==
  LET years == DOMAIN per
      having(e) == {y \in years : e \in DOMAIN per[y]}
      best(e) == MapThenSumSet(LAMBDA y : per[y][e].best, having(e))
                   \div Cardinality(having(e))
      all == UNION {DOMAIN per[y] : y \in years}
  IN  [drifts |-> \E e \in all : \E y, z \in years :
                    LET at(w) == IF e \in DOMAIN per[w] THEN per[w][e].best ELSE 0
                    IN  (at(y) - at(z)) * Unit > EmYearTol * at(y),
       table |-> [e \in {x \in all : best(x) > 0} |->
                    [best |-> best(e), q |-> per[Min(having(e))][e].q]]]
EmTable(rows, insts, prod, k) ==
  LET years == {y \in YearsOf(insts, prod) : EmFractions(rows, prod, k, y) # <<>>}
  IN  Once([y \in years |-> EmFractions(rows, prod, k, y)], EmTableOf)
EmKeys(rows, insts) ==
  {<<r.prod, <<r.comp, r.mat>> >> :
     r \in {x \in ToSet(rows) : x.code = "e-m" /\ <<x.prod, x.year>> \in insts}}

(* NoDoc when it raises: no rows, an unknown key, or chemistry that drifts.  *)
Assembled(rows, insts, runs, built) ==
  LET pairs == UNION {b.nodes : b \in built}
      prods == {i[1] : i \in runs}
      parents(p) == {r.parent : r \in {x \in ToSet(rows) :
                                      /\ x.prod = p /\ x.code \in Codes
                                      /\ <<p, x.year>> \in insts}}
  IN  [nodes |-> [n \in {x[1] : x \in pairs} |-> (CHOOSE x \in pairs : x[1] = n)[2]],
       stmts |-> UNION {b.stmts : b \in built},
       sub |-> UNION {{<<Class(p), Class(q)>> : q \in parents(p)} : p \in prods \ Declared}]
Transformed(rows, insts, em, runs) ==
  IF \/ runs = {}
     \/ \E i \in runs : ~Resolves(At(rows, i[1], i[2][1]))
     \/ \E pk \in DOMAIN em : em[pk].drifts
  THEN NoDoc
  ELSE Once([pk \in DOMAIN em |-> em[pk].table], LAMBDA canon :
         Once({build_instance(i[1], i[2], At(rows, i[1], i[2][1]), canon) : i \in runs},
              LAMBDA built : Assembled(rows, insts, runs, built)))
transform(rows, years) ==
  Once(Instances(rows, years), LAMBDA insts :
    Once([pk \in EmKeys(rows, insts) |-> EmTable(rows, insts, pk[1], pk[2])], LAMBDA em :
      Once(UNION {{<<p, at>> : at \in Dedup(rows, insts, p)} : p \in {i[1] : i \in insts}},
           LAMBDA runs : Transformed(rows, insts, em, runs))))
=============================================================================
