------------------------------ MODULE MCCorpus ------------------------------
(* Two revisions of a small dataset: a car of two components that share a    *)
(* material, a remainder, two products, one with a gap in its years.         *)
EXTENDS Corpus

Row(code, prod, year, comp, mat, el, value) ==
  [code |-> code, prod |-> prod, parent |-> "elvBEV", year |-> year,
   comp |-> <<comp>>, mat |-> IF mat = "" THEN <<>> ELSE <<mat>>, el |-> el,
   value |-> value, q |-> [Accuracy |-> IF comp = "body" THEN 1 ELSE 2]]
Share(prod, year, comp, mat, value) == <<Row("m-c", prod, year, comp, mat, "", value)>>
Elem(prod, year, comp, mat, el, value) == <<Row("e-m", prod, year, comp, mat, el, value)>>

(* 100 kg: a body of 60 (steel 30, other 30) and a battery of 40.            *)
Car(prod, year, steel, cell, alloy) ==
  Share(prod, year, "body", "steel", 30) \o Share(prod, year, "body", "other", 30)
  \o Share(prod, year, "pack", "steel", 40 - cell) \o Share(prod, year, "pack", "cell", cell)
  \o Elem(prod, year, "body", "steel", "Fe", 30 - steel)
  \o Elem(prod, year, "body", "steel", "Cr_Mo", steel)
  \o Elem(prod, year, "pack", "steel", "Fe", 40 - cell)
  \o (IF alloy THEN Elem(prod, year, "pack", "steel", "Cr_Mo", (40 - cell) \div 10) ELSE <<>>)

(* V1 repeats 2018 in 2019; V2 repeats 2017 in 2019, with a year between.    *)
Early == Car("V2", 2017, 12, 10, FALSE) \o Car("V2", 2019, 12, 10, FALSE)
         \o Car("V1", 2018, 6, 20, TRUE) \o Car("V1", 2019, 6, 20, TRUE)
         \o Car("V1", 2020, 6, 30, TRUE)
(* 2022 has a row, but none of a composition.                                *)
Later == Car("V1", 2019, 6, 30, TRUE) \o Car("V2", 2019, 12, 10, FALSE) \o Car("V1", 2021, 6, 30, TRUE)
         \o <<Row("note", "V1", 2022, "body", "steel", "", 1)>>
(* The high-strength steel of the shipped example has both tags.             *)
BothTags == Share("V1", 2018, "body", "steel", 30)
            \o Elem("V1", 2018, "body", "steel", "Fe", 15)
            \o Elem("V1", 2018, "body", "steel", "Cr", 6)
            \o Elem("V1", 2018, "body", "steel", "Cr_Mo", 9)
            \o Share("V1", 2019, "body", "steel", 30)

CONSTANTS early, later, both
MCDataset == (early :> Early) @@ (later :> Later) @@ (both :> BothTags)
Call(data, width, lo, hi) == [data |-> data, width |-> width, year_min |-> lo, year_max |-> hi]
(* The first two give the window of 2016 the same file, the third another.   *)
MCExports == {Call(early, 4, 1900, 2100), Call(early, 4, 1900, 2019),
              Call(later, 4, 2019, 2021), Call(later, 2, 2022, 2100)}
BothExports == {Call(both, 1, 1900, 2100)}
MCDeclared == {"body", "pack", "steel", "cell", "Iron", "Chromium", "elvBEV"}
MCCatchall == {"other"}
MCAlias == <<>>
MCSymbolToElement == ("Fe" :> "Iron") @@ ("Cr" :> "Chromium") @@ ("Cr_Mo" :> "Chromium")
MCDefaultQuality == [Accuracy |-> 3, Validity |-> 2]
MCCorrections ==
  [k \in {[comp |-> "pack", mat |-> "cell", q |-> [Accuracy |-> 2, Validity |-> 2]]}
     |-> [Validity |-> 4]]
ASSUME FairAssumption == \A x \in Exports : FairRows(x)
=============================================================================
