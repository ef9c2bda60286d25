--------------------------- MODULE Corpus_proofs ---------------------------
(* The directory of composition files for any exports, any routers and any   *)
(* interleaving of them: what a digest writes is true of the files, what one *)
(* export leaves is complete and gives the masses of its rows back, and a    *)
(* shared file has one make-up.                                              *)
EXTENDS Corpus, FiniteSetTheorems, WellFoundedInduction, TLAPS

USE ExportAssumption DEF history, exporting

Value == Exports \cup {Absent, Torn}
WindowPaths == UNION {Windows(x) : x \in Exports}
Entries == [sig : Value, read : Value]
Catalogs == UNION {[D -> Entries] : D \in SUBSET WindowPaths}

Digests == [todo : SUBSET WindowPaths, sig : Value, found : Catalogs,
            quiet : BOOLEAN, prev : Catalogs]

TypeInv ==
  /\ disk \in [Paths -> Value]
  /\ begun \in SUBSET (Exports \ Refusals) /\ again \in SUBSET begun
  /\ complete \in Exports \cup {Idle}
  /\ exporter = Idle \/ exporter \in [call : begun, open : BOOLEAN, todo : SUBSET Paths]
  /\ catalog \in Catalogs \cup {Absent, Torn}
  /\ router \in [Routers -> Digests \cup {Idle}]
  /\ removed \in Nat

(* An export always ends with its catalog, and only opens what it writes.    *)
Files(x) == {Shared, Catalog} \cup {b.file : b \in BucketsOf(x)}
ExportInv ==
  exporter # Idle =>
    /\ Catalog \in exporter.todo
    /\ exporter.todo \subseteq {Shared, Catalog} \cup Windows(exporter.call)
    /\ exporter.open => Upcoming(exporter.todo) \in Files(exporter.call)
    /\ complete = Idle

(* What a file holds was written by an export that has begun.                *)
DiskInv == \A p \in Paths : disk[p] \in Exports => disk[p] \in begun

(* Of two exports that share a file neither is alone with its bytes.         *)
KinInv == \A x, y \in begun : x # y /\ Kin(x, y) => x \in again

(* A first call of an export finds nothing of its own where it has to write. *)
FreshInv ==
  exporter # Idle /\ exporter.call \notin again =>
    \A p \in exporter.todo : disk[p] # exporter.call

(* An export that has left a file, unless it is called again: the file holds *)
(* something else now, and no call of the export has it left to write.       *)
Gone(x, p) ==
  /\ x \in begun /\ disk[p] # x
  /\ exporter # Idle /\ exporter.call = x => p \notin exporter.todo

(* An entry is right about the file its signature was taken of, or the       *)
(* export of that file was called again or has left it.                      *)
Sound(p, entry) ==
  (entry.sig \in Exports /\ entry.read # entry.sig) =>
    entry.sig \in again \/ Gone(entry.sig, p)

(* What a router holds the signature of is still there, or so is its loss.   *)
Signed(x, p) == x \in again \/ (x \in begun /\ disk[p] = x) \/ Gone(x, p)

CatalogInv == catalog \notin {Absent, Torn} => \A p \in DOMAIN catalog : Sound(p, catalog[p])

(* The digest of a router that no file disturbed.                            *)
Repaired(p, entry, prev) ==
  /\ Same(p, entry.sig, disk[p])
  /\ Same(p, entry.read, disk[p]) \/ (disk[p] \in again /\ Kept(p, entry, prev))
QuietInv(d) ==
  /\ d.todo \cup DOMAIN d.found = Sources
  /\ \A p \in DOMAIN d.found : Readable(p) => Repaired(p, d.found[p], d.prev)
  /\ d.sig # Absent => d.sig = disk[First(d.todo)]
DigestInv(d) ==
  /\ \A p \in DOMAIN d.found : Sound(p, d.found[p])
  /\ \A p \in DOMAIN d.prev : Sound(p, d.prev[p])
  /\ d.sig \in Exports => Signed(d.sig, First(d.todo))
  /\ d.todo \cap DOMAIN d.found = {}
  /\ d.sig # Absent => d.todo # {}
  /\ d.quiet => QuietInv(d)
RouterInv == \A r \in Routers : router[r] # Idle => DigestInv(router[r])

(* Only one export ever began, and nothing was removed by hand: only its     *)
(* files are there, what a call has passed is written, and when the last     *)
(* call has come to its end everything is.                                   *)
Alone(x) ==
  /\ \A p \in Paths \ Files(x) : disk[p] = Absent
  /\ exporter # Idle => \A p \in Files(x) \ exporter.todo : disk[p] = x
  /\ complete = x => \A p \in Files(x) : disk[p] = x
AloneInv ==
  /\ begun = {} => \A p \in Paths : disk[p] = Absent
  /\ \A x \in Exports : begun = {x} /\ removed = 0 => Alone(x)

IInv == TypeInv /\ ExportInv /\ DiskInv /\ KinInv /\ FreshInv /\ CatalogInv /\ RouterInv /\ AloneInv

-----------------------------------------------------------------------------
(* Paths.                                                                    *)

(* A nonempty set of numbers has a least one.                                *)
LEMMA LeastOf ==
  ASSUME NEW S \in SUBSET Nat, S # {}
  PROVE  \E x \in S : \A y \in S : x <= y
<1>1. PICK x \in S : \A y \in S : ~ (<<y, x>> \in OpToRel(<, Nat))
  BY NatLessThanWellFounded, WFMin
<1>2. \A y \in S : x <= y
  <2>. SUFFICES ASSUME NEW y \in S, y < x PROVE FALSE
    OBVIOUS
  <2>1. <<y, x>> \in OpToRel(<, Nat)
    BY DEF OpToRel
  <2>. QED
    BY <1>1, <2>1
<1>. QED
  BY <1>2

(* A window is a pair of years.                                              *)
LEMMA WindowPairs == WindowPaths \subseteq Nat \X Nat
<1>. SUFFICES ASSUME NEW x \in Exports, NEW y \in Years(x)
              PROVE  bucket_of(y, x.width) \in Nat \X Nat
  BY DEF WindowPaths, Windows
<1>1. y \in Nat
  BY DEF Years, _clamp_window
<1>. PICK w \in Nat \ {0} : w = x.width
  OBVIOUS
<1>2. (y \div w) \in Nat
  BY <1>1
<1>3. (y \div w) * w \in Nat
  BY <1>2
<1>. QED
  BY <1>3 DEF bucket_of

(* The window a digest takes next is one of those it has left.               *)
LEMMA FirstIn ==
  ASSUME NEW S \in SUBSET WindowPaths, S # {}
  PROVE  First(S) \in S
<1>1. S \in SUBSET (Nat \X Nat)
  BY WindowPairs
<1>2. PICK a \in {p[1] : p \in S} : \A b \in {p[1] : p \in S} : a <= b
  <2>1. {p[1] : p \in S} \in SUBSET Nat /\ {p[1] : p \in S} # {}
    BY <1>1
  <2>. QED
    BY <2>1, LeastOf
<1>. DEFINE T == {p \in S : p[1] = a}
<1>3. PICK c \in {p[2] : p \in T} : \A b \in {p[2] : p \in T} : c <= b
  <2>1. {p[2] : p \in T} \in SUBSET Nat /\ {p[2] : p \in T} # {}
    BY <1>1, <1>2
  <2>. QED
    BY <2>1, LeastOf
<1>4. PICK p \in T : p[2] = c
  BY <1>3
<1>5. \A q \in S : p[1] < q[1] \/ p = q \/ (p[1] = q[1] /\ p[2] < q[2])
  <2>. TAKE q \in S
  <2>1. p \in Nat \X Nat /\ q \in Nat \X Nat /\ p[1] <= q[1]
    BY <1>1, <1>2, <1>4
  <2>2. p[1] = q[1] => p[2] <= q[2]
    BY <1>3, <1>4
  <2>. QED
    BY <2>1, <2>2
<1>. QED
  BY <1>4, <1>5 DEF First

(* The shared file and the catalog are no windows.                           *)
LEMMA Apart ==
  /\ Shared # Catalog /\ Shared \notin WindowPaths /\ Catalog \notin WindowPaths
  /\ Paths = {Shared, Catalog} \cup WindowPaths
<1>1. ASSUME NEW p \in Nat \X Nat PROVE p # Shared /\ p # Catalog
  <2>1. DOMAIN p = {1, 2} /\ DOMAIN Shared = {} /\ DOMAIN Catalog = {1}
    BY DEF Shared, Catalog
  <2>. QED
    BY <2>1
<1>2. Shared # Catalog
  <2>1. DOMAIN Shared = {} /\ DOMAIN Catalog = {1}
    BY DEF Shared, Catalog
  <2>. QED
    BY <2>1
<1>. QED
  BY <1>1, <1>2, WindowPairs DEF Paths, WindowPaths

(* The file an export opens next is one it has left to write.                *)
LEMMA UpcomingIn ==
  ASSUME NEW S \in SUBSET Paths, Catalog \in S
  PROVE  Upcoming(S) \in S /\ (Upcoming(S) = Catalog => S = {Catalog})
<1>1. CASE Shared \in S
  BY <1>1, Apart DEF Upcoming
<1>2. CASE Shared \notin S /\ S = {Catalog}
  BY <1>2 DEF Upcoming
<1>3. CASE Shared \notin S /\ S # {Catalog}
  <2>. DEFINE W == S \ {Catalog}
  <2>1. W \in SUBSET WindowPaths /\ W # {}
    BY <1>3, Apart
  <2>2. First(W) \in W
    <3>. HIDE DEF W
    <3>. QED
      BY <2>1, FirstIn
  <2>. QED
    BY <1>3, <2>2 DEF Upcoming
<1>. QED
  BY <1>1, <1>2, <1>3

-----------------------------------------------------------------------------
(* What the exporter and a hand that removes files may do.                   *)

FileStep ==
  \/ \E x \in Exports : export_buckets(x)
  \/ OpenFile \/ WriteFile \/ Crash \/ \E p \in Paths : RemoveFile(p)

(* What a call of x adds to the exports whose bytes may come back: x, and    *)
(* those begun that write something x writes.                                *)
Recurs(x) ==
  /\ again \subseteq again' /\ again' \subseteq begun'
  /\ x \in begun => x \in again'
  /\ \A y \in begun : Kin(x, y) => x \in again' /\ y \in again'

(* A call starts at its first file.                                          *)
LEMMA CallStep ==
  ASSUME TypeInv, NEW x \in Exports, export_buckets(x)
  PROVE  /\ UNCHANGED <<disk, catalog, router, digests, removed>> /\ exporter = Idle
         /\ \/ UNCHANGED <<exporter, begun, again, complete>>
            \/ /\ x \notin Refusals /\ begun' = begun \cup {x}
               /\ Recurs(x) /\ complete' = Idle
               /\ exporter' = [call |-> x, open |-> FALSE,
                               todo |-> {Shared, Catalog} \cup Windows(x)]
<1>1. CASE x \in Refusals
  BY <1>1 DEF export_buckets
<1>2. CASE x \notin Refusals
  <2>. DEFINE twins == {y \in begun : y = x \/ Kin(x, y)}
  <2>1. /\ begun' = begun \cup {x}
        /\ again' = IF twins = {} THEN again ELSE again \cup twins \cup {x}
    BY <1>2 DEF export_buckets
  <2>2. again \subseteq begun
    BY DEF TypeInv
  <2>3. Recurs(x)
    BY <2>1, <2>2 DEF Recurs
  <2>. QED
    BY <1>2, <2>3 DEF export_buckets
<1>. QED
  BY <1>1, <1>2

(* A file is opened, or passed over because nothing goes into it.            *)
LEMMA OpenStep ==
  ASSUME TypeInv, ExportInv, OpenFile
  PROVE  LET x == exporter.call
             p == Upcoming(exporter.todo)
         IN  /\ UNCHANGED <<begun, again, complete, catalog, digests, removed>>
             /\ exporter # Idle /\ p \in exporter.todo
             /\ \/ exporter' = Idle /\ UNCHANGED <<disk, router>>
                \/ /\ p # Catalog /\ p \notin Files(x) /\ <<x, p>> \notin Raising
                   /\ exporter' = [exporter EXCEPT !.todo = @ \ {p}, !.open = FALSE]
                   /\ UNCHANGED <<disk, router>>
                \/ /\ p \in Files(x)
                   /\ exporter' = [exporter EXCEPT !.open = TRUE]
                   /\ disk' = [disk EXCEPT ![p] = Torn] /\ Touched
<1>. PICK x : x = exporter.call
  OBVIOUS
<1>. PICK p : p = Upcoming(exporter.todo)
  OBVIOUS
<1>1. /\ exporter # Idle /\ exporter.todo \in SUBSET Paths /\ x \in Exports
      /\ Catalog \in exporter.todo /\ exporter.todo \subseteq {Shared, Catalog} \cup Windows(x)
      /\ UNCHANGED <<begun, again, complete, catalog, digests, removed>>
  BY DEF OpenFile, TypeInv, ExportInv
<1>2. p \in exporter.todo
  BY <1>1, UpcomingIn
<1>3. p \in Windows(x) => p # Shared /\ p # Catalog
  BY <1>1, Apart DEF WindowPaths
<1>4. CASE <<x, p>> \in Raising
  BY <1>1, <1>2, <1>4 DEF OpenFile
<1>5. CASE p \in Windows(x) /\ <<x, p>> \notin Raising /\ \A b \in BucketsOf(x) : b.file # p
  <2>1. exporter' = Next_(exporter) /\ UNCHANGED <<disk, router>>
    BY <1>5 DEF OpenFile
  <2>2. p \notin Files(x)
    BY <1>3, <1>5 DEF Files
  <2>. QED
    BY <1>1, <1>2, <1>3, <1>5, <2>1, <2>2 DEF Next_
<1>6. CASE /\ <<x, p>> \notin Raising
           /\ ~(p \in Windows(x) /\ <<x, p>> \notin Raising /\ \A b \in BucketsOf(x) : b.file # p)
  <2>1. /\ exporter' = [exporter EXCEPT !.open = TRUE]
        /\ disk' = [disk EXCEPT ![p] = Torn] /\ Touched
    BY <1>6 DEF OpenFile
  <2>2. p \in Files(x)
    BY <1>1, <1>2, <1>6 DEF Files
  <2>. QED
    BY <1>1, <1>2, <2>1, <2>2
<1>. QED
  BY <1>4, <1>5, <1>6

(* A file is written.                                                        *)
LEMMA WriteStep ==
  ASSUME TypeInv, ExportInv, WriteFile
  PROVE  LET x == exporter.call
             p == Upcoming(exporter.todo)
         IN  /\ UNCHANGED <<begun, again, catalog, digests, removed>> /\ Touched
             /\ exporter # Idle /\ p \in exporter.todo
             /\ p \in Files(x) /\ disk' = [disk EXCEPT ![p] = x]
             /\ \/ /\ exporter' = Idle /\ p = Catalog /\ exporter.todo = {Catalog}
                   /\ complete' = x
                \/ /\ p # Catalog /\ complete' = complete
                   /\ exporter' = [exporter EXCEPT !.todo = @ \ {p}, !.open = FALSE]
<1>1. /\ exporter # Idle /\ exporter.todo \in SUBSET Paths /\ Catalog \in exporter.todo
      /\ exporter.open /\ Upcoming(exporter.todo) \in Files(exporter.call)
  BY DEF WriteFile, TypeInv, ExportInv
<1>. QED
  BY <1>1, UpcomingIn DEF WriteFile, Next_

(* A file that changes unsettles every digest under way, and nothing else of *)
(* it.                                                                       *)
LEMMA TouchedType ==
  ASSUME TypeInv, Touched
  PROVE  /\ router' \in [Routers -> Digests \cup {Idle}]
         /\ \A r \in Routers : router'[r] # Idle =>
              /\ router[r] # Idle
              /\ router'[r] = [router[r] EXCEPT !.quiet = FALSE]
<1>. SUFFICES ASSUME NEW r \in Routers
              PROVE  /\ router'[r] \in Digests \cup {Idle}
                     /\ router'[r] # Idle =>
                          /\ router[r] # Idle
                          /\ router'[r] = [router[r] EXCEPT !.quiet = FALSE]
  BY DEF Touched
<1>1. router'[r] = IF router[r] = Idle THEN Idle ELSE [router[r] EXCEPT !.quiet = FALSE]
  BY DEF Touched
<1>2. router[r] = Idle \/ router[r] \in Digests
  BY DEF TypeInv
<1>. QED
  BY <1>1, <1>2 DEF Digests

LEMMA FileTypes ==
  ASSUME TypeInv, ExportInv, DiskInv, FileStep
  PROVE  TypeInv' /\ ExportInv' /\ DiskInv'
<1>1. ASSUME NEW x \in Exports, export_buckets(x) PROVE TypeInv' /\ ExportInv' /\ DiskInv'
  <2>1. CASE UNCHANGED <<exporter, begun, again, complete>>
    BY <1>1, <2>1, CallStep DEF TypeInv, ExportInv, DiskInv, Digests
  <2>2. CASE /\ x \notin Refusals /\ begun' = begun \cup {x}
             /\ Recurs(x) /\ complete' = Idle
             /\ exporter' = [call |-> x, open |-> FALSE,
                             todo |-> {Shared, Catalog} \cup Windows(x)]
    <3>1. {Shared, Catalog} \cup Windows(x) \subseteq Paths
      BY Apart DEF WindowPaths
    <3>2. UNCHANGED <<disk, catalog, router, digests, removed>>
      BY <1>1, CallStep
    <3>3. exporter' \in [call : begun', open : BOOLEAN, todo : SUBSET Paths]
      BY <2>2, <3>1
    <3>. QED
      BY <2>2, <3>2, <3>3 DEF TypeInv, ExportInv, DiskInv, Digests, Recurs
  <2>. QED
    BY <1>1, <2>1, <2>2, CallStep
<1>2. CASE OpenFile
  <2>. PICK x, p : x = exporter.call /\ p = Upcoming(exporter.todo)
    OBVIOUS
  <2>1. /\ UNCHANGED <<begun, again, complete, catalog, digests, removed>>
        /\ exporter # Idle /\ complete = Idle /\ p \in exporter.todo
        /\ exporter \in [call : begun, open : BOOLEAN, todo : SUBSET Paths]
        /\ Catalog \in exporter.todo /\ exporter.todo \subseteq {Shared, Catalog} \cup Windows(x)
    BY <1>2, OpenStep DEF TypeInv, ExportInv
  <2>2. CASE exporter' = Idle /\ UNCHANGED <<disk, router>>
    BY <2>1, <2>2 DEF TypeInv, ExportInv, DiskInv, Digests
  <2>3. CASE /\ p # Catalog /\ p \notin Files(x)
             /\ exporter' = [exporter EXCEPT !.todo = @ \ {p}, !.open = FALSE]
             /\ UNCHANGED <<disk, router>>
    <3>1. /\ exporter' \in [call : begun', open : BOOLEAN, todo : SUBSET Paths]
          /\ exporter'.todo = exporter.todo \ {p} /\ exporter'.call = x /\ ~exporter'.open
      BY <2>1, <2>3
    <3>. QED
      BY <2>1, <2>3, <3>1 DEF TypeInv, ExportInv, DiskInv, Digests
  <2>4. CASE /\ p \in Files(x) /\ exporter' = [exporter EXCEPT !.open = TRUE]
             /\ disk' = [disk EXCEPT ![p] = Torn] /\ Touched
    <3>1. /\ exporter' \in [call : begun', open : BOOLEAN, todo : SUBSET Paths]
          /\ exporter'.todo = exporter.todo /\ exporter'.call = x
      BY <2>1, <2>4
    <3>2. disk' \in [Paths -> Value] /\ \A q \in Paths : disk'[q] \in {disk[q], Torn}
      BY <2>4 DEF TypeInv, Value
    <3>3. ExportInv' /\ DiskInv'
      BY <2>1, <2>4, <3>1, <3>2 DEF ExportInv, DiskInv
    <3>. QED
      BY <2>1, <2>4, <3>1, <3>2, <3>3, TouchedType DEF TypeInv, Digests
  <2>. QED
    BY <1>2, <2>2, <2>3, <2>4, OpenStep
<1>3. CASE WriteFile
  <2>. PICK x, p : x = exporter.call /\ p = Upcoming(exporter.todo)
    OBVIOUS
  <2>1. /\ UNCHANGED <<begun, again, catalog, digests, removed>> /\ Touched
        /\ exporter # Idle /\ p \in exporter.todo /\ disk' = [disk EXCEPT ![p] = x]
        /\ exporter \in [call : begun, open : BOOLEAN, todo : SUBSET Paths] /\ x \in begun
        /\ begun \subseteq Exports
        /\ Catalog \in exporter.todo /\ exporter.todo \subseteq {Shared, Catalog} \cup Windows(x)
    BY <1>3, WriteStep DEF TypeInv, ExportInv
  <2>2. disk' \in [Paths -> Value] /\ \A q \in Paths : disk'[q] \in {disk[q], x}
    BY <2>1 DEF TypeInv, Value
  <2>3. DiskInv'
    BY <2>1, <2>2 DEF DiskInv
  <2>4. CASE exporter' = Idle /\ complete' = x
    BY <2>1, <2>2, <2>3, <2>4, TouchedType DEF TypeInv, ExportInv, Digests
  <2>5. CASE /\ p # Catalog /\ complete' = complete /\ complete = Idle
             /\ exporter' = [exporter EXCEPT !.todo = @ \ {p}, !.open = FALSE]
    <3>1. /\ exporter' \in [call : begun', open : BOOLEAN, todo : SUBSET Paths]
          /\ exporter'.todo = exporter.todo \ {p} /\ exporter'.call = x /\ ~exporter'.open
      BY <2>1, <2>5
    <3>. QED
      BY <2>1, <2>2, <2>3, <2>5, <3>1, TouchedType DEF TypeInv, ExportInv, Digests
  <2>. QED
    BY <1>3, <2>4, <2>5, WriteStep DEF ExportInv
<1>4. CASE Crash
  BY <1>4 DEF Crash, TypeInv, ExportInv, DiskInv, Digests
<1>5. ASSUME NEW p \in Paths, RemoveFile(p) PROVE TypeInv' /\ ExportInv' /\ DiskInv'
  <2>1. /\ UNCHANGED <<exporter, begun, again, complete, catalog, digests>> /\ Touched
        /\ disk' = [disk EXCEPT ![p] = Absent] /\ removed' = removed + 1
    BY <1>5 DEF RemoveFile
  <2>2. disk' \in [Paths -> Value] /\ \A q \in Paths : disk'[q] \in {disk[q], Absent}
    BY <2>1 DEF TypeInv, Value
  <2>3. ExportInv' /\ DiskInv'
    BY <2>1, <2>2 DEF ExportInv, DiskInv, Files
  <2>. QED
    BY <2>1, <2>2, <2>3, TouchedType DEF TypeInv, Digests
<1>. QED
  BY <1>1, <1>2, <1>3, <1>4, <1>5 DEF FileStep

(* Alike is taken over what the exports write.                               *)
LEMMA AlikePairs == Alike = Pairs(Contents)
  BY DEF Alike, Once

(* Two exports that share a file share it both ways.                         *)
LEMMA KinBoth ==
  ASSUME NEW x, NEW y, Kin(x, y)
  PROVE  Kin(y, x)
<1>1. PICK p \in Paths \ {Shared} : <<p, x, y>> \in Alike
  BY DEF Kin
<1>2. PICK d \in Contents \X Contents :
        d[1].path = d[2].path /\ d[1].graph = d[2].graph /\ p = d[1].path /\ x = d[1].call /\ y = d[2].call
  BY <1>1, AlikePairs DEF Pairs
<1>3. <<d[2], d[1]>> \in Contents \X Contents
  BY <1>2
<1>4. <<p, y, x>> \in Alike
  BY <1>2, <1>3, AlikePairs DEF Pairs
<1>. QED
  BY <1>1, <1>4 DEF Kin

LEMMA AlikeExports ==
  ASSUME NEW p, NEW x, NEW y, <<p, x, y>> \in Alike
  PROVE  x \in Exports /\ y \in Exports
<1>1. PICK d \in Contents \X Contents : x = d[1].call /\ y = d[2].call
  BY AlikePairs DEF Pairs
<1>2. \A w \in Written : w[1] \in Exports
  <2>1. \A w \in AllWindows : w[1] \in Exports
    BY DEF AllWindows
  <2>. QED
    BY <2>1 DEF Written, WindowDocs
<1>3. ASSUME NEW c \in Contents PROVE c.call \in Exports
  <2>1. \/ \E w \in Written : c.call = w[1]
        \/ c.call \in Exports \ Refusals
    <3>. DEFINE graph(w) == Once(w[3], LAMBDA doc : composition_rdf(Structural(doc)))
                em(z) == Once(FullDoc(z), LAMBDA doc : composition_rdf(EmDoc(doc)))
    <3>1. \/ \E w \in Written : c = [call |-> w[1], path |-> w[2], graph |-> graph(w)]
          \/ \E z \in Exports \ Refusals : c = [call |-> z, path |-> Shared, graph |-> em(z)]
      BY DEF Contents
    <3>. HIDE DEF graph, em
    <3>. QED
      BY <3>1
  <2>. QED
    BY <1>2, <2>1
<1>. QED
  BY <1>1, <1>3

LEMMA FileKin ==
  ASSUME TypeInv, KinInv, FileStep
  PROVE  KinInv'
<1>1. ASSUME NEW x \in Exports, export_buckets(x) PROVE KinInv'
  <2>1. CASE UNCHANGED <<exporter, begun, again, complete>>
    BY <2>1 DEF KinInv, Kin
  <2>2. CASE begun' = begun \cup {x} /\ Recurs(x)
    <3>1. ASSUME NEW y \in begun, y # x, Kin(x, y) PROVE x \in again' /\ y \in again'
      BY <2>2, <3>1 DEF Recurs
    <3>2. again \subseteq again'
      BY <2>2 DEF Recurs
    <3>3. ASSUME NEW y \in begun', NEW z \in begun', y # z, Kin(y, z) PROVE y \in again'
      BY <2>2, <3>1, <3>2, <3>3, KinBoth DEF KinInv
    <3>. QED
      BY <3>3 DEF KinInv, Kin
  <2>. QED
    BY <1>1, <2>1, <2>2, CallStep
<1>2. ASSUME UNCHANGED <<begun, again>> PROVE KinInv'
  BY <1>2 DEF KinInv, Kin
<1>. QED
  BY <1>1, <1>2 DEF FileStep, OpenFile, WriteFile, Crash, RemoveFile

(* A first call still has only to write where nothing of its own is.         *)
LEMMA FileFresh ==
  ASSUME TypeInv, ExportInv, DiskInv, FreshInv, FileStep
  PROVE  FreshInv'
<1>1. ASSUME NEW x \in Exports, export_buckets(x) PROVE FreshInv'
  <2>1. exporter' # Idle => exporter'.call = x /\ exporter'.todo \subseteq Paths
                           /\ (x \in begun => x \in again')
    BY <1>1, CallStep, Apart DEF WindowPaths, Recurs
  <2>2. UNCHANGED disk
    BY <1>1, CallStep
  <2>. QED
    BY <1>1, <2>1, <2>2 DEF FreshInv, DiskInv
<1>2. ASSUME exporter # Idle, UNCHANGED again,
             exporter' # Idle =>
               /\ exporter'.call = exporter.call /\ exporter'.todo \subseteq exporter.todo
               /\ \A q \in exporter'.todo : disk'[q] \in {disk[q], Torn, Absent}
      PROVE  FreshInv'
  <2>1. exporter.call \in Exports
    BY <1>2 DEF TypeInv
  <2>. QED
    BY <1>2, <2>1 DEF FreshInv
<1>3. CASE OpenFile
  <2>1. /\ exporter # Idle /\ UNCHANGED again /\ disk \in [Paths -> Value]
        /\ exporter \in [call : begun, open : BOOLEAN, todo : SUBSET Paths]
    BY <1>3, OpenStep DEF TypeInv
  <2>2. exporter' # Idle =>
          /\ exporter'.call = exporter.call /\ exporter'.todo \subseteq exporter.todo
          /\ \A q \in exporter.todo : disk'[q] \in {disk[q], Torn, Absent}
    BY <1>3, <2>1, OpenStep
  <2>. QED
    BY <1>2, <2>1, <2>2
<1>4. CASE WriteFile
  <2>. PICK x, p : x = exporter.call /\ p = Upcoming(exporter.todo)
    OBVIOUS
  <2>1. /\ exporter # Idle /\ UNCHANGED again /\ disk \in [Paths -> Value]
        /\ exporter \in [call : begun, open : BOOLEAN, todo : SUBSET Paths]
        /\ disk' = [disk EXCEPT ![p] = x]
        /\ exporter' # Idle => exporter' = [exporter EXCEPT !.todo = @ \ {p}, !.open = FALSE]
    BY <1>4, WriteStep DEF TypeInv
  <2>2. exporter' # Idle =>
          /\ exporter'.call = exporter.call /\ exporter'.todo = exporter.todo \ {p}
          /\ \A q \in exporter.todo \ {p} : disk'[q] = disk[q]
    BY <2>1
  <2>. QED
    BY <1>2, <2>1, <2>2
<1>5. CASE Crash
  BY <1>5 DEF Crash, FreshInv
<1>6. ASSUME NEW p \in Paths, RemoveFile(p) PROVE FreshInv'
  <2>1. UNCHANGED <<exporter, again>> /\ \A q \in Paths : disk'[q] \in {disk[q], Absent}
    BY <1>6 DEF RemoveFile, TypeInv
  <2>2. exporter # Idle => exporter.todo \subseteq Paths
    BY DEF TypeInv
  <2>. QED
    BY <1>2, <2>1, <2>2 DEF FreshInv
<1>. QED
  BY <1>1, <1>3, <1>4, <1>5, <1>6 DEF FileStep

(* What appears in a file is what the export under way had left to write     *)
(* there; a call that begins is of an export that never began, or again.     *)
Goes ==
  exporter' # Idle =>
    \/ /\ exporter # Idle /\ exporter'.call = exporter.call
       /\ exporter'.todo \subseteq exporter.todo
    \/ exporter'.call \notin begun
    \/ exporter'.call \in again'
LEMMA FileEffect ==
  ASSUME TypeInv, ExportInv, FileStep
  PROVE  /\ begun \subseteq begun' /\ again \subseteq again' /\ catalog' = catalog
         /\ UNCHANGED <<disk, router>> \/ Touched
         /\ Goes
         /\ \A p \in Paths :
              \/ disk'[p] \in {disk[p], Torn, Absent}
              \/ exporter # Idle /\ disk'[p] = exporter.call /\ p \in exporter.todo
<1>. DEFINE Effect ==
       /\ begun \subseteq begun' /\ again \subseteq again' /\ catalog' = catalog
       /\ UNCHANGED <<disk, router>> \/ Touched
       /\ Goes
       /\ \A p \in Paths :
            \/ disk'[p] \in {disk[p], Torn, Absent}
            \/ exporter # Idle /\ disk'[p] = exporter.call /\ p \in exporter.todo
<1>1. ASSUME NEW x \in Exports, export_buckets(x) PROVE Effect
  BY <1>1, CallStep DEF Goes, Recurs
<1>2. CASE OpenFile
  <2>1. /\ exporter # Idle
        /\ exporter \in [call : begun, open : BOOLEAN, todo : SUBSET Paths]
        /\ exporter' # Idle =>
             \/ \E p : exporter' = [exporter EXCEPT !.todo = @ \ {p}, !.open = FALSE]
             \/ exporter' = [exporter EXCEPT !.open = TRUE]
    BY <1>2, OpenStep DEF TypeInv
  <2>2. exporter' # Idle =>
           exporter'.call = exporter.call /\ exporter'.todo \subseteq exporter.todo
    BY <2>1
  <2>3. Goes
    BY <2>1, <2>2 DEF Goes
  <2>. QED
    BY <1>2, <2>3, OpenStep DEF TypeInv
<1>3. CASE WriteFile
  <2>. PICK x, p : x = exporter.call /\ p = Upcoming(exporter.todo)
    OBVIOUS
  <2>1. /\ exporter # Idle
        /\ exporter \in [call : begun, open : BOOLEAN, todo : SUBSET Paths]
        /\ exporter' # Idle => exporter' = [exporter EXCEPT !.todo = @ \ {p}, !.open = FALSE]
    BY <1>3, WriteStep DEF TypeInv
  <2>2. exporter' # Idle =>
           exporter'.call = exporter.call /\ exporter'.todo \subseteq exporter.todo
    BY <2>1
  <2>3. Goes
    BY <2>1, <2>2 DEF Goes
  <2>. QED
    BY <1>3, <2>3, WriteStep DEF TypeInv
<1>4. CASE Crash
  BY <1>4 DEF Crash, Goes
<1>5. ASSUME NEW p \in Paths, RemoveFile(p) PROVE Effect
  BY <1>5 DEF RemoveFile, TypeInv, Goes
<1>. QED
  BY <1>1, <1>2, <1>3, <1>4, <1>5 DEF FileStep

(* An export that left a file comes back to it only when called again.       *)
LEMMA GoneKept ==
  ASSUME TypeInv, ExportInv, FileStep, NEW x \in Exports, NEW p \in Paths, Gone(x, p)
  PROVE  x \in again' \/ Gone(x, p)'
<1>1. disk'[p] # x
  BY FileEffect DEF Gone
<1>2. CASE exporter' # Idle /\ exporter'.call = x /\ x \notin again'
  BY <1>1, <1>2, FileEffect DEF Goes, Gone
<1>. QED
  BY <1>1, <1>2, FileEffect DEF Gone

LEMMA SignedKept ==
  ASSUME TypeInv, ExportInv, FreshInv, FileStep,
         NEW x \in Exports, NEW p \in Paths, Signed(x, p)
  PROVE  Signed(x, p)'
<1>1. CASE x \in again
  BY <1>1, FileEffect DEF Signed
<1>2. CASE Gone(x, p)
  BY <1>2, GoneKept DEF Signed
<1>3. CASE x \in begun /\ disk[p] = x /\ x \notin again'
  <2>1. x \in begun' /\ x \notin again
    BY <1>3, FileEffect
  <2>2. CASE disk'[p] = x
    BY <2>1, <2>2 DEF Signed
  <2>3. CASE disk'[p] # x
    <3>1. ASSUME exporter' # Idle, exporter'.call = x PROVE p \notin exporter'.todo
      BY <1>3, <2>1, <3>1, FileEffect DEF Goes, FreshInv
    <3>. QED
      BY <2>1, <2>3, <3>1 DEF Signed, Gone
  <2>. QED
    BY <2>2, <2>3
<1>. QED
  BY <1>1, <1>2, <1>3 DEF Signed

(* What catalogs and digests record stays sound while files change.          *)
LEMMA SoundKept ==
  ASSUME TypeInv, ExportInv, FileStep, NEW entry \in Entries, NEW p \in Paths, Sound(p, entry)
  PROVE  Sound(p, entry)'
BY GoneKept, FileEffect DEF Sound

LEMMA InCatalog ==
  ASSUME NEW c \in Catalogs, NEW p \in DOMAIN c
  PROVE  p \in WindowPaths /\ p \in Paths /\ c[p] \in Entries
BY Apart DEF Catalogs

LEMMA FileRecords ==
  ASSUME TypeInv, ExportInv, FreshInv, CatalogInv, RouterInv, FileStep
  PROVE  CatalogInv' /\ RouterInv'
<1>1. CatalogInv'
  <2>. SUFFICES ASSUME catalog \notin {Absent, Torn}, NEW p \in DOMAIN catalog
                PROVE  Sound(p, catalog[p])'
    BY FileEffect DEF CatalogInv
  <2>1. catalog \in Catalogs /\ Sound(p, catalog[p])
    BY DEF TypeInv, CatalogInv
  <2>2. p \in Paths /\ catalog[p] \in Entries
    BY <2>1, InCatalog
  <2>3. PICK entry \in Entries : entry = catalog[p] /\ entry = catalog'[p]
    BY <2>2, FileEffect
  <2>4. Sound(p, entry)'
    BY <2>1, <2>2, <2>3, SoundKept
  <2>. QED
    BY <2>3, <2>4 DEF Sound, Gone
<1>2. RouterInv'
  <2>. SUFFICES ASSUME NEW r \in Routers, router'[r] # Idle
                PROVE  DigestInv(router[r])'
    BY DEF RouterInv
  <2>1. /\ router[r] # Idle /\ router[r] \in Digests /\ DigestInv(router[r])
        /\ ((router'[r] = router[r] /\ UNCHANGED disk)
            \/ router'[r] = [router[r] EXCEPT !.quiet = FALSE])
    <3>1. router[r] # Idle /\ ((router'[r] = router[r] /\ UNCHANGED disk)
                               \/ router'[r] = [router[r] EXCEPT !.quiet = FALSE])
      BY FileEffect, TouchedType
    <3>. QED
      BY <3>1 DEF TypeInv, RouterInv
  <2>. PICK d \in Digests : d = router[r]
    BY <2>1
  <2>. PICK e : e = router'[r]
    OBVIOUS
  <2>2. /\ e.found = d.found /\ e.prev = d.prev /\ e.sig = d.sig /\ e.todo = d.todo
        /\ e.quiet => d.quiet /\ UNCHANGED disk
    BY <2>1 DEF Digests
  <2>3. /\ \A p \in DOMAIN d.found : Sound(p, d.found[p])'
        /\ \A p \in DOMAIN d.prev : Sound(p, d.prev[p])'
    <3>1. ASSUME NEW c \in Catalogs, \A p \in DOMAIN c : Sound(p, c[p]), NEW p \in DOMAIN c
          PROVE  Sound(p, c[p])'
      BY <3>1, InCatalog, SoundKept
    <3>. QED
      BY <2>1, <3>1 DEF DigestInv, Digests
  <2>4. d.sig \in Exports => Signed(d.sig, First(d.todo))'
    <3>. SUFFICES ASSUME d.sig \in Exports PROVE Signed(d.sig, First(d.todo))'
      OBVIOUS
    <3>1. d.todo \in SUBSET WindowPaths /\ d.todo # {} /\ Signed(d.sig, First(d.todo))
      BY <2>1 DEF DigestInv, Digests
    <3>2. First(d.todo) \in Paths
      BY <3>1, FirstIn, Apart
    <3>. QED
      BY <3>1, <3>2, SignedKept
  <2>5. e.quiet => QuietInv(e)'
    <3>. SUFFICES ASSUME e.quiet PROVE QuietInv(e)'
      OBVIOUS
    <3>1. UNCHANGED disk /\ again \subseteq again' /\ QuietInv(d)
      BY <2>1, <2>2, FileEffect DEF DigestInv
    <3>2. \A p \in DOMAIN d.found : Readable(p)' => Repaired(p, d.found[p], d.prev)'
      BY <3>1 DEF QuietInv, Readable, Repaired, Kept, Same
    <3>. QED
      BY <2>2, <3>1, <3>2 DEF QuietInv, Sources
  <2>6. DigestInv(e)'
    BY <2>1, <2>2, <2>3, <2>4, <2>5 DEF DigestInv
  <2>. QED
    BY <2>6 DEF DigestInv, QuietInv, Sources, Readable, Repaired, Same, Kept, Sound, Signed, Gone
<1>. QED
  BY <1>1, <1>2

(* The files of an export are the shared one, windows and the catalog.       *)
LEMMA FilesArePaths ==
  ASSUME NEW x \in Exports \ Refusals
  PROVE  Files(x) \subseteq {Shared, Catalog} \cup Windows(x) /\ Files(x) \subseteq Paths
<1>1. ASSUME NEW b \in BucketsOf(x) PROVE b.file \in Windows(x)
  <2>1. PICK w \in Written : b = [call |-> w[1], file |-> w[2], classes |-> Once(w[3], _doc_classes)]
    BY <1>1 DEF BucketsOf, Buckets
  <2>2. b.call = x /\ b.call = w[1] /\ b.file = w[2]
    BY <1>1, <2>1 DEF BucketsOf
  <2>3. PICK v \in AllWindows : w = <<v[1], v[2], WindowDoc(v[1], v[2])>>
    BY <2>1 DEF Written, WindowDocs
  <2>4. v[1] = x /\ v[2] = b.file
    BY <2>2, <2>3
  <2>5. v[2] \in Windows(v[1])
    BY DEF AllWindows
  <2>. QED
    BY <2>4, <2>5
<1>. QED
  BY <1>1, Apart DEF Files, WindowPaths

LEMMA FileAlone ==
  ASSUME TypeInv, ExportInv, DiskInv, AloneInv, FileStep
  PROVE  AloneInv'
<1>1. ASSUME begun' = {} PROVE \A p \in Paths : disk'[p] = Absent
  <2>1. begun = {}
    BY <1>1, FileEffect
  <2>2. exporter = Idle
    BY <2>1 DEF TypeInv
  <2>3. UNCHANGED disk \/ \E p \in Paths : disk' = [disk EXCEPT ![p] = Absent]
    BY <2>2 DEF FileStep, export_buckets, OpenFile, WriteFile, Crash, RemoveFile
  <2>. QED
    BY <2>1, <2>3 DEF AloneInv, TypeInv
<1>2. ASSUME NEW x \in Exports, begun' = {x}, removed' = 0 PROVE Alone(x)'
  <2>1. CASE begun # {x}
    <3>1. PICK y \in Exports : export_buckets(y)
                             /\ begun' = begun \cup {y} /\ UNCHANGED disk
      <4>1. begun' # begun
        BY <1>2, <2>1
      <4>2. ASSUME OpenFile \/ WriteFile \/ Crash \/ \E p \in Paths : RemoveFile(p)
            PROVE  begun' = begun
        BY <4>2 DEF OpenFile, WriteFile, Crash, RemoveFile
      <4>. QED
        BY <4>1, <4>2, CallStep DEF FileStep
    <3>0. begun \subseteq {x}
      BY <1>2, <3>1
    <3>2. begun = {} /\ \A p \in Paths : disk'[p] = Absent
      BY <2>1, <3>0, <3>1 DEF AloneInv
    <3>3. /\ exporter' \in {[call |-> y, open |-> FALSE, todo |-> {Shared, Catalog} \cup Windows(y)]}
          /\ y \notin Refusals /\ y = x /\ complete' = Idle
      BY <1>2, <3>1, <3>2, CallStep
    <3>4. Files(x) \subseteq exporter'.todo /\ Catalog \in Paths
      BY <3>3, FilesArePaths, Apart
    <3>. QED
      BY <3>2, <3>3, <3>4 DEF Alone, Files, BucketsOf
  <2>2. CASE begun = {x} /\ removed # 0
    BY <1>2, <2>2 DEF FileStep, export_buckets, OpenFile, WriteFile, Crash, RemoveFile, TypeInv
  <2>3. CASE begun = {x} /\ removed = 0
    <3>. DEFINE F == Files(x)
                After ==
                  /\ \A q \in Paths \ F : disk'[q] = Absent
                  /\ exporter' # Idle => \A q \in F \ exporter'.todo : disk'[q] = x
                  /\ complete' = x => \A q \in F : disk'[q] = x
    <3>. SUFFICES After
      BY DEF Alone, Files, BucketsOf
    <3>1. Alone(x) /\ x \in Exports \ Refusals /\ Files(x) \subseteq Paths /\ Catalog \in F
      BY <2>3, FilesArePaths DEF AloneInv, TypeInv, Files
    <3>2. exporter # Idle =>
            /\ exporter.call = x /\ Catalog \in exporter.todo /\ complete = Idle
            /\ exporter \in [call : begun, open : BOOLEAN, todo : SUBSET Paths]
      BY <2>3 DEF TypeInv, ExportInv
    <3>. USE DEF Alone
    <3>3. CASE \E y \in Exports : export_buckets(y)
      <4>. PICK y \in Exports : export_buckets(y)
        BY <3>3
      <4>1. CASE UNCHANGED <<exporter, begun, again, complete>>
        BY <3>1, <4>1, CallStep
      <4>2. CASE /\ begun' = begun \cup {y} /\ complete' = Idle
                 /\ exporter' = [call |-> y, open |-> FALSE,
                                 todo |-> {Shared, Catalog} \cup Windows(y)]
        <5>1. y = x /\ F \subseteq exporter'.todo
          BY <1>2, <3>1, <4>2, FilesArePaths
        <5>. QED
          BY <3>1, <4>2, <5>1, CallStep
      <4>. QED
        BY <4>1, <4>2, CallStep
    <3>4. CASE OpenFile
      <4>. PICK p : p = Upcoming(exporter.todo)
        OBVIOUS
      <4>1. /\ p \in exporter.todo /\ exporter # Idle /\ complete' = Idle
            /\ disk \in [Paths -> Value]
        BY <3>2, <3>4, OpenStep DEF TypeInv
      <4>2. CASE exporter' = Idle /\ UNCHANGED <<disk, router>>
        BY <3>1, <4>1, <4>2
      <4>3. CASE /\ p \notin F /\ exporter' = [exporter EXCEPT !.todo = @ \ {p}, !.open = FALSE]
                 /\ UNCHANGED <<disk, router>>
        <5>1. exporter'.todo = exporter.todo \ {p}
          BY <3>2, <4>1, <4>3
        <5>. QED
          BY <3>1, <4>1, <4>3, <5>1
      <4>4. CASE /\ p \in F /\ exporter' = [exporter EXCEPT !.open = TRUE]
                 /\ disk' = [disk EXCEPT ![p] = Torn]
        <5>1. exporter'.todo = exporter.todo
          BY <3>2, <4>1, <4>4
        <5>2. \A q \in Paths : disk'[q] = IF q = p THEN Torn ELSE disk[q]
          BY <4>1, <4>4
        <5>. QED
          BY <3>1, <4>1, <4>4, <5>1, <5>2
      <4>. QED
        BY <3>2, <3>4, <4>2, <4>3, <4>4, OpenStep
    <3>5. CASE WriteFile
      <4>. PICK p : p = Upcoming(exporter.todo)
        OBVIOUS
      <4>1. /\ p \in exporter.todo /\ exporter # Idle /\ p \in F /\ disk \in [Paths -> Value]
            /\ disk' = [disk EXCEPT ![p] = x]
        BY <3>2, <3>5, WriteStep DEF TypeInv
      <4>2. \A q \in Paths : disk'[q] = IF q = p THEN x ELSE disk[q]
        BY <4>1
      <4>3. CASE exporter' = Idle /\ p = Catalog /\ exporter.todo = {Catalog}
        BY <3>1, <4>1, <4>2, <4>3
      <4>4. CASE /\ p # Catalog /\ complete' = complete
                 /\ exporter' = [exporter EXCEPT !.todo = @ \ {p}, !.open = FALSE]
        <5>1. exporter'.todo = exporter.todo \ {p} /\ complete' = Idle
          BY <3>2, <4>1, <4>4
        <5>. QED
          BY <3>1, <4>1, <4>2, <5>1
      <4>. QED
        BY <3>5, <4>3, <4>4, WriteStep
    <3>6. CASE Crash
      BY <3>1, <3>2, <3>6 DEF Crash
    <3>7. CASE \E p \in Paths : RemoveFile(p)
      BY <1>2, <2>3, <3>7 DEF RemoveFile, TypeInv
    <3>. QED
      BY <3>3, <3>4, <3>5, <3>6, <3>7 DEF FileStep
  <2>. QED
    BY <2>1, <2>2, <2>3
<1>. QED
  BY <1>1, <1>2 DEF AloneInv
-----------------------------------------------------------------------------
(* What a router may do.                                                     *)

RouterStep(r) ==
  \/ build_corpus(r) \/ _file_sig(r) \/ _scan_file(r)
  \/ OpenCatalog(r) \/ WriteCatalog(r) \/ CrashRouter(r)

LEMMA RouterLeavesFiles ==
  ASSUME NEW r \in Routers, RouterStep(r)
  PROVE  UNCHANGED <<disk, exporter, begun, again, complete, removed>>
BY DEF RouterStep, build_corpus, _file_sig, _scan_file, Digesting, OpenCatalog, WriteCatalog,
       CrashRouter

LEMMA EmptyCatalog == <<>> \in Catalogs /\ DOMAIN <<>> = {}
<1>1. DOMAIN <<>> = {}
  OBVIOUS
<1>2. <<>> = [x \in {} |-> Absent]
  BY <1>1
<1>3. <<>> \in [{} -> Entries]
  BY <1>2
<1>. QED
  BY <1>1, <1>3 DEF Catalogs

(* A window digested: it has an entry, the others keep theirs.               *)
LEMMA DoneEntry ==
  ASSUME NEW d \in Digests, NEW p \in d.todo, p \notin DOMAIN d.found, NEW entry \in Entries
  PROVE  /\ Done(d, p, entry) \in Digests
         /\ Done(d, p, entry).todo = d.todo \ {p} /\ Done(d, p, entry).sig = Absent
         /\ Done(d, p, entry).quiet = d.quiet /\ Done(d, p, entry).prev = d.prev
         /\ DOMAIN Done(d, p, entry).found = DOMAIN d.found \cup {p}
         /\ Done(d, p, entry).found[p] = entry
         /\ \A q \in DOMAIN d.found : Done(d, p, entry).found[q] = d.found[q]
<1>. DEFINE f == [q \in DOMAIN d.found \cup {p} |-> IF q = p THEN entry ELSE d.found[q]]
<1>1. /\ DOMAIN f = DOMAIN d.found \cup {p} /\ f[p] = entry
      /\ \A q \in DOMAIN d.found : f[q] = d.found[q]
  OBVIOUS
<1>2. d.found \in Catalogs /\ p \in WindowPaths
  BY DEF Digests
<1>3. f \in Catalogs
  <2>1. PICK D \in SUBSET WindowPaths : d.found \in [D -> Entries]
    BY <1>2 DEF Catalogs
  <2>2. f \in [D \cup {p} -> Entries]
    BY <2>1
  <2>3. D \cup {p} \in SUBSET WindowPaths
    BY <1>2
  <2>. HIDE DEF f
  <2>. QED
    BY <2>2, <2>3 DEF Catalogs
<1>4. Done(d, p, entry) = [d EXCEPT !.todo = d.todo \ {p}, !.sig = Absent, !.found = f]
  BY DEF Done
<1>. HIDE DEF f
<1>5. /\ Done(d, p, entry) \in Digests
      /\ Done(d, p, entry).todo = d.todo \ {p} /\ Done(d, p, entry).sig = Absent
      /\ Done(d, p, entry).quiet = d.quiet /\ Done(d, p, entry).prev = d.prev
      /\ Done(d, p, entry).found = f
  BY <1>3, <1>4 DEF Digests, Value
<1>. QED
  BY <1>1, <1>5

(* An entry under the signature of the file there now is right, unless the   *)
(* bytes of the file may have been written more than once.                   *)
LEMMA SoundIsTrue ==
  ASSUME TypeInv, DiskInv, KinInv, NEW p \in Paths \ {Shared}, disk[p] \in Exports,
         NEW entry \in Entries, Sound(p, entry), Same(p, entry.sig, disk[p]),
         disk[p] \notin again
  PROVE  Same(p, entry.read, disk[p])
<1>. PICK x, y : x = entry.sig /\ y = disk[p]
  OBVIOUS
<1>1. CASE x = y
  BY <1>1 DEF Sound, Gone, Same
<1>2. CASE x # y
  <2>1. <<p, x, y>> \in Alike
    BY <1>2 DEF Same
  <2>2. Kin(x, y) /\ Kin(y, x)
    BY <2>1, KinBoth DEF Kin
  <2>3. x \in Exports
    BY <2>1, AlikeExports
  <2>4. entry.read # x => x \in begun
    BY <2>3 DEF Sound, Gone, TypeInv
  <2>5. y \in begun /\ y \notin again
    BY DEF DiskInv
  <2>6. entry.read = x
    BY <1>2, <2>2, <2>4, <2>5 DEF KinInv
  <2>. QED
    BY <2>1, <2>6 DEF Same
<1>. QED
  BY <1>1, <1>2

(* A digest that begins has all files left; one under way takes the next.    *)
LEMMA DigestStep ==
  ASSUME TypeInv, DiskInv, KinInv, CatalogInv, NEW d \in Digests, DigestInv(d), d.todo # {},
         NEW e,
         LET p == First(d.todo)
         IN  \/ ~Readable(p) /\ e = Done(d, p, Errored)
             \/ /\ d.sig = Absent /\ p \in DOMAIN d.prev /\ Same(p, d.prev[p].sig, disk[p])
                /\ e = Done(d, p, d.prev[p])
             \/ d.sig = Absent /\ disk[p] # Absent /\ e = [d EXCEPT !.sig = disk[p]]
             \/ d.sig # Absent /\ e = Done(d, p, Entry(d.sig, disk[p]))
  PROVE  e \in Digests /\ DigestInv(e)
<1>. PICK p : p = First(d.todo)
  OBVIOUS
<1>1. p \in d.todo /\ p \in WindowPaths /\ p \in Paths /\ p \notin DOMAIN d.found
  BY FirstIn, Apart DEF Digests, DigestInv
<1>2. disk[p] \in Value /\ d.sig \in Value /\ d.prev \in Catalogs
  BY <1>1 DEF TypeInv, Digests
<1>3. \/ d.sig = Absent /\ disk[p] # Absent /\ e = [d EXCEPT !.sig = disk[p]]
      \/ \E entry \in Entries :
           /\ e = Done(d, p, entry)
           /\ Sound(p, entry)
           /\ d.quiet /\ Readable(p) => Repaired(p, entry, d.prev)
  <2>1. CASE ~Readable(p) /\ e = Done(d, p, Errored)
    <3>1. Errored \in Entries /\ Sound(p, Errored)
      BY DEF Errored, Entries, Value, Sound
    <3>. QED
      BY <2>1, <3>1
  <2>2. CASE /\ d.sig = Absent /\ p \in DOMAIN d.prev /\ Same(p, d.prev[p].sig, disk[p])
             /\ e = Done(d, p, d.prev[p])
    <3>1. d.prev[p] \in Entries /\ Sound(p, d.prev[p])
      BY <1>2, <2>2, InCatalog DEF DigestInv
    <3>2. Readable(p) => Repaired(p, d.prev[p], d.prev)
      <4>1. p \in Paths \ {Shared}
        BY <1>1, Apart
      <4>2. Readable(p) /\ disk[p] \notin again => Same(p, d.prev[p].read, disk[p])
        BY <2>2, <3>1, <4>1, SoundIsTrue DEF Readable
      <4>. QED
        BY <2>2, <4>2 DEF Repaired, Kept
    <3>. QED
      BY <2>2, <3>1, <3>2
  <2>3. CASE d.sig # Absent /\ e = Done(d, p, Entry(d.sig, disk[p]))
    <3>. PICK entry : entry = Entry(d.sig, disk[p])
      OBVIOUS
    <3>1. e = Done(d, p, entry) /\ entry \in Entries
      BY <1>2, <2>3 DEF Entry, Entries
    <3>2. Sound(p, entry)
      BY <2>3 DEF Sound, Entry, DigestInv, Signed
    <3>3. d.quiet /\ Readable(p) => Repaired(p, entry, d.prev)
      BY <2>3 DEF DigestInv, QuietInv, Repaired, Same, Entry
    <3>. QED
      BY <3>1, <3>2, <3>3
  <2>. QED
    BY <2>1, <2>2, <2>3
<1>4. CASE d.sig = Absent /\ disk[p] # Absent /\ e = [d EXCEPT !.sig = disk[p]]
  <2>1. /\ e \in Digests /\ e.sig = disk[p] /\ e.found = d.found /\ e.prev = d.prev
        /\ e.todo = d.todo /\ e.quiet = d.quiet
    BY <1>2, <1>4 DEF Digests
  <2>2. e.sig \in Exports => Signed(e.sig, First(e.todo))
    BY <1>1, <2>1 DEF Signed, DiskInv
  <2>. QED
    BY <2>1, <2>2 DEF DigestInv, QuietInv
<1>5. ASSUME NEW entry \in Entries, e = Done(d, p, entry), Sound(p, entry),
             d.quiet /\ Readable(p) => Repaired(p, entry, d.prev)
      PROVE  e \in Digests /\ DigestInv(e)
  <2>1. /\ e \in Digests
        /\ e.todo = d.todo \ {p} /\ e.sig = Absent
        /\ e.quiet = d.quiet /\ e.prev = d.prev
        /\ DOMAIN e.found = DOMAIN d.found \cup {p} /\ e.found[p] = entry
        /\ \A q \in DOMAIN d.found : e.found[q] = d.found[q]
    BY <1>1, <1>5, DoneEntry
  <2>2. \A q \in DOMAIN e.found : Sound(q, e.found[q])
    BY <1>5, <2>1 DEF DigestInv
  <2>3. e.quiet => QuietInv(e)
    BY <1>1, <1>5, <2>1 DEF DigestInv, QuietInv
  <2>. QED
    BY <2>1, <2>2, <2>3 DEF DigestInv
<1>. QED
  BY <1>3, <1>4, <1>5

(* Where the files stay as they are, so does what is known of them.          *)
LEMMA FilesKept ==
  ASSUME UNCHANGED <<disk, exporter, begun, again>>
  PROVE  /\ \A d : DigestInv(d) => DigestInv(d)'
         /\ \A p, entry : Sound(p, entry) => Sound(p, entry)'
BY DEF DigestInv, QuietInv, Sources, Readable, Repaired, Same, Kept, Sound, Signed, Gone

LEMMA RouterInvKept ==
  ASSUME TypeInv, ExportInv, DiskInv, KinInv, FreshInv, CatalogInv, RouterInv, AloneInv,
         NEW r \in Routers, RouterStep(r)
  PROVE  IInv'
<1>1. UNCHANGED <<disk, exporter, begun, again, complete, removed>>
  BY RouterLeavesFiles
<1>2. ExportInv' /\ DiskInv' /\ KinInv' /\ FreshInv' /\ AloneInv'
  BY <1>1 DEF ExportInv, DiskInv, KinInv, Kin, FreshInv, AloneInv, Alone, Files, BucketsOf
<1>3. router \in [Routers -> Digests \cup {Idle}] /\ catalog \in Catalogs \cup {Absent, Torn}
  BY DEF TypeInv
<1>4. /\ catalog' \in Catalogs \cup {Absent, Torn} /\ CatalogInv'
      /\ \/ router' = router
         \/ router' = [router EXCEPT ![r] = Idle]
         \/ \E e \in Digests : DigestInv(e) /\ router' = [router EXCEPT ![r] = e]
  <2>1. ASSUME catalog' = catalog PROVE catalog' \in Catalogs \cup {Absent, Torn} /\ CatalogInv'
    BY <1>1, <1>3, <2>1, FilesKept DEF CatalogInv
  <2>2. CASE build_corpus(r)
    <3>. DEFINE prev == IF catalog \in {Absent, Torn} THEN <<>> ELSE catalog
                d == [todo |-> Sources, sig |-> Absent, found |-> <<>>, quiet |-> TRUE,
                      prev |-> prev]
    <3>1. router' = [router EXCEPT ![r] = d] /\ catalog' = catalog
      BY <2>2 DEF build_corpus
    <3>2. Sources \in SUBSET WindowPaths
      BY Apart DEF Sources
    <3>3. prev \in Catalogs /\ \A p \in DOMAIN prev : Sound(p, prev[p])
      BY <1>3, EmptyCatalog DEF CatalogInv
    <3>. HIDE DEF prev
    <3>4. d \in Digests
      BY <3>2, <3>3, EmptyCatalog DEF Digests, Value
    <3>5. DigestInv(d)
      BY <3>3, EmptyCatalog DEF DigestInv, QuietInv
    <3>. QED
      BY <2>1, <3>1, <3>4, <3>5
  <2>3. CASE _file_sig(r) \/ _scan_file(r)
    <3>. PICK d : d = router[r]
      OBVIOUS
    <3>1. /\ catalog' = catalog /\ d # Idle /\ d \in Digests /\ d.todo # {} /\ DigestInv(d)
      BY <1>3, <2>3 DEF _file_sig, _scan_file, Digesting, RouterInv
    <3>. PICK p : p = First(d.todo)
      OBVIOUS
    <3>2. CASE _file_sig(r)
      <4>1. PICK e :
              /\ router' = [router EXCEPT ![r] = e]
              /\ \/ disk[p] = Absent /\ e = Done(d, p, Errored)
                 \/ p \in DOMAIN d.prev /\ Same(p, d.prev[p].sig, disk[p]) /\ e = Done(d, p, d.prev[p])
                 \/ disk[p] # Absent /\ e = [d EXCEPT !.sig = disk[p]]
        BY <3>2 DEF _file_sig
      <4>2. d.sig = Absent
        BY <3>2 DEF _file_sig, Digesting
      <4>3. e \in Digests /\ DigestInv(e)
        BY <3>1, <4>1, <4>2, DigestStep DEF Readable
      <4>. QED
        BY <2>1, <3>1, <4>1, <4>3
    <3>3. CASE _scan_file(r)
      <4>1. PICK e :
              /\ router' = [router EXCEPT ![r] = e]
              /\ \/ e = Done(d, p, Entry(d.sig, disk[p]))
                 \/ ~Readable(p) /\ e = Done(d, p, Errored)
        BY <3>3 DEF _scan_file
      <4>2. d.sig # Absent
        BY <3>3 DEF _scan_file, Digesting
      <4>3. e \in Digests /\ DigestInv(e)
        BY <3>1, <4>1, <4>2, DigestStep
      <4>. QED
        BY <2>1, <3>1, <4>1, <4>3
    <3>. QED
      BY <2>3, <3>2, <3>3
  <2>4. CASE OpenCatalog(r)
    BY <2>4 DEF OpenCatalog, CatalogInv
  <2>5. CASE WriteCatalog(r)
    <3>1. /\ router[r] \in Digests /\ DigestInv(router[r]) /\ catalog' = router[r].found
          /\ router' = [router EXCEPT ![r] = Idle]
      BY <1>3, <2>5 DEF WriteCatalog, RouterInv
    <3>2. catalog' \in Catalogs /\ CatalogInv'
      BY <1>1, <3>1, FilesKept DEF CatalogInv, DigestInv, Digests
    <3>. QED
      BY <3>1, <3>2
  <2>6. CASE CrashRouter(r)
    BY <2>1, <2>6 DEF CrashRouter
  <2>. QED
    BY <2>2, <2>3, <2>4, <2>5, <2>6 DEF RouterStep
<1>5. router' \in [Routers -> Digests \cup {Idle}]
  BY <1>3, <1>4
<1>6. TypeInv'
  BY <1>1, <1>4, <1>5 DEF TypeInv
<1>7. RouterInv'
  <2>. SUFFICES ASSUME NEW q \in Routers, router'[q] # Idle PROVE DigestInv(router[q])'
    BY DEF RouterInv
  <2>. PICK d : d = router'[q]
    OBVIOUS
  <2>1. DigestInv(d)
    BY <1>3, <1>4 DEF RouterInv
  <2>2. DigestInv(d)'
    BY <1>1, <2>1, FilesKept
  <2>. QED
    BY <2>2 DEF DigestInv, QuietInv, Sources, Readable, Repaired, Same, Kept, Sound, Signed, Gone
<1>. QED
  BY <1>2, <1>4, <1>6, <1>7 DEF IInv

-----------------------------------------------------------------------------
(* What a document of the rows is made of: the name of an element node ends  *)
(* with a chemical symbol, every other name has none, and an element node is *)
(* of the class of its symbol.                                               *)

Named(n) == "el" \in DOMAIN n /\ n.el \in {""} \cup DOMAIN SymbolToElement
Specified(spec) ==
  /\ {"level", "class", "mass"} \subseteq DOMAIN spec
  /\ spec.level = "Element" =>
       \E symbol \in DOMAIN SymbolToElement : spec.class = Class(SymbolToElement[symbol])
Joins(s, nodes) ==
  {"whole", "part", "best"} \subseteq DOMAIN s /\ s.whole \in nodes /\ s.part \in nodes

(* A symbol that is kept is one of the table, and names its class.           *)
LEMMA KeptSymbols ==
  ASSUME NEW rows, Resolves(rows), NEW k \in KeptKeys(Masses(rows)), NEW e \in KeptElements(rows, k)
  PROVE  e \in DOMAIN SymbolToElement /\ element_class(e) = SymbolToElement[e]
<1>1. k \in Keys(Rows(rows, "m-c"))
  BY DEF KeptKeys, Masses
<1>2. PICK r \in ToSet(RowsOf(Rows(rows, "e-m"), k)) : r.el = e /\ ~IsOmitted(element_class(e))
  BY DEF KeptElements
<1>3. element_class(e) # Refused
  BY <1>1, <1>2 DEF Resolves
<1>. QED
  BY <1>2, <1>3 DEF element_class, IsOmitted

(* What one instance adds to a document.                                     *)
LEMMA InstanceShape ==
  ASSUME NEW prod, NEW at, NEW rows, NEW canon, Resolves(rows)
  PROVE  LET b == InstanceOf(prod, at, rows, Masses(rows), canon)
         IN  /\ \A x \in b.nodes : Named(x[1]) /\ Specified(x[2])
             /\ \A s \in b.stmts : Joins(s, {x[1] : x \in b.nodes})
<1>. DEFINE masses == Masses(rows)
            car == Node(prod, at, "", "", "")
            cn(comp) == Node(prod, at, Leaf(comp), "", "")
            mn(k) == Node(prod, <<>>, Leaf(k[1]), Leaf(k[2]), "")
            en(k, el) == Node(prod, <<>>, Leaf(k[1]), Leaf(k[2]), el)
            spec(level, class, mass) == [level |-> level, class |-> Class(class), mass |-> mass]
            first(k) == RowsOf(Rows(rows, "m-c"), k)[1]
            nodes ==
              {<<car, spec("Product", prod, ItemMass(masses))>>}
              \cup {<<cn(c), spec("Component", class_for(Leaf(c), "unknownComponent"),
                                  CompMass(masses, c))>> : c \in KeptComps(masses)}
              \cup {<<mn(k), spec("Material", class_for(Leaf(k[2]), "unknownMaterial"), 0)>> :
                      k \in KeptKeys(masses)}
              \cup UNION {{<<en(k, e), spec("Element", element_class(e), 0)>> :
                             e \in KeptElements(rows, k)} : k \in KeptKeys(masses)}
            shares == UNION {Statement(car, cn(c), CompMass(masses, c), ItemMass(masses),
                                       DefaultQuality) : c \in KeptComps(masses)}
            materials == UNION {Statement(cn(k[1]), mn(k), masses[k], CompMass(masses, k[1]),
                                  lookup(Leaf(k[1]), Leaf(k[2]), fill_quality(first(k).q))) :
                                k \in KeptKeys(masses)}
            Tabled(k) == IF <<prod, k>> \in DOMAIN canon THEN DOMAIN canon[<<prod, k>>] ELSE {}
            chemistry ==
              UNION {UNION {Statement(mn(k), en(k, e), canon[<<prod, k>>][e].best, Unit,
                              lookup(Leaf(k[1]), Leaf(k[2]), canon[<<prod, k>>][e].q)) :
                            e \in KeptElements(rows, k) \cap Tabled(k)} : k \in KeptKeys(masses)}
            N == {x[1] : x \in nodes}
<1>1. InstanceOf(prod, at, rows, masses, canon)
        = [nodes |-> nodes, stmts |-> shares \cup materials \cup chemistry]
  BY DEF InstanceOf
<1>2. ASSUME NEW x \in nodes PROVE Named(x[1]) /\ Specified(x[2])
  <2>1. CASE x = <<car, spec("Product", prod, ItemMass(masses))>>
    BY <2>1 DEF Named, Specified, Node
  <2>2. ASSUME NEW c \in KeptComps(masses),
                 x = <<cn(c), spec("Component", class_for(Leaf(c), "unknownComponent"),
                                 CompMass(masses, c))>>
        PROVE  Named(x[1]) /\ Specified(x[2])
    BY <2>2 DEF Named, Specified, Node
  <2>3. ASSUME NEW k \in KeptKeys(masses),
               x = <<mn(k), spec("Material", class_for(Leaf(k[2]), "unknownMaterial"), 0)>>
        PROVE  Named(x[1]) /\ Specified(x[2])
    BY <2>3 DEF Named, Specified, Node
  <2>4. ASSUME NEW k \in KeptKeys(masses), NEW e \in KeptElements(rows, k),
               x = <<en(k, e), spec("Element", element_class(e), 0)>>
        PROVE  Named(x[1]) /\ Specified(x[2])
    BY <2>4, KeptSymbols DEF Named, Specified, Node
  <2>. HIDE DEF car, cn, mn, en, spec, masses
  <2>. QED
    BY <2>1, <2>2, <2>3, <2>4
<1>3. /\ car \in N
      /\ \A c \in KeptComps(masses) : cn(c) \in N
      /\ \A k \in KeptKeys(masses) : mn(k) \in N
      /\ \A k \in KeptKeys(masses) : \A e \in KeptElements(rows, k) : en(k, e) \in N
  <2>1. <<car, spec("Product", prod, ItemMass(masses))>> \in nodes
    OBVIOUS
  <2>2. ASSUME NEW c \in KeptComps(masses)
        PROVE  <<cn(c), spec("Component", class_for(Leaf(c), "unknownComponent"),
                             CompMass(masses, c))>> \in nodes
    <3>. HIDE DEF cn, spec, masses
    <3>. QED
      OBVIOUS
  <2>3. ASSUME NEW k \in KeptKeys(masses)
        PROVE  <<mn(k), spec("Material", class_for(Leaf(k[2]), "unknownMaterial"), 0)>> \in nodes
    <3>. HIDE DEF mn, spec, masses
    <3>. QED
      OBVIOUS
  <2>4. ASSUME NEW k \in KeptKeys(masses), NEW e \in KeptElements(rows, k)
        PROVE  <<en(k, e), spec("Element", element_class(e), 0)>> \in nodes
    <3>. DEFINE of(h) == {<<en(h, d), spec("Element", element_class(d), 0)>> :
                            d \in KeptElements(rows, h)}
    <3>1. <<en(k, e), spec("Element", element_class(e), 0)>> \in of(k)
      OBVIOUS
    <3>. HIDE DEF of, en, spec, masses
    <3>2. of(k) \subseteq UNION {of(h) : h \in KeptKeys(masses)}
      OBVIOUS
    <3>. USE DEF of
    <3>. QED
      BY <3>1, <3>2
  <2>5. \A x \in nodes : x[1] \in N
    <3>. HIDE DEF nodes
    <3>. QED
      OBVIOUS
  <2>. HIDE DEF nodes, N, masses
  <2>6. ASSUME NEW n, NEW w, <<n, w>> \in nodes PROVE n \in N
    BY <2>5, <2>6
  <2>7. ASSUME NEW k \in KeptKeys(masses), NEW e \in KeptElements(rows, k) PROVE en(k, e) \in N
    BY <2>4, <2>6
  <2>8. ASSUME NEW c \in KeptComps(masses) PROVE cn(c) \in N
    BY <2>2, <2>6
  <2>. HIDE DEF en, cn
  <2>. QED
    BY <2>1, <2>3, <2>6, <2>7, <2>8
<1>4. \A k \in KeptKeys(masses) : k[1] \in KeptComps(masses)
  BY DEF KeptKeys
<1>5. ASSUME NEW whole \in N, NEW part \in N, NEW value, NEW mass, NEW q,
             NEW s \in Statement(whole, part, value, mass, q)
      PROVE  Joins(s, N)
  <2>. HIDE DEF N
  <2>1. PICK w \in {m \in {mass} : m # 0 /\ (value * Unit) \div m > 0} :
           s = [whole |-> whole, part |-> part, best |-> (value * Unit) \div w, q |-> q]
    BY <1>5 DEF Statement
  <2>. QED
    BY <2>1 DEF Joins
<1>6. ASSUME NEW s \in shares PROVE Joins(s, N)
  <2>1. PICK c \in KeptComps(masses) :
           s \in Statement(car, cn(c), CompMass(masses, c), ItemMass(masses), DefaultQuality)
    BY <1>6
  <2>. HIDE DEF N, car, cn
  <2>. QED
    BY <1>3, <1>5, <2>1
<1>7. ASSUME NEW s \in materials PROVE Joins(s, N)
  <2>1. PICK k \in KeptKeys(masses) :
           s \in Statement(cn(k[1]), mn(k), masses[k], CompMass(masses, k[1]),
                          lookup(Leaf(k[1]), Leaf(k[2]), fill_quality(first(k).q)))
    BY <1>7
  <2>. HIDE DEF N, cn, mn, masses
  <2>2. cn(k[1]) \in N /\ mn(k) \in N
    BY <1>3, <1>4
  <2>. QED
    BY <1>5, <2>1, <2>2
<1>8. ASSUME NEW s \in chemistry PROVE Joins(s, N)
  <2>. DEFINE of(k) == UNION {Statement(mn(k), en(k, e), canon[<<prod, k>>][e].best, Unit,
                                lookup(Leaf(k[1]), Leaf(k[2]), canon[<<prod, k>>][e].q)) :
                              e \in KeptElements(rows, k) \cap Tabled(k)}
  <2>1. PICK k \in KeptKeys(masses) : s \in of(k)
    BY <1>8
  <2>2. PICK e \in KeptElements(rows, k) \cap Tabled(k) :
           s \in Statement(mn(k), en(k, e), canon[<<prod, k>>][e].best, Unit,
                          lookup(Leaf(k[1]), Leaf(k[2]), canon[<<prod, k>>][e].q))
    BY <2>1
  <2>. HIDE DEF N, mn, en, masses, Tabled, of
  <2>3. mn(k) \in N /\ en(k, e) \in N
    BY <1>3
  <2>. QED
    BY <1>5, <2>2, <2>3
<1>. HIDE DEF nodes, shares, materials, chemistry
<1>. QED
  BY <1>1, <1>2, <1>6, <1>7, <1>8

SoundDoc(doc) ==
  /\ \A n \in DOMAIN doc.nodes : Named(n) /\ Specified(doc.nodes[n])
  /\ \A s \in doc.stmts : Joins(s, DOMAIN doc.nodes)
SoundPart(b) ==
  /\ \A x \in b.nodes : Named(x[1]) /\ Specified(x[2])
  /\ \A s \in b.stmts : Joins(s, {x[1] : x \in b.nodes})

(* Instances put together are a document of the same shape.                  *)
LEMMA AssembledShape ==
  ASSUME NEW rows, NEW insts, NEW runs, NEW built, \A b \in built : SoundPart(b)
  PROVE  SoundDoc(Assembled(rows, insts, runs, built))
<1>. DEFINE pairs == UNION {b.nodes : b \in built}
            N == {x[1] : x \in pairs}
            spec(n) == (CHOOSE x \in pairs : x[1] = n)[2]
            doc == Assembled(rows, insts, runs, built)
<1>1. doc.nodes = [n \in N |-> spec(n)] /\ doc.stmts = UNION {b.stmts : b \in built}
  BY DEF Assembled
<1>2. ASSUME NEW n \in N PROVE Named(n) /\ Specified(spec(n))
  <2>. DEFINE x == CHOOSE y \in pairs : y[1] = n
  <2>1. \E y \in pairs : y[1] = n
    OBVIOUS
  <2>2. x \in pairs /\ x[1] = n
    BY <2>1
  <2>3. PICK b \in built : x \in b.nodes
    BY <2>2
  <2>. QED
    BY <2>2, <2>3 DEF SoundPart
<1>3. ASSUME NEW b \in built, NEW s \in b.stmts PROVE Joins(s, N)
  <2>1. {x[1] : x \in b.nodes} \subseteq N
    OBVIOUS
  <2>2. Joins(s, {x[1] : x \in b.nodes})
    BY DEF SoundPart
  <2>. HIDE DEF N
  <2>. QED
    BY <2>1, <2>2 DEF Joins
<1>. HIDE DEF N, spec, doc
<1>4. DOMAIN doc.nodes = N /\ \A n \in N : doc.nodes[n] = spec(n)
  BY <1>1
<1>5. \A s \in doc.stmts : Joins(s, N)
  BY <1>1, <1>3
<1>. QED
  BY <1>2, <1>4, <1>5 DEF SoundDoc, doc

(* What the transform of some rows is, when it does not raise: a document of *)
(* the first year of every run.                                              *)
RunsOf(rows, insts) ==
  UNION {{<<p, at>> : at \in Dedup(rows, insts, p)} : p \in {i[1] : i \in insts}}
FirstYear(rows, i) == At(rows, i[1], i[2][1])
Built(rows, runs, canon) == {build_instance(i[1], i[2], FirstYear(rows, i), canon) : i \in runs}

LEMMA TransformIs ==
  ASSUME NEW rows, NEW years, transform(rows, years) # NoDoc
  PROVE  LET insts == Instances(rows, years)
             runs == RunsOf(rows, insts)
         IN  /\ runs # {}
             /\ \A i \in runs : Resolves(FirstYear(rows, i))
             /\ \E canon : transform(rows, years)
                            = Assembled(rows, insts, runs, Built(rows, runs, canon))
<1>. DEFINE insts == Instances(rows, years)
            runs == RunsOf(rows, insts)
            D == transform(rows, years)
            ofRuns(em) == Once(runs, LAMBDA r : Transformed(rows, insts, em, r))
            ofInsts(in) ==
              Once([pk \in EmKeys(rows, in) |-> EmTable(rows, in, pk[1], pk[2])], LAMBDA em :
                Once(UNION {{<<p, at>> : at \in Dedup(rows, in, p)} : p \in {i[1] : i \in in}},
                     LAMBDA r : Transformed(rows, in, em, r)))
<1>1. D = ofInsts(insts)
  BY DEF transform, Once
<1>2. ofInsts(insts) = Once([pk \in EmKeys(rows, insts) |-> EmTable(rows, insts, pk[1], pk[2])], ofRuns)
  BY DEF RunsOf
<1>. HIDE DEF ofInsts
<1>3. \E em : D = ofRuns(em)
  <2>. HIDE DEF ofRuns, insts, D
  <2>. QED
    BY <1>1, <1>2 DEF Once
<1>4. PICK em : D = ofRuns(em)
  BY <1>3
<1>5. D = Transformed(rows, insts, em, runs)
  <2>. HIDE DEF insts, runs, D
  <2>. QED
    BY <1>4 DEF Once
<1>6. D # NoDoc
  BY DEF D
<1>. HIDE DEF insts, runs, D
<1>7. /\ runs # {} /\ \A i \in runs : Resolves(FirstYear(rows, i))
      /\ D = Once([pk \in DOMAIN em |-> em[pk].table], LAMBDA canon :
               Once(Built(rows, runs, canon), LAMBDA b : Assembled(rows, insts, runs, b)))
  BY <1>5, <1>6 DEF Transformed, FirstYear, Built
<1>8. \E canon : D = Assembled(rows, insts, runs, Built(rows, runs, canon))
  BY <1>7 DEF Once
<1>. QED
  BY <1>7, <1>8 DEF D, insts, runs

LEMMA TransformShape ==
  ASSUME NEW rows, NEW years, transform(rows, years) # NoDoc
  PROVE  SoundDoc(transform(rows, years))
<1>. DEFINE insts == Instances(rows, years)
            runs == RunsOf(rows, insts)
<1>. HIDE DEF insts, runs
<1>1. PICK canon : /\ \A i \in runs : Resolves(FirstYear(rows, i))
                   /\ transform(rows, years)
                        = Assembled(rows, insts, runs, Built(rows, runs, canon))
  BY TransformIs DEF insts, runs
<1>2. ASSUME NEW i \in runs
      PROVE  SoundPart(build_instance(i[1], i[2], FirstYear(rows, i), canon))
  <2>. PICK rs : rs = FirstYear(rows, i)
    OBVIOUS
  <2>1. build_instance(i[1], i[2], rs, canon) = InstanceOf(i[1], i[2], rs, Masses(rs), canon)
    BY DEF build_instance, Once
  <2>. QED
    BY <1>1, <2>1, InstanceShape DEF SoundPart
<1>3. \A b \in Built(rows, runs, canon) : SoundPart(b)
  BY <1>2 DEF Built
<1>. QED
  BY <1>1, <1>3, AssembledShape

-----------------------------------------------------------------------------
(* canonicalize_doc, on a document of that shape.                            *)

(* A node has the elements of its class: those it was measured with are in   *)
(* the make-up of its class, which is taken over its group.                  *)
LEMMA HaveInComp ==
  ASSUME NEW doc, NEW group, NEW m \in group
  PROVE  Have(doc, m) \subseteq DOMAIN CanonicalComp(doc, group)
<1>. DEFINE with == {n \in group : material_comps(doc, n) # <<>>}
<1>1. \A n : DOMAIN material_comps(doc, n) = Have(doc, n)
  BY DEF material_comps, Have
<1>2. DOMAIN CanonicalComp(doc, group) = UNION {DOMAIN material_comps(doc, n) : n \in with}
  BY DEF CanonicalComp
<1>3. ASSUME NEW c \in Have(doc, m) PROVE m \in with
  <2>1. DOMAIN material_comps(doc, m) # {}
    BY <1>1
  <2>. QED
    BY <2>1
<1>. HIDE DEF with
<1>. QED
  BY <1>1, <1>2, <1>3

(* What canonicalize_doc makes of a document, part by part.                  *)
Mats(doc) == OfLevel(doc, "Material")
Group(doc, t) == {m \in Mats(doc) : TargetClass(doc, m) = t}
Canon(doc, m) == CanonicalComp(doc, Group(doc, TargetClass(doc, m)))
Minted(m, c) == [m EXCEPT !.el = c.of]
LacksOf(doc, m) == Lacking(doc, m, Canon(doc, m))

LEMMA CanonParts ==
  ASSUME NEW doc, SoundDoc(doc)
  PROVE  LET new == canonicalize_doc(doc)
             minted == UNION {{Minted(m, c) : c \in LacksOf(doc, m)} : m \in Mats(doc)}
         IN  /\ DOMAIN new.nodes = DOMAIN doc.nodes \cup minted
             /\ \A m \in Mats(doc) :
                  new.nodes[m] = [doc.nodes[m] EXCEPT !.class = TargetClass(doc, m)]
             /\ \A n \in DOMAIN doc.nodes \ Mats(doc) : new.nodes[n] = doc.nodes[n]
             /\ \A n \in minted \ DOMAIN doc.nodes :
                  new.nodes[n] = [level |-> "Element", class |-> Class(n.el), mass |-> 0]
             /\ \A s \in new.stmts :
                  \/ s \in doc.stmts \ Chemistry(doc)
                  \/ \E r \in Chemistry(doc) :
                       s = [r EXCEPT !.best = Canon(doc, r.whole)[ClassOf(doc, r.part)]]
                  \/ \E m \in Mats(doc) : \E c \in LacksOf(doc, m) :
                       /\ s.whole = m /\ s.part = Minted(m, c) /\ s.best = Canon(doc, m)[c]
             /\ doc.stmts \ Chemistry(doc) \subseteq new.stmts /\ doc.sub \subseteq new.sub
             /\ \A r \in Chemistry(doc) :
                  [r EXCEPT !.best = Canon(doc, r.whole)[ClassOf(doc, r.part)]] \in new.stmts
             /\ \A m \in Mats(doc) : \A c \in LacksOf(doc, m) : \E s \in new.stmts :
                  /\ s.whole = m /\ s.part = Minted(m, c) /\ s.best = Canon(doc, m)[c]
<1>. DEFINE mats == OfLevel(doc, "Material")
            target == [m \in mats |-> TargetClass(doc, m)]
            canon == [t \in Range(target) |->
                        CanonicalComp(doc, {m \in mats : target[m] = t})]
            lacking(m) == Lacking(doc, m, canon[target[m]])
            minted(m, c) == [m EXCEPT !.el = c.of]
            new == UNION {{minted(m, c) : c \in lacking(m)} : m \in mats}
            rewritten == {[s EXCEPT !.best = canon[target[s.whole]][ClassOf(doc, s.part)]] :
                            s \in Chemistry(doc)}
            template == CHOOSE s \in Chemistry(doc) : TRUE
            filled == UNION {{[whole |-> m, part |-> minted(m, c), best |-> canon[target[m]][c],
                               q |-> template.q] : c \in lacking(m)} : m \in mats}
            Name(n) == IF n \in mats THEN [doc.nodes[n] EXCEPT !.class = target[n]]
                       ELSE IF n \in DOMAIN doc.nodes THEN doc.nodes[n]
                       ELSE [level |-> "Element", class |-> Class(n.el), mass |-> 0]
            made == canonicalize_doc(doc)
<1>1. /\ made.nodes = [n \in DOMAIN doc.nodes \cup new |-> Name(n)]
      /\ made.stmts = (doc.stmts \ Chemistry(doc)) \cup rewritten \cup filled
      /\ doc.sub \subseteq made.sub
  <2>1. made = Rewrite(doc, mats, target, canon)
    BY DEF canonicalize_doc, Once
  <2>. HIDE DEF made
  <2>. QED
    BY <2>1 DEF Rewrite
<1>2. mats = Mats(doc) /\ mats \subseteq DOMAIN doc.nodes
  BY DEF Mats, OfLevel
<1>3. ASSUME NEW m \in mats
      PROVE  target[m] = TargetClass(doc, m) /\ canon[target[m]] = Canon(doc, m)
  <2>1. target[m] = TargetClass(doc, m) /\ target[m] \in Range(target)
    BY DEF Range
  <2>2. {n \in mats : target[n] = TargetClass(doc, m)} = Group(doc, TargetClass(doc, m))
    BY <1>2 DEF Group
  <2>. HIDE DEF target, mats
  <2>. QED
    BY <2>1, <2>2 DEF Canon
<1>. HIDE DEF canon, target
<1>4. \A m \in mats : lacking(m) = LacksOf(doc, m)
  BY <1>3 DEF LacksOf
<1>5. \A r \in Chemistry(doc) : r.whole \in mats
  BY DEF Chemistry, Between, SoundDoc, Joins, OfLevel
<1>. HIDE DEF lacking
<1>6. new = UNION {{Minted(m, c) : c \in LacksOf(doc, m)} : m \in Mats(doc)}
  <2>1. \A m \in mats : {minted(m, c) : c \in lacking(m)} = {Minted(m, c) : c \in LacksOf(doc, m)}
    BY <1>4 DEF Minted
  <2>. HIDE DEF mats, minted
  <2>. QED
    BY <1>2, <2>1
<1>7. ASSUME NEW r \in Chemistry(doc)
      PROVE  canon[target[r.whole]][ClassOf(doc, r.part)] = Canon(doc, r.whole)[ClassOf(doc, r.part)]
  BY <1>3, <1>5
<1>8. \A s \in rewritten : \E r \in Chemistry(doc) :
        s = [r EXCEPT !.best = Canon(doc, r.whole)[ClassOf(doc, r.part)]]
  BY <1>7
<1>9. \A r \in Chemistry(doc) :
        [r EXCEPT !.best = Canon(doc, r.whole)[ClassOf(doc, r.part)]] \in rewritten
  BY <1>7
<1>10. ASSUME NEW s \in filled
       PROVE  \E m \in Mats(doc) : \E c \in LacksOf(doc, m) :
                s.whole = m /\ s.part = Minted(m, c) /\ s.best = Canon(doc, m)[c]
  <2>1. PICK m \in mats : s \in {[whole |-> m, part |-> minted(m, c), best |-> canon[target[m]][c],
                                  q |-> template.q] : c \in lacking(m)}
    BY <1>10
  <2>2. PICK c \in lacking(m) : s = [whole |-> m, part |-> minted(m, c),
                                     best |-> canon[target[m]][c], q |-> template.q]
    BY <2>1
  <2>. QED
    BY <1>2, <1>3, <1>4, <2>2 DEF Minted
<1>11. ASSUME NEW m \in Mats(doc), NEW c \in LacksOf(doc, m)
       PROVE  \E s \in filled : s.whole = m /\ s.part = Minted(m, c) /\ s.best = Canon(doc, m)[c]
  <2>. DEFINE of(n) == {[whole |-> n, part |-> minted(n, d), best |-> canon[target[n]][d],
                         q |-> template.q] : d \in lacking(n)}
              s == [whole |-> m, part |-> minted(m, c), best |-> canon[target[m]][c],
                    q |-> template.q]
  <2>1. s \in of(m)
    BY <1>2, <1>4
  <2>2. filled = UNION {of(n) : n \in mats}
    OBVIOUS
  <2>3. s.whole = m /\ s.part = Minted(m, c) /\ s.best = Canon(doc, m)[c]
    BY <1>2, <1>3 DEF Minted
  <2>. HIDE DEF of, filled, s
  <2>. QED
    BY <1>2, <2>1, <2>2, <2>3
<1>. HIDE DEF rewritten, filled, new, made
<1>12. /\ DOMAIN made.nodes = DOMAIN doc.nodes \cup new
       /\ \A n \in DOMAIN doc.nodes \cup new : made.nodes[n] = Name(n)
  <2>. HIDE DEF Name
  <2>. QED
    BY <1>1
<1>13. \A m \in Mats(doc) : made.nodes[m] = [doc.nodes[m] EXCEPT !.class = TargetClass(doc, m)]
  BY <1>2, <1>3, <1>12
<1>. HIDE DEF mats
<1>14. /\ \A n \in DOMAIN doc.nodes \ Mats(doc) : made.nodes[n] = doc.nodes[n]
       /\ \A n \in new \ DOMAIN doc.nodes :
            made.nodes[n] = [level |-> "Element", class |-> Class(n.el), mass |-> 0]
  BY <1>2, <1>12
<1>15. \A s \in made.stmts :
         \/ s \in doc.stmts \ Chemistry(doc)
         \/ \E r \in Chemistry(doc) :
              s = [r EXCEPT !.best = Canon(doc, r.whole)[ClassOf(doc, r.part)]]
         \/ \E m \in Mats(doc) : \E c \in LacksOf(doc, m) :
              s.whole = m /\ s.part = Minted(m, c) /\ s.best = Canon(doc, m)[c]
  <2>. SUFFICES ASSUME NEW s \in made.stmts, s \notin doc.stmts \ Chemistry(doc)
                PROVE  \/ \E r \in Chemistry(doc) :
                            s = [r EXCEPT !.best = Canon(doc, r.whole)[ClassOf(doc, r.part)]]
                       \/ \E m \in Mats(doc) : \E c \in LacksOf(doc, m) :
                            s.whole = m /\ s.part = Minted(m, c) /\ s.best = Canon(doc, m)[c]
    OBVIOUS
  <2>1. s \in rewritten \/ s \in filled
    BY <1>1
  <2>2. CASE s \in rewritten
    BY <1>8, <2>2
  <2>3. CASE s \in filled
    BY <1>10, <2>3
  <2>. QED
    BY <2>1, <2>2, <2>3
<1>16. \A m \in Mats(doc) : \A c \in LacksOf(doc, m) : \E s \in made.stmts :
         s.whole = m /\ s.part = Minted(m, c) /\ s.best = Canon(doc, m)[c]
  BY <1>1, <1>11
<1>17. \A r \in Chemistry(doc) :
         [r EXCEPT !.best = Canon(doc, r.whole)[ClassOf(doc, r.part)]] \in made.stmts
  BY <1>1, <1>9
<1>. QED
  BY <1>1, <1>6, <1>12, <1>13, <1>14, <1>15, <1>16, <1>17 DEF made

(* The class of an element node, and of an element a node lacks, is one of   *)
(* the table; what is minted for it is therefore a new node.                 *)
ElementClasses == {Class(SymbolToElement[symbol]) : symbol \in DOMAIN SymbolToElement}

LEMMA HaveClasses ==
  ASSUME NEW doc, SoundDoc(doc), NEW m, NEW c \in Have(doc, m)
  PROVE  c \in ElementClasses
<1>1. PICK r \in Chemistry(doc) : c = ClassOf(doc, r.part)
  BY DEF Have
<1>2. r.part \in DOMAIN doc.nodes /\ doc.nodes[r.part].level = "Element"
  BY DEF Chemistry, Between, LevelOf, SoundDoc, Joins
<1>. QED
  BY <1>1, <1>2 DEF ClassOf, SoundDoc, Specified, ElementClasses

LEMMA CompClasses ==
  ASSUME NEW doc, SoundDoc(doc), NEW group, NEW c \in DOMAIN CanonicalComp(doc, group)
  PROVE  c \in ElementClasses
<1>. DEFINE with == {n \in group : material_comps(doc, n) # <<>>}
<1>1. \A n : DOMAIN material_comps(doc, n) = Have(doc, n)
  BY DEF material_comps, Have
<1>2. DOMAIN CanonicalComp(doc, group) = UNION {DOMAIN material_comps(doc, n) : n \in with}
  BY DEF CanonicalComp
<1>. HIDE DEF with
<1>. QED
  BY <1>1, <1>2, HaveClasses

LEMMA MintedIsNew ==
  ASSUME NEW doc, SoundDoc(doc), NEW m \in Mats(doc), NEW c \in LacksOf(doc, m)
  PROVE  /\ Minted(m, c) \notin DOMAIN doc.nodes
         /\ Class(Minted(m, c).el) = c
<1>1. PICK symbol \in DOMAIN SymbolToElement : c = Class(SymbolToElement[symbol])
  <2>1. c \in ElementClasses
    BY CompClasses DEF LacksOf, Lacking, Canon
  <2>. QED
    BY <2>1 DEF ElementClasses
<1>2. c.of = SymbolToElement[symbol]
  BY <1>1 DEF Class
<1>3. "el" \in DOMAIN m
  BY DEF Mats, OfLevel, SoundDoc, Named
<1>4. Minted(m, c).el = SymbolToElement[symbol]
  BY <1>2, <1>3 DEF Minted
<1>5. SymbolToElement[symbol] \in Range(SymbolToElement)
  BY DEF Range
<1>6. \A n \in DOMAIN doc.nodes : n.el # SymbolToElement[symbol]
  BY <1>5, SymbolAssumption DEF SoundDoc, Named
<1>. QED
  BY <1>1, <1>4, <1>6

(* The chemistry that is written: the measured statements, with the make-up  *)
(* of the class, and the ones filled in.                                     *)
Rewritten(doc, r) == [r EXCEPT !.best = Canon(doc, r.whole)[ClassOf(doc, r.part)]]
Filled(doc, m, c, s) == s.whole = m /\ s.part = Minted(m, c) /\ s.best = Canon(doc, m)[c]

LEMMA CanonChemistry ==
  ASSUME NEW doc, SoundDoc(doc)
  PROVE  LET new == canonicalize_doc(doc)
         IN  /\ \A n \in DOMAIN new.nodes :
                  LevelOf(new, n) = "Material" =>
                    n \in Mats(doc) /\ ClassOf(new, n) = TargetClass(doc, n)
             /\ \A s \in Chemistry(new) :
                  /\ s.whole \in Mats(doc) /\ s.part \in DOMAIN new.nodes
                  /\ ClassOf(new, s.part) \in DOMAIN Canon(doc, s.whole)
                  /\ s.best = Canon(doc, s.whole)[ClassOf(new, s.part)]
             /\ \A m \in Mats(doc) : \A c \in DOMAIN Canon(doc, m) :
                  \E s \in Chemistry(new) : s.whole = m /\ ClassOf(new, s.part) = c
<1>. DEFINE new == canonicalize_doc(doc)
            minted == UNION {{Minted(m, c) : c \in LacksOf(doc, m)} : m \in Mats(doc)}
<1>1. /\ DOMAIN new.nodes = DOMAIN doc.nodes \cup minted
      /\ \A m \in Mats(doc) :
           new.nodes[m] = [doc.nodes[m] EXCEPT !.class = TargetClass(doc, m)]
      /\ \A n \in DOMAIN doc.nodes \ Mats(doc) : new.nodes[n] = doc.nodes[n]
      /\ \A n \in minted \ DOMAIN doc.nodes :
           new.nodes[n] = [level |-> "Element", class |-> Class(n.el), mass |-> 0]
  BY CanonParts
<1>2. /\ \A s \in new.stmts :
           \/ s \in doc.stmts \ Chemistry(doc)
           \/ \E r \in Chemistry(doc) : s = Rewritten(doc, r)
           \/ \E m \in Mats(doc) : \E c \in LacksOf(doc, m) : Filled(doc, m, c, s)
      /\ \A r \in Chemistry(doc) : Rewritten(doc, r) \in new.stmts
      /\ \A m \in Mats(doc) : \A c \in LacksOf(doc, m) : \E s \in new.stmts :
           Filled(doc, m, c, s)
  BY CanonParts DEF Rewritten, Filled
<1>. HIDE DEF new
<1>3. Mats(doc) \subseteq DOMAIN doc.nodes /\ \A n \in DOMAIN doc.nodes : Specified(doc.nodes[n])
  BY DEF Mats, OfLevel, SoundDoc
<1>4. ASSUME NEW n \in DOMAIN doc.nodes
      PROVE  /\ n \in DOMAIN new.nodes /\ LevelOf(new, n) = LevelOf(doc, n)
             /\ n \in Mats(doc) => ClassOf(new, n) = TargetClass(doc, n)
             /\ n \notin Mats(doc) => ClassOf(new, n) = ClassOf(doc, n)
  <2>1. CASE n \in Mats(doc)
    <3>1. {"level", "class", "mass"} \subseteq DOMAIN doc.nodes[n]
      BY <1>3 DEF Specified
    <3>. QED
      BY <1>1, <2>1, <3>1 DEF LevelOf, ClassOf
  <2>2. CASE n \notin Mats(doc)
    BY <1>1, <2>2 DEF LevelOf, ClassOf
  <2>. QED
    BY <1>1, <2>1, <2>2
<1>5. ASSUME NEW m \in Mats(doc), NEW c \in LacksOf(doc, m)
      PROVE  /\ Minted(m, c) \in DOMAIN new.nodes \ DOMAIN doc.nodes
             /\ LevelOf(new, Minted(m, c)) = "Element" /\ ClassOf(new, Minted(m, c)) = c
  <2>. DEFINE of(k) == {Minted(k, d) : d \in LacksOf(doc, k)}
  <2>1. Minted(m, c) \in of(m)
    OBVIOUS
  <2>2. minted = UNION {of(k) : k \in Mats(doc)}
    OBVIOUS
  <2>3. Minted(m, c) \notin DOMAIN doc.nodes /\ Class(Minted(m, c).el) = c
    BY MintedIsNew
  <2>. HIDE DEF of, minted
  <2>4. Minted(m, c) \in minted
    BY <2>1, <2>2
  <2>5. \A n \in minted \ DOMAIN doc.nodes :
          n \in DOMAIN new.nodes /\ LevelOf(new, n) = "Element" /\ ClassOf(new, n) = Class(n.el)
    <3>. TAKE n \in minted \ DOMAIN doc.nodes
    <3>1. new.nodes[n] = [level |-> "Element", class |-> Class(n.el), mass |-> 0]
      BY <1>1
    <3>2. n \in DOMAIN new.nodes
      BY <1>1
    <3>. QED
      BY <3>1, <3>2 DEF LevelOf, ClassOf
  <2>. QED
    BY <2>3, <2>4, <2>5
<1>6. \A n \in DOMAIN doc.nodes : n \in Mats(doc) <=> LevelOf(doc, n) = "Material"
  BY DEF Mats, OfLevel
<1>7. ASSUME NEW n \in DOMAIN new.nodes, LevelOf(new, n) = "Material"
      PROVE  n \in Mats(doc) /\ ClassOf(new, n) = TargetClass(doc, n)
  <2>1. n \in DOMAIN doc.nodes
    <3>. SUFFICES ASSUME n \in minted PROVE FALSE
      BY <1>1
    <3>1. PICK m \in Mats(doc) : n \in {Minted(m, c) : c \in LacksOf(doc, m)}
      OBVIOUS
    <3>2. PICK c \in LacksOf(doc, m) : n = Minted(m, c)
      BY <3>1
    <3>. QED
      BY <1>5, <1>7, <3>2
  <2>. QED
    BY <1>4, <1>6, <1>7, <2>1
<1>8. ASSUME NEW r \in Chemistry(doc)
      PROVE  /\ r.whole \in Mats(doc) /\ r.part \in DOMAIN new.nodes
             /\ LevelOf(new, r.part) = "Element" /\ ClassOf(new, r.part) = ClassOf(doc, r.part)
             /\ ClassOf(doc, r.part) \in Have(doc, r.whole)
             /\ LET s == Rewritten(doc, r)
                IN  /\ s.whole = r.whole /\ s.part = r.part
                    /\ s.best = Canon(doc, r.whole)[ClassOf(doc, r.part)]
  <2>1. /\ r \in doc.stmts /\ Joins(r, DOMAIN doc.nodes)
        /\ LevelOf(doc, r.whole) = "Material" /\ LevelOf(doc, r.part) = "Element"
    BY DEF Chemistry, Between, SoundDoc
  <2>2. r.whole \in Mats(doc) /\ r.part \in DOMAIN doc.nodes \ Mats(doc)
    BY <1>6, <2>1 DEF Joins
  <2>3. {"whole", "part", "best"} \subseteq DOMAIN r
    BY <2>1 DEF Joins
  <2>. QED
    BY <1>4, <2>1, <2>2, <2>3 DEF Rewritten, Have
<1>9. ASSUME NEW m \in Mats(doc)
      PROVE  Have(doc, m) \subseteq DOMAIN Canon(doc, m)
  <2>1. m \in Group(doc, TargetClass(doc, m))
    BY DEF Group
  <2>. QED
    BY <2>1, HaveInComp DEF Canon
<1>10. ASSUME NEW s \in Chemistry(new)
       PROVE  /\ s.whole \in Mats(doc) /\ s.part \in DOMAIN new.nodes
              /\ ClassOf(new, s.part) \in DOMAIN Canon(doc, s.whole)
              /\ s.best = Canon(doc, s.whole)[ClassOf(new, s.part)]
  <2>1. s \in new.stmts /\ LevelOf(new, s.whole) = "Material" /\ LevelOf(new, s.part) = "Element"
    BY DEF Chemistry, Between
  <2>2. CASE s \in doc.stmts \ Chemistry(doc)
    <3>1. s.whole \in DOMAIN doc.nodes /\ s.part \in DOMAIN doc.nodes
      BY <2>2 DEF SoundDoc, Joins
    <3>2. LevelOf(doc, s.whole) = "Material" /\ LevelOf(doc, s.part) = "Element"
      BY <1>4, <2>1, <3>1
    <3>. QED
      BY <2>2, <3>2 DEF Chemistry, Between
  <2>3. ASSUME NEW r \in Chemistry(doc), s = Rewritten(doc, r)
        PROVE  /\ s.whole \in Mats(doc) /\ s.part \in DOMAIN new.nodes
               /\ ClassOf(new, s.part) \in DOMAIN Canon(doc, s.whole)
               /\ s.best = Canon(doc, s.whole)[ClassOf(new, s.part)]
    BY <1>8, <1>9, <2>3
  <2>4. ASSUME NEW m \in Mats(doc), NEW c \in LacksOf(doc, m), Filled(doc, m, c, s)
        PROVE  /\ s.whole \in Mats(doc) /\ s.part \in DOMAIN new.nodes
               /\ ClassOf(new, s.part) \in DOMAIN Canon(doc, s.whole)
               /\ s.best = Canon(doc, s.whole)[ClassOf(new, s.part)]
    <3>1. c \in DOMAIN Canon(doc, m)
      BY DEF LacksOf, Lacking
    <3>. QED
      BY <1>5, <2>4, <3>1 DEF Filled
  <2>. QED
    BY <1>2, <2>1, <2>2, <2>3, <2>4
<1>11. ASSUME NEW m \in Mats(doc), NEW c \in DOMAIN Canon(doc, m)
       PROVE  \E s \in Chemistry(new) : s.whole = m /\ ClassOf(new, s.part) = c
  <2>0. m \in DOMAIN doc.nodes /\ LevelOf(new, m) = "Material"
    BY <1>3, <1>4, <1>6
  <2>1. CASE c \in Have(doc, m)
    <3>1. PICK r \in Chemistry(doc) : r.whole = m /\ ClassOf(doc, r.part) = c
      BY <2>1 DEF Have
    <3>2. PICK s : s = Rewritten(doc, r)
      OBVIOUS
    <3>3. s \in new.stmts /\ s.whole = m /\ s.part = r.part
      BY <1>2, <1>8, <3>1, <3>2
    <3>4. LevelOf(new, s.part) = "Element" /\ ClassOf(new, s.part) = c
      BY <1>8, <3>1, <3>3
    <3>. QED
      BY <2>0, <3>3, <3>4 DEF Chemistry, Between
  <2>2. CASE c \notin Have(doc, m)
    <3>1. c \in LacksOf(doc, m)
      BY <2>2 DEF LacksOf, Lacking
    <3>2. PICK s \in new.stmts : Filled(doc, m, c, s)
      BY <1>2, <3>1
    <3>3. s.whole = m /\ LevelOf(new, s.part) = "Element" /\ ClassOf(new, s.part) = c
      BY <1>5, <3>1, <3>2 DEF Filled
    <3>. QED
      BY <2>0, <3>2, <3>3 DEF Chemistry, Between
  <2>. QED
    BY <2>1, <2>2
<1>. QED
  BY <1>7, <1>10, <1>11 DEF new

(* The graph of the shared file gives a material node the make-up of its     *)
(* class.                                                                    *)
LEMMA SharedMakeUp ==
  ASSUME NEW doc, SoundDoc(doc)
  PROVE  OfOneMakeUp(composition_rdf(EmDoc(canonicalize_doc(doc))))
<1>. DEFINE new == canonicalize_doc(doc)
            em == Chemistry(new)
            W == {s.whole : s \in em} \cup {s.part : s \in em}
            type(n) == <<n, ClassOf(new, n), LevelOf(new, n), new.nodes[n].mass>>
            g == composition_rdf(EmDoc(new))
            comp(m) == {<<c, Canon(doc, m)[c]>> : c \in DOMAIN Canon(doc, m)}
<1>1. /\ \A n \in DOMAIN new.nodes :
           LevelOf(new, n) = "Material" =>
             n \in Mats(doc) /\ ClassOf(new, n) = TargetClass(doc, n)
      /\ \A s \in em :
           /\ s.whole \in Mats(doc) /\ s.part \in DOMAIN new.nodes
           /\ ClassOf(new, s.part) \in DOMAIN Canon(doc, s.whole)
           /\ s.best = Canon(doc, s.whole)[ClassOf(new, s.part)]
      /\ \A m \in Mats(doc) : \A c \in DOMAIN Canon(doc, m) :
           \E s \in em : s.whole = m /\ ClassOf(new, s.part) = c
  BY CanonChemistry
<1>2. Mats(doc) \subseteq DOMAIN new.nodes
  BY CanonParts DEF Mats, OfLevel
<1>. HIDE DEF new
<1>3. g.types = {type(n) : n \in W} /\ g.stmts = em
  BY DEF composition_rdf, EmDoc, Restrict, LevelOf, ClassOf
<1>. HIDE DEF g, em
<1>4. W \subseteq DOMAIN new.nodes
  BY <1>1, <1>2
<1>5. ASSUME NEW n \in W
      PROVE  (CHOOSE t \in g.types : t[1] = n) = type(n)
  <2>1. type(n) \in g.types /\ type(n)[1] = n
    BY <1>3
  <2>2. \A t \in g.types : t[1] = n => t = type(n)
    BY <1>3
  <2>. HIDE DEF type
  <2>. QED
    BY <2>1, <2>2
<1>6. ASSUME NEW m \in Mats(doc)
      PROVE  MakeUpByClass(g, m) = comp(m)
  <2>. DEFINE own == {s \in em : s.whole = m}
  <2>1. MakeUp(g, m) = {<<type(s.part), s.best>> : s \in own}
    <3>1. \A s \in own : (CHOOSE t \in g.types : t[1] = s.part) = type(s.part)
      <4>1. \A s \in own : s.part \in W
        OBVIOUS
      <4>. HIDE DEF W, type, own
      <4>. QED
        BY <1>5, <4>1
    <3>2. MakeUp(g, m) = {<<CHOOSE t \in g.types : t[1] = s.part, s.best>> : s \in own}
      BY <1>3 DEF MakeUp
    <3>. HIDE DEF own, type
    <3>. QED
      BY <3>1, <3>2
  <2>2. MakeUpByClass(g, m) = {<<ClassOf(new, s.part), s.best>> : s \in own}
    <3>1. MakeUpByClass(g, m) = {<<t[1][2], t[2]>> : t \in MakeUp(g, m)}
      BY DEF MakeUpByClass
    <3>. DEFINE pair(s) == <<type(s.part), s.best>>
    <3>2. \A s \in own : pair(s)[1][2] = ClassOf(new, s.part) /\ pair(s)[2] = s.best
      OBVIOUS
    <3>3. MakeUp(g, m) = {pair(s) : s \in own}
      BY <2>1
    <3>. HIDE DEF own, pair
    <3>. QED
      BY <3>1, <3>2, <3>3
  <2>3. ASSUME NEW s \in own PROVE <<ClassOf(new, s.part), s.best>> \in comp(m)
    BY <1>1
  <2>4. ASSUME NEW c \in DOMAIN Canon(doc, m)
        PROVE  <<c, Canon(doc, m)[c]>> \in {<<ClassOf(new, s.part), s.best>> : s \in own}
    <3>1. PICK s \in own : ClassOf(new, s.part) = c
      BY <1>1
    <3>2. s.best = Canon(doc, m)[c]
      BY <1>1, <3>1
    <3>. HIDE DEF own
    <3>. QED
      BY <3>1, <3>2
  <2>. HIDE DEF own
  <2>. QED
    BY <2>2, <2>3, <2>4
<1>7. ASSUME NEW t \in g.types, t[3] = "Material"
      PROVE  t[1] \in Mats(doc) /\ t[2] = TargetClass(doc, t[1])
  <2>1. PICK n \in W : t = type(n)
    BY <1>3
  <2>. HIDE DEF W
  <2>. QED
    BY <1>1, <1>4, <1>7, <2>1
<1>8. ASSUME NEW m \in Mats(doc), NEW n \in Mats(doc), TargetClass(doc, m) = TargetClass(doc, n)
      PROVE  comp(m) = comp(n)
  BY <1>8 DEF Canon
<1>. HIDE DEF comp
<1>9. OfOneMakeUp(g)
  BY <1>6, <1>7, <1>8 DEF OfOneMakeUp
<1>. QED
  BY <1>9 DEF g, new

(* What an export writes into the shared file is the chemistry of its        *)
(* document.                                                                 *)
LEMMA SharedGraph ==
  ASSUME NEW x \in Exports \ Refusals
  PROVE  /\ transform(Dataset[x.data], Years(x)) # NoDoc
         /\ Graph(x, Shared)
              = composition_rdf(EmDoc(canonicalize_doc(transform(Dataset[x.data], Years(x)))))
<1>. DEFINE D == transform(Dataset[x.data], Years(x))
<1>1. FullDoc(x) = IF D = NoDoc THEN NoDoc ELSE canonicalize_doc(D)
  <2>. HIDE DEF D
  <2>1. transform_doc(Dataset[x.data], Years(x))
          = IF D = NoDoc THEN NoDoc ELSE canonicalize_doc(D)
    BY DEF transform_doc, Once, D
  <2>. QED
    BY <2>1 DEF FullDoc
<1>2. FullDoc(x) # NoDoc
  BY DEF Refusals
<1>3. D # NoDoc /\ FullDoc(x) = canonicalize_doc(D)
  BY <1>1, <1>2
<1>. DEFINE G(y) == Once(FullDoc(y), LAMBDA doc : composition_rdf(EmDoc(doc)))
            shared == [call |-> x, path |-> Shared, graph |-> G(x)]
<1>4. G(x) = composition_rdf(EmDoc(FullDoc(x)))
  BY DEF Once
<1>5. shared \in Contents /\ shared.call = x /\ shared.path = Shared
  BY DEF Contents
<1>6. ASSUME NEW c \in Contents, c.call = x, c.path = Shared PROVE c = shared
  <2>1. CASE \E w \in Written : c.path = w[2]
    <3>1. PICK w \in Written : c.path = w[2]
      BY <2>1
    <3>2. PICK v \in AllWindows : w = <<v[1], v[2], WindowDoc(v[1], v[2])>>
      BY <3>1 DEF Written, WindowDocs
    <3>3. w[2] \in WindowPaths
      BY <3>2 DEF AllWindows, WindowPaths
    <3>. QED
      BY <1>6, <3>1, <3>3, Apart
  <2>2. CASE \E y \in Exports \ Refusals : c = [call |-> y, path |-> Shared, graph |-> G(y)]
    <3>. HIDE DEF G
    <3>. QED
      BY <1>6, <2>2
  <2>3. \/ \E w \in Written : c.path = w[2]
        \/ \E y \in Exports \ Refusals : c = [call |-> y, path |-> Shared, graph |-> G(y)]
    <3>. DEFINE H(w) == Once(w[3], LAMBDA doc : composition_rdf(Structural(doc)))
                windows == {[call |-> w[1], path |-> w[2], graph |-> H(w)] : w \in Written}
                shareds == {[call |-> y, path |-> Shared, graph |-> G(y)] :
                              y \in Exports \ Refusals}
    <3>1. Contents = windows \cup shareds
      BY DEF Contents
    <3>2. \A d \in windows : \E w \in Written : d.path = w[2]
      <4>. HIDE DEF H
      <4>. QED
        OBVIOUS
    <3>3. \A d \in shareds : \E y \in Exports \ Refusals :
            d = [call |-> y, path |-> Shared, graph |-> G(y)]
      <4>. HIDE DEF G
      <4>. QED
        OBVIOUS
    <3>. HIDE DEF windows, shareds
    <3>. QED
      BY <3>1, <3>2, <3>3
  <2>. QED
    BY <2>1, <2>2, <2>3
<1>7. Graph(x, Shared) = G(x)
  <2>1. (CHOOSE c \in Contents : c.call = x /\ c.path = Shared) = shared
    <3>. HIDE DEF shared
    <3>. QED
      BY <1>5, <1>6
  <2>2. shared.graph = G(x)
    <3>. HIDE DEF G
    <3>. QED
      OBVIOUS
  <2>. QED
    BY <2>1, <2>2 DEF Graph
<1>. HIDE DEF D, G
<1>. QED
  BY <1>3, <1>4, <1>7 DEF D

(* Every export that is not refused writes one make-up for each class.       *)
LEMMA AllOneMakeUp == Exports \ Refusals \subseteq SameMakeUp
<1>. SUFFICES ASSUME NEW x \in Exports \ Refusals PROVE Once(Graph(x, Shared), OfOneMakeUp)
  BY DEF SameMakeUp
<1>1. OfOneMakeUp(Graph(x, Shared))
  BY SharedGraph, TransformShape, SharedMakeUp
<1>2. Once(Graph(x, Shared), OfOneMakeUp) = OfOneMakeUp(Graph(x, Shared))
  BY DEF Once
<1>. QED
  BY <1>1, <1>2

-----------------------------------------------------------------------------
(* From here on: what the files of an export say together.  First numbers,   *)
(* and the runs of a product.                                                *)

(* Division of natural numbers.                                              *)
LEMMA DivMod ==
  ASSUME NEW y \in Nat, NEW w \in Nat \ {0}
  PROVE  y = w * (y \div w) + (y % w) /\ y % w \in 0 .. (w - 1) /\ y \div w \in Nat
OBVIOUS

(* A year lies in its window, and in no other window of the same width.      *)
LEMMA BucketHolds ==
  ASSUME NEW y \in Nat, NEW w \in Nat \ {0}
  PROVE  bucket_of(y, w)[1] <= y /\ y <= bucket_of(y, w)[2]
  BY DivMod DEF bucket_of

LEMMA BucketAlone ==
  ASSUME NEW x \in Exports, NEW p \in Windows(x), NEW y \in Nat, p[1] <= y, y <= p[2]
  PROVE  p = bucket_of(y, x.width)
<1>. PICK w \in Nat \ {0} : w = x.width
  OBVIOUS
<1>1. PICK z \in Years(x) : p = bucket_of(z, w)
  BY DEF Windows
<1>2. z \in Nat
  BY <1>1 DEF Years, _clamp_window
<1>. PICK a \in Nat, b \in Nat : a = z \div w /\ b = y \div w
  BY <1>2, DivMod
<1>3. a * w <= y /\ y <= a * w + w - 1
  BY <1>1 DEF bucket_of
<1>8. b * w <= y /\ y <= b * w + w - 1
  BY BucketHolds DEF bucket_of
<1>4. a < b => (a + 1) * w <= b * w
  OBVIOUS
<1>5. b < a => (b + 1) * w <= a * w
  OBVIOUS
<1>6. (a + 1) * w = a * w + w /\ (b + 1) * w = b * w + w
  OBVIOUS
<1>7. a = b
  BY <1>3, <1>4, <1>5, <1>6, <1>8
<1>. QED
  BY <1>1, <1>7 DEF bucket_of

(* Fractions of masses that divide give the mass back.                       *)
LEMMA Back ==
  ASSUME NEW m \in Nat, NEW c \in Nat, NEW w \in Nat \ {0}, NEW u \in Nat, c # 0,
         (c * u) % w = 0, (m * u) % c = 0
  PROVE  ((c * u) \div w) * ((m * u) \div c) * w = m * u * u
<1>. PICK cu \in Nat, mu \in Nat : cu = c * u /\ mu = m * u
  OBVIOUS
<1>1. PICK f \in Nat, h \in Nat : f = cu \div w /\ h = mu \div c
  BY DivMod
<1>2. cu = w * f /\ mu = c * h
  BY <1>1, DivMod
<1>3. f * h * w = (w * f) * h /\ cu * h = (c * h) * u
  OBVIOUS
<1>. QED
  BY <1>1, <1>2, <1>3

LEMMA Positive ==
  ASSUME NEW c \in Nat \ {0}, NEW w \in Nat \ {0}, NEW u \in Nat \ {0}, (c * u) % w = 0
  PROVE  (c * u) \div w > 0
<1>. PICK cu \in Nat : cu = c * u
  OBVIOUS
<1>1. cu # 0
  OBVIOUS
<1>2. cu = w * (cu \div w) /\ cu \div w \in Nat
  BY DivMod
<1>. QED
  BY <1>1, <1>2

(* The runs of a product partition its years, and a run is of one            *)
(* composition.                                                              *)
LEMMA RunsCover ==
  ASSUME NEW rows, NEW insts, NEW prod, NEW B \in Nat, YearsOf(insts, prod) \subseteq 0 .. B
  PROVE  LET of(y) == Fingerprint(At(rows, prod, y))
             years == YearsOf(insts, prod)
             runs == Dedup(rows, insts, prod)
         IN  /\ \A r \in runs : /\ r = <<r[1], r[2]>> /\ r[1] <= r[2]
                                /\ \A y \in r[1] .. r[2] : y \in years /\ of(y) = of(r[1])
             /\ \A r \in runs : r[1] \in Nat /\ r[2] \in Nat
             /\ \A y \in years : \E r \in runs : y \in r[1] .. r[2]
             /\ \A r, s \in runs : \A y \in r[1] .. r[2] : y \in s[1] .. s[2] => r = s
<1>. DEFINE years == YearsOf(insts, prod)
            of == [y \in years |-> Fingerprint(At(rows, prod, y))]
            joins(y, z) == y \in years /\ z \in years /\ of[y] = of[z]
            runs == Dedup(rows, insts, prod)
            maximal(r) == /\ r[1] <= r[2] /\ \A y \in r[1] .. r[2] : joins(y, r[1])
                          /\ ~joins(r[1] - 1, r[1]) /\ ~joins(r[2] + 1, r[1])
<1>0. runs = {r \in years \X years : /\ r[1] <= r[2]
                             /\ \A y \in r[1] .. r[2] : joins(y, r[1])
                             /\ ~joins(r[1] - 1, r[1]) /\ ~joins(r[2] + 1, r[1])}
  BY DEF Dedup
<1>. HIDE DEF runs, joins
<1>1. \A r : r \in runs <=> r \in years \X years /\ maximal(r)
  <2>. TAKE r
  <2>1. r \in runs <=> r \in years \X years /\ maximal(r)
    <3>. PICK S : S = years \X years
      OBVIOUS
    <3>1. runs = {q \in S : /\ q[1] <= q[2]
                             /\ \A y \in q[1] .. q[2] : joins(y, q[1])
                             /\ ~joins(q[1] - 1, q[1]) /\ ~joins(q[2] + 1, q[1])}
      BY <1>0
    <3>. QED
      BY <3>1
  <2>. QED
    BY <2>1
<1>. HIDE DEF maximal
<1>2. years \subseteq Nat /\ \A y \in years : y <= B
  OBVIOUS
<1>3. /\ \A y, z : joins(y, z) <=> y \in years /\ z \in years /\ of[y] = of[z]
      /\ \A y, z : joins(y, z) => joins(z, y)
      /\ \A y, z, w : joins(y, z) /\ joins(z, w) => joins(y, w)
      /\ \A y \in years : joins(y, y)
  BY DEF joins
<1>4. \A y \in years : of[y] = Fingerprint(At(rows, prod, y))
  OBVIOUS
<1>. HIDE DEF years, of
<1>10. \A r \in years \X years : r = <<r[1], r[2]>> /\ r[1] \in years /\ r[2] \in years
  OBVIOUS
<1>5. ASSUME NEW r \in runs
      PROVE  /\ r[1] \in years /\ r[2] \in years /\ r = <<r[1], r[2]>> /\ r[1] <= r[2]
             /\ \A y \in r[1] .. r[2] : joins(y, r[1])
             /\ ~joins(r[1] - 1, r[1]) /\ ~joins(r[2] + 1, r[1])
             /\ r[1] \in Nat /\ r[2] \in Nat
  <2>1. /\ r \in years \X years /\ r[1] <= r[2]
        /\ \A y \in r[1] .. r[2] : joins(y, r[1])
        /\ ~joins(r[1] - 1, r[1]) /\ ~joins(r[2] + 1, r[1])
    BY <1>1 DEF maximal
  <2>2. r = <<r[1], r[2]>> /\ r[1] \in years /\ r[2] \in years
    BY <1>10, <2>1
  <2>. QED
    BY <1>2, <2>1, <2>2
<1>6. ASSUME NEW r \in runs, NEW s \in runs, NEW y \in r[1] .. r[2], y \in s[1] .. s[2]
      PROVE  ~(r[1] < s[1]) /\ ~(r[2] > s[2])
  <2>1. joins(r[1], s[1])
    BY <1>3, <1>5, <1>6
  <2>2. ASSUME r[1] < s[1] PROVE FALSE
    <3>1. s[1] - 1 \in r[1] .. r[2]
      BY <1>5, <1>6, <2>2
    <3>2. joins(s[1] - 1, r[1])
      BY <1>5, <3>1
    <3>. QED
      BY <1>3, <1>5, <2>1, <3>2
  <2>3. ASSUME r[2] > s[2] PROVE FALSE
    <3>1. s[2] + 1 \in r[1] .. r[2]
      BY <1>5, <1>6, <2>3
    <3>2. joins(s[2] + 1, r[1])
      BY <1>5, <3>1
    <3>. QED
      BY <1>3, <1>5, <2>1, <3>2
  <2>. QED
    BY <2>2, <2>3
<1>7. ASSUME NEW y \in years PROVE \E r \in runs : y \in r[1] .. r[2]
  <2>. DEFINE A == {a \in Nat : a <= y /\ \A w \in a .. y : joins(w, y)}
              C == {c \in Nat : c <= B - y /\ \A w \in y .. (B - c) : joins(w, y)}
  <2>0. y \in Nat /\ y <= B
    BY <1>2
  <2>1. y \in A /\ B - y \in C
    BY <1>3, <2>0
  <2>2. PICK a \in A : \A b \in A : a <= b
    <3>. HIDE DEF A
    <3>1. A \in SUBSET Nat
      BY DEF A
    <3>. QED
      BY <2>1, <3>1, LeastOf
  <2>3. PICK c \in C : \A d \in C : c <= d
    <3>. HIDE DEF C
    <3>1. C \in SUBSET Nat
      BY DEF C
    <3>. QED
      BY <2>1, <3>1, LeastOf
  <2>. DEFINE b == B - c
  <2>4. /\ a \in Nat /\ a <= y /\ \A w \in a .. y : joins(w, y)
        /\ c \in Nat /\ b \in Nat /\ y <= b /\ \A w \in y .. b : joins(w, y)
    BY <2>0, <2>2, <2>3
  <2>5. \A w \in a .. b : joins(w, y)
    <3>. SUFFICES ASSUME NEW w \in a .. b PROVE joins(w, y)
      OBVIOUS
    <3>1. w <= y => w \in a .. y
      BY <2>0, <2>4
    <3>2. w > y => w \in y .. b
      BY <2>0, <2>4
    <3>. QED
      BY <2>0, <2>4, <3>1, <3>2
  <2>6. ~joins(a - 1, y)
    <3>. SUFFICES ASSUME joins(a - 1, y) PROVE FALSE
      OBVIOUS
    <3>1. a - 1 \in Nat
      BY <1>2, <1>3
    <3>2. \A w \in (a - 1) .. y : w = a - 1 \/ w \in a .. y
      BY <2>0, <2>4
    <3>3. a - 1 \in A
      BY <2>0, <2>4, <3>1, <3>2
    <3>. QED
      BY <2>2, <2>4, <3>3
  <2>7. ~joins(b + 1, y)
    <3>. SUFFICES ASSUME joins(b + 1, y) PROVE FALSE
      OBVIOUS
    <3>1. b + 1 <= B
      BY <1>2, <1>3
    <3>2. \A w \in y .. (b + 1) : w = b + 1 \/ w \in y .. b
      BY <2>0, <2>4
    <3>3. c - 1 \in Nat /\ B - (c - 1) = b + 1
      BY <2>4, <3>1
    <3>4. c - 1 \in C
      BY <2>0, <2>4, <3>1, <3>2, <3>3
    <3>. QED
      BY <2>3, <2>4, <3>4
  <2>. HIDE DEF A, C, b
  <2>8. a \in a .. b /\ b \in a .. b /\ y \in a .. b /\ a <= b
    BY <2>0, <2>4
  <2>9. joins(a, y) /\ joins(b, y) /\ a \in years /\ b \in years
    BY <1>3, <2>5, <2>8
  <2>10. \A w \in a .. b : joins(w, a)
    BY <1>3, <2>5, <2>9
  <2>11. ~joins(a - 1, a) /\ ~joins(b + 1, a)
    BY <1>3, <2>6, <2>7, <2>9
  <2>12. <<a, b>> \in runs
    BY <1>1, <2>8, <2>9, <2>10, <2>11 DEF maximal
  <2>. QED
    BY <2>8, <2>12
<1>8. ASSUME NEW r \in runs, NEW s \in runs, NEW y \in r[1] .. r[2], y \in s[1] .. s[2]
      PROVE  r = s
  <2>1. r[1] = s[1] /\ r[2] = s[2]
    BY <1>5, <1>6, <1>8
  <2>. QED
    BY <1>5, <2>1
<1>9. \A r \in runs : \A y \in r[1] .. r[2] :
         y \in years /\ Fingerprint(At(rows, prod, y)) = Fingerprint(At(rows, prod, r[1]))
  BY <1>3, <1>4, <1>5
<1>. QED
  BY <1>5, <1>7, <1>8, <1>9 DEF runs, years

(* Years of one composition have the same masses.                            *)
LEMMA SameMasses ==
  ASSUME NEW rs, NEW qs, Fingerprint(rs) = Fingerprint(qs)
  PROVE  Masses(rs) = Masses(qs)
<1>. DEFINE mc(s) == [k \in Keys(Rows(s, "m-c")) |->
                        <<Mean(RowsOf(Rows(s, "m-c"), k)), RowsOf(Rows(s, "m-c"), k)[1].q>>]
<1>1. \A s : Fingerprint(s).mc = mc(s)
  BY DEF Fingerprint
<1>2. mc(rs) = mc(qs)
  <2>. HIDE DEF mc
  <2>. QED
    BY <1>1
<1>3. \A s : /\ DOMAIN mc(s) = Keys(Rows(s, "m-c"))
             /\ \A k \in DOMAIN mc(s) : mc(s)[k][1] = Mean(RowsOf(Rows(s, "m-c"), k))
  OBVIOUS
<1>4. \A s : Masses(s) = [k \in DOMAIN mc(s) |-> mc(s)[k][1]]
  <2>. TAKE s
  <2>1. Masses(s) = [k \in Keys(Rows(s, "m-c")) |-> Mean(RowsOf(Rows(s, "m-c"), k))]
    BY DEF Masses
  <2>. HIDE DEF mc
  <2>. QED
    BY <1>3, <2>1
<1>. HIDE DEF mc
<1>. QED
  BY <1>2, <1>4

-----------------------------------------------------------------------------
(* What a document of some runs says of the products and components.  The    *)
(* names of materials and elements have no time; all others have one.        *)
CarOf(i) == Node(i[1], i[2], "", "", "")
CompOf(i, c) == Node(i[1], i[2], Leaf(c), "", "")
MatOf(i, k) == Node(i[1], <<>>, Leaf(k[1]), Leaf(k[2]), "")

(* s says how much of the car a component is, or of a component a material.  *)
SaysComp(s, i, masses, c) ==
  \E q : s \in Statement(CarOf(i), CompOf(i, c), CompMass(masses, c), ItemMass(masses), q)
SaysMat(s, i, masses, k) ==
  \E q : s \in Statement(CompOf(i, k[1]), MatOf(i, k), masses[k], CompMass(masses, k[1]), q)
Says(s, i, masses) ==
  \/ \E c \in KeptComps(masses) : SaysComp(s, i, masses, c)
  \/ \E k \in KeptKeys(masses) : SaysMat(s, i, masses, k)
Said(stmts, i, masses) ==
  /\ \A c \in KeptComps(masses) : \E q :
       Statement(CarOf(i), CompOf(i, c), CompMass(masses, c), ItemMass(masses), q) \subseteq stmts
  /\ \A k \in KeptKeys(masses) : \E q :
       Statement(CompOf(i, k[1]), MatOf(i, k), masses[k], CompMass(masses, k[1]), q) \subseteq stmts
CarSpec(i, masses) ==
  [level |-> "Product", class |-> Class(i[1]), mass |-> ItemMass(masses)]

(* The part of one instance.                                                 *)
PartFor(b, i, masses) ==
  /\ <<CarOf(i), CarSpec(i, masses)>> \in b.nodes
  /\ \A x \in b.nodes :
       \/ x = <<CarOf(i), CarSpec(i, masses)>>
       \/ x[1].at = i[2] /\ x[1].comp # "" /\ x[2].level = "Component"
       \/ x[1].at = <<>> /\ x[2].level \in {"Material", "Element"}
  /\ \A s \in b.stmts : Says(s, i, masses) \/ s.whole.at = <<>>
  /\ Said(b.stmts, i, masses)

LEMMA StatementEnds ==
  ASSUME NEW whole, NEW part, NEW value, NEW mass, NEW q, NEW s \in Statement(whole, part, value, mass, q)
  PROVE  s.whole = whole /\ s.part = part /\ s.best = (value * Unit) \div mass
<1>1. PICK w \in {m \in {mass} : m # 0 /\ (value * Unit) \div m > 0} :
         s = [whole |-> whole, part |-> part, best |-> (value * Unit) \div w, q |-> q]
  BY DEF Statement
<1>2. w = mass
  OBVIOUS
<1>. QED
  BY <1>1, <1>2

LEMMA InstanceIs ==
  ASSUME NEW i, NEW rows, NEW canon, WellKeyed(Masses(rows))
  PROVE  PartFor(InstanceOf(i[1], i[2], rows, Masses(rows), canon), i, Masses(rows))
<1>. DEFINE prod == i[1]
            at == i[2]
            masses == Masses(rows)
            car == Node(prod, at, "", "", "")
            cn(comp) == Node(prod, at, Leaf(comp), "", "")
            mn(k) == Node(prod, <<>>, Leaf(k[1]), Leaf(k[2]), "")
            en(k, el) == Node(prod, <<>>, Leaf(k[1]), Leaf(k[2]), el)
            spec(level, class, mass) == [level |-> level, class |-> Class(class), mass |-> mass]
            first(k) == RowsOf(Rows(rows, "m-c"), k)[1]
            nodes ==
              {<<car, spec("Product", prod, ItemMass(masses))>>}
              \cup {<<cn(c), spec("Component", class_for(Leaf(c), "unknownComponent"),
                                  CompMass(masses, c))>> : c \in KeptComps(masses)}
              \cup {<<mn(k), spec("Material", class_for(Leaf(k[2]), "unknownMaterial"), 0)>> :
                      k \in KeptKeys(masses)}
              \cup UNION {{<<en(k, e), spec("Element", element_class(e), 0)>> :
                             e \in KeptElements(rows, k)} : k \in KeptKeys(masses)}
            OfComp(c) == Statement(car, cn(c), CompMass(masses, c), ItemMass(masses), DefaultQuality)
            OfMat(k) == Statement(cn(k[1]), mn(k), masses[k], CompMass(masses, k[1]),
                                  lookup(Leaf(k[1]), Leaf(k[2]), fill_quality(first(k).q)))
            OfEl(k, e) == Statement(mn(k), en(k, e), canon[<<prod, k>>][e].best, Unit,
                                    lookup(Leaf(k[1]), Leaf(k[2]), canon[<<prod, k>>][e].q))
            Tabled(k) == IF <<prod, k>> \in DOMAIN canon THEN DOMAIN canon[<<prod, k>>] ELSE {}
            shares == UNION {OfComp(c) : c \in KeptComps(masses)}
            materials == UNION {OfMat(k) : k \in KeptKeys(masses)}
            chemistry == UNION {UNION {OfEl(k, e) : e \in KeptElements(rows, k) \cap Tabled(k)} :
                                  k \in KeptKeys(masses)}
            b == InstanceOf(prod, at, rows, masses, canon)
<1>1. b = [nodes |-> nodes, stmts |-> shares \cup materials \cup chemistry]
  BY DEF InstanceOf
<1>2. /\ b.nodes = nodes
      /\ b.stmts = shares \cup materials \cup chemistry
  <2>. HIDE DEF nodes, shares, materials, chemistry, b
  <2>. QED
    BY <1>1
<1>3. \A c \in KeptComps(masses) : Leaf(c) # ""
  BY DEF KeptComps, WellKeyed
<1>4. ASSUME NEW x \in nodes
      PROVE  \/ x = <<CarOf(i), CarSpec(i, masses)>>
             \/ x[1].at = i[2] /\ x[1].comp # "" /\ x[2].level = "Component"
             \/ x[1].at = <<>> /\ x[2].level \in {"Material", "Element"}
  <2>1. CASE x = <<car, spec("Product", prod, ItemMass(masses))>>
    BY <2>1 DEF CarOf, CarSpec
  <2>2. ASSUME NEW c \in KeptComps(masses),
                 x = <<cn(c), spec("Component", class_for(Leaf(c), "unknownComponent"),
                                 CompMass(masses, c))>>
        PROVE  x[1].at = i[2] /\ x[1].comp # "" /\ x[2].level = "Component"
    BY <1>3, <2>2 DEF Node
  <2>3. ASSUME NEW k \in KeptKeys(masses),
               x = <<mn(k), spec("Material", class_for(Leaf(k[2]), "unknownMaterial"), 0)>>
        PROVE  x[1].at = <<>> /\ x[2].level \in {"Material", "Element"}
    BY <2>3 DEF Node
  <2>4. ASSUME NEW k \in KeptKeys(masses), NEW e \in KeptElements(rows, k),
               x = <<en(k, e), spec("Element", element_class(e), 0)>>
        PROVE  x[1].at = <<>> /\ x[2].level \in {"Material", "Element"}
    BY <2>4 DEF Node
  <2>. HIDE DEF car, cn, mn, en, spec, masses
  <2>. QED
    BY <2>1, <2>2, <2>3, <2>4
<1>5. <<CarOf(i), CarSpec(i, masses)>> \in nodes
  <2>1. <<car, spec("Product", prod, ItemMass(masses))>> \in nodes
    OBVIOUS
  <2>. QED
    BY <2>1 DEF CarOf, CarSpec
<1>6. /\ \A c \in KeptComps(masses) :
           OfComp(c) = Statement(CarOf(i), CompOf(i, c), CompMass(masses, c), ItemMass(masses),
                                 DefaultQuality)
      /\ \A k \in KeptKeys(masses) : \E q :
           OfMat(k) = Statement(CompOf(i, k[1]), MatOf(i, k), masses[k], CompMass(masses, k[1]), q)
      /\ \A k \in KeptKeys(masses) : \A e : \A s \in OfEl(k, e) : s.whole.at = <<>>
  <2>1. \A c \in KeptComps(masses) :
           OfComp(c) = Statement(CarOf(i), CompOf(i, c), CompMass(masses, c), ItemMass(masses),
                                 DefaultQuality)
    BY DEF CarOf, CompOf
  <2>2. \A k \in KeptKeys(masses) : \E q :
           OfMat(k) = Statement(CompOf(i, k[1]), MatOf(i, k), masses[k], CompMass(masses, k[1]), q)
    BY DEF CompOf, MatOf
  <2>3. ASSUME NEW k \in KeptKeys(masses), NEW e, NEW s \in OfEl(k, e) PROVE s.whole.at = <<>>
    <3>1. PICK w, p, v, q : w = mn(k) /\ s \in Statement(w, p, v, Unit, q)
      <4>. HIDE DEF mn, en
      <4>. QED
        OBVIOUS
    <3>2. s.whole = w
      <4>. HIDE DEF OfEl, mn, en
      <4>. QED
        BY <3>1, StatementEnds
    <3>3. w.at = <<>>
      <4>. HIDE DEF en
      <4>. QED
        BY <3>1 DEF Node
    <3>. QED
      BY <3>2, <3>3
  <2>. QED
    BY <2>1, <2>2, <2>3
<1>. HIDE DEF nodes, OfComp, OfMat, OfEl, masses, Tabled, b
<1>7. ASSUME NEW s \in b.stmts PROVE Says(s, i, masses) \/ s.whole.at = <<>>
  <2>1. ASSUME NEW c \in KeptComps(masses), s \in OfComp(c) PROVE Says(s, i, masses)
    BY <1>6, <2>1 DEF Says, SaysComp
  <2>2. ASSUME NEW k \in KeptKeys(masses), s \in OfMat(k) PROVE Says(s, i, masses)
    BY <1>6, <2>2 DEF Says, SaysMat
  <2>3. ASSUME NEW k \in KeptKeys(masses), NEW e \in KeptElements(rows, k) \cap Tabled(k), s \in OfEl(k, e)
        PROVE  s.whole.at = <<>>
    BY <1>6, <2>3
  <2>4. s \in chemistry => \E k \in KeptKeys(masses) :
                             \E e \in KeptElements(rows, k) \cap Tabled(k) : s \in OfEl(k, e)
    OBVIOUS
  <2>. HIDE DEF chemistry
  <2>. QED
    BY <1>2, <2>1, <2>2, <2>3, <2>4
<1>8. Said(b.stmts, i, masses)
  <2>1. \A c \in KeptComps(masses) : OfComp(c) \subseteq b.stmts
    BY <1>2
  <2>2. \A k \in KeptKeys(masses) : OfMat(k) \subseteq b.stmts
    BY <1>2
  <2>. QED
    BY <1>6, <2>1, <2>2 DEF Said
<1>9. PartFor(b, i, masses)
  BY <1>2, <1>4, <1>5, <1>7, <1>8 DEF PartFor
<1>. QED
  BY <1>9 DEF b, masses

-----------------------------------------------------------------------------
(* The document of some runs, each of its own product and time.              *)
MassesOf(rows, i) == Masses(FirstYear(rows, i))
Timely(runs) == \A i \in runs : i = <<i[1], i[2]>> /\ i[2] # <<>>
DocFor(doc, rows, runs) ==
  /\ \A i \in runs : /\ CarOf(i) \in DOMAIN doc.nodes
                     /\ doc.nodes[CarOf(i)] = CarSpec(i, MassesOf(rows, i))
                     /\ Said(doc.stmts, i, MassesOf(rows, i))
  /\ \A n \in DOMAIN doc.nodes :
       /\ n.at # <<>> => LevelOf(doc, n) \in {"Product", "Component"}
       /\ LevelOf(doc, n) = "Product" => \E i \in runs : n = CarOf(i)
  /\ \A s \in doc.stmts : s.whole.at = <<>> \/ \E i \in runs : Says(s, i, MassesOf(rows, i))

LEMMA CarsApart ==
  ASSUME NEW i, NEW j, i = <<i[1], i[2]>>, j = <<j[1], j[2]>>, CarOf(i) = CarOf(j)
  PROVE  i = j
<1>1. CarOf(i).prod = i[1] /\ CarOf(i).at = i[2] /\ CarOf(j).prod = j[1] /\ CarOf(j).at = j[2]
  BY DEF CarOf, Node
<1>. QED
  BY <1>1

LEMMA AssembledIs ==
  ASSUME NEW rows, NEW insts, NEW runs, Timely(runs), NEW canon,
         \A i \in runs : WellKeyed(MassesOf(rows, i))
  PROVE  DocFor(Assembled(rows, insts, runs, Built(rows, runs, canon)), rows, runs)
<1>. DEFINE B(i) == build_instance(i[1], i[2], FirstYear(rows, i), canon)
            built == Built(rows, runs, canon)
            pairs == UNION {b.nodes : b \in built}
            N == {x[1] : x \in pairs}
            pick(n) == CHOOSE x \in pairs : x[1] = n
            doc == Assembled(rows, insts, runs, built)
<1>1. doc.nodes = [n \in N |-> pick(n)[2]] /\ doc.stmts = UNION {b.stmts : b \in built}
  BY DEF Assembled
<1>2. ASSUME NEW i \in runs PROVE PartFor(B(i), i, MassesOf(rows, i))
  <2>1. B(i) = InstanceOf(i[1], i[2], FirstYear(rows, i), Masses(FirstYear(rows, i)), canon)
    BY DEF build_instance, Once
  <2>. HIDE DEF B
  <2>. QED
    BY <2>1, InstanceIs DEF MassesOf
<1>3. built = {B(i) : i \in runs}
  BY DEF Built
<1>. HIDE DEF B, built, doc
<1>4. \A x \in pairs : \E i \in runs : x \in B(i).nodes
  BY <1>3
<1>5. \A i \in runs : B(i).nodes \subseteq pairs /\ B(i).stmts \subseteq doc.stmts
  BY <1>1, <1>3
<1>6. \A s \in doc.stmts : \E i \in runs : s \in B(i).stmts
  BY <1>1, <1>3
<1>. HIDE DEF pairs
<1>7. ASSUME NEW n \in N PROVE pick(n) \in pairs /\ pick(n)[1] = n
  OBVIOUS
<1>8. ASSUME NEW x \in pairs
      PROVE  \/ \E i \in runs : x = <<CarOf(i), CarSpec(i, MassesOf(rows, i))>>
             \/ \E i \in runs : x[1].at = i[2] /\ x[1].comp # "" /\ x[2].level = "Component"
             \/ x[1].at = <<>> /\ x[2].level \in {"Material", "Element"}
  BY <1>2, <1>4 DEF PartFor
<1>9. \A i : CarOf(i).at = i[2] /\ CarOf(i).comp = "" /\ CarSpec(i, MassesOf(rows, i)).level = "Product"
  BY DEF CarOf, Node, CarSpec
<1>10. ASSUME NEW i \in runs
       PROVE  CarOf(i) \in N /\ pick(CarOf(i))[2] = CarSpec(i, MassesOf(rows, i))
  <2>1. <<CarOf(i), CarSpec(i, MassesOf(rows, i))>> \in pairs
    BY <1>2, <1>5 DEF PartFor
  <2>2. CarOf(i) \in N
    <3>1. <<CarOf(i), CarSpec(i, MassesOf(rows, i))>>[1] \in N
      BY <2>1
    <3>. QED
      BY <3>1
  <2>. PICK x \in pairs : x = pick(CarOf(i)) /\ x[1] = CarOf(i)
    BY <1>7, <2>2
  <2>. HIDE DEF pick, N
  <2>0. x[1].at = i[2] /\ x[1].comp = "" /\ i[2] # <<>>
    BY <1>9 DEF Timely
  <2>3. PICK j \in runs : x = <<CarOf(j), CarSpec(j, MassesOf(rows, j))>>
    BY <1>8, <2>0
  <2>4. i = j
    BY <2>3, CarsApart DEF Timely
  <2>. QED
    BY <2>2, <2>3, <2>4
<1>11. DOMAIN doc.nodes = N /\ \A n \in N : doc.nodes[n] = pick(n)[2]
  <2>. HIDE DEF N, pick
  <2>. QED
    BY <1>1
<1>12. ASSUME NEW n \in N
       PROVE  /\ n.at # <<>> => LevelOf(doc, n) \in {"Product", "Component"}
              /\ LevelOf(doc, n) = "Product" => \E i \in runs : n = CarOf(i)
  <2>. PICK x \in pairs : x = pick(n) /\ x[1] = n
    BY <1>7
  <2>1. LevelOf(doc, n) = x[2].level
    BY <1>11 DEF LevelOf
  <2>. HIDE DEF N, pick
  <2>2. CASE \E i \in runs : x = <<CarOf(i), CarSpec(i, MassesOf(rows, i))>>
    <3>1. PICK i \in runs : x = <<CarOf(i), CarSpec(i, MassesOf(rows, i))>>
      BY <2>2
    <3>2. x[1] = CarOf(i) /\ x[2].level = "Product"
      <4>1. x[1] = CarOf(i) /\ x[2] = CarSpec(i, MassesOf(rows, i))
        BY <3>1
      <4>. QED
        BY <4>1, <1>9
    <3>. QED
      BY <2>1, <3>2
  <2>3. CASE x[2].level = "Component"
    BY <2>1, <2>3
  <2>4. CASE x[1].at = <<>> /\ x[2].level \in {"Material", "Element"}
    BY <2>1, <2>4
  <2>. QED
    BY <1>8, <2>2, <2>3, <2>4
<1>. HIDE DEF N, pick
<1>13. \A s \in doc.stmts : s.whole.at = <<>> \/ \E i \in runs : Says(s, i, MassesOf(rows, i))
  BY <1>2, <1>6 DEF PartFor
<1>14. \A i \in runs : Said(doc.stmts, i, MassesOf(rows, i))
  BY <1>2, <1>5 DEF PartFor, Said
<1>15. DocFor(doc, rows, runs)
  BY <1>10, <1>11, <1>12, <1>13, <1>14 DEF DocFor
<1>. QED
  BY <1>15 DEF doc, built

(* The graph of a window.                                                    *)
GraphFor(g, rows, runs) ==
  /\ \A i \in runs :
       /\ <<CarOf(i), Class(i[1]), "Product", ItemMass(MassesOf(rows, i))>> \in g.types
       /\ Said(g.stmts, i, MassesOf(rows, i))
  /\ \A t \in g.types : t[3] = "Product" => \E i \in runs :
       t = <<CarOf(i), Class(i[1]), "Product", ItemMass(MassesOf(rows, i))>>
  /\ \A s \in g.stmts : s.whole.at = <<>> \/ \E i \in runs : Says(s, i, MassesOf(rows, i))

LEMMA CanonLevels ==
  ASSUME NEW doc, SoundDoc(doc)
  PROVE  LET new == canonicalize_doc(doc)
         IN  /\ \A n \in DOMAIN doc.nodes : LevelOf(new, n) = LevelOf(doc, n)
             /\ \A n \in DOMAIN doc.nodes \ Mats(doc) : new.nodes[n] = doc.nodes[n]
             /\ \A n \in DOMAIN new.nodes \ DOMAIN doc.nodes : LevelOf(new, n) = "Element"
<1>. DEFINE new == canonicalize_doc(doc)
            minted == UNION {{Minted(m, c) : c \in LacksOf(doc, m)} : m \in Mats(doc)}
<1>1. /\ DOMAIN new.nodes = DOMAIN doc.nodes \cup minted
      /\ \A m \in Mats(doc) : new.nodes[m] = [doc.nodes[m] EXCEPT !.class = TargetClass(doc, m)]
      /\ \A n \in DOMAIN doc.nodes \ Mats(doc) : new.nodes[n] = doc.nodes[n]
      /\ \A n \in minted \ DOMAIN doc.nodes :
           new.nodes[n] = [level |-> "Element", class |-> Class(n.el), mass |-> 0]
  BY CanonParts
<1>. HIDE DEF new, minted
<1>2. \A n \in DOMAIN doc.nodes : "level" \in DOMAIN doc.nodes[n]
  BY DEF SoundDoc, Specified
<1>3. \A m \in Mats(doc) : m \in DOMAIN doc.nodes
  BY DEF Mats, OfLevel
<1>4. ASSUME NEW n \in DOMAIN doc.nodes PROVE LevelOf(new, n) = LevelOf(doc, n)
  <2>1. CASE n \in Mats(doc)
    <3>1. new.nodes[n] = [doc.nodes[n] EXCEPT !.class = TargetClass(doc, n)]
      BY <1>1, <2>1
    <3>2. new.nodes[n].level = doc.nodes[n].level
      BY <1>2, <3>1
    <3>. QED
      BY <3>2 DEF LevelOf
  <2>. QED
    BY <1>1, <2>1 DEF LevelOf
<1>5. \A n \in DOMAIN new.nodes \ DOMAIN doc.nodes : LevelOf(new, n) = "Element"
  <2>. SUFFICES ASSUME NEW n \in DOMAIN new.nodes \ DOMAIN doc.nodes PROVE LevelOf(new, n) = "Element"
    OBVIOUS
  <2>1. n \in minted \ DOMAIN doc.nodes
    BY <1>1
  <2>2. new.nodes[n] = [level |-> "Element", class |-> Class(n.el), mass |-> 0]
    BY <1>1, <2>1
  <2>. QED
    BY <2>2 DEF LevelOf
<1>. QED
  BY <1>1, <1>4, <1>5 DEF new

LEMMA WindowGraph ==
  ASSUME NEW doc, SoundDoc(doc), NEW rows, NEW runs, Timely(runs), DocFor(doc, rows, runs)
  PROVE  LET new == canonicalize_doc(doc)
         IN  /\ GraphFor(composition_rdf(Structural(new)), rows, runs)
             /\ \A i \in runs : Class(i[1]) \in _doc_classes(new)
             /\ \A e \in doc.sub : e[2] \in _doc_classes(new)
             /\ composition_rdf(Structural(new)).stmts \subseteq new.stmts
<1>. DEFINE new == canonicalize_doc(doc)
            g == composition_rdf(Structural(new))
            type(n) == <<n, new.nodes[n].class, new.nodes[n].level, new.nodes[n].mass>>
            car(i) == <<CarOf(i), Class(i[1]), "Product", ItemMass(MassesOf(rows, i))>>
<1>. HIDE DEF new
<1>1. /\ g.types = {type(n) : n \in DOMAIN new.nodes}
      /\ g.stmts = new.stmts \ Chemistry(new)
  BY DEF composition_rdf, Structural
<1>. HIDE DEF g
<1>2. /\ DOMAIN doc.nodes \subseteq DOMAIN new.nodes
      /\ doc.stmts \ Chemistry(doc) \subseteq new.stmts /\ doc.sub \subseteq new.sub
      /\ \A s \in new.stmts :
           \/ s \in doc.stmts \ Chemistry(doc)
           \/ \E r \in Chemistry(doc) :
                s = [r EXCEPT !.best = Canon(doc, r.whole)[ClassOf(doc, r.part)]]
           \/ \E m \in Mats(doc) : \E c \in LacksOf(doc, m) :
                /\ s.whole = m /\ s.part = Minted(m, c) /\ s.best = Canon(doc, m)[c]
  BY CanonParts DEF new
<1>3. /\ \A n \in DOMAIN doc.nodes : LevelOf(new, n) = LevelOf(doc, n)
      /\ \A n \in DOMAIN doc.nodes \ Mats(doc) : new.nodes[n] = doc.nodes[n]
      /\ \A n \in DOMAIN new.nodes \ DOMAIN doc.nodes : LevelOf(new, n) = "Element"
  BY CanonLevels DEF new
<1>4. \A m \in Mats(doc) : m \in DOMAIN doc.nodes /\ LevelOf(doc, m) = "Material" /\ m.at = <<>>
  BY DEF Mats, OfLevel, DocFor
<1>5. ASSUME NEW i \in runs
      PROVE  /\ CarOf(i) \in DOMAIN new.nodes
             /\ new.nodes[CarOf(i)] = CarSpec(i, MassesOf(rows, i))
  <2>1. CarOf(i) \in DOMAIN doc.nodes /\ doc.nodes[CarOf(i)] = CarSpec(i, MassesOf(rows, i))
    BY DEF DocFor
  <2>2. CarOf(i) \notin Mats(doc)
    BY <1>4, <2>1 DEF LevelOf, CarSpec
  <2>. QED
    BY <1>2, <1>3, <2>1, <2>2
<1>6. ASSUME NEW i \in runs PROVE type(CarOf(i)) = car(i)
  <2>1. new.nodes[CarOf(i)] = CarSpec(i, MassesOf(rows, i))
    BY <1>5
  <2>2. /\ new.nodes[CarOf(i)].class = Class(i[1]) /\ new.nodes[CarOf(i)].level = "Product"
        /\ new.nodes[CarOf(i)].mass = ItemMass(MassesOf(rows, i))
    BY <2>1 DEF CarSpec
  <2>. QED
    BY <2>2
<1>7. \A i \in runs : car(i) \in g.types
  <2>. HIDE DEF type, car
  <2>. QED
    BY <1>1, <1>5, <1>6
<1>8. ASSUME NEW t \in g.types, t[3] = "Product" PROVE \E i \in runs : t = car(i)
  <2>1. PICK n \in DOMAIN new.nodes : t = type(n)
    <3>. HIDE DEF type
    <3>. QED
      BY <1>1
  <2>2. LevelOf(new, n) = "Product"
    BY <1>8, <2>1 DEF LevelOf
  <2>3. n \in DOMAIN doc.nodes /\ LevelOf(doc, n) = "Product"
    BY <1>3, <2>2
  <2>4. PICK i \in runs : n = CarOf(i)
    BY <2>3 DEF DocFor
  <2>. QED
    BY <1>6, <2>1, <2>4
<1>9. ASSUME NEW s \in g.stmts
      PROVE  s.whole.at = <<>> \/ \E i \in runs : Says(s, i, MassesOf(rows, i))
  <2>1. CASE s \in doc.stmts
    BY <2>1 DEF DocFor
  <2>2. ASSUME NEW r \in Chemistry(doc), s = [r EXCEPT !.best = Canon(doc, r.whole)[ClassOf(doc, r.part)]]
        PROVE  s.whole.at = <<>>
    <3>1. r \in doc.stmts /\ LevelOf(doc, r.whole) = "Material"
      BY DEF Chemistry, Between
    <3>2. "whole" \in DOMAIN r /\ r.whole \in DOMAIN doc.nodes
      BY <3>1 DEF SoundDoc, Joins
    <3>3. s.whole = r.whole
      BY <2>2, <3>2
    <3>. QED
      BY <3>1, <3>2, <3>3 DEF DocFor
  <2>. QED
    BY <1>1, <1>2, <1>4, <2>1, <2>2
<1>10. ASSUME NEW i \in runs, NEW s \in doc.stmts, s.whole.at # <<>> PROVE s \in g.stmts
  <2>1. s.whole \in DOMAIN doc.nodes
    BY DEF SoundDoc, Joins
  <2>2. LevelOf(doc, s.whole) # "Material" /\ LevelOf(new, s.whole) # "Material"
    BY <1>3, <1>10, <2>1 DEF DocFor
  <2>. QED
    BY <1>1, <1>2, <1>10, <2>2 DEF Chemistry, Between
<1>11. ASSUME NEW i \in runs PROVE Said(g.stmts, i, MassesOf(rows, i))
  <2>0. Said(doc.stmts, i, MassesOf(rows, i)) /\ i[2] # <<>>
    BY DEF DocFor, Timely
  <2>1. \A c : CarOf(i).at # <<>> /\ CompOf(i, c).at # <<>>
    BY <2>0 DEF CarOf, CompOf, Node
  <2>2. ASSUME NEW c \in KeptComps(MassesOf(rows, i))
        PROVE  \E q : Statement(CarOf(i), CompOf(i, c), CompMass(MassesOf(rows, i), c),
                                ItemMass(MassesOf(rows, i)), q) \subseteq g.stmts
    <3>1. PICK q : Statement(CarOf(i), CompOf(i, c), CompMass(MassesOf(rows, i), c),
                             ItemMass(MassesOf(rows, i)), q) \subseteq doc.stmts
      BY <2>0 DEF Said
    <3>. QED
      BY <1>10, <2>1, <3>1, StatementEnds
  <2>3. ASSUME NEW k \in KeptKeys(MassesOf(rows, i))
        PROVE  \E q : Statement(CompOf(i, k[1]), MatOf(i, k), MassesOf(rows, i)[k],
                                CompMass(MassesOf(rows, i), k[1]), q) \subseteq g.stmts
    <3>1. PICK q : Statement(CompOf(i, k[1]), MatOf(i, k), MassesOf(rows, i)[k],
                             CompMass(MassesOf(rows, i), k[1]), q) \subseteq doc.stmts
      BY <2>0 DEF Said
    <3>. QED
      BY <1>10, <2>1, <3>1, StatementEnds
  <2>. QED
    BY <2>2, <2>3 DEF Said
<1>12. \A i \in runs : Class(i[1]) \in _doc_classes(new)
  <2>. SUFFICES ASSUME NEW i \in runs PROVE Class(i[1]) \in _doc_classes(new)
    OBVIOUS
  <2>1. CarOf(i) \in DOMAIN new.nodes /\ new.nodes[CarOf(i)] = CarSpec(i, MassesOf(rows, i))
    BY <1>5
  <2>2. new.nodes[CarOf(i)].class = Class(i[1])
    BY <2>1 DEF CarSpec
  <2>. QED
    BY <2>1, <2>2 DEF _doc_classes
<1>13. \A e \in doc.sub : e[2] \in _doc_classes(new)
  <2>. SUFFICES ASSUME NEW e \in doc.sub PROVE e[2] \in _doc_classes(new)
    OBVIOUS
  <2>1. e \in new.sub
    BY <1>2
  <2>2. {e[1], e[2]} \subseteq UNION {{f[1], f[2]} : f \in new.sub}
    BY <2>1
  <2>. QED
    BY <2>2 DEF _doc_classes
<1>14. GraphFor(g, rows, runs)
  BY <1>7, <1>8, <1>9, <1>11 DEF GraphFor
<1>. QED
  BY <1>1, <1>12, <1>13, <1>14 DEF g, new

(* The shared file says nothing of products and components.                  *)
LEMMA SharedFile ==
  ASSUME NEW doc, SoundDoc(doc), NEW rows, NEW runs, DocFor(doc, rows, runs)
  PROVE  LET g == composition_rdf(EmDoc(canonicalize_doc(doc)))
         IN  /\ \A t \in g.types : t[3] # "Product"
             /\ \A s \in g.stmts : s.whole.at = <<>>
<1>. DEFINE new == canonicalize_doc(doc)
            em == Chemistry(new)
            W == {s.whole : s \in em} \cup {s.part : s \in em}
            type(n) == <<n, new.nodes[n].class, new.nodes[n].level, new.nodes[n].mass>>
            g == composition_rdf(EmDoc(new))
<1>1. \A s \in em : LevelOf(new, s.whole) = "Material" /\ LevelOf(new, s.part) = "Element"
  BY DEF Chemistry, Between
<1>2. \A s \in em : s.whole \in Mats(doc)
  BY CanonChemistry
<1>. HIDE DEF new
<1>3. g.types = {type(n) : n \in W} /\ g.stmts = em
  BY DEF composition_rdf, EmDoc, Restrict
<1>. HIDE DEF g, em
<1>4. \A t \in g.types : t[3] # "Product"
  <2>. SUFFICES ASSUME NEW t \in g.types PROVE t[3] # "Product"
    OBVIOUS
  <2>1. PICK n \in W : t = type(n)
    <3>. HIDE DEF W
    <3>. QED
      BY <1>3
  <2>2. LevelOf(new, n) \in {"Material", "Element"}
    BY <1>1
  <2>. QED
    BY <2>1, <2>2 DEF LevelOf
<1>5. \A m \in Mats(doc) : m.at = <<>>
  BY DEF Mats, OfLevel, DocFor
<1>6. \A s \in g.stmts : s.whole.at = <<>>
  BY <1>2, <1>3, <1>5
<1>. QED
  BY <1>4, <1>6 DEF g, new

-----------------------------------------------------------------------------
(* The runs of an export in some of its years.                               *)
RunsIn(x, years) == RunsOf(Dataset[x.data], Instances(Dataset[x.data], years))
MassesAt(x, c) == Masses(At(Dataset[x.data], c[1], c[2]))

LEMMA YearsAre ==
  ASSUME NEW x \in Exports
  PROVE  Years(x) \subseteq 0 .. FleetMax
<1>. DEFINE lo == IF x.year_min > FleetMin THEN x.year_min ELSE FleetMin
            hi == IF x.year_max < FleetMax THEN x.year_max ELSE FleetMax
<1>1. lo \in Nat /\ hi \in Nat /\ hi <= FleetMax
  OBVIOUS
<1>2. Years(x) \subseteq lo .. hi
  BY DEF Years, _clamp_window
<1>. HIDE DEF lo, hi
<1>. QED
  BY <1>1, <1>2

(* A cell is measured in a year of the export.                               *)
LEMMA CellsAre ==
  ASSUME NEW rows, NEW years
  PROVE  /\ \A c \in Instances(rows, years) :
              /\ c = <<c[1], c[2]>> /\ c[2] \in years
              /\ \E r \in ToSet(rows) : r.code \in Codes /\ r.prod = c[1] /\ r.year = c[2]
         /\ \A zs : zs \subseteq years => Instances(rows, zs) \subseteq Instances(rows, years)
         /\ \A zs : \A c \in Instances(rows, years) : c[2] \in zs => c \in Instances(rows, zs)
<1>1. \A zs : Instances(rows, zs)
          = {<<r.prod, r.year>> : r \in {x \in ToSet(rows) : x.code \in Codes /\ x.year \in zs}}
  BY DEF Instances
<1>2. ASSUME NEW zs, NEW c \in Instances(rows, zs)
      PROVE  \E r \in ToSet(rows) :
               r.code \in Codes /\ r.year \in zs /\ c = <<r.prod, r.year>>
  BY <1>1
<1>3. \A zs : \A r \in ToSet(rows) :
        r.code \in Codes /\ r.year \in zs => <<r.prod, r.year>> \in Instances(rows, zs)
  BY <1>1
<1>4. ASSUME NEW c \in Instances(rows, years)
      PROVE  /\ c = <<c[1], c[2]>> /\ c[2] \in years
             /\ \E r \in ToSet(rows) : r.code \in Codes /\ r.prod = c[1] /\ r.year = c[2]
  BY <1>2
<1>5. ASSUME NEW zs, zs \subseteq years, NEW c \in Instances(rows, zs)
      PROVE  c \in Instances(rows, years)
  BY <1>2, <1>3, <1>5
<1>6. ASSUME NEW zs, NEW c \in Instances(rows, years), c[2] \in zs
      PROVE  c \in Instances(rows, zs)
  BY <1>2, <1>3, <1>6
<1>. QED
  BY <1>4, <1>5, <1>6

(* The runs of fair rows cover the cells, each with the masses of its years. *)
LEMMA RunsAre ==
  ASSUME NEW x \in Exports, FairRows(x), NEW years \in SUBSET Years(x)
  PROVE  /\ Timely(RunsIn(x, years))
         /\ \A i \in RunsIn(x, years) :
              /\ i[2][1] <= i[2][2] /\ i[2][1] \in Nat /\ i[2][2] \in Nat
              /\ \A y \in i[2][1] .. i[2][2] :
                   /\ <<i[1], y>> \in Instances(Dataset[x.data], years)
                   /\ MassesOf(Dataset[x.data], i) = MassesAt(x, <<i[1], y>>)
              /\ WellKeyed(MassesOf(Dataset[x.data], i)) /\ Divisible(MassesOf(Dataset[x.data], i))
              /\ Measured(MassesOf(Dataset[x.data], i)) # {}
         /\ \A c \in Instances(Dataset[x.data], years) :
              \E i \in RunsIn(x, years) : i[1] = c[1] /\ c[2] \in i[2][1] .. i[2][2]
         /\ \A i, j \in RunsIn(x, years) : \A y \in i[2][1] .. i[2][2] :
              i[1] = j[1] /\ y \in j[2][1] .. j[2][2] => i = j
<1>. DEFINE rows == Dataset[x.data]
            insts == Instances(rows, years)
            runs == RunsIn(x, years)
            D(prod) == Dedup(rows, insts, prod)
            of(prod, y) == Fingerprint(At(rows, prod, y))
<1>1. ASSUME NEW i \in runs PROVE i = <<i[1], i[2]>> /\ i[2] \in D(i[1])
  <2>1. PICK prod : i \in {<<prod, at>> : at \in D(prod)}
    BY DEF RunsIn, RunsOf
  <2>. HIDE DEF D
  <2>2. PICK at \in D(prod) : i = <<prod, at>>
    BY <2>1
  <2>. QED
    BY <2>2
<1>2. ASSUME NEW c \in insts, NEW at \in D(c[1]) PROVE <<c[1], at>> \in runs
  <2>1. <<c[1], at>> \in {<<c[1], a>> : a \in D(c[1])}
    OBVIOUS
  <2>. QED
    BY <2>1 DEF RunsIn, RunsOf
<1>3. \A c \in insts : c = <<c[1], c[2]>> /\ c[2] \in years /\ c \in Cells(x)
  BY CellsAre DEF Cells
<1>. HIDE DEF runs, insts, rows
<1>4. \A prod : \A y \in YearsOf(insts, prod) : <<prod, y>> \in insts
  BY <1>3 DEF YearsOf
<1>5. \A c \in insts : c[2] \in YearsOf(insts, c[1])
  BY DEF YearsOf
<1>6. \A prod : YearsOf(insts, prod) \subseteq 0 .. FleetMax
  <2>. SUFFICES ASSUME NEW prod, NEW y \in YearsOf(insts, prod) PROVE y \in 0 .. FleetMax
    OBVIOUS
  <2>1. <<prod, y>>[2] \in years
    BY <1>3, <1>4
  <2>. QED
    BY <2>1, YearsAre
<1>7. ASSUME NEW prod
      PROVE  /\ \A r \in D(prod) : /\ r = <<r[1], r[2]>> /\ r[1] <= r[2]
                                   /\ r[1] \in Nat /\ r[2] \in Nat
                                   /\ \A y \in r[1] .. r[2] : <<prod, y>> \in insts
                                                              /\ of(prod, y) = of(prod, r[1])
             /\ \A y \in YearsOf(insts, prod) : \E r \in D(prod) : y \in r[1] .. r[2]
             /\ \A r, s \in D(prod) : \A y \in r[1] .. r[2] : y \in s[1] .. s[2] => r = s
  BY <1>4, <1>6, RunsCover
<1>. HIDE DEF D, of
<1>8. Timely(runs)
  BY <1>1, <1>7 DEF Timely
<1>9. ASSUME NEW i \in runs
      PROVE  /\ i[2][1] <= i[2][2] /\ i[2][1] \in Nat /\ i[2][2] \in Nat
             /\ \A y \in i[2][1] .. i[2][2] : <<i[1], y>> \in insts
  BY <1>1, <1>7
<1>10. ASSUME NEW i \in runs, NEW y \in i[2][1] .. i[2][2]
       PROVE  MassesOf(rows, i) = MassesAt(x, <<i[1], y>>)
  <2>1. of(i[1], y) = of(i[1], i[2][1])
    BY <1>1, <1>7
  <2>2. Masses(At(rows, i[1], y)) = Masses(At(rows, i[1], i[2][1]))
    BY <2>1, SameMasses DEF of
  <2>. QED
    BY <2>2 DEF MassesOf, MassesAt, FirstYear, rows
<1>11. ASSUME NEW i \in runs
       PROVE  /\ WellKeyed(MassesOf(rows, i)) /\ Divisible(MassesOf(rows, i))
              /\ Measured(MassesOf(rows, i)) # {}
  <2>1. i[2][1] \in i[2][1] .. i[2][2]
    BY <1>9
  <2>2. <<i[1], i[2][1]>> \in Cells(x)
    BY <1>3, <1>9, <2>1
  <2>3. MassesOf(rows, i) = Masses(At(rows, i[1], i[2][1]))
    BY DEF MassesOf, FirstYear
  <2>. QED
    BY <2>2, <2>3 DEF FairRows, rows
<1>12. ASSUME NEW c \in insts PROVE \E i \in runs : i[1] = c[1] /\ c[2] \in i[2][1] .. i[2][2]
  <2>1. PICK at \in D(c[1]) : c[2] \in at[1] .. at[2]
    BY <1>5, <1>7
  <2>. QED
    BY <1>2, <2>1
<1>13. ASSUME NEW i \in runs, NEW j \in runs, NEW y \in i[2][1] .. i[2][2],
              i[1] = j[1], y \in j[2][1] .. j[2][2]
       PROVE  i = j
  <2>1. i[2] = j[2]
    BY <1>1, <1>7, <1>13
  <2>. QED
    BY <1>1, <1>13, <2>1
<1>. QED
  BY <1>8, <1>9, <1>10, <1>11, <1>12, <1>13 DEF runs, insts, rows

(* The document of some years of an export.                                  *)
LEMMA DocIs ==
  ASSUME NEW x \in Exports, FairRows(x), NEW years \in SUBSET Years(x),
         transform(Dataset[x.data], years) # NoDoc
  PROVE  /\ SoundDoc(transform(Dataset[x.data], years))
         /\ DocFor(transform(Dataset[x.data], years), Dataset[x.data], RunsIn(x, years))
         /\ RunsIn(x, years) # {}
         /\ \A c \in Instances(Dataset[x.data], years) : \A r \in ToSet(Dataset[x.data]) :
              r.prod = c[1] =>
                <<Class(c[1]), Class(r.parent)>> \in transform(Dataset[x.data], years).sub
<1>. DEFINE rows == Dataset[x.data]
            insts == Instances(rows, years)
            runs == RunsIn(x, years)
            doc == transform(rows, years)
<1>1. PICK canon : /\ runs # {}
                   /\ doc = Assembled(rows, insts, runs, Built(rows, runs, canon))
  BY TransformIs DEF RunsIn
<1>2. Timely(runs) /\ \A i \in runs : WellKeyed(MassesOf(rows, i))
  BY RunsAre
<1>3. SoundDoc(doc)
  BY TransformShape
<1>4. \A c \in insts : \E i \in runs : i[1] = c[1]
  BY RunsAre
<1>5. insts \subseteq Cells(x)
  BY CellsAre DEF Cells
<1>6. ASSUME NEW c \in insts, NEW r \in ToSet(rows), r.prod = c[1]
      PROVE  <<Class(c[1]), Class(r.parent)>> \in doc.sub
  <2>1. c[1] \notin Declared /\ \A q \in ToSet(rows) : q.prod = c[1] => q.parent = r.parent
    BY <1>5, <1>6 DEF FairRows, OneParent
  <2>2. PICK q \in ToSet(rows) : q.code \in Codes /\ q.prod = c[1] /\ <<c[1], q.year>> \in insts
    BY CellsAre
  <2>. DEFINE prods == {i[1] : i \in runs}
              parents(p) == {z.parent : z \in {y \in ToSet(rows) :
                                 y.prod = p /\ y.code \in Codes /\ <<p, y.year>> \in insts}}
              edges(p) == {<<Class(p), Class(z)>> : z \in parents(p)}
  <2>3. doc.sub = UNION {edges(p) : p \in prods \ Declared}
    BY <1>1 DEF Assembled
  <2>4. c[1] \in prods
    BY <1>4
  <2>5. r.parent \in parents(c[1])
    BY <2>1, <2>2
  <2>. HIDE DEF parents, prods
  <2>6. <<Class(c[1]), Class(r.parent)>> \in edges(c[1])
    BY <2>5
  <2>. HIDE DEF edges
  <2>. QED
    BY <2>1, <2>3, <2>4, <2>6
<1>7. DocFor(doc, rows, runs)
  BY <1>1, <1>2, AssembledIs
<1>. QED
  BY <1>1, <1>3, <1>6, <1>7

-----------------------------------------------------------------------------
(* A window that does not raise is a document, and so is one with statements.*)
LEMMA WindowDocIs ==
  ASSUME NEW x \in Exports \ Refusals, NEW p \in Windows(x), <<x, p>> \notin Raising
  PROVE  /\ transform(Dataset[x.data], WindowYears(x, p)) # NoDoc
         /\ WindowDoc(x, p) = canonicalize_doc(transform(Dataset[x.data], WindowYears(x, p)))
         /\ <<x, p, WindowDoc(x, p)>> \in WindowDocs
<1>. DEFINE D == transform(Dataset[x.data], WindowYears(x, p))
            w == <<x, p, WindowDoc(x, p)>>
<1>1. WindowDoc(x, p) = IF D = NoDoc THEN NoDoc ELSE canonicalize_doc(D)
  <2>. HIDE DEF D
  <2>1. transform_doc(Dataset[x.data], WindowYears(x, p))
          = IF D = NoDoc THEN NoDoc ELSE canonicalize_doc(D)
    BY DEF transform_doc, Once, D
  <2>. QED
    BY <2>1 DEF WindowDoc
<1>2. <<x, p>> \in AllWindows
  BY DEF AllWindows
<1>3. w \in WindowDocs
  BY <1>2 DEF WindowDocs
<1>4. w[3] # NoDoc
  <2>. SUFFICES ASSUME w[3] = NoDoc PROVE FALSE
    OBVIOUS
  <2>1. <<w[1], w[2]>> \in Raising
    <3>. HIDE DEF w
    <3>. QED
      BY <1>3 DEF Raising
  <2>. QED
    BY <2>1
<1>. QED
  BY <1>1, <1>3, <1>4

LEMMA BucketIs ==
  ASSUME NEW x \in Exports, NEW b \in BucketsOf(x)
  PROVE  /\ x \in Exports \ Refusals /\ b.file \in Windows(x) /\ <<x, b.file>> \notin Raising
         /\ b.classes = _doc_classes(WindowDoc(x, b.file))
         /\ <<x, b.file, WindowDoc(x, b.file)>> \in Written
<1>1. PICK w \in Written : b = [call |-> w[1], file |-> w[2], classes |-> Once(w[3], _doc_classes)]
  BY DEF BucketsOf, Buckets
<1>2. b.call = x /\ b.call = w[1] /\ b.file = w[2] /\ b.classes = _doc_classes(w[3])
  <2>1. Once(w[3], _doc_classes) = _doc_classes(w[3])
    BY DEF Once
  <2>. QED
    BY <1>1, <2>1 DEF BucketsOf
<1>3. PICK v \in AllWindows : w = <<v[1], v[2], WindowDoc(v[1], v[2])>>
  BY <1>1 DEF Written, WindowDocs
<1>4. v[1] = x /\ v[2] = b.file /\ w = <<x, b.file, WindowDoc(x, b.file)>>
  BY <1>2, <1>3
<1>5. v[2] \in Windows(v[1]) /\ v[1] \in Exports \ Refusals
  BY DEF AllWindows
<1>6. w[3].stmts # {}
  BY DEF Written
<1>7. <<x, b.file>> \notin Raising
  <2>. SUFFICES ASSUME <<x, b.file>> \in Raising PROVE FALSE
    OBVIOUS
  <2>1. PICK u \in WindowDocs : u[3] = NoDoc /\ <<x, b.file>> = <<u[1], u[2]>>
    BY DEF Raising
  <2>2. PICK z \in AllWindows : u = <<z[1], z[2], WindowDoc(z[1], z[2])>>
    BY DEF WindowDocs
  <2>3. z[1] = x /\ z[2] = b.file /\ WindowDoc(x, b.file) = NoDoc
    BY <2>1, <2>2
  <2>. QED
    BY <1>4, <1>6, <2>3 DEF NoDoc
<1>. QED
  <2>1. w[3] = WindowDoc(x, b.file)
    BY <1>4
  <2>2. <<x, b.file, WindowDoc(x, b.file)>> \in Written
    BY <1>1, <1>4
  <2>3. b.classes = _doc_classes(WindowDoc(x, b.file))
    BY <1>2, <2>1
  <2>. QED
    BY <1>4, <1>5, <1>7, <2>2, <2>3

(* The file of a window holds the graph of its document.                     *)
LEMMA WindowFile ==
  ASSUME NEW x \in Exports \ Refusals, NEW p \in Windows(x),
         <<x, p, WindowDoc(x, p)>> \in Written
  PROVE  /\ Graph(x, p) = composition_rdf(Structural(WindowDoc(x, p)))
         /\ \E b \in BucketsOf(x) : b.file = p
<1>. DEFINE H(w) == Once(w[3], LAMBDA doc : composition_rdf(Structural(doc)))
            G(y) == Once(FullDoc(y), LAMBDA doc : composition_rdf(EmDoc(doc)))
            windows == {[call |-> w[1], path |-> w[2], graph |-> H(w)] : w \in Written}
            shareds == {[call |-> y, path |-> Shared, graph |-> G(y)] : y \in Exports \ Refusals}
            w0 == <<x, p, WindowDoc(x, p)>>
            file == [call |-> x, path |-> p, graph |-> H(w0)]
<1>1. Contents = windows \cup shareds
  BY DEF Contents
<1>2. H(w0) = composition_rdf(Structural(WindowDoc(x, p)))
  <2>1. \A doc : Once(doc, LAMBDA d : composition_rdf(Structural(d)))
                   = composition_rdf(Structural(doc))
    BY DEF Once
  <2>2. w0[3] = WindowDoc(x, p)
    OBVIOUS
  <2>3. H(w0) = composition_rdf(Structural(w0[3]))
    BY <2>1
  <2>. QED
    BY <2>2, <2>3
<1>3. file \in windows
  <2>1. w0 \in Written /\ w0[1] = x /\ w0[2] = p
    OBVIOUS
  <2>. HIDE DEF H, w0
  <2>. QED
    BY <2>1
<1>4. ASSUME NEW c \in windows, c.call = x, c.path = p PROVE c = file
  <2>1. PICK w \in Written : c = [call |-> w[1], path |-> w[2], graph |-> H(w)]
    <3>. HIDE DEF H
    <3>. QED
      OBVIOUS
  <2>2. PICK v \in AllWindows : w = <<v[1], v[2], WindowDoc(v[1], v[2])>>
    BY DEF Written, WindowDocs
  <2>3. w = w0
    <3>. HIDE DEF H
    <3>. QED
      BY <1>4, <2>1, <2>2
  <2>. HIDE DEF H, w0
  <2>. QED
    BY <1>4, <2>1, <2>3
<1>5. \A c \in shareds : c.path = Shared
  <2>. HIDE DEF G
  <2>. QED
    OBVIOUS
<1>6. p # Shared
  <2>1. p \in WindowPaths
    BY DEF WindowPaths
  <2>. QED
    BY <2>1, Apart
<1>7. Graph(x, p) = H(w0)
  <2>. HIDE DEF windows, shareds, H
  <2>1. file.call = x /\ file.path = p /\ file.graph = H(w0)
    OBVIOUS
  <2>. HIDE DEF file
  <2>2. (CHOOSE c \in Contents : c.call = x /\ c.path = p) = file
    BY <1>1, <1>3, <1>4, <1>5, <1>6, <2>1
  <2>. QED
    BY <2>1, <2>2 DEF Graph
<1>8. \E b \in BucketsOf(x) : b.file = p
  <2>. DEFINE C(w) == Once(w[3], _doc_classes)
              b == [call |-> w0[1], file |-> w0[2], classes |-> C(w0)]
  <2>1. b \in Buckets
    BY DEF Buckets
  <2>2. b.call = x /\ b.file = p
    OBVIOUS
  <2>. QED
    BY <2>1, <2>2 DEF BucketsOf
<1>. QED
  BY <1>2, <1>7, <1>8

-----------------------------------------------------------------------------
(* What a window file says.                                                  *)

LEMMA Authored ==
  ASSUME NEW i, NEW masses, Divisible(masses), NEW k \in Measured(masses), NEW stmts, Said(stmts, i, masses)
  PROVE  LET f == (CompMass(masses, k[1]) * Unit) \div ItemMass(masses)
             h == (masses[k] * Unit) \div CompMass(masses, k[1])
         IN  /\ f * h * ItemMass(masses) = masses[k] * Unit * Unit
             /\ \E s \in stmts : s.whole = CarOf(i) /\ s.part = CompOf(i, k[1]) /\ s.best = f
             /\ \E s \in stmts : s.whole = CompOf(i, k[1]) /\ s.part = MatOf(i, k) /\ s.best = h
<1>. USE EtlAssumption
<1>1. /\ ItemMass(masses) \in Nat \ {0}
      /\ masses[k] \in Nat \ {0} /\ CompMass(masses, k[1]) \in Nat \ {0}
      /\ (CompMass(masses, k[1]) * Unit) % ItemMass(masses) = 0
      /\ (masses[k] * Unit) % CompMass(masses, k[1]) = 0
  BY DEF Divisible
<1>2. k \in KeptKeys(masses) /\ k[1] \in KeptComps(masses)
  BY DEF Measured, KeptKeys
<1>3. ASSUME NEW whole, NEW part, NEW value \in Nat \ {0}, NEW mass \in Nat \ {0}, NEW q,
             (value * Unit) % mass = 0
      PROVE  \E s \in Statement(whole, part, value, mass, q) :
               s.whole = whole /\ s.part = part /\ s.best = (value * Unit) \div mass
  <2>1. (value * Unit) \div mass > 0
    BY <1>3, Positive
  <2>2. mass \in {m \in {mass} : m # 0 /\ (value * Unit) \div m > 0}
    BY <2>1
  <2>3. [whole |-> whole, part |-> part, best |-> (value * Unit) \div mass, q |-> q]
          \in Statement(whole, part, value, mass, q)
    BY <2>2 DEF Statement
  <2>. QED
    BY <2>3
<1>4. PICK q : Statement(CarOf(i), CompOf(i, k[1]), CompMass(masses, k[1]), ItemMass(masses), q)
                 \subseteq stmts
  BY <1>2 DEF Said
<1>5. PICK r : Statement(CompOf(i, k[1]), MatOf(i, k), masses[k], CompMass(masses, k[1]), r)
                 \subseteq stmts
  BY <1>2 DEF Said
<1>. DEFINE f == (CompMass(masses, k[1]) * Unit) \div ItemMass(masses)
            h == (masses[k] * Unit) \div CompMass(masses, k[1])
<1>6. \E s \in stmts : s.whole = CarOf(i) /\ s.part = CompOf(i, k[1]) /\ s.best = f
  <2>1. \E s \in Statement(CarOf(i), CompOf(i, k[1]), CompMass(masses, k[1]), ItemMass(masses), q) :
          s.whole = CarOf(i) /\ s.part = CompOf(i, k[1]) /\ s.best = f
    <3>. PICK v, m : v = CompMass(masses, k[1]) /\ m = ItemMass(masses)
      OBVIOUS
    <3>. PICK car, comp : car = CarOf(i) /\ comp = CompOf(i, k[1])
      OBVIOUS
    <3>1. v \in Nat \ {0} /\ m \in Nat \ {0} /\ (v * Unit) % m = 0 /\ f = (v * Unit) \div m
      BY <1>1
    <3>. HIDE DEF f
    <3>2. \E s \in Statement(car, comp, v, m, q) : s.whole = car /\ s.part = comp /\ s.best = f
      <4>1. v \in Nat \ {0} /\ m \in Nat \ {0} /\ (v * Unit) % m = 0
        BY <3>1
      <4>2. \E s \in Statement(car, comp, v, m, q) :
              s.whole = car /\ s.part = comp /\ s.best = (v * Unit) \div m
        BY <1>3, <4>1
      <4>. QED
        BY <3>1, <4>2
    <3>. QED
      BY <3>2
  <2>. QED
    BY <1>4, <2>1
<1>7. \E s \in stmts : s.whole = CompOf(i, k[1]) /\ s.part = MatOf(i, k) /\ s.best = h
  <2>1. \E s \in Statement(CompOf(i, k[1]), MatOf(i, k), masses[k], CompMass(masses, k[1]), r) :
          s.whole = CompOf(i, k[1]) /\ s.part = MatOf(i, k) /\ s.best = h
    <3>. PICK v, m : v = masses[k] /\ m = CompMass(masses, k[1])
      OBVIOUS
    <3>1. v \in Nat \ {0} /\ m \in Nat \ {0} /\ (v * Unit) % m = 0 /\ h = (v * Unit) \div m
      BY <1>1
    <3>. HIDE DEF h
    <3>. QED
      BY <1>3, <3>1
  <2>. QED
    BY <1>5, <2>1
<1>8. f * h * ItemMass(masses) = masses[k] * Unit * Unit
  BY <1>1, Back
<1>. QED
  BY <1>6, <1>7, <1>8

(* A window that does not raise has statements, and is filed under every     *)
(* product it has and the class each of them is filed under.                 *)
LEMMA WindowIs ==
  ASSUME NEW x \in Exports \ Refusals, FairRows(x),
         NEW p \in Windows(x), <<x, p>> \notin Raising
  PROVE  /\ GraphFor(Graph(x, p), Dataset[x.data], RunsIn(x, WindowYears(x, p)))
         /\ \E b \in BucketsOf(x) : b.file = p
         /\ \A b \in BucketsOf(x) : b.file = p =>
              \A c \in Instances(Dataset[x.data], WindowYears(x, p)) :
                /\ Class(c[1]) \in b.classes
                /\ \A r \in ToSet(Dataset[x.data]) : r.prod = c[1] => Class(r.parent) \in b.classes
<1>. DEFINE rows == Dataset[x.data]
            years == WindowYears(x, p)
            runs == RunsIn(x, years)
            doc == transform(rows, years)
            new == canonicalize_doc(doc)
<1>1. years \in SUBSET Years(x)
  BY DEF WindowYears
<1>. HIDE DEF years
<1>2. doc # NoDoc /\ WindowDoc(x, p) = new /\ <<x, p, WindowDoc(x, p)>> \in WindowDocs
  BY WindowDocIs DEF years
<1>3. /\ SoundDoc(doc) /\ DocFor(doc, rows, runs) /\ runs # {}
      /\ \A c \in Instances(rows, years) : \A r \in ToSet(rows) :
           r.prod = c[1] => <<Class(c[1]), Class(r.parent)>> \in doc.sub
  BY <1>1, <1>2, DocIs
<1>4. /\ Timely(runs)
      /\ \A i \in runs : Divisible(MassesOf(rows, i)) /\ Measured(MassesOf(rows, i)) # {}
      /\ \A c \in Instances(rows, years) : \E i \in runs : i[1] = c[1]
  BY <1>1, RunsAre
<1>. HIDE DEF doc, runs
<1>5. /\ GraphFor(composition_rdf(Structural(new)), rows, runs)
      /\ \A i \in runs : Class(i[1]) \in _doc_classes(new)
      /\ \A e \in doc.sub : e[2] \in _doc_classes(new)
      /\ composition_rdf(Structural(new)).stmts \subseteq new.stmts
  BY <1>3, <1>4, WindowGraph
<1>. HIDE DEF new
<1>6. new.stmts # {}
  <2>1. PICK i \in runs : TRUE
    BY <1>3
  <2>2. PICK k \in Measured(MassesOf(rows, i)) : TRUE
    BY <1>4
  <2>3. Said(composition_rdf(Structural(new)).stmts, i, MassesOf(rows, i))
    BY <1>5 DEF GraphFor
  <2>4. \E s \in composition_rdf(Structural(new)).stmts : TRUE
    BY <1>4, <2>3, Authored
  <2>. QED
    BY <1>5, <2>4
<1>7. <<x, p, WindowDoc(x, p)>> \in Written
  BY <1>2, <1>6 DEF Written
<1>8. Graph(x, p) = composition_rdf(Structural(new)) /\ \E b \in BucketsOf(x) : b.file = p
  BY <1>2, <1>7, WindowFile
<1>9. ASSUME NEW b \in BucketsOf(x), b.file = p, NEW c \in Instances(rows, years)
      PROVE  /\ Class(c[1]) \in b.classes
             /\ \A r \in ToSet(rows) : r.prod = c[1] => Class(r.parent) \in b.classes
  <2>1. b.classes = _doc_classes(new)
    BY <1>2, <1>9, BucketIs
  <2>2. Class(c[1]) \in b.classes
    BY <1>4, <1>5, <2>1
  <2>3. ASSUME NEW r \in ToSet(rows), r.prod = c[1] PROVE Class(r.parent) \in b.classes
    <3>1. <<Class(c[1]), Class(r.parent)>> \in doc.sub
      BY <1>3, <2>3
    <3>2. <<Class(c[1]), Class(r.parent)>>[2] \in _doc_classes(new)
      BY <1>5, <3>1
    <3>. QED
      BY <2>1, <3>2
  <2>. QED
    BY <2>2, <2>3
<1>. QED
  BY <1>5, <1>8, <1>9 DEF runs, years

-----------------------------------------------------------------------------
(* No window of an export raises.                                            *)
Passed(x) == \A p \in Windows(x) : <<x, p>> \notin Raising

(* What the shared file of an export and some of its windows say together.   *)
LEMMA LoadedIs ==
  ASSUME NEW x \in Exports \ Refusals, FairRows(x), NEW files \in SUBSET Windows(x),
         \A p \in files : <<x, p>> \notin Raising
  PROVE  LET g == Loaded(x, files)
             rows == Dataset[x.data]
             runs == UNION {RunsIn(x, WindowYears(x, p)) : p \in files}
         IN  /\ \A p \in files : Graph(x, p).types \subseteq g.types
                                 /\ Graph(x, p).stmts \subseteq g.stmts
             /\ \A t \in g.types : t[3] = "Product" => \E i \in runs :
                  t = <<CarOf(i), Class(i[1]), "Product", ItemMass(MassesOf(rows, i))>>
             /\ \A s \in g.stmts : s.whole.at = <<>> \/ \E i \in runs : Says(s, i, MassesOf(rows, i))
<1>. DEFINE rows == Dataset[x.data]
            R(p) == RunsIn(x, WindowYears(x, p))
            runs == UNION {R(p) : p \in files}
            gs == {Graph(x, p) : p \in files \cup {Shared}}
            g == [types |-> UNION {h.types : h \in gs}, stmts |-> UNION {h.stmts : h \in gs}]
            doc == transform(rows, Years(x))
            car(i) == <<CarOf(i), Class(i[1]), "Product", ItemMass(MassesOf(rows, i))>>
<1>1. Loaded(x, files) = g
  <2>. DEFINE L(hs) == [types |-> UNION {h.types : h \in hs}, stmts |-> UNION {h.stmts : h \in hs}]
  <2>1. Loaded(x, files) = Once(gs, L)
    BY DEF Loaded
  <2>2. Once(gs, L) = L(gs)
    <3>. HIDE DEF gs, L
    <3>. QED
      BY DEF Once
  <2>. QED
    BY <2>1, <2>2
<1>2. g.types = UNION {h.types : h \in gs} /\ g.stmts = UNION {h.stmts : h \in gs}
  OBVIOUS
<1>3. /\ \A p \in files : Graph(x, p) \in gs
      /\ \A h \in gs : h = Graph(x, Shared) \/ \E p \in files : h = Graph(x, p)
  OBVIOUS
<1>. HIDE DEF g, gs
<1>4. ASSUME NEW p \in files PROVE GraphFor(Graph(x, p), rows, R(p))
  BY WindowIs
<1>5. /\ \A t \in Graph(x, Shared).types : t[3] # "Product"
      /\ \A s \in Graph(x, Shared).stmts : s.whole.at = <<>>
  <2>1. doc # NoDoc /\ Graph(x, Shared) = composition_rdf(EmDoc(canonicalize_doc(doc)))
    BY SharedGraph
  <2>2. SoundDoc(doc) /\ DocFor(doc, rows, RunsIn(x, Years(x)))
    BY <2>1, DocIs
  <2>. HIDE DEF doc
  <2>. QED
    BY <2>1, <2>2, SharedFile
<1>6. \A p \in files : R(p) \subseteq runs
  <2>. HIDE DEF R
  <2>. QED
    OBVIOUS
<1>. HIDE DEF R, runs
<1>7. ASSUME NEW p \in files
      PROVE  Graph(x, p).types \subseteq g.types /\ Graph(x, p).stmts \subseteq g.stmts
  BY <1>2, <1>3
<1>8. ASSUME NEW t \in g.types, t[3] = "Product" PROVE \E i \in runs : t = car(i)
  <2>1. PICK h \in gs : t \in h.types
    BY <1>2
  <2>2. PICK p \in files : h = Graph(x, p)
    BY <1>3, <1>5, <1>8, <2>1
  <2>3. \E i \in R(p) : t = car(i)
    BY <1>4, <1>8, <2>1, <2>2 DEF GraphFor
  <2>. QED
    BY <1>6, <2>3
<1>9. ASSUME NEW s \in g.stmts
      PROVE  s.whole.at = <<>> \/ \E i \in runs : Says(s, i, MassesOf(rows, i))
  <2>1. PICK h \in gs : s \in h.stmts
    BY <1>2
  <2>2. CASE h = Graph(x, Shared)
    BY <1>5, <2>1, <2>2
  <2>3. CASE \E p \in files : h = Graph(x, p)
    BY <1>4, <1>6, <2>1, <2>3 DEF GraphFor
  <2>. QED
    BY <1>3, <2>2, <2>3
<1>. QED
  BY <1>1, <1>7, <1>8, <1>9 DEF runs, R

(* A statement about a car, or about a component of it, is the one of its    *)
(* run.                                                                      *)
LEMMA SaysOf ==
  ASSUME NEW i, NEW j, i = <<i[1], i[2]>>, j = <<j[1], j[2]>>, NEW masses, WellKeyed(masses),
         NEW s, NEW rows, masses = MassesOf(rows, i), Says(s, j, MassesOf(rows, j)), WellKeyed(MassesOf(rows, j)),
         NEW k \in KeptKeys(masses)
  PROVE  /\ s.whole = CarOf(i) /\ s.part = CompOf(i, k[1]) =>
              s.best = (CompMass(masses, k[1]) * Unit) \div ItemMass(masses)
         /\ s.whole = CompOf(i, k[1]) /\ s.part = MatOf(i, k) =>
              s.best = (masses[k] * Unit) \div CompMass(masses, k[1])
<1>1. k \in DOMAIN masses /\ k[1] \in KeptComps(masses)
  BY DEF KeptKeys
<1>2. \A ms : \A c \in KeptComps(ms) : \E l \in DOMAIN ms : c = l[1]
  BY DEF KeptComps
<1>3. \A ms : KeptKeys(ms) \subseteq DOMAIN ms
  BY DEF KeptKeys
<1>4. \A h : CarOf(h).prod = h[1] /\ CarOf(h).at = h[2] /\ CarOf(h).comp = ""
  BY DEF CarOf, Node
<1>5. \A h, c : CompOf(h, c).prod = h[1] /\ CompOf(h, c).at = h[2] /\ CompOf(h, c).comp = Leaf(c)
  BY DEF CompOf, Node
<1>6. \A h, l : MatOf(h, l).mat = Leaf(l[2])
  BY DEF MatOf, Node
<1>7. ASSUME s.whole = CarOf(i), s.part = CompOf(i, k[1])
      PROVE  s.best = (CompMass(masses, k[1]) * Unit) \div ItemMass(masses)
  <2>1. ASSUME NEW l \in KeptKeys(MassesOf(rows, j)), SaysMat(s, j, MassesOf(rows, j), l) PROVE FALSE
    <3>1. s.whole = CompOf(j, l[1])
      BY <2>1, StatementEnds DEF SaysMat
    <3>2. Leaf(l[1]) # ""
      BY <1>3 DEF WellKeyed
    <3>3. CompOf(j, l[1]).comp = Leaf(l[1]) /\ CarOf(i).comp = ""
      BY <1>4, <1>5
    <3>. QED
      BY <1>7, <3>1, <3>2, <3>3
  <2>2. PICK c \in KeptComps(MassesOf(rows, j)) : SaysComp(s, j, MassesOf(rows, j), c)
    BY <2>1 DEF Says
  <2>3. /\ s.whole = CarOf(j) /\ s.part = CompOf(j, c)
        /\ s.best = (CompMass(MassesOf(rows, j), c) * Unit) \div ItemMass(MassesOf(rows, j))
    BY <2>2, StatementEnds DEF SaysComp
  <2>4. i = j
    BY <1>7, <2>3, CarsApart
  <2>5. Leaf(c) = Leaf(k[1])
    <3>1. CompOf(j, c).comp = Leaf(c) /\ CompOf(i, k[1]).comp = Leaf(k[1])
      BY <1>5
    <3>. QED
      BY <1>7, <2>3, <3>1
  <2>6. c = k[1]
    <3>1. PICK l \in DOMAIN masses : c = l[1]
      BY <1>2, <2>4
    <3>. QED
      BY <1>1, <2>5, <3>1 DEF WellKeyed
  <2>. QED
    BY <2>3, <2>4, <2>6
<1>8. ASSUME s.whole = CompOf(i, k[1]), s.part = MatOf(i, k)
      PROVE  s.best = (masses[k] * Unit) \div CompMass(masses, k[1])
  <2>1. ASSUME NEW c \in KeptComps(MassesOf(rows, j)), SaysComp(s, j, MassesOf(rows, j), c) PROVE FALSE
    <3>1. s.whole = CarOf(j)
      BY <2>1, StatementEnds DEF SaysComp
    <3>2. Leaf(k[1]) # ""
      BY <1>1 DEF WellKeyed
    <3>3. CompOf(i, k[1]).comp = Leaf(k[1]) /\ CarOf(j).comp = ""
      BY <1>4, <1>5
    <3>. QED
      BY <1>8, <3>1, <3>2, <3>3
  <2>2. PICK l \in KeptKeys(MassesOf(rows, j)) : SaysMat(s, j, MassesOf(rows, j), l)
    BY <2>1 DEF Says
  <2>3. /\ s.whole = CompOf(j, l[1]) /\ s.part = MatOf(j, l)
        /\ s.best = (MassesOf(rows, j)[l] * Unit) \div CompMass(MassesOf(rows, j), l[1])
    BY <2>2, StatementEnds DEF SaysMat
  <2>0. /\ CompOf(j, l[1]).comp = Leaf(l[1]) /\ CompOf(i, k[1]).comp = Leaf(k[1])
        /\ CompOf(j, l[1]).prod = j[1] /\ CompOf(i, k[1]).prod = i[1]
        /\ CompOf(j, l[1]).at = j[2] /\ CompOf(i, k[1]).at = i[2]
        /\ MatOf(j, l).mat = Leaf(l[2]) /\ MatOf(i, k).mat = Leaf(k[2])
    BY <1>5, <1>6
  <2>4. i = j
    BY <1>8, <2>0, <2>3
  <2>5. Leaf(l[1]) = Leaf(k[1]) /\ Leaf(l[2]) = Leaf(k[2])
    BY <1>8, <2>0, <2>3
  <2>6. l = k
    BY <1>1, <1>3, <2>4, <2>5 DEF WellKeyed
  <2>. QED
    BY <2>3, <2>4, <2>6
<1>. QED
  BY <1>7, <1>8

(* The names of a component and of a material, from that of the car.         *)
LEMMA NamesOf ==
  ASSUME NEW i, NEW k
  PROVE  /\ [CarOf(i) EXCEPT !.comp = Leaf(k[1])] = CompOf(i, k[1])
         /\ [CompOf(i, k[1]) EXCEPT !.at = <<>>, !.mat = Leaf(k[2])] = MatOf(i, k)
<1>. DEFINE z == ""
            none == <<>>
<1>1. /\ CarOf(i) = Node(i[1], i[2], z, z, z)
      /\ CompOf(i, k[1]) = Node(i[1], i[2], Leaf(k[1]), z, z)
      /\ MatOf(i, k) = Node(i[1], none, Leaf(k[1]), Leaf(k[2]), z)
  BY DEF CarOf, CompOf, MatOf
<1>. HIDE DEF z, none
<1>2. [CarOf(i) EXCEPT !.comp = Leaf(k[1])] = CompOf(i, k[1])
  <2>. PICK p, t, a : p = i[1] /\ t = i[2] /\ a = Leaf(k[1])
    OBVIOUS
  <2>1. [Node(p, t, z, z, z) EXCEPT !.comp = a] = Node(p, t, a, z, z)
    BY DEF Node
  <2>2. CarOf(i) = Node(p, t, z, z, z) /\ CompOf(i, k[1]) = Node(p, t, a, z, z)
    BY <1>1
  <2>. QED
    BY <2>1, <2>2
<1>3. [CompOf(i, k[1]) EXCEPT !.at = none] = Node(i[1], none, Leaf(k[1]), z, z)
  <2>. PICK p, t, a : p = i[1] /\ t = i[2] /\ a = Leaf(k[1])
    OBVIOUS
  <2>1. [Node(p, t, a, z, z) EXCEPT !.at = none] = Node(p, none, a, z, z)
    BY DEF Node
  <2>2. CompOf(i, k[1]) = Node(p, t, a, z, z)
    BY <1>1
  <2>. QED
    BY <2>1, <2>2
<1>4. [[CompOf(i, k[1]) EXCEPT !.at = none] EXCEPT !.mat = Leaf(k[2])] = MatOf(i, k)
  <2>. PICK p, a, b, n : p = i[1] /\ a = Leaf(k[1]) /\ b = Leaf(k[2]) /\ n = Node(p, none, a, z, z)
    OBVIOUS
  <2>1. [n EXCEPT !.mat = b] = Node(p, none, a, b, z)
    BY DEF Node
  <2>2. [CompOf(i, k[1]) EXCEPT !.at = none] = n /\ MatOf(i, k) = Node(p, none, a, b, z)
    BY <1>1, <1>3
  <2>. QED
    BY <2>1, <2>2
<1>5. [CompOf(i, k[1]) EXCEPT !.at = none, !.mat = Leaf(k[2])]
        = [[CompOf(i, k[1]) EXCEPT !.at = none] EXCEPT !.mat = Leaf(k[2])]
  OBVIOUS
<1>. QED
  BY <1>2, <1>4, <1>5 DEF none

(* Any windows of an export that have the window of a cell give it back.     *)
LEMMA CellGiven ==
  ASSUME NEW x \in Exports \ Refusals, FairRows(x), NEW files \in SUBSET Windows(x),
         \A p \in files : <<x, p>> \notin Raising,
         NEW c \in Cells(x), bucket_of(c[2], x.width) \in files
  PROVE  Gives(x, c, files)
<1>. DEFINE rows == Dataset[x.data]
            g == Loaded(x, files)
            R(p) == RunsIn(x, WindowYears(x, p))
            runs == UNION {R(p) : p \in files}
            w == bucket_of(c[2], x.width)
            masses == MassesAt(x, c)
            car(i) == <<CarOf(i), Class(i[1]), "Product", ItemMass(MassesOf(rows, i))>>
<1>1. c = <<c[1], c[2]>> /\ c[2] \in Years(x) /\ c[2] \in Nat
  BY CellsAre, YearsAre DEF Cells
<1>2. w[1] <= c[2] /\ c[2] <= w[2]
  BY <1>1, BucketHolds
<1>3. c \in Instances(rows, WindowYears(x, w))
  BY <1>1, <1>2, CellsAre DEF WindowYears, Cells
<1>4. \A p : WindowYears(x, p) \in SUBSET Years(x)
  BY DEF WindowYears
<1>5. PICK i \in R(w) : i[1] = c[1] /\ c[2] \in i[2][1] .. i[2][2]
  BY <1>3, <1>4, RunsAre
<1>6. /\ i = <<i[1], i[2]>> /\ i[2] # <<>> /\ WellKeyed(MassesOf(rows, i)) /\ Divisible(MassesOf(rows, i))
      /\ MassesOf(rows, i) = masses
  <2>1. Timely(R(w))
    BY <1>4, RunsAre
  <2>2. MassesOf(rows, i) = MassesAt(x, <<i[1], c[2]>>)
    BY <1>4, <1>5, RunsAre
  <2>3. WellKeyed(MassesOf(rows, i)) /\ Divisible(MassesOf(rows, i))
    BY <1>4, RunsAre
  <2>. QED
    BY <1>1, <1>5, <2>1, <2>2, <2>3 DEF Timely
<1>7. \A j \in runs : j = <<j[1], j[2]>> /\ WellKeyed(MassesOf(rows, j))
  <2>. SUFFICES ASSUME NEW p \in files, NEW j \in R(p)
                PROVE  j = <<j[1], j[2]>> /\ WellKeyed(MassesOf(rows, j))
    OBVIOUS
  <2>1. Timely(R(p)) /\ WellKeyed(MassesOf(rows, j))
    BY <1>4, RunsAre
  <2>. QED
    BY <2>1 DEF Timely
<1>8. ASSUME NEW j \in runs, j[1] = c[1], j[2][1] <= c[2], c[2] <= j[2][2] PROVE j = i
  <2>1. PICK p \in files : j \in R(p)
    OBVIOUS
  <2>2. c[2] \in j[2][1] .. j[2][2] /\ <<j[1], c[2]>> \in Instances(rows, WindowYears(x, p))
    <3>1. j[2][1] \in Nat /\ j[2][2] \in Nat
      BY <1>4, <2>1, RunsAre
    <3>2. c[2] \in j[2][1] .. j[2][2]
      BY <1>1, <1>8, <3>1
    <3>. QED
      BY <1>4, <2>1, <3>2, RunsAre
  <2>3. c[2] \in WindowYears(x, p)
    <3>1. <<j[1], c[2]>>[2] \in WindowYears(x, p)
      BY <2>2, CellsAre
    <3>. QED
      BY <3>1
  <2>4. p = w
    BY <1>1, <2>3, BucketAlone DEF WindowYears
  <2>. QED
    BY <1>4, <1>5, <1>8, <2>1, <2>2, <2>4, RunsAre
<1>9. /\ \A p \in files : Graph(x, p).types \subseteq g.types /\ Graph(x, p).stmts \subseteq g.stmts
      /\ \A t \in g.types : t[3] = "Product" => \E j \in runs : t = car(j)
      /\ \A s \in g.stmts : s.whole.at = <<>> \/ \E j \in runs : Says(s, j, MassesOf(rows, j))
  BY LoadedIs
<1>10. car(i) \in g.types /\ Said(g.stmts, i, masses)
  <2>1. GraphFor(Graph(x, w), rows, R(w))
    BY WindowIs
  <2>2. car(i) \in Graph(x, w).types /\ Said(Graph(x, w).stmts, i, MassesOf(rows, i))
    BY <2>1 DEF GraphFor
  <2>3. Said(g.stmts, i, masses)
    BY <1>6, <1>9, <2>2 DEF Said
  <2>. QED
    BY <1>9, <2>2, <2>3
<1>11. Gives(x, c, files) = GivesBack(g, rows, c[1], c[2])
  <2>. HIDE DEF g
  <2>. QED
    BY DEF Gives, Once, g
<1>. HIDE DEF g, R, runs, w
<1>12. CarOf(i).prod = c[1] /\ CarOf(i).at = i[2]
  BY <1>5 DEF CarOf, Node
<1>13. Cars(g, c[1], c[2]) = {car(i)}
  <2>1. ASSUME NEW t \in Cars(g, c[1], c[2]) PROVE t = car(i)
    <3>1. t \in g.types /\ t[3] = "Product" /\ t[1].prod = c[1]
          /\ t[1].at[1] <= c[2] /\ c[2] <= t[1].at[2]
      BY DEF Cars
    <3>2. PICK j \in runs : t = car(j)
      BY <1>9, <3>1
    <3>3. t[1] = CarOf(j) /\ CarOf(j).prod = j[1] /\ CarOf(j).at = j[2]
      BY <3>2 DEF CarOf, Node
    <3>4. j = i
      BY <1>8, <3>1, <3>3
    <3>. QED
      BY <3>2, <3>4
  <2>2. car(i) \in Cars(g, c[1], c[2])
    <3>1. car(i)[1] = CarOf(i) /\ car(i)[3] = "Product"
      OBVIOUS
    <3>2. i[2][1] <= c[2] /\ c[2] <= i[2][2]
      BY <1>5
    <3>. HIDE DEF car
    <3>. QED
      BY <1>10, <1>12, <3>1, <3>2 DEF Cars
  <2>. HIDE DEF car
  <2>. QED
    BY <2>1, <2>2
<1>. DEFINE Returned(n, mass, k) ==
              LET cn == [n EXCEPT !.comp = Leaf(k[1])]
                  mn == [cn EXCEPT !.at = <<>>, !.mat = Leaf(k[2])]
              IN  \E f \in Fraction(g, n, cn), h \in Fraction(g, cn, mn) :
                    /\ f * h * mass = masses[k] * Unit * Unit
                    /\ Cardinality(Fraction(g, n, cn)) = 1
                    /\ Cardinality(Fraction(g, cn, mn)) = 1
<1>14. ASSUME NEW k \in Measured(masses) PROVE Returned(CarOf(i), ItemMass(masses), k)
  <2>. DEFINE cn == [CarOf(i) EXCEPT !.comp = Leaf(k[1])]
              mn == [cn EXCEPT !.at = <<>>, !.mat = Leaf(k[2])]
              f == (CompMass(masses, k[1]) * Unit) \div ItemMass(masses)
              h == (masses[k] * Unit) \div CompMass(masses, k[1])
  <2>1. cn = CompOf(i, k[1]) /\ mn = MatOf(i, k)
    <3>1. cn = CompOf(i, k[1])
      BY NamesOf
    <3>. HIDE DEF cn
    <3>. QED
      BY <3>1, NamesOf
  <2>2. CarOf(i).at # <<>> /\ CompOf(i, k[1]).at # <<>>
    BY <1>6 DEF CarOf, CompOf, Node
  <2>. HIDE DEF cn, mn
  <2>3. /\ f * h * ItemMass(masses) = masses[k] * Unit * Unit
        /\ \E s \in g.stmts : s.whole = CarOf(i) /\ s.part = CompOf(i, k[1]) /\ s.best = f
        /\ \E s \in g.stmts : s.whole = CompOf(i, k[1]) /\ s.part = MatOf(i, k) /\ s.best = h
    BY <1>6, <1>10, Authored
  <2>4. k \in KeptKeys(masses)
    BY DEF Measured
  <2>. HIDE DEF f, h
  <2>5. ASSUME NEW s \in g.stmts, s.whole.at # <<>>
        PROVE  /\ s.whole = CarOf(i) /\ s.part = CompOf(i, k[1]) => s.best = f
               /\ s.whole = CompOf(i, k[1]) /\ s.part = MatOf(i, k) => s.best = h
    <3>1. PICK j \in runs : Says(s, j, MassesOf(rows, j))
      BY <1>9, <2>5
    <3>. QED
      BY <1>6, <1>7, <2>4, <3>1, SaysOf DEF f, h
  <2>6. Fraction(g, CarOf(i), cn) = {f}
    BY <2>1, <2>2, <2>3, <2>5 DEF Fraction
  <2>7. Fraction(g, cn, mn) = {h}
    BY <2>1, <2>2, <2>3, <2>5 DEF Fraction
  <2>8. Cardinality({f}) = 1 /\ Cardinality({h}) = 1
    BY FS_Singleton
  <2>. QED
    BY <2>3, <2>6, <2>7, <2>8 DEF cn, mn
<1>15. GivesBack(g, rows, c[1], c[2])
  <2>1. Cardinality({car(i)}) = 1
    BY FS_Singleton
  <2>2. car(i)[1] = CarOf(i) /\ car(i)[4] = ItemMass(masses)
    BY <1>6
  <2>3. masses = Masses(At(rows, c[1], c[2]))
    BY DEF MassesAt
  <2>4. ASSUME NEW t \in Cars(g, c[1], c[2]), NEW k \in Measured(masses)
        PROVE  Returned(t[1], t[4], k)
    <3>1. t[1] = CarOf(i) /\ t[4] = ItemMass(masses)
      BY <1>13, <2>2
    <3>. HIDE DEF masses, Returned
    <3>. QED
      BY <1>14, <3>1
  <2>. HIDE DEF car, rows
  <2>5. Cardinality(Cars(g, c[1], c[2])) = 1
    BY <1>13, <2>1
  <2>. HIDE DEF masses
  <2>. QED
    BY <2>3, <2>4, <2>5 DEF GivesBack
<1>. QED
  BY <1>11, <1>15

(* An export that no window of it stops serves every cell, whatever files are*)
(* loaded as long as they include the cell's.                                *)
LEMMA BucketFiles ==
  ASSUME NEW x \in Exports \ Refusals, FairRows(x), Passed(x)
  PROVE  LET files == {b.file : b \in BucketsOf(x)}
         IN  /\ files \in SUBSET Windows(x) /\ \A p \in files : <<x, p>> \notin Raising
             /\ \A c \in Cells(x) :
                  /\ bucket_of(c[2], x.width) \in Windows(x)
                  /\ bucket_of(c[2], x.width) \in files
<1>1. \A b \in BucketsOf(x) : b.file \in Windows(x) /\ <<x, b.file>> \notin Raising
  BY BucketIs
<1>2. ASSUME NEW c \in Cells(x)
      PROVE  /\ bucket_of(c[2], x.width) \in Windows(x)
             /\ \E b \in BucketsOf(x) : b.file = bucket_of(c[2], x.width)
  <2>1. c[2] \in Years(x)
    BY CellsAre DEF Cells
  <2>2. bucket_of(c[2], x.width) \in Windows(x)
    BY <2>1 DEF Windows
  <2>. QED
    BY <2>2, WindowIs DEF Passed
<1>. QED
  BY <1>1, <1>2

LEMMA AllServed ==
  ASSUME NEW x \in Exports \ Refusals, FairRows(x), Passed(x)
  PROVE  x \in ServedWell
<1>. DEFINE files == {b.file : b \in BucketsOf(x)}
            g == Loaded(x, files)
            rows == Dataset[x.data]
<1>1. /\ files \in SUBSET Windows(x) /\ \A p \in files : <<x, p>> \notin Raising
      /\ \A c \in Cells(x) : bucket_of(c[2], x.width) \in files
  BY BucketFiles
<1>. HIDE DEF files
<1>2. \A c \in Cells(x) : Gives(x, c, files)
  BY <1>1, CellGiven
<1>3. OnlyMeasured(g, Cells(x))
  <2>. SUFFICES ASSUME NEW t \in g.types, t[3] = "Product", NEW y \in t[1].at[1] .. t[1].at[2]
                PROVE  <<t[1].prod, y>> \in Cells(x)
    BY DEF OnlyMeasured
  <2>1. PICK p \in files : \E i \in RunsIn(x, WindowYears(x, p)) :
               t = <<CarOf(i), Class(i[1]), "Product", ItemMass(MassesOf(rows, i))>>
    BY <1>1, LoadedIs
  <2>2. PICK i \in RunsIn(x, WindowYears(x, p)) :
               t = <<CarOf(i), Class(i[1]), "Product", ItemMass(MassesOf(rows, i))>>
    BY <2>1
  <2>3. t[1].prod = i[1] /\ t[1].at = i[2]
    BY <2>2 DEF CarOf, Node
  <2>4. WindowYears(x, p) \in SUBSET Years(x)
    BY DEF WindowYears
  <2>5. <<i[1], y>> \in Instances(rows, WindowYears(x, p))
    BY <2>3, <2>4, RunsAre
  <2>. QED
    BY <2>3, <2>4, <2>5, CellsAre DEF Cells
<1>4. Once(g, LAMBDA h : OnlyMeasured(h, Cells(x))) = OnlyMeasured(g, Cells(x))
  <2>. DEFINE O(h) == OnlyMeasured(h, Cells(x))
  <2>1. Once(g, O) = O(g)
    <3>. HIDE DEF g, O
    <3>. QED
      BY DEF Once
  <2>. QED
    BY <2>1
<1>. QED
  BY <1>2, <1>3, <1>4 DEF ServedWell, files

LEMMA AllRouted ==
  ASSUME NEW x \in Exports \ Refusals, FairRows(x), Passed(x)
  PROVE  x \in RoutedWell
<1>. DEFINE files == {b.file : b \in BucketsOf(x)}
            rows == Dataset[x.data]
<1>1. /\ files \in SUBSET Windows(x) /\ \A p \in files : <<x, p>> \notin Raising
      /\ \A c \in Cells(x) : /\ bucket_of(c[2], x.width) \in Windows(x)
                             /\ bucket_of(c[2], x.width) \in files
  BY BucketFiles
<1>2. ASSUME NEW c \in Cells(x), NEW z \in Years(x), NEW classes \in Asked(x, c[1])
      PROVE  Gives(x, c, files_for(x, {c[2], z}, classes))
  <2>. DEFINE w == bucket_of(c[2], x.width)
              some == files_for(x, {c[2], z}, classes)
  <2>1. c[2] \in Years(x) /\ c[2] \in Nat
    BY CellsAre, YearsAre DEF Cells
  <2>2. c[2] \in w[1] .. w[2] /\ w[1] <= c[2] /\ c[2] <= w[2]
    <3>1. w[1] <= c[2] /\ c[2] <= w[2]
      BY <2>1, BucketHolds
    <3>2. w \in Nat \X Nat
      <4>1. w \in WindowPaths
        BY <1>1 DEF WindowPaths
      <4>. QED
        BY <4>1, WindowPairs
    <3>. HIDE DEF w
    <3>. QED
      BY <2>1, <3>1, <3>2
  <2>3. c \in Instances(rows, WindowYears(x, w))
    BY <2>1, <2>2, CellsAre DEF WindowYears, Cells
  <2>4. PICK b \in BucketsOf(x) : b.file = w
    BY <1>1
  <2>5. /\ Class(c[1]) \in b.classes
        /\ \A r \in ToSet(rows) : r.prod = c[1] => Class(r.parent) \in b.classes
    <3>1. w \in Windows(x)
      BY <1>1
    <3>2. <<x, w>> \notin Raising
      BY <3>1 DEF Passed
    <3>. HIDE DEF w
    <3>. QED
      BY <2>3, <2>4, <3>1, <3>2, WindowIs
  <2>. HIDE DEF w
  <2>6. classes = {} \/ classes \cap b.classes # {}
    BY <2>5 DEF Asked
  <2>7. w \in some
    BY <2>2, <2>4, <2>6 DEF files_for
  <2>8. some \subseteq files
    BY DEF files_for
  <2>. HIDE DEF some, files
  <2>9. some \in SUBSET Windows(x) /\ \A p \in some : <<x, p>> \notin Raising
    BY <1>1, <2>8
  <2>. QED
    BY <2>7, <2>9, CellGiven DEF w, some
<1>. QED
  BY <1>2 DEF RoutedWell

-----------------------------------------------------------------------------
(* An export reaches its catalog only past all its windows.                  *)
PassInv ==
  /\ exporter # Idle =>
       \A p \in Windows(exporter.call) \ exporter.todo : <<exporter.call, p>> \notin Raising
  /\ disk[Catalog] \in Exports => Passed(disk[Catalog])

LEMMA FilePassed ==
  ASSUME TypeInv, ExportInv, DiskInv, PassInv, FileStep
  PROVE  PassInv'
<1>. USE Apart DEF TypeInv
<1>1. ASSUME NEW x \in Exports, export_buckets(x) PROVE PassInv'
  BY <1>1, CallStep DEF PassInv
<1>2. CASE OpenFile
  <2>. PICK x, p : x = exporter.call /\ p = Upcoming(exporter.todo)
    OBVIOUS
  <2>1. CASE exporter' = Idle /\ UNCHANGED disk
    BY <2>1 DEF PassInv
  <2>2. CASE /\ <<x, p>> \notin Raising /\ UNCHANGED disk
             /\ exporter' = [exporter EXCEPT !.todo = @ \ {p}, !.open = FALSE]
    BY <1>2, <2>2, OpenStep DEF PassInv
  <2>3. CASE /\ exporter' = [exporter EXCEPT !.open = TRUE]
             /\ disk' = [disk EXCEPT ![p] = Torn]
    BY <1>2, <2>3, OpenStep DEF PassInv
  <2>. QED
    BY <1>2, <2>1, <2>2, <2>3, OpenStep
<1>3. CASE WriteFile
  <2>. PICK x, p : x = exporter.call /\ p = Upcoming(exporter.todo)
    OBVIOUS
  <2>1. /\ exporter # Idle /\ x \in Exports /\ p \in Files(x) /\ p \in Paths
        /\ disk' = [disk EXCEPT ![p] = x]
    BY <1>3, WriteStep
  <2>2. Windows(x) \subseteq WindowPaths
    BY <2>1 DEF WindowPaths
  <2>3. p \in Windows(x) => <<x, p>> \notin Raising
    <3>. SUFFICES ASSUME p \in Windows(x) PROVE <<x, p>> \notin Raising
      OBVIOUS
    <3>1. p # Shared /\ p # Catalog
      BY <2>2
    <3>2. PICK b \in BucketsOf(x) : p = b.file
      BY <2>1, <3>1 DEF Files
    <3>. QED
      BY <2>1, <3>2, BucketIs
  <2>4. CASE exporter' = Idle /\ p = Catalog /\ exporter.todo = {Catalog}
    <3>1. Passed(x)
      BY <2>1, <2>2, <2>4 DEF PassInv, Passed
    <3>2. disk'[Catalog] = x
      BY <2>1, <2>4
    <3>. QED
      BY <2>4, <3>1, <3>2 DEF PassInv
  <2>5. CASE /\ p # Catalog
             /\ exporter' = [exporter EXCEPT !.todo = @ \ {p}, !.open = FALSE]
    BY <2>1, <2>3, <2>5 DEF PassInv
  <2>. QED
    BY <1>3, <2>4, <2>5, WriteStep
<1>4. CASE Crash
  BY <1>4 DEF Crash, PassInv
<1>5. ASSUME NEW p \in Paths, RemoveFile(p) PROVE PassInv'
  BY <1>5 DEF RemoveFile, PassInv
<1>. QED
  BY <1>1, <1>2, <1>3, <1>4, <1>5 DEF FileStep

-----------------------------------------------------------------------------
(* The results.                                                              *)

LEMMA InitInv == Init => IInv
<1>. SUFFICES ASSUME Init PROVE IInv
  OBVIOUS
<1>. USE DEF Init
<1>1. TypeInv
  BY DEF TypeInv, Value
<1>2. ExportInv /\ DiskInv /\ KinInv /\ FreshInv /\ CatalogInv /\ RouterInv
  BY DEF ExportInv, DiskInv, KinInv, FreshInv, CatalogInv, RouterInv
<1>3. AloneInv
  BY DEF AloneInv
<1>. QED
  BY <1>1, <1>2, <1>3 DEF IInv

LEMMA StutterInv == IInv /\ UNCHANGED vars => IInv'
<1>. SUFFICES ASSUME IInv, UNCHANGED vars PROVE IInv'
  OBVIOUS
<1>. USE DEF vars, IInv
<1>1. TypeInv' /\ ExportInv' /\ DiskInv' /\ KinInv' /\ FreshInv' /\ AloneInv'
  BY DEF TypeInv, ExportInv, DiskInv, KinInv, Kin, FreshInv, AloneInv, Alone, Files, BucketsOf
<1>2. CatalogInv'
  BY FilesKept DEF CatalogInv
<1>3. RouterInv'
  BY DEF RouterInv, DigestInv, QuietInv, Sources, Readable, Repaired, Same, Kept, Sound, Signed, Gone
<1>. QED
  BY <1>1, <1>2, <1>3

(* The invariant of the directory holds whoever writes, digests, crashes or  *)
(* removes, in whatever order.                                               *)
THEOREM Invariance == Spec => []IInv
<1>1. IInv /\ [Next]_vars => IInv'
  <2>1. IInv /\ FileStep => IInv'
    BY FileTypes, FileKin, FileFresh, FileRecords, FileAlone DEF IInv
  <2>2. ASSUME IInv, NEW r \in Routers, RouterStep(r) PROVE IInv'
    BY <2>2, RouterInvKept DEF IInv
  <2>. QED
    BY <2>1, <2>2, StutterInv DEF Next, FileStep, RouterStep
<1>. QED
  BY <1>1, InitInv, PTL DEF Spec

(* A catalog is there only for an export none of whose windows raised: the   *)
(* rows of every window it was asked for made a document (buckets.py:70-130). *)
THEOREM CatalogsPassed == Spec => []PassInv
<1>1. Init => PassInv
  BY Apart DEF Init, PassInv
<1>2. IInv /\ PassInv /\ [Next]_vars => PassInv'
  <2>. SUFFICES ASSUME IInv, PassInv, [Next]_vars PROVE PassInv'
    OBVIOUS
  <2>1. CASE FileStep
    BY <2>1, FilePassed DEF IInv
  <2>2. CASE UNCHANGED <<disk, exporter>>
    BY <2>2 DEF PassInv
  <2>3. CASE \E r \in Routers : RouterStep(r)
    BY <2>2, <2>3, RouterLeavesFiles
  <2>. QED
    BY <2>1, <2>2, <2>3 DEF Next, FileStep, RouterStep, vars
<1>. QED
  BY <1>1, <1>2, Invariance, PTL DEF Spec

(* An entry of the corpus catalog whose signature is that of the file as it  *)
(* is now describes that file, over any number of routers, exports, crashes  *)
(* and removals, unless the export that wrote the file was called more than  *)
(* once, or one that writes the same bytes somewhere (corpus.py:90-123).     *)
THEOREM EntriesAreTrue == Spec => []EntryTrue
<1>1. IInv => EntryTrue
  <2>. SUFFICES ASSUME IInv, catalog \notin {Absent, Torn}, NEW p \in DOMAIN catalog,
                       disk[p] \in Exports, Same(p, catalog[p].sig, disk[p]),
                       disk[p] \notin again
                PROVE  Same(p, catalog[p].read, disk[p])
    BY DEF EntryTrue
  <2>1. Sound(p, catalog[p]) /\ catalog \in Catalogs
    BY DEF IInv, CatalogInv, TypeInv
  <2>2. catalog[p] \in Entries /\ p \in Paths \ {Shared}
    BY <2>1, InCatalog, Apart
  <2>. QED
    BY <2>1, <2>2, SoundIsTrue DEF IInv
<1>. QED
  BY <1>1, Invariance, PTL

(* A digest that no change of a file disturbed covers the files that are     *)
(* there, each under its signature; what it scans it describes, and an entry *)
(* that is wrong it did not make but kept, of bytes that may have been       *)
(* written more than once (corpus.py:90-123).                                *)
THEOREM QuietDigestRepairs == Spec => DigestRepairs
<1>1. ASSUME IInv, [Next]_vars, NEW r \in Routers,
             router[r] # Idle, router'[r] = Idle, catalog = Torn, catalog' # Torn,
             router[r].quiet
      PROVE  /\ DOMAIN catalog' = Sources
             /\ \A p \in Sources : Readable(p) =>
                  /\ Same(p, catalog'[p].sig, disk[p])
                  /\ \/ Same(p, catalog'[p].read, disk[p])
                     \/ disk[p] \in again /\ Kept(p, catalog'[p], router[r].prev)
  <2>1. router \in [Routers -> Digests \cup {Idle}]
    BY <1>1 DEF IInv, TypeInv
  <2>2. PICK q \in Routers : WriteCatalog(q)
    <3>1. catalog' # catalog
      BY <1>1
    <3>2. ~FileStep
      BY <1>1, <3>1, FileEffect DEF IInv
    <3>. QED
      BY <1>1, <3>1, <3>2 DEF Next, FileStep, vars, build_corpus, _file_sig, _scan_file, Digesting,
         OpenCatalog, CrashRouter
  <2>3. q = r
    BY <1>1, <2>1, <2>2 DEF WriteCatalog
  <2>4. catalog' = router[r].found /\ router[r].todo = {} /\ QuietInv(router[r])
    BY <1>1, <2>2, <2>3 DEF WriteCatalog, IInv, RouterInv, DigestInv
  <2>. QED
    BY <2>4 DEF QuietInv, Repaired
<1>2. IInv /\ [Next]_vars =>
        [\A r \in Routers :
           (router[r] # Idle /\ router'[r] = Idle /\ catalog = Torn /\ catalog' # Torn
            /\ router[r].quiet) =>
             /\ DOMAIN catalog' = Sources
             /\ \A p \in Sources : Readable(p) =>
                  /\ Same(p, catalog'[p].sig, disk[p])
                  /\ \/ Same(p, catalog'[p].read, disk[p])
                     \/ disk[p] \in again /\ Kept(p, catalog'[p], router[r].prev)]_vars
  BY <1>1
<1>. QED
  BY <1>2, Invariance, PTL DEF Spec, DigestRepairs

(* Once the last call of the only export that ever began has come to its     *)
(* end, the directory holds every window it has statements for and no other, *)
(* whatever calls crashed before it (buckets.py:70-130).                     *)
THEOREM OneExportComplete ==
  Spec => [](\A x \in Exports :
               (complete = x /\ removed = 0 /\ begun = {x}) =>
                 Sources = {b.file : b \in BucketsOf(x)} /\ Readable(Shared))
<1>1. ASSUME IInv, NEW x \in Exports, complete = x, removed = 0, begun = {x}
      PROVE  Sources = {b.file : b \in BucketsOf(x)} /\ Readable(Shared)
  <2>1. Alone(x) /\ x \in Exports \ Refusals
    BY <1>1 DEF IInv, AloneInv, TypeInv
  <2>2. /\ \A p \in Files(x) : disk[p] = x
        /\ \A p \in Paths \ Files(x) : disk[p] = Absent
    BY <1>1, <2>1 DEF Alone
  <2>3. Files(x) \subseteq Paths /\ Shared \in Files(x)
    BY <2>1, FilesArePaths DEF Files
  <2>4. {b.file : b \in BucketsOf(x)} = Files(x) \ {Shared, Catalog}
    <3>1. ASSUME NEW b \in BucketsOf(x) PROVE b.file \in WindowPaths
      <4>1. PICK w \in Written : b.call = w[1] /\ b.file = w[2]
        BY DEF BucketsOf, Buckets
      <4>2. PICK v \in AllWindows : w = <<v[1], v[2], WindowDoc(v[1], v[2])>>
        BY <4>1 DEF Written, WindowDocs
      <4>. QED
        BY <4>1, <4>2 DEF AllWindows, WindowPaths
    <3>. QED
      BY <3>1, Apart DEF Files
  <2>. QED
    BY <2>2, <2>3, <2>4 DEF Sources, Readable
<1>2. IInv => \A x \in Exports :
               (complete = x /\ removed = 0 /\ begun = {x}) =>
                 Sources = {b.file : b \in BucketsOf(x)} /\ Readable(Shared)
  BY <1>1
<1>. QED
  BY <1>2, Invariance, PTL

(* So it serves each car of each measured year once and with its measured    *)
(* masses, whatever crashed and whoever digested, for rows of unambiguous    *)
(* keys whose masses divide (corpus.load_corpus).                            *)
THEOREM OneExportServes ==
  ASSUME \A x \in Exports : FairRows(x)
  PROVE  Spec => []ServedOnce
<1>. DEFINE Complete == \A x \in Exports :
               (complete = x /\ removed = 0 /\ begun = {x}) =>
                 Sources = {b.file : b \in BucketsOf(x)} /\ Readable(Shared)
<1>1. IInv /\ PassInv /\ Complete => ServedOnce
  <2>. SUFFICES ASSUME IInv, PassInv, Complete, NEW x \in Exports,
                       complete = x, removed = 0, begun = {x}
                PROVE  x \in ServedWell
    BY DEF ServedOnce
  <2>1. x \in Exports \ Refusals /\ disk[Catalog] = x
    BY DEF IInv, TypeInv, AloneInv, Alone, Files
  <2>. QED
    BY <2>1, AllServed DEF PassInv
<1>. QED
  BY <1>1, Invariance, CatalogsPassed, OneExportComplete, PTL

(* And so does whatever subset of the files the router of its catalog picks  *)
(* for years and a product or its class, even over the files of others       *)
(* (buckets.export_buckets, BucketRouter.files_for).                         *)
THEOREM RouterServes ==
  ASSUME \A x \in Exports : FairRows(x)
  PROVE  Spec => []RouterGivesBack
<1>1. IInv /\ PassInv => RouterGivesBack
  <2>. SUFFICES ASSUME IInv, PassInv, NEW x \in Exports, Holds(x) PROVE x \in RoutedWell
    BY DEF RouterGivesBack
  <2>1. disk[Catalog] = x /\ Catalog \in Paths
    BY Apart DEF Holds
  <2>2. x \in Exports \ Refusals /\ Passed(x)
    BY <2>1 DEF IInv, DiskInv, TypeInv, PassInv
  <2>. QED
    BY <2>2, AllRouted
<1>. QED
  BY <1>1, Invariance, CatalogsPassed, PTL

(* Whatever was exported, crashed or removed, a whole shared file has        *)
(* one make-up for each material class: all its nodes have the same elements *)
(* in the same fractions (chain_loader.py:34-165).                           *)
THEOREM OneMakeUpEach == Spec => []OneMakeUp
<1>1. IInv => OneMakeUp
  <2>. SUFFICES ASSUME IInv, Readable(Shared) PROVE disk[Shared] \in Exports \ Refusals
    BY AllOneMakeUp DEF OneMakeUp
  <2>1. disk[Shared] \in begun /\ begun \subseteq Exports \ Refusals
    BY Apart DEF IInv, DiskInv, TypeInv, Readable
  <2>. QED
    BY <2>1
<1>. QED
  BY <1>1, Invariance, PTL
=============================================================================
