------------------------------- MODULE Corpus -------------------------------
(* The directory of composition files (etl/buckets.py, corpus.py,            *)
(* project_corpus._load_composition): an export writes one shared chemistry  *)
(* file, one file for each window of years, then the bucket catalog; routers *)
(* digest whatever files are there into the corpus catalog.  Exporter and    *)
(* routers are processes that share nothing but the directory; a file that   *)
(* is being written, or whose writer died, may parse or not.                 *)
(*                                                                           *)
(* A path is a window <<first, last>>, Shared, or Catalog; what a file holds *)
(* is the export that wrote it, Torn (empty, or cut anywhere) or Absent.     *)
(* Every call of one export writes the same bytes; two exports that give a   *)
(* window the same graph do so too (Same).                                   *)
EXTENDS CompositionDoc

CONSTANTS
  Dataset,             \* the name of a dataset -> its rows
  Exports,             \* the calls of export_buckets: [data, width, year_min, year_max]
  FleetMin, FleetMax,  \* FLEET_YEAR_MIN, FLEET_YEAR_MAX
  Routers,             \* the processes that digest the directory
  Absent, Torn, Idle,  \* model values
  MaxCalls,            \* bound: calls of export_buckets that write
  MaxRemoved,          \* bound: files removed by hand
  MaxDigests           \* bound: digests of one router

VARIABLES
  disk,        \* path -> what it holds
  exporter,    \* Idle, or [call, todo: the paths left, open: the next is being written]
  begun,       \* the exports that have started to write
  again,       \* those some of whose bytes may be written a second time
  calls,       \* how many times one has started
  complete,    \* the export that wrote its catalog and none has started since, or Idle
  catalog,     \* the corpus catalog: Absent, Torn or [path -> entry]
  router,      \* each router's digest: Idle or its progress
  digests,     \* how many digests each router has begun
  removed      \* how many files were removed
history == <<begun, again, calls>>
exporting == <<disk, exporter, history, complete>>
vars == <<exporting, catalog, router, digests, removed>>

Shared == <<>>
Catalog == <<0>>

ASSUME ExportAssumption ==
  /\ Absent # Torn /\ Absent \notin Exports /\ Torn \notin Exports
  /\ FleetMin \in Nat /\ FleetMax \in Nat
  /\ \A x \in Exports : x.width \in Nat \ {0} /\ x.year_min \in Nat /\ x.year_max \in Nat
  /\ Idle \notin Exports
  /\ MaxCalls \in Nat /\ MaxRemoved \in Nat /\ MaxDigests \in Nat

---------------------------------------------------------------------------
(* The windows of an export and what it writes into them.                    *)

_clamp_window(x) == (IF x.year_min > FleetMin THEN x.year_min ELSE FleetMin)
                    .. (IF x.year_max < FleetMax THEN x.year_max ELSE FleetMax)
bucket_of(year, width) ==
  LET lo == (year \div width) * width IN <<lo, lo + width - 1>>
_years_in(rows) == {r.year : r \in ToSet(rows)}
Years(x) == _years_in(Dataset[x.data]) \cap _clamp_window(x)
Windows(x) == {bucket_of(y, x.width) : y \in Years(x)}
Paths == {Shared, Catalog} \cup UNION {Windows(x) : x \in Exports}

transform_doc(rows, years) ==
  Once(transform(rows, years), LAMBDA doc : IF doc = NoDoc THEN NoDoc ELSE canonicalize_doc(doc))
WindowYears(x, p) == {y \in Years(x) : p[1] <= y /\ y <= p[2]}

FullDoc(x) == transform_doc(Dataset[x.data], Years(x))
WindowDoc(x, p) == transform_doc(Dataset[x.data], WindowYears(x, p))

(* The calls that raise at once; what the others write: [call, path, graph], *)
(* and their bucket catalogs: [call, file, classes], one entry for each      *)
(* window that has statements.                                               *)
Refusals == {x \in Exports : Years(x) = {} \/ FullDoc(x) = NoDoc}
AllWindows == UNION {{<<x, p>> : p \in Windows(x)} : x \in Exports \ Refusals}
WindowDocs == {<<w[1], w[2], WindowDoc(w[1], w[2])>> : w \in AllWindows}
Raising == {<<w[1], w[2]>> : w \in {v \in WindowDocs : v[3] = NoDoc}}
Written == {w \in WindowDocs : w[3].stmts # {}}
Contents ==
  {[call |-> w[1], path |-> w[2], graph |-> Once(w[3], LAMBDA doc : composition_rdf(Structural(doc)))] :
     w \in Written}
  \cup {[call |-> x, path |-> Shared,
         graph |-> Once(FullDoc(x), LAMBDA doc : composition_rdf(EmDoc(doc)))] :
          x \in Exports \ Refusals}
_doc_classes(doc) ==
  {doc.nodes[n].class : n \in DOMAIN doc.nodes} \cup UNION {{e[1], e[2]} : e \in doc.sub}
Buckets == {[call |-> w[1], file |-> w[2], classes |-> Once(w[3], _doc_classes)] : w \in Written}
BucketsOf(x) == {b \in Buckets : b.call = x}
(* <<path, x, y>>: x and y write the same bytes into that file.              *)
Pairs(files) ==
  {<<c[1].path, c[1].call, c[2].call>> :
     c \in {d \in files \X files : d[1].path = d[2].path /\ d[1].graph = d[2].graph}}
Alike == Once(Contents, Pairs)
Same(p, f, g) == f = g \/ <<p, f, g>> \in Alike
Kin(x, y) == \E p \in Paths \ {Shared} : <<p, x, y>> \in Alike
Graph(x, p) == (CHOOSE c \in Contents : c.call = x /\ c.path = p).graph

(* BucketRouter.files_for; an empty set of classes asks for none.            *)
BugFilesFor(x, years, classes) ==     \* mutant: only the first year is looked up
  {b.file : b \in {c \in BucketsOf(x) : /\ Min(years) \in c.file[1] .. c.file[2]
                                      /\ (classes = {} \/ classes \cap c.classes # {})}}
files_for(x, years, classes) ==
  {b.file : b \in {c \in BucketsOf(x) : /\ years \cap (c.file[1] .. c.file[2]) # {}
                                      /\ (classes = {} \/ classes \cap c.classes # {})}}

Readable(p) == disk[p] \in Exports
(* load_corpus: every window file of the directory, whoever wrote it.        *)
Sources == {p \in Paths \ {Shared, Catalog} : disk[p] # Absent}

---------------------------------------------------------------------------
Init ==
  /\ disk = [p \in Paths |-> Absent]
  /\ exporter = Idle /\ complete = Idle
  /\ begun = {} /\ again = {} /\ calls = 0
  /\ catalog = Absent
  /\ router = [r \in Routers |-> Idle]
  /\ digests = [r \in Routers |-> 0] /\ removed = 0

(* A file changed: a digest under way may or may not have seen it.           *)
Touched == router' = [r \in Routers |->
                        IF router[r] = Idle THEN Idle
                        ELSE [router[r] EXCEPT !.quiet = FALSE]]

(* The call, the first or a further one; it raises, and writes nothing, when *)
(* no year of the dataset is in the window or the dataset is refused.        *)
export_buckets(x) ==
  /\ exporter = Idle /\ calls < MaxCalls
  /\ IF x \in Refusals
     THEN UNCHANGED <<exporter, history, complete>>
     ELSE /\ calls' = calls + 1 /\ begun' = begun \cup {x}
          /\ LET twins == {y \in begun : y = x \/ Kin(x, y)}
             IN  again' = IF twins = {} THEN again ELSE again \cup twins \cup {x}
          /\ complete' = Idle
          /\ exporter' = [call |-> x, open |-> FALSE, todo |->
                            {Shared, Catalog} \cup Windows(x)]
  /\ UNCHANGED <<disk, catalog, router, digests, removed>>

(* The shared file comes first, then the windows in order, then the catalog. *)
First(paths) == CHOOSE p \in paths : \A q \in paths : p[1] < q[1] \/ p = q \/ (p[1] = q[1] /\ p[2] < q[2])
Upcoming(paths) ==
  IF Shared \in paths THEN Shared
  ELSE IF paths = {Catalog} THEN Catalog ELSE First(paths \ {Catalog})
Next_(e) == [e EXCEPT !.todo = @ \ {Upcoming(@)}, !.open = FALSE]
(* The next file is opened, which empties it.  A window without rows raises; *)
(* one without statements is skipped.                                        *)
OpenFile ==
  /\ exporter # Idle /\ ~exporter.open
  /\ LET x == exporter.call  p == Upcoming(exporter.todo)
         isWindow == p \in Windows(x)
     IN  CASE <<x, p>> \in Raising ->
                exporter' = Idle /\ UNCHANGED <<disk, router>>
           [] isWindow /\ <<x, p>> \notin Raising /\ \A b \in BucketsOf(x) : b.file # p ->
                exporter' = Next_(exporter) /\ UNCHANGED <<disk, router>>
           [] OTHER ->
                /\ exporter' = [exporter EXCEPT !.open = TRUE]
                /\ disk' = [disk EXCEPT ![p] = Torn] /\ Touched
  /\ UNCHANGED <<history, complete, catalog, digests, removed>>
WriteFile ==
  /\ exporter # Idle /\ exporter.open
  /\ LET p == Upcoming(exporter.todo)
     IN  /\ disk' = [disk EXCEPT ![p] = exporter.call]
         /\ exporter' = IF p = Catalog THEN Idle ELSE Next_(exporter)
         /\ complete' = IF p = Catalog THEN exporter.call ELSE complete
  /\ Touched
  /\ UNCHANGED <<history, catalog, digests, removed>>
(* The exporter dies; what it was writing stays torn.                        *)
Crash ==
  /\ exporter # Idle /\ exporter' = Idle
  /\ UNCHANGED <<disk, history, complete, catalog, router, digests, removed>>
(* Somebody deletes a composition file.                                      *)
RemoveFile(p) ==
  /\ removed < MaxRemoved /\ disk[p] # Absent /\ p # Catalog
  /\ removed' = removed + 1
  /\ disk' = [disk EXCEPT ![p] = Absent] /\ Touched
  /\ UNCHANGED <<exporter, history, complete, catalog, digests>>

---------------------------------------------------------------------------
(* build_corpus, as a CorpusRouter calls it when it is made.  An entry is    *)
(* the content its signature was taken of and the content that was scanned;  *)
(* an entry that records an error has no signature.                          *)
Errored == [sig |-> Absent, read |-> Absent]
Entry(sig, read) == [sig |-> sig, read |-> read]

build_corpus(r) ==
  /\ router[r] = Idle /\ digests[r] < MaxDigests
  /\ digests' = [digests EXCEPT ![r] = @ + 1]
  /\ router' = [router EXCEPT ![r] =
       [todo |-> Sources, sig |-> Absent, found |-> <<>>, quiet |-> TRUE,
        prev |-> IF catalog \in {Absent, Torn} THEN <<>> ELSE catalog]]
  /\ UNCHANGED <<exporting, catalog, removed>>

Done(d, p, entry) ==
  [d EXCEPT !.todo = @ \ {p}, !.sig = Absent,
            !.found = [q \in DOMAIN @ \cup {p} |-> IF q = p THEN entry ELSE @[q]]]
Digesting(r, hashed) ==
  /\ router[r] # Idle /\ router[r].todo # {} /\ (router[r].sig # Absent) = hashed
  /\ UNCHANGED <<exporting, catalog, digests, removed>>
(* The signature of the next file; one the last catalog knows is not read.   *)
(* Two torn files may have the same bytes.                                   *)
BugFileSig(r) ==      \* mutant: the path alone decides that a file is known
  /\ Digesting(r, FALSE)
  /\ LET d == router[r]  p == First(d.todo)
     IN  router' = [router EXCEPT ![r] =
           IF disk[p] = Absent THEN Done(d, p, Errored)
           ELSE IF p \in DOMAIN d.prev /\ d.prev[p].sig # Absent
                THEN Done(d, p, d.prev[p]) ELSE [d EXCEPT !.sig = disk[p]]]
_file_sig(r) ==
  /\ Digesting(r, FALSE)
  /\ LET d == router[r]  p == First(d.todo)
         known == p \in DOMAIN d.prev /\ Same(p, d.prev[p].sig, disk[p])
     IN  \/ /\ disk[p] = Absent
            /\ router' = [router EXCEPT ![r] = Done(d, p, Errored)]
         \/ /\ disk[p] # Absent /\ known
            /\ router' = [router EXCEPT ![r] = Done(d, p, d.prev[p])]
         \/ /\ disk[p] # Absent /\ (known => disk[p] = Torn)
            /\ router' = [router EXCEPT ![r] = [d EXCEPT !.sig = disk[p]]]
(* The file is read again and scanned; it may have changed since.  One that  *)
(* is empty or cut after a statement parses and gives the entry of a part.   *)
BugScanFile(r) ==     \* mutant: the signature is taken after the scan
  /\ Digesting(r, TRUE)
  /\ LET d == router[r]  p == First(d.todo)
     IN  router' = [router EXCEPT ![r] = Done(d, p, Entry(disk[p], d.sig))]
_scan_file(r) ==
  /\ Digesting(r, TRUE)
  /\ LET d == router[r]  p == First(d.todo)
     IN  \/ /\ disk[p] # Absent
            /\ router' = [router EXCEPT ![r] = Done(d, p, Entry(d.sig, disk[p]))]
         \/ /\ ~Readable(p)
            /\ router' = [router EXCEPT ![r] = Done(d, p, Errored)]
(* The new catalog replaces the old one: emptied, then written.              *)
OpenCatalog(r) ==
  /\ router[r] # Idle /\ router[r].todo = {} /\ catalog # Torn
  /\ catalog' = Torn
  /\ UNCHANGED <<exporting, router, digests, removed>>
WriteCatalog(r) ==
  /\ router[r] # Idle /\ router[r].todo = {} /\ catalog = Torn
  /\ catalog' = router[r].found
  /\ router' = [router EXCEPT ![r] = Idle]
  /\ UNCHANGED <<exporting, digests, removed>>
CrashRouter(r) ==
  /\ router[r] # Idle /\ router' = [router EXCEPT ![r] = Idle]
  /\ UNCHANGED <<exporting, catalog, digests, removed>>

Next ==
  \/ \E x \in Exports : export_buckets(x)
  \/ OpenFile \/ WriteFile \/ Crash
  \/ \E p \in Paths : RemoveFile(p)
  \/ \E r \in Routers : \/ build_corpus(r) \/ _file_sig(r) \/ _scan_file(r)
                        \/ OpenCatalog(r) \/ WriteCatalog(r) \/ CrashRouter(r)
Spec == Init /\ [][Next]_vars

---------------------------------------------------------------------------
(* The mass of a material of a component in one car, by multiplying down the *)
(* fractions from the mass of the car.                                       *)
Fraction(g, a, b) == {s.best : s \in {x \in g.stmts : x.whole = a /\ x.part = b}}
Cars(g, prod, year) ==
  {t \in g.types : /\ t[3] = "Product" /\ t[1].prod = prod
                   /\ t[1].at[1] <= year /\ year <= t[1].at[2]}
Measured(masses) == {k \in KeptKeys(masses) : masses[k] # 0}
GivesBack(g, rows, prod, year) ==
  LET masses == Masses(At(rows, prod, year))
  IN  /\ Cardinality(Cars(g, prod, year)) = 1
      /\ \A car \in Cars(g, prod, year) : \A k \in Measured(masses) :
           LET cn == [car[1] EXCEPT !.comp = Leaf(k[1])]
               mn == [cn EXCEPT !.at = <<>>, !.mat = Leaf(k[2])]
           IN  \E f \in Fraction(g, car[1], cn), h \in Fraction(g, cn, mn) :
                 /\ f * h * car[4] = masses[k] * Unit * Unit
                 /\ Cardinality(Fraction(g, car[1], cn)) = 1
                 /\ Cardinality(Fraction(g, cn, mn)) = 1
Cells(x) == Instances(Dataset[x.data], Years(x))
Loaded(x, files) ==       \* these window files of one export, the shared one merged in
  Once({Graph(x, p) : p \in files \cup {Shared}},
       LAMBDA gs : [types |-> UNION {g.types : g \in gs}, stmts |-> UNION {g.stmts : g \in gs}])
Asked(x, prod) ==
  {{}, {Class(prod)},
   {Class(r.parent) : r \in {q \in ToSet(Dataset[x.data]) : q.prod = prod}}}
Gives(x, i, files) ==
  Once(Loaded(x, files), LAMBDA g : GivesBack(g, Dataset[x.data], i[1], i[2]))
RoutedWell == {x \in Exports \ Refusals :
  \A i \in Cells(x), z \in Years(x) : \A classes \in Asked(x, i[1]) :
    Gives(x, i, files_for(x, {i[2], z}, classes))}
OnlyMeasured(g, cells) ==
  \A t \in {u \in g.types : u[3] = "Product"} :
    \A year \in t[1].at[1] .. t[1].at[2] : <<t[1].prod, year>> \in cells
ServedWell == {x \in Exports \ Refusals :
  /\ \A i \in Cells(x) : Gives(x, i, {b.file : b \in BucketsOf(x)})
  /\ Once(Loaded(x, {b.file : b \in BucketsOf(x)}), LAMBDA g : OnlyMeasured(g, Cells(x)))}

(* Rows as the datasets have them: the last key of a path names one component*)
(* of a car, or one material of it (node_id takes no more of the path); some *)
(* material of every car is kept; a product is no class of the ontology and  *)
(* always has the same parent.  And masses that divide as whole numbers do.  *)
WellKeyed(masses) ==
  \A k, l \in DOMAIN masses :
    /\ Leaf(k[1]) # ""
    /\ Leaf(k[1]) = Leaf(l[1]) => k[1] = l[1]
    /\ k[1] = l[1] /\ Leaf(k[2]) = Leaf(l[2]) => k = l
Divisible(masses) ==
  /\ ItemMass(masses) \in Nat \ {0}
  /\ \A k \in Measured(masses) :
       /\ masses[k] \in Nat \ {0} /\ CompMass(masses, k[1]) \in Nat \ {0}
       /\ (CompMass(masses, k[1]) * Unit) % ItemMass(masses) = 0
       /\ (masses[k] * Unit) % CompMass(masses, k[1]) = 0
OneParent(rows, prod) ==
  prod \notin Declared /\ \A r, q \in {x \in ToSet(rows) : x.prod = prod} : r.parent = q.parent
FairRows(x) ==
  \A i \in Cells(x) :
    /\ OneParent(Dataset[x.data], i[1])
    /\ \A masses \in {Masses(At(Dataset[x.data], i[1], i[2]))} :
         WellKeyed(masses) /\ Divisible(masses) /\ Measured(masses) # {}

(* The directory holds all that export x writes, with x's catalog.           *)
Holds(x) == \A p \in {Shared, Catalog} \cup {b.file : b \in BucketsOf(x)} : disk[p] = x

(* While a directory holds a whole export, asking the router of its catalog  *)
(* for some years, and for a product or the class it is filed under, loads   *)
(* files that give back the measured mass of every material kept, in each of *)
(* those years and for one car each (buckets.export_buckets, BucketRouter).  *)
RouterGivesBack == \A x \in Exports : Holds(x) => x \in RoutedWell

(* Once the latest call of an export into a directory of its own has come to *)
(* its end, serving every file of the directory counts each car of each      *)
(* measured year once and no other, whatever earlier calls of it crashed     *)
(* half-way (corpus.load_corpus).                                            *)
ServedOnce ==
  \A x \in Exports :
    (complete = x /\ removed = 0 /\ begun = {x}) =>
      /\ Sources = {b.file : b \in BucketsOf(x)} /\ Readable(Shared)
      /\ x \in ServedWell

MakeUp(g, n) == {<<CHOOSE t \in g.types : t[1] = s.part, s.best>> : s \in {x \in g.stmts : x.whole = n}}
MakeUpByClass(g, n) == {<<m[1][2], m[2]>> : m \in MakeUp(g, n)}
(* In the shared file a material class has one make-up: all its nodes have   *)
(* the same elements in the same fractions (chain_loader.canonicalize_doc).  *)
OfOneMakeUp(g) ==
  LET mats == {t \in g.types : t[3] = "Material"}
  IN  \A t, u \in mats : t[2] = u[2] => MakeUpByClass(g, t[1]) = MakeUpByClass(g, u[1])
SameMakeUp == {x \in Exports \ Refusals : Once(Graph(x, Shared), OfOneMakeUp)}
OneMakeUp == Readable(Shared) => disk[Shared] \in SameMakeUp

(* Smoothing does not change how much of the material its elements are: over *)
(* the measured nodes of a class the shared file has the sum of the measured *)
(* fractions (chain_loader.canonicalize_doc).                                *)
OfNodes(stmts, nodes) == MapThenSumSet(LAMBDA s : s.best, {s \in stmts : s.whole \in nodes})
SumsKept(g, em) ==
  \A c \in {t[2] : t \in {u \in g.types : u[3] = "Material"}} :
    LET measured == {t[1] : t \in {u \in g.types : u[2] = c}} \cap {s.whole : s \in em}
    IN  OfNodes(g.stmts, measured) = OfNodes(em, measured)
Smoothed == {x \in Exports \ Refusals :
  Once(Chemistry(transform(Dataset[x.data], Years(x))), LAMBDA em :
    Once(Graph(x, Shared), LAMBDA g : SumsKept(g, em)))}
CanonicalConserves == Readable(Shared) => disk[Shared] \in Smoothed

(* An entry whose signature is that of the file as it is now describes that  *)
(* file, whatever was written while it was digested, unless its export was   *)
(* called more than once, or another that writes the same bytes somewhere:   *)
(* then the bytes that were hashed can come back after others were scanned   *)
(* (corpus.build_corpus reads a file twice).                                 *)
EntryTrue ==
  catalog \notin {Absent, Torn} =>
    \A p \in DOMAIN catalog :
      (disk[p] \in Exports /\ Same(p, catalog[p].sig, disk[p])) =>
        Same(p, catalog[p].read, disk[p]) \/ disk[p] \in again

(* A digest during which no file changed leaves the catalog a full scan      *)
(* would write, except for entries that were wrong in the catalog it took    *)
(* them from: those it keeps, but it makes no wrong entry of its own         *)
(* (corpus.build_corpus).                                                    *)
Kept(p, entry, prev) == p \in DOMAIN prev /\ entry = prev[p]
DigestRepairs ==
  [][\A r \in Routers :
       (router[r] # Idle /\ router'[r] = Idle /\ catalog = Torn /\ catalog' # Torn
        /\ router[r].quiet) =>
         /\ DOMAIN catalog' = Sources
         /\ \A p \in Sources : Readable(p) =>
              /\ Same(p, catalog'[p].sig, disk[p])
              /\ \/ Same(p, catalog'[p].read, disk[p])
                 \/ disk[p] \in again /\ Kept(p, catalog'[p], router[r].prev)]_vars
=============================================================================
