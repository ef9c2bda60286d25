# TLA+ specifications of the FutuRaM composition pipeline and its benchmark

This directory holds specifications of the parts of this repository that keep
state or compute what is served: the path from CSV rows to composition files
(`src/etl`), the incremental build of the served `fq:` view from them
(`src/builder`), the benchmark that measures language models on it (`bench`),
and the observer that starts and stops benchmark runs (`bench/observer`). They
are checked with TLC and, where a theorem is listed, proved with TLAPS.

Paths in this file are those of the repository (`src/builder/store.py`); in
PROJECT.json they carry one more leading `src/`.

## 1. The system

| Component | State it keeps | Operations | Talks to | Correct when |
|---|---|---|---|---|
| ETL transform (`src/etl/csv_to_rdf.py`, `limit_corrections.py`) | none | rows to documents: `transform`, year runs, canonical chemistry, refusals | window export | a measured mass comes back by multiplying fractions, every year once |
| Canonical make-ups (`chain_loader.py`, `canonicalize_materials.py`) | none | `material_comps`, `canonicalize_doc`, splitting by context | transform, export | a material class has one make-up, and smoothing neither adds nor removes matter |
| Window files and catalogs (`buckets.py`, `corpus.py`, `project_corpus.py`) | the composition directory: shared chemistry, windows, bucket catalog; the corpus catalog with signatures | `export_buckets`, `build_corpus`, `files_for`, `load_corpus` | every program that serves or derives | a router loads what was measured, an entry describes the file it names |
| Composition store (`src/builder/store.py`) | one RDF graph in memory; the set of relations seen; the `fq` file on disk | `add_source`, `add_sources`, `refresh`, `affected_classes`, `derive_fq` | finalisation, resolver, file system | an increment leaves the view a one-shot derive would give, in every order, after a re-add and an aborted build |
| Finalisation and slicers (`derive.py`, `slicer.py`) | none; they rewrite the graph | `_finalise_store`, `YearSlicer`, `ValueAxisSlicer`, `attach_value_strategy` | the store's graph | no class sliced twice, values kept apart, every sample still under its base |
| Index and aggregation (`index.py`, `aggregate.py`) | one cached index with an adjacency the walks write into | `build_index`, walks, `unknowns`, `parent_gate`, `aggregate*` | plugins | nothing depends on iteration order, the fixpoint is reached, a coarse statement is a partition |
| Resolver (`src/builder/resolver`) | what each plugin has made | engine in dependency order; elements, component, part-of, uncertainty | index, store | a projection of some classes is the projection of all, restricted; a spread is that of its value |
| Agent loop (`bench/benchlib/agent.py`, `reprompt.py`, `scoring.py`) | conversation, counters of re-prompts, tokens, memory of queries | `run_one`, `_attempt`, `build_reprompt`, `score_answer` | provider, MCP server, guards | limits bound it, a verdict is grounded and fair, it ends |
| Query guards (`bench/helpers`) | caches of endpoint probes | `autoprefix`, four guards | agent loop, endpoint | only a query that would return nothing is held back |
| Benchmark runner (`bench/run_bench.py`) | transcripts in the live directory, results list, done pairs | launch (fresh, keep, continue), case loop, outage wait, escalation, exit | agent loop, MCP server, observer | no verdict lost, no case abandoned, list and files agree, the run ends |
| Observer, experiment runs (`bench/observer/app/api/experiments`) | a global tracker of one child, run folders | run, continue, rerun-case, stop, exit callback, reconciliation | runner processes, their live directories | one run at a time, no file left at "running", a verdict never written over |
| Providers, login, ask runs, viewer, reports, ontology and release scripts | tokens; trackers like that of the experiment runs | - | - | see section 6 |

What is hard in it:

* **Ordering.** Sources are added in any order and the store is finalised after
  each; RDF graphs iterate in no order, the averaging loop in that of names;
  bounds on a product are subtracted in a chain.
* **Staleness.** A row is patched only if its class is reached from the new
  statements; a file is digested while another process replaces it; a guard
  answers from a cache.
* **Crash and restart.** A build, an export or a benchmark run may stop at any
  step, and the next one starts from the files it left.
* **Retries.** A source is added twice; a query is asked twice; a case is tried
  again after outages, re-prompted, escalated, or its launch repeated.
* **Limits.** Tokens, steps, attempts, re-prompts and time are counted in
  different places and must bound the same conversation.
* **Concurrency.** Request handlers await between checking that nothing runs and
  recording that something does, while exits, timers and processes go on.

PROJECT.json lists every component with its status and every hazard at its line.

## 2. Modules

| Module | Models | Uses |
|---|---|---|
| `Slicing` | the store's graph and its rewriting, as operators on a record of relations | - |
| `FqView` | what the view of a graph is, the affected set and the patch | EXTENDS `Slicing` |
| `CompositionStore` | the build process: start, add a source, end | EXTENDS `FqView` |
| `Rollup` | the averaging loop over the class tree, in its families and with its twins | - |
| `Ruleset` | the data-quality rule: from scores to limits and uncertainties | - |
| `Statements` | the index of a composition graph and the walks over it | EXTENDS `Ruleset` |
| `Plugins` | the rows of the elements, component, part-of and uncertainty plugins | EXTENDS `Statements` |
| `Resolver` | one projection: index, plugins in any admissible order, what is served | EXTENDS `Plugins` |
| `CsvEtl` | from dataset rows to documents | - |
| `CompositionDoc` | canonical make-ups, split documents, the RDF graph of a document | EXTENDS `CsvEtl` |
| `Corpus` | the composition directory with an exporter and routers as processes | EXTENDS `CompositionDoc` |
| `Guards` | prefix repair and the guards, over queries as patterns | - |
| `Scoring` | reading and judging an answer | - |
| `Reprompt` | the gates, their order, counters and caps | EXTENDS `Scoring` |
| `AgentLoop` | `run_one` and `_attempt` against any model, provider, endpoint and clock | EXTENDS `Reprompt`, `Guards` |
| `BenchRun` | the runner over its live directory, with kills and reconciliation | INSTANCE `Checklist` |
| `Checklist` | the abstract specification of a launch | - |
| `ObserverRuns` | request handlers, processes, stops, callbacks and reconciliations | - |
| `MC...` | the instances TLC checks | the module they are named for |
| `..._proofs` | the theorems | the module they are named for |

How they meet: `Corpus` produces the graphs that the store adds, one graph of
statements for each source; `CompositionStore` keeps of them what slicing and
the affected set depend on and of a row what it is computed from; `Resolver`
computes the numbers of one graph, `Rollup` those of a class with subclasses.
`AgentLoop` is the inside of what `BenchRun` sees as `Scored`, `CaseErrored` or
`CaseDropped`; `ObserverRuns` runs several such processes over folders that
`BenchRun` knows only one of.

### Store, slicing and view

`store` is `Store.graph`: a record of relations `type`, `sub` (subClassOf),
`sliceOf`, `axis`, `scope`, `strategy`. A class name is a sequence of segments,
so that slicing twice (`motor_Y2020_Y2020`) and value leaves (`BEV_motor_Y2020`)
are visible in the name as they are in the code. `added`, `adds` and `building`
are the process; `corpus` is the composition files it reads, which may be
different at the next build. `StartBuild` unlinks the old view, `AddSource` is
the whole of `add_source` (union, finalise, affected set, derivation of the
affected classes, splice, save), `EndBuild` is the end of the process whether
or not it was done. The view survives it, the store does not.

A row of the view is `[kind, cls, in, term]`. A term is not a number but what
the number is computed from: the class subtree that is averaged and the
instances pooled at each class of it. Two equal terms give equal numbers, so a
stale row is one with another term.

`OneShot` is the abstract specification of the store: the graph `merge_sources`
and one finalisation would give. `ServedFresh` says that the patched view equals
the rows of `OneShot`; it is an invariant with `OneShot` a function of the
present state, so no refinement mapping is needed.

### Rollup

Four loops in `aggregate.py`, three in `component.py` and one in `partof.py`
are the same: go over the ancestors in name order, average an ancestor the first
time a direct subclass that passes `parent_gate` has a row, repeat until a pass
changes nothing. Classes are numbers here, the order of their names. `family`
says which loop it is: they differ in whether a measured pool or a computed mean
of a class is read, in the divisor, and in where subclasses are looked up.
`phase` runs over the tables in the order the code builds them. One step is one
visit of the loop body (`Await`, `Drop` for "no aggregate", `Average`), the end
of a pass, or the end of a loop.

### Resolver

`Statements` keeps, for each node, the paths below it, each a sequence of edges;
every walk of `aggregate.py` is a sum or a maximum over some of them. Fractions
are quarters of integers large enough to stay exact. An uncertainty is kept as
the pair it is combined from, `[tot, var]`, so that a spread of something else
shows in `tot` although no root is taken. `Resolver` has one step per plugin;
`walked` is what the part-of plugin's walks leave in the adjacency, which is a
`defaultdict`: it decides what later reads take for a top instance. `want` is
the projection (`only=`). Groups are timeless here, so averaging over subclasses
is left to `Rollup`.

### ETL and corpus

`CsvEtl` is `transform` as operators: aggregated rows, instances, masses and
remainders, level statements, year runs, refusals. `CompositionDoc` splits
material classes by context, computes and writes canonical fractions and gives
the graph that a document becomes. `Corpus` is what happens to the files: an
export may be called again and again, opens and writes one file at a time and may
crash in between; a file that is open or was left by a crash may parse (an empty
one does, and one cut after a statement) or not; a router hashes a file, then
reads it again to scan it, then writes the catalog. A file holds the export that
wrote it, and two exports that give a window the same graph write the same bytes
(`Same`), so that bytes which a file had before may come back to it. `again`,
`calls` and `complete` remember for the properties, and for a bound, what was
called. What `x` exports (`Years`, `BucketsOf`, `Graph`) is computed, not assumed.

### Agent loop

`pc` is the place in `run_one` or `_attempt`; `Own` are the steps that wait for
nobody, `Outside` those of the model, the provider and the endpoint, `Tick` the
deadline passing. A query is a set of triple patterns over terms with
namespaces; whether it returns rows is computed from `Data`. An answer is the
record the JSON gives; the detail string of a verdict is the set of fault
phrases in it, and `classify_error` looks for substrings in it as the code does. The two guards that ask the endpoint ask for one term after
the other, up to the first that is absent, each with a cache of its own.
The gates are tried in the code's order with its counters, two of which
are shared by two gates each.
Sums of several results and products of two numbers are only tried below
the code's own limits (`MaxSubsetSum`, `MaxProducts`).
The loop asks the endpoint itself, too: the guards do for classes and predicates
they do not know (`StartProbe`), and the diagnoser does for an empty result
(`StartDiagnosis`). These are plain calls outside any `wait_for`: in `probe` and
`diagnose` nothing happens until the endpoint answers, not even at the deadline.

### BenchRun and Checklist

`file` is the live directory (what each `<case>__<backend>.json` says), `pc` the
place in `main_async`, `left` the rest of the case loop, `done` the pairs the
resume scan skipped, `results` the list written at the end. `Stream` is the live
file an attempt writes meanwhile. `Kill` and `Reconcile` are the observer's stop
and its clean-up once the process is gone. The order of the case loop is left
open, which adds behaviours and removes none.

`Checklist` is what a launch promises: a pass over a list in which each case is
settled once or passed over. Under the mapping of `BenchRun` (a record counts
when it is terminal, `pc` becomes one of three phases) every step of the runner
is one of its steps or none; outages, retries, escalation and streaming do not
show.

### ObserverRuns

A request handler is where its awaits have brought it: idle, past the check
(`Check`), with a folder (`Place`), then `Spawn`, which is atomic in the code
from `spawn` to the assignment of the tracker. A process is what it does to its
folder: it clears or scans it (`Begin`), streams, records, finishes or dies, in
the middle of a write too, with an exit code or of the signal it was sent. `Exit`
is the callback. A reconciliation is a value of its own that goes through one
folder, a read and a write-back at a time, next to everything else. Two history
fields exist for the properties only: `blind` (another request has spawned since
this one's check) and `alone` (no process lived in the folder when the
reconciliation began, and none was spawned into it since).

## 3. Runs

| Run | Instance | States | Shows |
|---|---|---|---|
| `store_year` | 3 sources over 4 documents, one of a segment below another's class, 4 adds per build, year axis | 2,048 | every order of adds, re-adds, interrupted and repeated builds over changing corpora gives exactly the one-shot view; finalising is idempotent |
| `store_drive` | the same with two drivetrains, a measured component group and a product that is a segment | 3,182 | what finalising on every add keeps although retyping is not idempotent: no class sliced twice, values apart, samples under their base, nothing left to graph order, the view exact while no component is shared, a re-add changes nothing |
| `store_parts` | 2 sources | | **violated**: the add that makes a component shared leaves stale part rows on earlier products |
| `rollup` | every tree over 3 classes in every order of names, a tree with periods and an untimed base, the slices of a shared component; pools with one, two or no element, scored or not | 51,260 | the loop stops only at its fixpoint, invents no mass, is exact when every class sorts before its superclasses, and the class family's twins read what the value read |
| `served` | 226 composition graphs, six projections, every order of the plugins | 8,100 | a projection of some classes serves what the full one serves for them, whatever the walks left behind; a spread is that of the served value; known chains and unknown holders partition a coarse statement |
| `etl` | two revisions of a dataset of two products, four exports with two calls between them, one router with two digests, a file removed | 1,227,969 | routing and serving give back every measured mass once, one make-up for a material class in a shared file, a right signature on a wrong entry only where bytes were written more than once, a quiet digest makes no wrong entry of its own |
| `etl_double` | one material with two entries of an element class | | **violated**: canonicalising doubles the element |
| `agent` | five kinds of expectation with three or four answers each, six queries, two attempts of three steps | 277,961 | attempts and re-prompts add up, the token ceiling holds, guards hold back empty queries only, a verdict is grounded, a wrong answer is re-prompted, a right one accepted, the case ends unless a query of the program's own is never answered |
| `agent_deadline` | the same | | **violated**: "no case may run longer" than its budget; a guard's probe or a diagnosis that is never answered holds it |
| `bench` | 2 cases, one with an escalation model, 3 launches in any mode, 3 connection attempts | 26,503 | directory ownership, completeness at exit (of the pairs whose backend has an endpoint), agreement of list and files, verdicts kept by a resumed run, termination, refinement of `Checklist` |
| `bench_errored` | 2 cases, 2 launches | | **violated**: `--continue` takes an errored case for done |
| `observer` | 2 cases, 2 requests at a time, 2 processes, 1 stop | 801,842 | two runs live together only through two requests checked before either spawned; no file stays at "running" unattended; a reconciliation that has the folder to itself spares verdicts |

The violated runs check one sentence of the repository each; PROJECT.json quotes
it under `findings`.

**Bounds.** *Store*: two sources are enough to make a component shared and three
to add one before, one between and one after; four adds allow one re-add in
every position; two years, two drivetrains and two components give every kind of
slice. Stores of different builds never mix, so one build per corpus covers them
all, and `StartBuild` may pick any corpus. *Roll-up*: three classes form chains,
forks and joins, in all orders of names; the two special trees add the gate on
periods and the full lattice of a shared component's slices. Amounts are
multiples of 60*60*12, so that three nested means are exact. *Served*: one and
two cars of a class, a component of the same class in both and one in the second
only, a measured component alone, nested components, products with nothing but a
coarse statement; point, rectangular and normal statements with complete, half
and no scores; zero to three coarse statements at one or two depths. *ETL*: one
product with a repeated year and one with a gap, a material shared by two
components with different alloys, a remainder, windows of two and four years,
one of them cut by the export's limits, and one without a composition; two
exports that give a window the same file and a third that gives it another.
`MaxCalls` is two calls that write, of one export or of two: a file can be
emptied and get its own bytes back, or another's, between a hash and a scan. Three
calls are too many states; the theorems have no such bound. *Agent*: two attempts with one
gate re-prompt each and two for the subject, three steps, seven tokens at one a
reply: each limit is reached before and after each other one. *Bench*: one
launch leaves something behind, one resumes it and one sees what the resumed one
left; of two cases one is under way and one settled. *Observer*: two requests
cross each other and a process; one stop has its timer cross an exit and a new
process; three processes over one case were checked too (2.9 million states)
and show nothing new.

**Fairness.** `observer`, `etl`, `served` and the store runs assume none.
`RunEnds` assumes weak fairness of the runner's own steps and strong fairness of
"the attempt ends or is escalated": `run_bench.py` retries a dropped case for
ever, so it ends only if an outage does not strike every attempt. Kills and
outages are never assumed to happen, launches never to be made. `Terminates`
assumes weak fairness of the agent's own steps and of the clock, nothing of the
model, the provider or the endpoint: a chat or a query of the model that is never
answered is cut off by `asyncio.wait_for` with the deadline (`agent.py:579`,
`752`). A query of a guard or of the diagnoser is not, and nothing makes the
endpoint answer one: `Terminates` allows a case that is held there for ever, and
`Deadline`, which does not, is refuted (`agent_deadline`). The
roll-up loop is sequential; it has weak fairness for completeness of the
specification, and no run uses it.

**Deadlock** is not checked where the system stops: the launches, processes,
exports and digests of an instance are used up, or the computation is over.

## 4. Proofs

`BenchRun_proofs` (any sets `Case` and `EscCase`, any `MaxLaunches`): `TypeOK`,
`OwnDir`, `CompleteAtExit`, `ResultsMatchFiles`, `VerdictKept` and the
refinement `IsChecklist`. They are not inductive as they stand. The invariant
`IInv` adds what holds inside a pass: the current case is one the loop has not
left and the scan did not skip (`CurInv`); a case the loop has left is settled
on disk, and in the list or skipped (`HandledInv`); a skipped case is settled,
on resume an open one is not, and the list has no entry for an open case
(`ScanInv`); a fresh directory is the pass's own from the moment it is cleared
(`FreshInv`); a pass that is only opening has handled nothing (`OpenInv`); what
a finished launch left is complete (`ExitInv`).
`StepInv` is one step per action. The refinement maps each action to one of
`Checklist` or to a stutter under `IInv`.

`Slicing_proofs`, and the first part of `CompositionStore_proofs`, hold the lemmas
about the operators that the store's theorems rest on. `ReachLeast`: `Reach(E, S)` is the smallest set that
holds `S` and is closed under `E`, for finite `E` and `S`; everything about walks
cites it instead of the recursion. `Sound`: what a graph looks like after any
number of finalisations (names are a plain class, a year at the end, values in
front; a class is sliced under its own base; one value per leaf), kept by each
rewriting (`LeavesSound`, `AncestorsSound`, `ValueSound`, `FinaliseSound`) and by
joining a source (`JoinSound`). `RollsUp`: a slice reaches the slice, of its year,
of every class above its base.

`CompositionStore_proofs` (any taxonomy, corpus and bound; class names are one
word and no year, `NamesAssumption`):

* `TypeOK` and `ReaddKeepsView`. No rewriting loses or invents an instance, so
  the store has at every step exactly the instances of the sources added
  (`StoreComplete`). Adding one again finds no new instance, the affected set of
  nothing is empty, and refreshing nothing leaves the view.
* `NoDoubleSlice`, `OrderIndependent`, `StaysUnderBase`, from the invariant
  `Finalised` (`Sound`, `RollsUp`, `OneStrategy`). They hold with drivetrains too,
  where finalising again changes the graph: the two types of an instance lie on
  one line and the longest is innermost (`OneInnermost`).
* `ValueSeparation`, if no product class is below two marked values and no
  component class below one (`OneDrivetrain`, evaluated by TLC for the corpora of
  the runs). `Driven` adds to the invariant that edges keep to the taxonomy
  (`Guided`) and that the top of a part-of tree is never retyped (`TopsStay`), so
  that an instance keeps its value, and two with different values make their base
  shared and are moved apart (`Separated`).
* `FinaliseIdempotent`, if no document marks a value (`Unmarked`). The store is
  then a function of the instances and edges added (`Sliced`): the year pass over
  a sliced graph joined with authored triples gives the sliced graph of both
  (`FinalisedAgain`), so finalising on every add is finalising once.
* `FreshWhileUnshared`, if a document authors the edges of its own classes only
  (`OwnEdges`, as `csv_to_rdf` writes them; with an edge elsewhere the affected
  set misses the classes above it), whatever it marks; and `ServedFresh`, if none
  marks anything. Sharing no base means that no two values meet at one (`Calm`,
  `UnsharedIsCalm`). More instances, edges and marks can only bring values
  together (`CalmGrows`), so a build that shares nothing now has never shared
  anything: every value pass so far moved nothing (`FinalisedCalm`), and the store
  is the sliced graph with the marks on it (`SlicedWhileQuiet`), which rows do not
  read (`RowsAlike`). For the refresh, the lemmas on `FqView` compare the view of a sliced
  graph `g` with that of a larger one `h`. `Touched` are the classes above a new
  instance and their slices of every year. An edge `h` has and `g` has not ends in
  a touched class, and no edge leaves them (`NewEdges`); so the roll-up below an
  untouched class, its pools, its groups and therefore its rows are the old ones
  (`SameTerm`, `NewPools`, `AveragedElsewhere`, `ScopedElsewhere`). Every class of
  a row that is touched is in the affected set (`AffectedCovers`): the walk goes up
  the slices of the instance's year, from each to its class, and from the class
  down to the slices of the other years. So a refresh leaves exactly the rows of
  `h` (`RefreshExact`), and `FreshView` is an invariant as long as it is `Quiet`.

`Rollup_proofs` (any shapes, name orders, mixes, scores and families): `Complete`, `Conserved`,
`TwinsFollowValue`, `ExactInNameOrder`.
`MorePasses` bounds the passes by the number of ancestors; `Fuel` says that a pass
that changed something has shrunk `remaining`, so the bound is reached only when
nothing is left and the loop always stops because a pass changed nothing
(`Settled`, `Visited`: what a pass without change has seen has no contributor).
The twins of the component family look for subclasses in the finished values, not
in their own table; that the ancestors they visit have one is `Grounded`, from the
ancestors being the least closed set above the classes with instances.
`Conserved` rests on `Balanced`: every row of the best values has natural amounts
over finitely many elements and comes to no more than the `Whole`. The pools do
(`MixAssumption`), and `MeanFair` says that the mean of such rows does. Sums are
folds, about which nothing can be proved by induction here, so they are counted: a
sum over a set has one cell for every unit of every member (`CellsOf`,
`AddsCounts`, from a smallest subset at which the two would differ), the cells of
n rows are at most n times the `Whole` when taken by row, and at least n times
those of the mean when taken by element (`Fibres`, `Averaging`). In the class
family, which divides each element by the subclasses that have it, the mean of two
pools can exceed both, and the property does not claim otherwise.
`TwinsFollowValue` compares rows of three loops that ran one after the other. What
decides a visit is the state of the loop without its rows (`Loops`), its steps are
a function (`After`), and `Track` is what that function leads to from the start:
the least set that is closed under it. Each of the three loops is on it
(`OnTrack`), of two of its states one leads to the other (`OrbitChain`), and what
is settled stays so; hence an ancestor is averaged at one state of it
(`AveragedOnce`). Every row says what it says of the parts at such a state
(`Traced`), and where the value has a row the twins have one (`Complete`).
`ExactInNameOrder` says that nothing is left out once every class is named before
its superclasses. Then a class is visited after all that is below it, and a row
taken later is of a class with a later name, so it is below none of the classes
visited before: those without a row stay without (`Firm`), only the first pass
averages, and every row stays what it was when taken, exact over all that is
below it now (`Exact`). At the end the three tables have rows for the same classes
(`SameClasses`) and the twins only elements of the value (`TwinElements`). The
theorem and the property speak of the model's mean, the whole part of the exact
one; the amounts of the run are divisible, so that there the two are the same.

`Resolver_proofs` (any composition graphs, any projections, any order of the
plugins): `ProjectionsAgree`, which is `OnlyAgrees`. The invariant `RunInv` says
that the rows each plugin has made are its function of the index, the projection
and what its dependencies made, wherever it ran in the order, and what the walks
have left in the adjacency by then. The rest is about these functions: what a
plugin makes for one class does not look at which other classes are wanted, so
with a projection it makes the rows it would make without one, less those of
classes nobody asked for (`ElementsAgree`, `ComponentAgrees`, `PartOfAgrees`,
`StampsAgree`). That is plain for the rows of one class and less so for what goes
over all rows. A scope of a component in a product is wanted with either of them,
so a subject has up to two owners (`OwnersScope`). `dedup` drops a remainder for a
row made earlier, and the unknown holders take a share of a remainder made before
them: both look only at rows of the same subject (`DedupAgrees`, `FillStays`). A
holder's content is decomposed again, at most three levels deep: `MaxOfThree`
and `DecomposedBelow` show that every row made on the way is of the class the
first holder is of (`HolderBelow`), so a class left out can neither lend nor take
one. This needs that nothing measured is of a class that stands for the unknown
(`GraphsAssumption`): the scope of a class `unknownComponent` in a product would
have the name of a holder.

`ObserverRuns_proofs` (any set of cases, any number of requests at a time, of
processes and of stops): `TypeOK`, `OneAtATime`, `NoOrphan`, `TakesNoVerdict`.
Two processes alive together need an unbroken chain of blind requests from the
older to the younger one (`ChainInv`), because a request that is not blind has
seen the tracker's child reaped (`SeenInv`) and the tracker's child is the
youngest. A running file is awaited by something definite, the process at that
very case, the callback of a process that did not end well, or a reconciliation
that has not passed it (`FileInv`, with `CurInv`: a process works at a case it
has still to do); each action hands the file from one to the next. A
reconciliation that is alone has no live process beside it, so nobody can write
a verdict between its read and its write (`AloneInv`).

`AgentLoop_proofs` (any cases, queries, endpoint, limits and caps): `TypeOK`,
`Accounting` with the bound on attempts begun it implies, `SpendBounded`,
`CorrectIsGrounded`, `WrongOnlyAfterRetries`, `BlockedIsEmpty`. `IInv` adds that
a chat is only started below the ceiling and a step below its limit (`StepInv`),
that what a limit ended has no answer (`LastInv`), that the result is written
once (`OpenInv`), and that run_one's loop goes on after an answer only when a
re-prompt gave the attempt back (`LoopInv`): so what reaches the verdict is an
answer no gate rejects, unless a limit, the provider or a missing answer ended
the case (`VerdictInv`). `FirstGate` (the gate chosen is below its cap, and when
none is chosen none fires) then gives the last sentence of a wrong answer:
the subject gate was at its cap. The guards need only that what they cached as
absent is absent (`AbsentInv`); a pattern of a query that has rows matches a
triple of the data, which contains every name of the pattern (`SolvedTriple`).

`RightAnswerStands` is a theorem about cases as the code is given them
(`FairCases`): answers have the shape the JSON gives them, numbers of query
results are natural, a labelled expectation has a number per label and no label
twice (`from_yaml` takes them from the keys of a mapping), a case that scores the
± has one (`WellFormed`), and no expectation is in g/kg or has a value from 1.5 up
to 1.53 (`ClearOfFractions`). The shipped test cases are in kg or without a unit, none
has a value in that band, each that scores the ± states it. TLC evaluates
`FairCases` for the cases of `agent`. Each of the gates is shown to contradict a
right answer (`NoGateHolds`). What has the expected numbers has the expected
shape, labels and ± (`GoodShape`, `HasUncertainties`); it is not taken for a
fraction, because an expected number of 1.53 or more has an answer within the
tolerance of it, which is 1.5 or more (`FarApart`; `LabelledClose`, and for
numbers without labels `MatchedClose`: the greedy match takes each from what is
left). Nothing in it is called fabricated: the blocks are the results of queries
of the case (`NumsInv`), sums of natural numbers are natural and equal those of
their magnitudes, and each number is then among the combinations the code tries
(`DerivedTraces`). The folds these operators are written with have no induction
principle here; `SubsetRecursion` and `MaxRecursion` show instead, by the size of
finite sets, that the function a fold chooses exists and satisfies its equation,
and `FoldStays` follows it from one prefix to the next.

`Corpus_proofs` (any datasets, exports, number of calls and of routers):
`EntryTrue`, `DigestRepairs`, `OneMakeUp`, and for fair rows (below)
`RouterGivesBack` and `ServedOnce`. An export that is called once never comes back
to a file it has left (`Gone`), and before it has left it has not written it
(`FreshInv`). So what a router has hashed is there still, or gone for good, or may
come back because the export is called again (`Signed`), and an entry is right
about what was hashed unless that is gone or may come back (`Sound`). Of two
exports that share a file neither is alone with its bytes (`KinInv`), so a
signature that fits by bytes is that of the very export or of one that may come
back (`SoundIsTrue`). While no file changes, the entries found and the files left
are the directory, each entry scanned from what is there or kept (`QuietInv`,
`Repaired`). An export's files are those it has passed and those it has left, and
all of them once its latest call is complete (`AloneInv`).
`OneMakeUp` is a fact of what an export writes: of every file on disk it is known
which export wrote it, and a shared file that is not refused has one make-up
(`AllOneMakeUp`). For this the documents are followed through `transform`
(`AssembledShape`, `TransformShape`): a component keeps material nodes it has, each
with the elements of its statements. Canonicalising mints a node per class and
material whose name no document has (`MintedIsNew`, from `SymbolAssumption`), so
the canonical chemistry is what it rewrote and what it filled in, nothing else
(`CanonChemistry`), and each node of a class gets the class's make-up
(`SharedMakeUp`).

`RouterServes` and `OneExportServes` go from the rows through the files and back.
The runs of a product are a partition of its years into years of one fingerprint
(`RunsCover`), and a fingerprint fixes the masses (`SameMasses`): this is what
entitles `transform` to the rows of a run's first year. So every measured product
and year is in one run of one window (`RunsAre`, `BucketAlone`), the document of
the window has one car for the run (`AssembledIs`), and of that car and its
components exactly the statements of those masses, for all that is canonicalised
and split off after (`WindowGraph`; the shared file adds nothing to them,
`SharedFile`). Multiplied down, the fractions give back the mass (`Authored`), in
whatever files are loaded as long as the window is among them (`CellGiven`). The
router picks it, since its classes have the product and what it is filed under
(`WindowIs`, `AllRouted`), and it was written: a catalog is reached only past every
window, so none of them raised (`PassInv`), and a window with a measured material
has a statement.

Assumptions are the named ones of the modules, which TLC evaluates in the runs:
`DocsAssumption`, `NamesAssumption`, `MaxAddsAssumption`, `RollupAssumption`,
`MixAssumption`, `CaseAssumption`, `MaxLaunchesAssumption`, `ObserverAssumption`,
`LimitAssumption`, `CapAssumption`, `QueryAssumption`, `ExportAssumption`,
`SymbolAssumption` and `GraphsAssumption`. `SymbolAssumption`: a chemical symbol is
never also a class name, and neither is empty (the table at `csv_to_rdf.py:24` has
symbols of one or two letters and names such as `copperElement`).
`GraphsAssumption`: no node, and no class a node's class is under, is an unknown
(`csv_to_rdf.py:187` omits such rows, and the taxonomy has no class below one).

`OneDrivetrain`, `Unmarked`, `OwnEdges`, `FairCases` and `FairRows` are hypotheses of
their theorems, not assumptions. `FairRows` says what the files cannot give back
otherwise: in each product and year the last keys of the paths tell components,
and materials of a component, apart (`WellKeyed`; `csv_to_rdf.py:388-420` names
nodes by them alone), some material is kept, the product is no class of the
ontology and has one parent (`OneParent`), and the quotients the model takes in
whole numbers are exact (`Divisible`; the code divides floats). TLC evaluates it
for the exports of `etl` and of `etl_double`. The documents of the year run are
unmarked, those of the drive runs are not, and there TLC finds part rows that a
patched view has and a one-shot view has not (`store_parts`).

Only model-checked: `RunEnds` and `Terminates` (liveness is beyond the prover);
`SpreadOfTheValue` and `ReconciledTotal` of the resolver, which equate sums of
quotients in whole numbers: they are exact for the divisible amounts of the run's
graphs and not for every graph, and the sums are folds besides.

## 5. Where the code differs from what is said of it

Met while modelling, modelled as the code has it, and not all the subject of a
run. A property that would fail because of one of these says so in its guard.

Store and view
* Finalising is not idempotent once a component is shared: its timeless type is
  sliced again (`derive.py:64`, `slicer.py:183`). `ServedFresh` and
  `FinaliseIdempotent` are therefore checked on the year axis.
* The element level of an ancestor overshoots one when its subclasses have
  different elements (`aggregate.py:686` against `elements.py:2-3`).
* Ancestors are visited in the order of names, and one is averaged as soon as one
  of its subclasses has a row (`aggregate.py:669-687`, `component.py:165-191`). The
  base of a shared component comes before its year slice by name, so it is averaged
  over the value leaves alone (`slicer.py:356-358` puts them below both), although
  `aggregate.py:654-655` speaks of the equal mean of the direct subclasses that
  have an aggregate. `ExactInNameOrder` has the order in its guard.
* The spread of a component group counts a subclass as certain when that
  subclass's own spread is built later (`component.py:133` against `123-124`).
* A class with instances and subclasses has two values, one its parents average
  and one it serves; a component class with top and in-product instances too.
* Two components of one product that both bound the same element are subtracted
  from each other as if one contained the other (`aggregate.py:838-841`);
  `ReconciledTotal` asks for one bounder at each depth.
* With nested components the known path levels repeat, and the part of an
  unknown holder is then never named (`_decompose_unknown`); `Flat` excludes them.
* A rectangular statement with incomplete scores has a half-width of zero in the
  index and a band's uncertainty in the plugin. Indirect lookups of an
  uncertainty cover paths of two and three steps only.
* `check_time_complete` looks at classes of top instances only.

ETL
* Two statements of one element class in a material are each given the class's
  sum (`etl_double`).
* A year with a material but no element row is not refused by the canonical
  chemistry; the code compares each year with the first of its run, within a
  tolerance of 1e-9, which is not transitive: `Dedup` has exact equality. A
  window's borders cut runs.
* `corpus._scan_file` takes only the last year of a period label, so the corpus
  router misses a period asked for by its first year.
* Window files of an earlier export stay and are served; a crash between the
  shared file and the windows mixes two chemistries; a window with rows but none
  of a composition raises after earlier files were written.
* A catalog entry that is wrong stays for ever. A router hashes a file, an export
  opens it for writing and thereby empties it, the router scans the empty file and
  stores its entry under the hash; the export writes the same bytes back. From
  then on the signature fits, and every later digest, however quiet, keeps the
  entry and scans the file no more (`corpus.py:111-117`). `EntryTrue` and
  `DigestRepairs` exempt files whose bytes may have been written more than once
  (`again`); without that TLC finds this trace.

Benchmark
* `classify_error` is called without `timed_out` and `token_capped`
  (`agent.py:407` against `scoring.py:646`); a detail with "route-rows-missing"
  or "unexpected extra value" is classed wrong-class.
* A chat failure after a grounded query does not count as a provider error; a
  query whose tool call raised is answered from memory and never tried again in
  the attempt; replayed results are added to the pool of numbers once more.
* The Gemini and Ollama adapters do not use `_with_backoff` although its comment
  says so; `BackoffAttempts` may be one.
* `parse_answer` matches greedily across lines, so two ANSWER lines are none.
* The guards' "would return nothing" is false for a query with a UNION or
  OPTIONAL branch; a failed probe is remembered as present for ever.
* The fraction gate (`helpers.py:82-108`) would turn away right answers to a case
  in g/kg, or just below 1.5 when the value expected is within 2 % above it; no
  shipped case is one. `RightAnswersStand` excludes them.
* The fraction and route gates tell the model that classes or values are correct
  when some of them are not (`reprompt.py`).
* `--continue` skips errored cases (`bench_errored`).
* A query of a guard or of the diagnoser has no timeout and blocks the event loop
  (`classcheck.py:75-85` and `109-120`, `predicatecheck.py:153-164`,
  `emptydiagnoser.py:68-80`): a silent endpoint holds the run (`agent_deadline`).
* A backend without an endpoint is skipped with a message, and the launch still
  exits 0 without a record for its pairs (`run_bench.py:421-423`).
  `CompleteAtExit` is about the others.

Observer
* Two requests that pass the check before either has spawned start two runs
  (`route.js:17`, "one run at a time"). `OneAtATime` says that nothing else does.
* A process that dies of a signal leaves `exitCode` null, and every later request
  is refused until the server restarts.
* A reconciliation may run beside a live process: a stopped process that takes
  longer than 1.5 s, or a new run in the same folder. It may then write over a
  verdict; `TakesNoVerdict` is about the others.
* The exit callback writes the exit code into the record of a newer run.

## 6. Not modelled

Labels, comments, taxonomy and axis annotations, item-mass rows, provenance and
content hashes; statement conflicts (a report, no state); Monte Carlo sampling;
conversion of units in the index (the scoring units are modelled); reading CSV
and Turtle text; HTTP clients and provider protocols; the diagnosis of an empty
result (but for the wait) and other texts that only inform the model; the live file inside an
attempt (`BenchRun` has it); deleting and listing experiments; the viewer and
reports. Ask runs and single runs of the observer keep trackers like that of the
experiment runs and would repeat `ObserverRuns`; the device login is a poll
against a service outside the repository. PROJECT.json has the reason per
component.

## 7. Next

1. `ObserverRuns` refined to `BenchRun` for one folder, where requests do not
   overlap; the ask tracker and the device login.
