---------------------------- MODULE ObserverRuns ----------------------------
(* The experiment runs of the observer (app/api/experiments/[name]/route.js):*)
(* request handlers that await between looking and acting, the processes     *)
(* they start over the run folders of one experiment, the stop button with   *)
(* its timer, the exit callback, and the reconciliation both of them start,  *)
(* which reads a file and then writes it back.                               *)
(*                                                                           *)
(* BenchRun is the process alone over its folder; here several meet, and a   *)
(* process is what it does to the folder.                                    *)
EXTENDS Naturals, FiniteSets

CONSTANTS
  Case,           \* the cases of the experiment
  NoCase,
  Request,        \* the handlers that may be under way at the same time
  MaxRuns,        \* bound on the processes started
  MaxStops        \* bound on the stops

ASSUME ObserverAssumption ==
  /\ Case \cap {NoCase, "due", "read", "run", "continue"} = {}
  /\ MaxRuns \in Nat /\ MaxStops \in Nat

Files   == {"absent", "running", "settled", "interrupted", "torn"}
Actions == {"run", "continue"} \cup Case      \* a case: rerun-case with that id
Run     == 1 .. MaxRuns

VARIABLES
  dir,            \* run folder (in the order of their names) -> what its files say
  run,            \* the processes, in the order they were spawned
  child,          \* s.child and s.info: the process assigned last, 0 at first
  request,        \* what the handlers under way have passed
  reconcile,      \* the reconciliations that are not over
  stops

vars == <<dir, run, child, request, reconcile, stops>>

Folders == DOMAIN dir
Spawned == DOMAIN run
Alive(k)  == run[k].at \in {"begin", "work"}
Reaped(k) == run[k].at = "reaped"
Idle == [at |-> "idle"]

Init ==
  /\ dir = <<>> /\ run = <<>> /\ child = 0
  /\ request = [r \in Request |-> Idle]
  /\ reconcile = {} /\ stops = 0

---------------------------------------------------------------------------
(* The handler of POST.                                                      *)

(* child.exitCode stays null in a process ended by a signal.                 *)
Busy == child # 0 /\ (~Reaped(child) \/ run[child].code = "signal")

UnderWay == {r \in Request : request[r] # Idle}
\* mutant: a child that was sent a signal counts as gone
BugCheck(r) ==
  /\ request[r] = Idle /\ Cardinality(Spawned) + Cardinality(UnderWay) < MaxRuns
  /\ ~(Busy /\ ~run[child].term)
  /\ request' = [request EXCEPT ![r] = [at |-> "checked", blind |-> FALSE]]
  /\ UNCHANGED <<dir, run, child, reconcile, stops>>
Check(r) ==
  /\ request[r] = Idle /\ Cardinality(Spawned) + Cardinality(UnderWay) < MaxRuns
  /\ ~Busy
  /\ request' = [request EXCEPT ![r] = [at |-> "checked", blind |-> FALSE]]
  /\ UNCHANGED <<dir, run, child, reconcile, stops>>

(* After the awaits on the configuration: a new folder, or the latest one,   *)
(* which may be of a request that has not started its process yet.           *)
Place(r, a) ==
  LET n == Cardinality(Folders)
      into(f) == request' = [request EXCEPT ![r] =
                               [at |-> "placed", blind |-> @.blind, do |-> a, dir |-> f]]
  IN  /\ request[r].at = "checked"
      /\ \/ /\ a = "run" /\ n < MaxRuns
            /\ dir' = [f \in 1 .. n + 1 |->
                         IF f \in Folders THEN dir[f] ELSE [c \in Case |-> "absent"]]
            /\ into(n + 1)
         \/ /\ a # "run" /\ n > 0
            /\ into(n)
            /\ UNCHANGED dir
      /\ UNCHANGED <<run, child, reconcile, stops>>

(* A configuration that is missing or wrong, or no run to use again.         *)
Reject(r) ==
  /\ request[r].at = "checked"
  /\ request' = [request EXCEPT ![r] = Idle]
  /\ UNCHANGED <<dir, run, child, reconcile, stops>>

(* The log is open: the process is spawned and takes the place of the last   *)
(* one.  For the properties: a request under way is blind from now on, and a *)
(* reconciliation no longer has the folder for itself.                       *)
\* mutant: a tracker that has a child keeps it
BugSpawn(r) ==
  LET q == request[r]
      k == child + 1
      new == [at |-> "begin", dir |-> q.dir, do |-> q.do, left |-> {}, cur |-> NoCase,
              term |-> FALSE, code |-> "none", blind |-> q.blind]
  IN  /\ q.at = "placed"
      /\ run' = [j \in 1 .. k |-> IF j = k THEN new ELSE run[j]]
      /\ child' = IF child = 0 THEN k ELSE child
      /\ request' = [s \in Request |->
                       IF s = r \/ request[s] = Idle THEN Idle ELSE [request[s] EXCEPT !.blind = TRUE]]
      /\ reconcile' = {[p EXCEPT !.alone = @ /\ p.dir # q.dir] : p \in reconcile}
      /\ UNCHANGED <<dir, stops>>
Spawn(r) ==
  LET q == request[r]
      k == child + 1
      new == [at |-> "begin", dir |-> q.dir, do |-> q.do, left |-> {}, cur |-> NoCase,
              term |-> FALSE, code |-> "none", blind |-> q.blind]
  IN  /\ q.at = "placed"
      /\ run' = [j \in 1 .. k |-> IF j = k THEN new ELSE run[j]]
      /\ child' = k
      /\ request' = [s \in Request |->
                       IF s = r \/ request[s] = Idle THEN Idle ELSE [request[s] EXCEPT !.blind = TRUE]]
      /\ reconcile' = {[p EXCEPT !.alone = @ /\ p.dir # q.dir] : p \in reconcile}
      /\ UNCHANGED <<dir, stops>>

Due(f, id) == [at |-> "due", dir |-> f, id |-> id, left |-> {}, alone |-> FALSE]

(* Stop: SIGTERM to the child, and a reconciliation in 1500 ms.              *)
Stop ==
  /\ Busy /\ stops < MaxStops
  /\ run' = IF Alive(child) THEN [run EXCEPT ![child].term = TRUE] ELSE run
  /\ reconcile' = reconcile \cup {Due(run[child].dir, <<"stop", stops>>)}
  /\ stops' = stops + 1
  /\ UNCHANGED <<dir, child, request>>

---------------------------------------------------------------------------
(* A process (run_bench.py).  Of one that is gone only the end is kept.      *)

Says(k, c, s) == dir' = [dir EXCEPT ![run[k].dir][c] = s]

(* A new run clears the folder, a resumed one scans it, the run of one case  *)
(* leaves it alone.                                                          *)
Begin(k) ==
  LET files == dir[run[k].dir] IN
  /\ run[k].at = "begin"
  /\ dir' = IF run[k].do = "run" THEN [dir EXCEPT ![run[k].dir] = [c \in Case |-> "absent"]]
            ELSE dir
  /\ run' = [run EXCEPT ![k].at = "work",
               ![k].left = CASE run[k].do = "run"      -> Case
                             [] run[k].do = "continue" -> {c \in Case : files[c] # "settled"}
                             [] OTHER                  -> {run[k].do}]
  /\ UNCHANGED <<child, request, reconcile, stops>>

(* A case starts or goes on: the live file.                                  *)
Stream(k) ==
  \E c \in IF run[k].cur = NoCase THEN run[k].left ELSE {run[k].cur} :
    /\ run[k].at = "work"
    /\ Says(k, c, "running")
    /\ run' = [run EXCEPT ![k].cur = c]
    /\ UNCHANGED <<child, request, reconcile, stops>>

Record(k) ==
  /\ run[k].at = "work" /\ run[k].cur # NoCase
  /\ Says(k, run[k].cur, "settled")
  /\ run' = [run EXCEPT ![k].cur = NoCase, ![k].left = @ \ {run[k].cur}]
  /\ UNCHANGED <<child, request, reconcile, stops>>

Dead(k, code) ==
  run' = [run EXCEPT ![k] = [@ EXCEPT !.at = "dead", !.code = code, !.do = "run",
                               !.term = FALSE, !.left = {}, !.cur = NoCase]]

Finish(k) ==
  /\ run[k].at = "work" /\ run[k].left = {}
  /\ Dead(k, "0")
  /\ UNCHANGED <<dir, child, request, reconcile, stops>>

(* A failure, or the signal that was sent, which the wrapper (uv) answers    *)
(* with an exit code or dies of; perhaps in the middle of a write.           *)
Die(k) ==
  /\ Alive(k)
  /\ Dead(k, "1") \/ (run[k].term /\ Dead(k, "signal"))
  /\ UNCHANGED dir \/ (run[k].cur # NoCase /\ Says(k, run[k].cur, "torn"))
  /\ UNCHANGED <<child, request, reconcile, stops>>

---------------------------------------------------------------------------
(* The exit callback: anything but a clean exit is reconciled.               *)
\* mutant: only an exit code is, which a signal does not leave
BugExit(k) ==
  /\ run[k].at = "dead"
  /\ run' = [run EXCEPT ![k].at = "reaped"]
  /\ reconcile' = reconcile \cup
       (IF run[k].code = "1" THEN {Due(run[k].dir, <<"exit", k>>)} ELSE {})
  /\ UNCHANGED <<dir, child, request, stops>>
Exit(k) ==
  /\ run[k].at = "dead"
  /\ run' = [run EXCEPT ![k].at = "reaped"]
  /\ reconcile' = reconcile \cup
       (IF run[k].code # "0" THEN {Due(run[k].dir, <<"exit", k>>)} ELSE {})
  /\ UNCHANGED <<dir, child, request, stops>>

(* Whether a process works in a folder, and whether one is about to write a  *)
(* file, so that a reader may see half of it.                                *)
InUse(f)      == \E k \in Spawned : run[k].dir = f /\ Alive(k)
Written(f, c) == \E k \in Spawned : run[k].dir = f /\ Alive(k) /\ run[k].cur = c

Becomes(p, q) ==
  reconcile' = (reconcile \ {p}) \cup (IF q.at = "read" /\ q.left = {} THEN {} ELSE {q})

(* reconcileInterrupted, from one await to the next: the names of the files, *)
(* each of them, and back.  alone is for the properties.                     *)
List(p) ==
  /\ p.at = "due"
  /\ Becomes(p, [p EXCEPT !.at = "read", !.left = {c \in Case : dir[p.dir][c] # "absent"},
                          !.alone = ~InUse(p.dir)])
  /\ UNCHANGED <<dir, run, child, request, stops>>

\* mutant: whatever the file says
BugRead(p, c) ==
  /\ p.at = "read" /\ c \in p.left
  /\ Becomes(p, [p EXCEPT !.left = @ \ {c}, !.at = c])
  /\ UNCHANGED <<dir, run, child, request, stops>>

Read(p, c) ==
  LET rest == [p EXCEPT !.left = @ \ {c}] IN
  /\ p.at = "read" /\ c \in p.left
  /\ \/ dir[p.dir][c] = "running" /\ Becomes(p, [rest EXCEPT !.at = c])
     \/ (dir[p.dir][c] # "running" \/ Written(p.dir, c)) /\ Becomes(p, rest)
  /\ UNCHANGED <<dir, run, child, request, stops>>

WriteBack(p) ==
  /\ p.at \in Case
  /\ dir' = [dir EXCEPT ![p.dir][p.at] = "interrupted"]
  /\ Becomes(p, [p EXCEPT !.at = "read"])
  /\ UNCHANGED <<run, child, request, stops>>

Handle(r) == Check(r) \/ (\E a \in Actions : Place(r, a)) \/ Reject(r) \/ Spawn(r)
Works(k) == Begin(k) \/ Stream(k) \/ Record(k) \/ Finish(k) \/ Die(k) \/ Exit(k)
Clean(p) == List(p) \/ (\E c \in Case : Read(p, c)) \/ WriteBack(p)

Next ==
  \/ \E r \in Request : Handle(r)
  \/ Stop
  \/ \E k \in Spawned : Works(k)
  \/ \E p \in reconcile : Clean(p)

Spec == Init /\ [][Next]_vars

---------------------------------------------------------------------------
Process ==
  [at : {"begin", "work", "dead", "reaped"}, dir : Folders, do : Actions,
   left : SUBSET Case, cur : Case \cup {NoCase},
   term : BOOLEAN, code : {"none", "0", "1", "signal"}, blind : BOOLEAN]
Handler ==
  {Idle} \cup [at : {"checked"}, blind : BOOLEAN]
         \cup [at : {"placed"}, blind : BOOLEAN, do : Actions, dir : Folders]
CleanUp ==
  [at : {"due", "read"} \cup Case, dir : Folders, id : {"exit", "stop"} \X Nat,
   left : SUBSET Case, alone : BOOLEAN]

(* The tracker's child is the process spawned last, whatever else lives.     *)
TypeOK ==
  /\ \E n \in 0 .. MaxRuns : dir \in [1 .. n -> [Case -> Files]]
  /\ child \in Nat /\ run \in [1 .. child -> Process]
  /\ request \in [Request -> Handler]
  /\ reconcile \subseteq CleanUp
  /\ stops \in 0 .. MaxStops

(* "one run at a time": two processes are alive together only if the request *)
(* of one passed its check before that of the other had spawned, and never   *)
(* because one stops slowly, died in a way the tracker misread, or was       *)
(* replaced in the tracker.                                                  *)
OneAtATime ==
  \A j, k \in Spawned : j < k /\ Alive(j) /\ Alive(k) => \E i \in j + 1 .. k : run[i].blind

(* A case that shows as running is run by a process whose end is still to    *)
(* come, or some reconciliation has yet to come to it: no page spins for     *)
(* ever, whoever wrote the file and however many processes, timers and       *)
(* callbacks crossed.                                                        *)
NoOrphan ==
  \A f \in Folders, c \in Case : dir[f][c] = "running" =>
    \/ \E k \in Spawned : run[k].dir = f /\ ~Reaped(k)
    \/ \E p \in reconcile : p.dir = f /\ (p.at \in {"due", c} \/ c \in p.left)

(* "Once the child is gone": what a reconciliation is about to write over is *)
(* never a verdict, unless a process was alive in the folder when it began,  *)
(* or has been started since.                                                *)
TakesNoVerdict ==
  \A p \in reconcile :
    p.alone /\ p.at \in Case => dir[p.dir][p.at] # "settled"
=============================================================================
