------------------------- MODULE ObserverRuns_proofs -------------------------
(* Safety of ObserverRuns for every set of cases, any number of requests at  *)
(* a time, of processes and of stops, from one inductive invariant.          *)
EXTENDS ObserverRuns, FiniteSetTheorems, TLAPS

(* A process works at a case it has still to do.                             *)
CurInv ==
  \A k \in Spawned : run[k].cur # NoCase => run[k].at = "work" /\ run[k].cur \in run[k].left

(* What a running file waits for: the process that works at this very case,  *)
(* the callback of one that did not end well, or a reconciliation.           *)
ByProcess(k, f, c) ==
  /\ run[k].dir = f
  /\ \/ Alive(k) /\ run[k].cur = c
     \/ run[k].at = "dead" /\ run[k].code # "0"
ByCleanUp(p, f, c) == p.dir = f /\ (p.at \in {"due", c} \/ c \in p.left)
Awaited(f, c) ==
  \/ \E k \in Spawned : ByProcess(k, f, c)
  \/ \E p \in reconcile : ByCleanUp(p, f, c)
FileInv == \A f \in Folders, c \in Case : dir[f][c] = "running" => Awaited(f, c)

(* A request that is not blind has seen the end of the tracker's child.      *)
SeenInv ==
  \A r \in Request : request[r] # Idle /\ ~request[r].blind => child = 0 \/ Reaped(child)

(* Whatever was spawned after a process that is alive goes back to a blind   *)
(* request.                                                                  *)
ChainInv ==
  \A j, k \in Spawned : j < k /\ Alive(j) => \E i \in j + 1 .. k : run[i].blind

(* A reconciliation that is alone has no process beside it.                  *)
AloneInv ==
  \A p \in reconcile :
    p.alone => /\ \A k \in Spawned : run[k].dir = p.dir => ~Alive(k)
               /\ p.at \in Case => dir[p.dir][p.at] # "settled"

IInv == TypeOK /\ CurInv /\ FileInv /\ SeenInv /\ ChainInv /\ AloneInv

USE ObserverAssumption

LEMMA InitInv == Init => IInv
  BY DEF Init, IInv, TypeOK, CurInv, FileInv, SeenInv, ChainInv, AloneInv, Folders, Spawned,
         Handler, Idle

(* The number of folders is the last one.                                    *)
LEMMA LastFolder ==
  ASSUME TypeOK
  PROVE  /\ Cardinality(Folders) \in 0 .. MaxRuns
         /\ Folders = 1 .. Cardinality(Folders)
         /\ dir \in [Folders -> [Case -> Files]]
<1>1. PICK n \in 0 .. MaxRuns : dir \in [1 .. n -> [Case -> Files]]
  BY DEF TypeOK
<1>2. Folders = 1 .. n
  BY <1>1 DEF Folders
<1>3. Cardinality(1 .. n) = n
  BY <1>1, FS_Interval
<1>. QED
  BY <1>1, <1>2, <1>3

(* A file written in a folder leaves the folders what they are.              *)
LEMMA SaysType ==
  ASSUME TypeOK, NEW k \in Spawned, NEW c \in Case, NEW s \in Files, Says(k, c, s)
  PROVE  /\ Folders' = Folders
         /\ \E n \in 0 .. MaxRuns : dir' \in [1 .. n -> [Case -> Files]]
         /\ \A f \in Folders, d \in Case :
              dir'[f][d] = IF f = run[k].dir /\ d = c THEN s ELSE dir[f][d]
<1>1. run[k].dir \in Folders
  BY DEF TypeOK, Spawned, Process
<1>. QED
  BY <1>1 DEF TypeOK, Says, Folders

(* A process whose record changes to one of the type.                        *)
LEMMA RunType ==
  ASSUME TypeOK, NEW k \in Spawned, NEW e \in Process, run' = [run EXCEPT ![k] = e]
  PROVE  run' \in [1 .. child -> Process]
  BY DEF TypeOK

(* The type invariant, an action at a time.                                  *)
LEMMA StepType == TypeOK /\ CurInv /\ [Next]_vars => TypeOK'
<1>. SUFFICES ASSUME TypeOK, CurInv, [Next]_vars PROVE TypeOK'
  OBVIOUS
<1>1. ASSUME NEW r \in Request, Check(r) \/ Reject(r) PROVE TypeOK'
  <2>1. request' \in [Request -> Handler]
    <3>1. Idle \in Handler /\ [at |-> "checked", blind |-> FALSE] \in Handler
      BY DEF Handler
    <3>2. PICK h \in Handler : request' = [request EXCEPT ![r] = h]
      BY <1>1, <3>1 DEF Check, Reject
    <3>. QED
      BY <3>2 DEF TypeOK
  <2>2. UNCHANGED <<dir, run, child, reconcile, stops>>
    BY <1>1 DEF Check, Reject
  <2>. QED
    BY <2>1, <2>2 DEF TypeOK, Handler, Process, CleanUp, Folders
<1>2. ASSUME NEW r \in Request, NEW a \in Actions, Place(r, a) PROVE TypeOK'
  <2>. DEFINE n == Cardinality(Folders)
  <2>1. n \in 0 .. MaxRuns /\ Folders = 1 .. n /\ dir \in [Folders -> [Case -> Files]]
    BY LastFolder
  <2>2. request[r] \in [at : {"checked"}, blind : BOOLEAN]
    BY <1>2 DEF Place, TypeOK, Handler, Idle
  <2>3. CASE /\ a = "run" /\ n < MaxRuns
             /\ dir' = [f \in 1 .. n + 1 |->
                          IF f \in Folders THEN dir[f] ELSE [c \in Case |-> "absent"]]
             /\ request' = [request EXCEPT ![r] =
                              [at |-> "placed", blind |-> @.blind, do |-> a, dir |-> n + 1]]
             /\ UNCHANGED <<run, child, reconcile, stops>>
    <3>1. n + 1 \in 0 .. MaxRuns /\ dir' \in [1 .. n + 1 -> [Case -> Files]]
      BY <2>1, <2>3 DEF Files
    <3>2. Folders \subseteq Folders' /\ n + 1 \in Folders'
      BY <2>1, <3>1 DEF Folders
    <3>3. Process \subseteq Process' /\ Handler \subseteq Handler' /\ CleanUp \subseteq CleanUp'
      BY <3>2 DEF Process, Handler, CleanUp
    <3>4. request' \in [Request -> Handler']
      BY <2>2, <2>3, <3>2, <3>3 DEF TypeOK, Handler
    <3>. QED
      BY <2>3, <3>1, <3>3, <3>4 DEF TypeOK
  <2>4. CASE /\ n > 0
             /\ request' = [request EXCEPT ![r] =
                              [at |-> "placed", blind |-> @.blind, do |-> a, dir |-> n]]
             /\ UNCHANGED <<dir, run, child, reconcile, stops>>
    <3>1. n \in Folders /\ Folders' = Folders
      BY <2>1, <2>4 DEF Folders
    <3>2. Process' = Process /\ Handler' = Handler /\ CleanUp' = CleanUp
      BY <3>1 DEF Process, Handler, CleanUp
    <3>3. request' \in [Request -> Handler]
      BY <2>2, <2>4, <3>1 DEF TypeOK, Handler
    <3>. QED
      BY <2>4, <3>2, <3>3 DEF TypeOK
  <2>. QED
    BY <1>2, <2>3, <2>4 DEF Place
<1>3. ASSUME NEW r \in Request, Spawn(r) PROVE TypeOK'
  <2>1. request[r] \in [at : {"placed"}, blind : BOOLEAN, do : Actions, dir : Folders]
    BY <1>3 DEF Spawn, TypeOK, Handler, Idle
  <2>2. Folders' = Folders /\ Process' = Process /\ Handler' = Handler /\ CleanUp' = CleanUp
    BY <1>3 DEF Spawn, Folders, Process, Handler, CleanUp
  <2>3. child' \in Nat /\ run' \in [1 .. child' -> Process]
    <3>. DEFINE new == [at |-> "begin", dir |-> request[r].dir, do |-> request[r].do, left |-> {},
                        cur |-> NoCase, term |-> FALSE, code |-> "none", blind |-> request[r].blind]
    <3>1. new \in Process
      BY <2>1 DEF Process
    <3>2. child' = child + 1 /\ run' = [j \in 1 .. child + 1 |-> IF j = child + 1 THEN new ELSE run[j]]
      BY <1>3 DEF Spawn
    <3>. QED
      BY <3>1, <3>2 DEF TypeOK
  <2>4. request' \in [Request -> Handler]
    BY <1>3 DEF Spawn, TypeOK, Handler, Idle
  <2>5. reconcile' \subseteq CleanUp
    <3>1. \A p \in reconcile : [p EXCEPT !.alone = @ /\ p.dir # request[r].dir] \in CleanUp
      BY DEF TypeOK, CleanUp
    <3>. QED
      BY <1>3, <3>1 DEF Spawn
  <2>. QED
    BY <1>3, <2>2, <2>3, <2>4, <2>5 DEF Spawn, TypeOK
<1>4. CASE Stop
  <2>1. child \in Spawned /\ run[child] \in Process
    BY <1>4 DEF Stop, Busy, TypeOK, Spawned
  <2>2. run' \in [1 .. child -> Process]
    <3>1. [run[child] EXCEPT !.term = TRUE] \in Process
      BY <2>1 DEF Process
    <3>2. \/ run' = [run EXCEPT ![child] = [run[child] EXCEPT !.term = TRUE]]
          \/ run' = run
      BY <1>4 DEF Stop
    <3>. QED
      BY <2>1, <3>1, <3>2, RunType DEF TypeOK
  <2>3. Due(run[child].dir, <<"stop", stops>>) \in CleanUp
    BY <2>1 DEF Due, CleanUp, Process, TypeOK
  <2>4. reconcile' \subseteq CleanUp /\ stops' \in 0 .. MaxStops
    BY <1>4, <2>3 DEF Stop, TypeOK
  <2>5. UNCHANGED <<dir, child, request>>
    BY <1>4 DEF Stop
  <2>. QED
    BY <2>2, <2>4, <2>5 DEF TypeOK, Folders, Process, Handler, CleanUp
<1>5. ASSUME NEW k \in Spawned, Begin(k) PROVE TypeOK'
  <2>1. run[k] \in Process
    BY DEF TypeOK, Spawned
  <2>2. Folders' = Folders /\ \E n \in 0 .. MaxRuns : dir' \in [1 .. n -> [Case -> Files]]
    BY <1>5, <2>1 DEF Begin, TypeOK, Folders, Process, Files
  <2>3. run' \in [1 .. child -> Process]
    BY <1>5, <2>1 DEF Begin, TypeOK, Process, Actions
  <2>. QED
    BY <1>5, <2>2, <2>3 DEF Begin, TypeOK, Process, Handler, CleanUp
<1>6. ASSUME NEW k \in Spawned, Stream(k) \/ Record(k) PROVE TypeOK'
  <2>1. run[k] \in Process
    BY DEF TypeOK, Spawned
  <2>2. PICK c \in Case, s \in Files :
          /\ Says(k, c, s)
          /\ \/ run' = [run EXCEPT ![k] = [run[k] EXCEPT !.cur = c]]
             \/ run' = [run EXCEPT ![k] = [run[k] EXCEPT !.cur = NoCase, !.left = @ \ {c}]]
          /\ UNCHANGED <<child, request, reconcile, stops>>
    <3>1. CASE Stream(k)
      <4>1. PICK c \in IF run[k].cur = NoCase THEN run[k].left ELSE {run[k].cur} :
              /\ Says(k, c, "running")
              /\ run' = [run EXCEPT ![k].cur = c]
              /\ UNCHANGED <<child, request, reconcile, stops>>
        BY <3>1 DEF Stream
      <4>2. c \in Case /\ "running" \in Files
        BY <2>1, <4>1 DEF Process, Files
      <4>. QED
        BY <4>1, <4>2
    <3>2. CASE Record(k)
      <4>1. run[k].cur \in Case /\ "settled" \in Files
        BY <2>1, <3>2 DEF Record, Process, Files
      <4>. QED
        BY <3>2, <4>1 DEF Record
    <3>. QED
      BY <1>6, <3>1, <3>2
  <2>4. run' \in [1 .. child -> Process]
    <3>1. /\ [run[k] EXCEPT !.cur = c] \in Process
          /\ [run[k] EXCEPT !.cur = NoCase, !.left = @ \ {c}] \in Process
      BY <2>1 DEF Process
    <3>. QED
      BY <2>2, <3>1, RunType
  <2>3. Folders' = Folders /\ \E n \in 0 .. MaxRuns : dir' \in [1 .. n -> [Case -> Files]]
    BY <2>2, SaysType
  <2>. QED
    BY <2>2, <2>3, <2>4 DEF TypeOK, Process, Handler, CleanUp
<1>7. ASSUME NEW k \in Spawned, Finish(k) \/ Die(k) PROVE TypeOK'
  <2>1. run[k] \in Process
    BY DEF TypeOK, Spawned
  <2>2. run' \in [1 .. child -> Process]
    <3>. DEFINE E(code) == [run[k] EXCEPT !.at = "dead", !.code = code, !.do = "run",
                              !.term = FALSE, !.left = {}, !.cur = NoCase]
    <3>1. \A code \in {"0", "1", "signal"} : E(code) \in Process
      BY <2>1 DEF Process, Actions
    <3>2. PICK code \in {"0", "1", "signal"} : run' = [run EXCEPT ![k] = E(code)]
      BY <1>7 DEF Finish, Die, Dead
    <3>3. E(code) \in Process
      BY <3>1
    <3>. QED
      BY <3>2, <3>3, RunType
  <2>3. Folders' = Folders /\ \E n \in 0 .. MaxRuns : dir' \in [1 .. n -> [Case -> Files]]
    <3>1. CASE UNCHANGED dir
      BY <3>1 DEF TypeOK, Folders
    <3>2. CASE run[k].cur # NoCase /\ Says(k, run[k].cur, "torn")
      BY <2>1, <3>2, SaysType DEF Process, Files
    <3>. QED
      BY <1>7, <3>1, <3>2 DEF Finish, Die
  <2>. QED
    BY <1>7, <2>2, <2>3 DEF Finish, Die, TypeOK, Process, Handler, CleanUp
<1>8. ASSUME NEW k \in Spawned, Exit(k) PROVE TypeOK'
  <2>1. run[k] \in Process /\ k \in Nat
    BY DEF TypeOK, Spawned
  <2>2. run' \in [1 .. child -> Process]
    BY <1>8, <2>1 DEF Exit, TypeOK, Process
  <2>3. Due(run[k].dir, <<"exit", k>>) \in CleanUp
    BY <2>1 DEF Due, CleanUp, Process
  <2>. QED
    BY <1>8, <2>2, <2>3 DEF Exit, TypeOK, Folders, Process, Handler, CleanUp
<1>9. ASSUME NEW p \in reconcile, List(p) \/ (\E c \in Case : Read(p, c)) PROVE TypeOK'
  <2>1. p \in CleanUp
    BY DEF TypeOK
  <2>2. PICK q \in CleanUp : Becomes(p, q) /\ UNCHANGED <<dir, run, child, request, stops>>
    BY <1>9, <2>1 DEF List, Read, CleanUp
  <2>. QED
    BY <2>2 DEF Becomes, TypeOK, Folders, Process, Handler, CleanUp
<1>10. ASSUME NEW p \in reconcile, WriteBack(p) PROVE TypeOK'
  <2>1. p \in CleanUp
    BY DEF TypeOK
  <2>2. Folders' = Folders /\ \E n \in 0 .. MaxRuns : dir' \in [1 .. n -> [Case -> Files]]
    BY <1>10, <2>1 DEF WriteBack, TypeOK, Folders, CleanUp, Files
  <2>3. PICK q \in CleanUp : Becomes(p, q)
    BY <1>10, <2>1 DEF WriteBack, CleanUp
  <2>. QED
    BY <1>10, <2>2, <2>3 DEF WriteBack, Becomes, TypeOK, Process, Handler, CleanUp
<1>11. CASE UNCHANGED vars
  BY <1>11 DEF vars, TypeOK, Folders, Process, Handler, CleanUp
<1>. QED
  BY <1>1, <1>2, <1>3, <1>4, <1>5, <1>6, <1>7, <1>8, <1>9, <1>10, <1>11
     DEF Next, Handle, Works, Clean

(* What no step of a process and no stop changes: where a process works and  *)
(* how it came to be; and none comes back to life.                           *)
SameRuns ==
  /\ Spawned' = Spawned
  /\ \A j \in Spawned : /\ run'[j].dir = run[j].dir /\ run'[j].blind = run[j].blind
                        /\ Alive(j)' => Alive(j)
                        /\ Reaped(j) => Reaped(j)'

LEMMA WorksSame ==
  ASSUME TypeOK, NEW k \in Spawned, Works(k)
  PROVE  SameRuns /\ UNCHANGED <<child, request, stops>> /\ \A j \in Spawned \ {k} : run'[j] = run[j]
<1>1. run[k] \in Process /\ run \in [Spawned -> Process]
  BY DEF TypeOK, Spawned
<1>2. /\ Spawned' = Spawned /\ \A j \in Spawned \ {k} : run'[j] = run[j]
      /\ UNCHANGED <<child, request, stops>>
  <2>1. CASE Begin(k)
    BY <1>1, <2>1 DEF Begin, Spawned
  <2>2. CASE Stream(k)
    BY <1>1, <2>2 DEF Stream, Spawned
  <2>3. CASE Record(k)
    BY <1>1, <2>3 DEF Record, Spawned
  <2>4. CASE Finish(k) \/ Die(k)
    BY <1>1, <2>4 DEF Finish, Die, Dead, Spawned
  <2>5. CASE Exit(k)
    BY <1>1, <2>5 DEF Exit, Spawned
  <2>. QED
    BY <2>1, <2>2, <2>3, <2>4, <2>5 DEF Works
<1>3. run'[k].dir = run[k].dir /\ run'[k].blind = run[k].blind
  <2>1. CASE Begin(k)
    BY <1>1, <2>1 DEF Begin, Process
  <2>2. CASE Stream(k)
    BY <1>1, <2>2 DEF Stream, Process
  <2>3. CASE Record(k)
    BY <1>1, <2>3 DEF Record, Process
  <2>4. CASE Finish(k) \/ Die(k)
    <3>1. PICK code : run' = [run EXCEPT ![k] = [run[k] EXCEPT !.at = "dead", !.code = code,
                                !.do = "run", !.term = FALSE, !.left = {}, !.cur = NoCase]]
      BY <2>4 DEF Finish, Die, Dead
    <3>. QED
      BY <1>1, <3>1 DEF Process
  <2>5. CASE Exit(k)
    BY <1>1, <2>5 DEF Exit, Process
  <2>. QED
    BY <2>1, <2>2, <2>3, <2>4, <2>5 DEF Works
<1>4. (Alive(k)' => Alive(k)) /\ ~Reaped(k)
  BY <1>1 DEF Works, Begin, Stream, Record, Finish, Die, Dead, Exit, Process, Alive, Reaped
<1>. QED
  <2>1. ASSUME NEW j \in Spawned
        PROVE  /\ run'[j].dir = run[j].dir /\ run'[j].blind = run[j].blind
               /\ Alive(j)' => Alive(j)
               /\ Reaped(j) => Reaped(j)'
    <3>1. CASE j = k
      BY <1>3, <1>4, <3>1
    <3>2. CASE j # k
      BY <1>2, <3>2 DEF Alive, Reaped
    <3>. QED
      BY <3>1, <3>2
  <2>. QED
    BY <1>2, <2>1 DEF SameRuns

LEMMA StopSame ==
  ASSUME TypeOK, Stop
  PROVE  /\ SameRuns /\ UNCHANGED <<dir, child, request>>
         /\ \A j \in Spawned : /\ run'[j].at = run[j].at /\ run'[j].cur = run[j].cur
                               /\ run'[j].left = run[j].left /\ run'[j].code = run[j].code
<1>1. run \in [Spawned -> Process] /\ child \in Spawned
  BY DEF TypeOK, Spawned, Stop, Busy
<1>2. \/ run' = run
      \/ run' = [run EXCEPT ![child] = [run[child] EXCEPT !.term = TRUE]]
  BY DEF Stop
<1>. QED
  BY <1>1, <1>2 DEF SameRuns, Spawned, Alive, Reaped, Process, Stop

(* A new process is alive, and works at nothing yet.                         *)
LEMMA SpawnAdds ==
  ASSUME TypeOK, NEW r \in Request, Spawn(r)
  PROVE  /\ child' = child + 1 /\ Spawned = 1 .. child /\ Spawned' = 1 .. child + 1
         /\ \A j \in Spawned : run'[j] = run[j]
         /\ run'[child + 1].at = "begin" /\ run'[child + 1].cur = NoCase
         /\ run'[child + 1].blind = request[r].blind
         /\ run'[child + 1].dir = request[r].dir
  BY DEF TypeOK, Spawn, Spawned

(* Every step keeps what the requests have seen.                             *)
LEMMA StepSeen == TypeOK /\ SeenInv /\ [Next]_vars => SeenInv'
<1>. SUFFICES ASSUME TypeOK, SeenInv, [Next]_vars PROVE SeenInv'
  OBVIOUS
<1>1. ASSUME NEW r \in Request, Check(r) PROVE SeenInv'
  BY <1>1 DEF Check, Busy, TypeOK, SeenInv, Reaped, Idle
<1>2. ASSUME NEW r \in Request, Reject(r) PROVE SeenInv'
  BY <1>2 DEF Reject, TypeOK, SeenInv, Reaped, Idle
<1>3. ASSUME NEW r \in Request, NEW a \in Actions, Place(r, a) PROVE SeenInv'
  <2>1. PICK f : /\ request' = [request EXCEPT ![r] = [at |-> "placed", blind |-> @.blind,
                                                      do |-> a, dir |-> f]]
                 /\ UNCHANGED <<run, child>> /\ request[r] # Idle
    BY <1>3 DEF Place, Idle
  <2>. QED
    BY <2>1 DEF TypeOK, SeenInv, Reaped, Idle
<1>4. ASSUME NEW r \in Request, Spawn(r) PROVE SeenInv'
  <2>1. \A s \in Request : request'[s] # Idle => request'[s] = [request[s] EXCEPT !.blind = TRUE]
    BY <1>4 DEF Spawn
  <2>2. \A s \in Request : request'[s] # Idle =>
          \/ request[s] \in [at : {"checked"}, blind : BOOLEAN]
          \/ request[s] \in [at : {"placed"}, blind : BOOLEAN, do : Actions, dir : Folders]
    BY <1>4 DEF Spawn, TypeOK, Handler
  <2>3. \A s \in Request : request'[s] # Idle => request'[s].blind
    <3>1. TAKE s \in Request
    <3>2. HAVE request'[s] # Idle
    <3>3. CASE request[s] \in [at : {"checked"}, blind : BOOLEAN]
      BY <2>1, <3>2, <3>3
    <3>4. CASE request[s] \in [at : {"placed"}, blind : BOOLEAN, do : Actions, dir : Folders]
      BY <2>1, <3>2, <3>4
    <3>. QED
      BY <2>2, <3>2, <3>3, <3>4
  <2>. QED
    BY <2>3 DEF SeenInv
<1>5. CASE Stop
  <2>1. SameRuns /\ UNCHANGED <<child, request>>
    BY <1>5, StopSame
  <2>2. child = 0 \/ child \in Spawned
    BY DEF TypeOK, Spawned
  <2>. QED
    BY <2>1, <2>2 DEF SameRuns, SeenInv, Reaped
<1>6. ASSUME NEW k \in Spawned, Works(k) PROVE SeenInv'
  <2>1. SameRuns /\ UNCHANGED <<child, request>>
    BY <1>6, WorksSame
  <2>2. child = 0 \/ child \in Spawned
    BY DEF TypeOK, Spawned
  <2>. QED
    BY <2>1, <2>2 DEF SameRuns, SeenInv, Reaped
<1>7. ASSUME NEW p \in reconcile, Clean(p) PROVE SeenInv'
  BY <1>7 DEF Clean, List, Read, WriteBack, SeenInv, Reaped
<1>8. CASE UNCHANGED vars
  BY <1>8 DEF vars, SeenInv, Reaped
<1>. QED
  BY <1>1, <1>2, <1>3, <1>4, <1>5, <1>6, <1>7, <1>8 DEF Next, Handle

(* Every step keeps the chain of blind requests.                             *)
LEMMA StepChain == TypeOK /\ SeenInv /\ ChainInv /\ [Next]_vars => ChainInv'
<1>. SUFFICES ASSUME TypeOK, SeenInv, ChainInv, [Next]_vars PROVE ChainInv'
  OBVIOUS
<1>1. ASSUME NEW r \in Request, Check(r) \/ Reject(r) \/ \E a \in Actions : Place(r, a)
      PROVE  ChainInv'
  BY <1>1 DEF Check, Reject, Place, ChainInv, Alive, Spawned
<1>2. ASSUME NEW r \in Request, Spawn(r) PROVE ChainInv'
  <2>. DEFINE n == child + 1
  <2>0. child \in Nat /\ request[r] # Idle
    BY <1>2 DEF TypeOK, Spawn, Idle
  <2>1. ASSUME NEW j \in Spawned', NEW k \in Spawned', j < k, Alive(j)'
        PROVE  \E i \in j + 1 .. k : run'[i].blind
    <3>1. j \in Spawned /\ Alive(j) /\ j \in 1 .. child /\ run'[j] = run[j]
      BY <1>2, <2>0, <2>1, SpawnAdds DEF Alive
    <3>2. CASE k # n
      <4>1. k \in Spawned
        BY <1>2, <2>0, <2>1, <3>2, SpawnAdds
      <4>2. PICK i \in j + 1 .. k : run[i].blind
        BY <2>1, <3>1, <4>1 DEF ChainInv
      <4>3. i \in Spawned
        BY <1>2, <2>0, <3>1, <4>1, SpawnAdds
      <4>. QED
        BY <1>2, <4>2, <4>3, SpawnAdds
    <3>3. CASE k = n /\ request[r].blind
      <4>1. n \in j + 1 .. k /\ run'[n].blind
        BY <1>2, <2>0, <3>1, <3>3, SpawnAdds
      <4>. QED
        BY <4>1
    <3>4. CASE k = n /\ ~request[r].blind
      <4>1. Reaped(child) /\ child # 0
        BY <2>0, <3>1, <3>4 DEF SeenInv
      <4>2. j # child
        BY <3>1, <4>1 DEF Alive, Reaped
      <4>3. child \in Spawned /\ j < child
        BY <1>2, <2>0, <3>1, <4>1, <4>2, SpawnAdds
      <4>4. PICK i \in j + 1 .. child : run[i].blind
        BY <3>1, <4>3 DEF ChainInv
      <4>5. i \in Spawned /\ i \in j + 1 .. k
        BY <1>2, <2>0, <3>1, <3>4, SpawnAdds
      <4>. QED
        BY <1>2, <4>4, <4>5, SpawnAdds
    <3>. QED
      BY <3>2, <3>3, <3>4
  <2>. QED
    BY <2>1 DEF ChainInv
<1>3. ASSUME SameRuns PROVE ChainInv'
  <2>1. ASSUME NEW j \in Spawned, NEW k \in Spawned, j < k, Alive(j)'
        PROVE  \E i \in j + 1 .. k : run'[i].blind
    <3>1. PICK i \in j + 1 .. k : run[i].blind
      BY <1>3, <2>1 DEF ChainInv, SameRuns
    <3>2. i \in Spawned
      BY <2>1 DEF TypeOK, Spawned
    <3>. QED
      BY <1>3, <3>1, <3>2 DEF SameRuns
  <2>. QED
    BY <1>3, <2>1 DEF ChainInv, SameRuns
<1>4. ASSUME NEW p \in reconcile, Clean(p) PROVE ChainInv'
  BY <1>4 DEF Clean, List, Read, WriteBack, ChainInv, Alive, Spawned
<1>5. CASE UNCHANGED vars
  BY <1>5 DEF vars, ChainInv, Alive, Spawned
<1>. QED
  BY <1>1, <1>2, <1>3, <1>4, <1>5, StopSame, WorksSame DEF Next, Handle

(* A process works at what it has to do.                                     *)
LEMMA StepCur == TypeOK /\ CurInv /\ [Next]_vars => CurInv'
<1>. SUFFICES ASSUME TypeOK, CurInv, [Next]_vars PROVE CurInv'
  OBVIOUS
<1>1. ASSUME NEW r \in Request, Check(r) \/ Reject(r) \/ \E a \in Actions : Place(r, a)
      PROVE  CurInv'
  BY <1>1 DEF Check, Reject, Place, CurInv, Spawned
<1>2. ASSUME NEW r \in Request, Spawn(r) PROVE CurInv'
  <2>1. child \in Nat
    BY DEF TypeOK
  <2>. QED
    BY <1>2, <2>1, SpawnAdds DEF CurInv
<1>3. CASE Stop
  BY <1>3, StopSame DEF CurInv, SameRuns
<1>4. ASSUME NEW k \in Spawned, Works(k) PROVE CurInv'
  <2>1. run'[k].cur # NoCase => run'[k].at = "work" /\ run'[k].cur \in run'[k].left
    <3>0. run[k] \in Process /\ k \in DOMAIN run
      BY DEF TypeOK, Spawned
    <3>1. CASE Begin(k)
      <4>1. run[k].cur = NoCase
        BY <3>1 DEF Begin, CurInv
      <4>. QED
        BY <3>0, <3>1, <4>1 DEF Begin, Process
    <3>2. CASE Stream(k)
      BY <3>0, <3>2 DEF Stream, CurInv, Process
    <3>3. CASE Record(k)
      BY <3>0, <3>3 DEF Record, Process
    <3>4. CASE Finish(k) \/ Die(k)
      <4>1. PICK code : run' = [run EXCEPT ![k] = [run[k] EXCEPT !.at = "dead", !.code = code,
                                  !.do = "run", !.term = FALSE, !.left = {}, !.cur = NoCase]]
        BY <3>4 DEF Finish, Die, Dead
      <4>. QED
        BY <3>0, <4>1 DEF Process
    <3>5. CASE Exit(k)
      BY <3>0, <3>5 DEF Exit, Process, CurInv
    <3>. QED
      BY <1>4, <3>1, <3>2, <3>3, <3>4, <3>5 DEF Works
  <2>. QED
    BY <1>4, <2>1, WorksSame DEF CurInv, SameRuns
<1>5. ASSUME NEW p \in reconcile, Clean(p) PROVE CurInv'
  BY <1>5 DEF Clean, List, Read, WriteBack, CurInv, Spawned
<1>6. CASE UNCHANGED vars
  BY <1>6 DEF vars, CurInv, Spawned
<1>. QED
  BY <1>1, <1>2, <1>3, <1>4, <1>5, <1>6 DEF Next, Handle

(* A step of a process keeps every file awaited.                             *)
LEMMA WorksFile ==
  ASSUME TypeOK, CurInv, FileInv, NEW k \in Spawned, Works(k)
  PROVE  FileInv'
<1>0. run[k] \in Process /\ run[k].dir \in Folders /\ k \in DOMAIN run
  BY DEF TypeOK, Spawned, Process
<1>. SUFFICES ASSUME NEW f \in Folders', NEW c \in Case, dir'[f][c] = "running"
              PROVE  Awaited(f, c)'
  BY DEF FileInv
<1>1. \A j \in Spawned \ {k} : ByProcess(j, f, c) => Awaited(f, c)'
  BY WorksSame DEF SameRuns, Awaited, ByProcess, Alive
<1>2. c # NoCase
  BY ObserverAssumption
<1>3. ASSUME reconcile' = reconcile
      PROVE  \A p \in reconcile : ByCleanUp(p, f, c) => Awaited(f, c)'
  BY <1>3 DEF Awaited, ByCleanUp
<1>4. CASE Begin(k)
  <2>1. f \in Folders /\ dir[f][c] = "running"
    BY <1>0, <1>4 DEF Begin, TypeOK, Folders
  <2>2. Awaited(f, c) /\ reconcile' = reconcile
    BY <1>4, <2>1 DEF FileInv, Begin
  <2>3. ~ByProcess(k, f, c)
    BY <1>2, <1>4 DEF Begin, CurInv, ByProcess, Alive
  <2>. QED
    BY <1>1, <1>3, <2>2, <2>3 DEF Awaited
<1>5. CASE Stream(k)
  <2>1. PICK d \in IF run[k].cur = NoCase THEN run[k].left ELSE {run[k].cur} :
          Says(k, d, "running") /\ run' = [run EXCEPT ![k].cur = d] /\ reconcile' = reconcile
    BY <1>5 DEF Stream
  <2>2. d \in Case /\ run[k].at = "work"
    BY <1>0, <1>5, <2>1 DEF Stream, Process
  <2>3. CASE f = run[k].dir /\ c = d
    <3>1. k \in Spawned' /\ run'[k] = [run[k] EXCEPT !.cur = d]
      BY <1>0, <2>1 DEF Spawned
    <3>2. run'[k].dir = f /\ run'[k].cur = c /\ run'[k].at = "work"
      BY <1>0, <2>2, <2>3, <3>1 DEF Process
    <3>. QED
      BY <3>1, <3>2 DEF Awaited, ByProcess, Alive
  <2>4. CASE ~(f = run[k].dir /\ c = d)
    <3>1. f \in Folders /\ dir[f][c] = "running"
      BY <2>1, <2>2, <2>4, SaysType DEF Files
    <3>2. Awaited(f, c)
      BY <3>1 DEF FileInv
    <3>3. ~ByProcess(k, f, c)
      BY <1>2, <2>1, <2>2, <2>4 DEF ByProcess
    <3>. QED
      BY <1>1, <1>3, <2>1, <3>2, <3>3 DEF Awaited
  <2>. QED
    BY <2>3, <2>4
<1>6. CASE Record(k)
  <2>1. run[k].cur \in Case /\ Says(k, run[k].cur, "settled") /\ reconcile' = reconcile
    BY <1>0, <1>6 DEF Record, Process
  <2>2. f \in Folders /\ dir[f][c] = "running" /\ ~(f = run[k].dir /\ c = run[k].cur)
    BY <2>1, SaysType DEF Files
  <2>3. Awaited(f, c)
    BY <2>2 DEF FileInv
  <2>4. ~ByProcess(k, f, c)
    BY <1>6, <2>2 DEF Record, ByProcess
  <2>. QED
    BY <1>1, <1>3, <2>1, <2>3, <2>4 DEF Awaited
<1>7. CASE Finish(k)
  <2>1. f \in Folders /\ dir[f][c] = "running" /\ reconcile' = reconcile
    BY <1>7 DEF Finish, Folders
  <2>2. Awaited(f, c)
    BY <2>1 DEF FileInv
  <2>3. ~ByProcess(k, f, c)
    BY <1>2, <1>7 DEF Finish, CurInv, ByProcess
  <2>. QED
    BY <1>1, <1>3, <2>1, <2>2, <2>3 DEF Awaited
<1>8. CASE Die(k)
  <2>1. f \in Folders /\ dir[f][c] = "running"
    <3>1. CASE UNCHANGED dir
      BY <3>1 DEF Folders
    <3>2. CASE run[k].cur # NoCase /\ Says(k, run[k].cur, "torn")
      BY <1>0, <3>2, SaysType DEF Process, Files
    <3>. QED
      BY <1>8, <3>1, <3>2 DEF Die
  <2>2. PICK code \in {"1", "signal"} :
          run' = [run EXCEPT ![k] = [run[k] EXCEPT !.at = "dead", !.code = code,
                                       !.do = "run", !.term = FALSE, !.left = {}, !.cur = NoCase]]
    BY <1>8 DEF Die, Dead
  <2>3. ByProcess(k, f, c) => Awaited(f, c)'
    BY <1>0, <2>2 DEF ByProcess, Awaited, Process, Spawned
  <2>4. Awaited(f, c) /\ reconcile' = reconcile
    BY <1>8, <2>1 DEF FileInv, Die
  <2>. QED
    BY <1>1, <1>3, <2>3, <2>4 DEF Awaited
<1>9. CASE Exit(k)
  <2>1. Awaited(f, c) /\ reconcile \subseteq reconcile'
    BY <1>9 DEF FileInv, Exit, Folders
  <2>2. \A p \in reconcile : ByCleanUp(p, f, c) => Awaited(f, c)'
    BY <2>1 DEF Awaited, ByCleanUp
  <2>3. ByProcess(k, f, c) => Awaited(f, c)'
    <3>1. SUFFICES ASSUME ByProcess(k, f, c) PROVE Awaited(f, c)'
      OBVIOUS
    <3>2. run[k].code # "0" /\ run[k].dir = f
      BY <1>9, <3>1 DEF Exit, ByProcess, Alive
    <3>3. Due(f, <<"exit", k>>) \in reconcile'
      BY <1>9, <3>2 DEF Exit
    <3>. QED
      BY <3>3 DEF Awaited, ByCleanUp, Due
  <2>. QED
    BY <1>1, <2>1, <2>2, <2>3 DEF Awaited
<1>. QED
  BY <1>4, <1>5, <1>6, <1>7, <1>8, <1>9 DEF Works

(* So does a step of a reconciliation: a file it passes over is not running, *)
(* or is written by a process; one it has read it comes back to.             *)
LEMMA CleanFile ==
  ASSUME TypeOK, FileInv, NEW p \in reconcile, Clean(p)
  PROVE  FileInv'
<1>0. p \in CleanUp /\ UNCHANGED <<run, child>>
  BY DEF TypeOK, Clean, List, Read, WriteBack
<1>. SUFFICES ASSUME NEW f \in Folders', NEW c \in Case, dir'[f][c] = "running"
              PROVE  Awaited(f, c)'
  BY DEF FileInv
<1>1. \A k \in Spawned : ByProcess(k, f, c) => Awaited(f, c)'
  BY <1>0 DEF Awaited, ByProcess, Alive, Spawned
<1>2. \A q \in reconcile \ {p} : ByCleanUp(q, f, c) => Awaited(f, c)'
  BY DEF Clean, List, Read, WriteBack, Becomes, Awaited, ByCleanUp
<1>3. f \in Folders /\ dir[f][c] = "running"
  <2>1. CASE UNCHANGED dir
    BY <2>1 DEF Folders
  <2>2. CASE WriteBack(p)
    <3>1. p.at \in Case /\ p.dir \in Folders /\ dir' = [dir EXCEPT ![p.dir][p.at] = "interrupted"]
      BY <1>0, <2>2 DEF WriteBack, CleanUp
    <3>2. Folders' = Folders
      BY <3>1 DEF Folders
    <3>3. PICK n \in 0 .. MaxRuns : dir \in [1 .. n -> [Case -> Files]]
      BY DEF TypeOK
    <3>4. dir'[f][c] = IF f = p.dir /\ c = p.at THEN "interrupted" ELSE dir[f][c]
      BY <3>1, <3>2, <3>3 DEF Folders
    <3>. QED
      BY <3>2, <3>4
  <2>. QED
    BY <2>1, <2>2 DEF Clean, List, Read
<1>4. Awaited(f, c)
  BY <1>3 DEF FileInv
<1>5. ByCleanUp(p, f, c) => Awaited(f, c)'
  <2>. SUFFICES ASSUME ByCleanUp(p, f, c) PROVE Awaited(f, c)'
    OBVIOUS
  <2>1. p.dir = f
    BY DEF ByCleanUp
  <2>2. ASSUME NEW q, Becomes(p, q), q.dir = f, q.at = c \/ c \in q.left PROVE Awaited(f, c)'
    <3>1. q \in reconcile'
      BY <2>2, ObserverAssumption DEF Becomes
    <3>. QED
      BY <2>2, <3>1 DEF Awaited, ByCleanUp
  <2>3. CASE List(p)
    <3>. DEFINE q == [p EXCEPT !.at = "read", !.left = {d \in Case : dir[p.dir][d] # "absent"},
                               !.alone = ~InUse(p.dir)]
    <3>1. Becomes(p, q)
      BY <2>3 DEF List
    <3>2. q.dir = f /\ c \in q.left
      BY <1>0, <1>3, <2>1 DEF CleanUp
    <3>. HIDE DEF q
    <3>. QED
      BY <2>2, <3>1, <3>2
  <2>4. CASE \E d \in Case : Read(p, d)
    <3>1. PICK d \in Case : Read(p, d)
      BY <2>4
    <3>2. p.at = "read" /\ c \in p.left
      BY <3>1, ObserverAssumption DEF Read, ByCleanUp
    <3>3. CASE Becomes(p, [[p EXCEPT !.left = @ \ {d}] EXCEPT !.at = d])
      <4>. DEFINE q == [[p EXCEPT !.left = @ \ {d}] EXCEPT !.at = d]
      <4>1. q.dir = f /\ (q.at = c \/ c \in q.left)
        BY <1>0, <2>1, <3>2 DEF CleanUp
      <4>. HIDE DEF q
      <4>. QED
        BY <2>2, <3>3, <4>1 DEF q
    <3>4. CASE /\ dir[p.dir][d] # "running" \/ Written(p.dir, d)
               /\ Becomes(p, [p EXCEPT !.left = @ \ {d}])
      <4>1. CASE d = c
        <5>1. Written(f, c)
          BY <1>3, <2>1, <3>4, <4>1
        <5>. QED
          BY <1>1, <5>1 DEF Written, ByProcess
      <4>2. CASE d # c
        <5>. DEFINE q == [p EXCEPT !.left = @ \ {d}]
        <5>1. q.dir = f /\ c \in q.left
          BY <1>0, <2>1, <3>2, <4>2 DEF CleanUp
        <5>. HIDE DEF q
        <5>. QED
          BY <2>2, <3>4, <5>1 DEF q
      <4>. QED
        BY <4>1, <4>2
    <3>. QED
      BY <3>1, <3>3, <3>4 DEF Read
  <2>5. CASE WriteBack(p)
    <3>. DEFINE q == [p EXCEPT !.at = "read"]
    <3>1. Becomes(p, q) /\ p.at \in Case
      BY <2>5 DEF WriteBack
    <3>2. p.at # c
      BY <1>0, <1>3, <2>1, <2>5 DEF WriteBack, TypeOK, Folders, CleanUp
    <3>3. q.dir = f /\ c \in q.left
      BY <1>0, <2>1, <3>1, <3>2, ObserverAssumption DEF CleanUp, ByCleanUp
    <3>. HIDE DEF q
    <3>. QED
      BY <2>2, <3>1, <3>3
  <2>. QED
    BY <2>3, <2>4, <2>5 DEF Clean
<1>. QED
  BY <1>1, <1>2, <1>4, <1>5 DEF Awaited

(* A new folder holds nothing, and changes nothing in the old ones.          *)
LEMMA PlaceKeeps ==
  ASSUME TypeOK, NEW r \in Request, NEW a \in Actions, Place(r, a)
  PROVE  /\ UNCHANGED <<run, child, reconcile, stops>>
         /\ \A f \in Folders : dir'[f] = dir[f]
         /\ \A f \in Folders' : f \in Folders \/ dir'[f] = [c \in Case |-> "absent"]
<1>1. Cardinality(Folders) \in 0 .. MaxRuns /\ Folders = 1 .. Cardinality(Folders)
  BY LastFolder
<1>. QED
  BY <1>1 DEF Place, Folders

(* Every step keeps every running file awaited.                              *)
LEMMA StepFile == TypeOK /\ CurInv /\ FileInv /\ [Next]_vars => FileInv'
<1>. SUFFICES ASSUME TypeOK, CurInv, FileInv, [Next]_vars PROVE FileInv'
  OBVIOUS
<1>1. ASSUME NEW r \in Request, Check(r) \/ Reject(r) PROVE FileInv'
  BY <1>1 DEF Check, Reject, FileInv, Awaited, ByProcess, ByCleanUp, Alive, Folders, Spawned
<1>2. ASSUME NEW r \in Request, NEW a \in Actions, Place(r, a) PROVE FileInv'
  BY <1>2, PlaceKeeps DEF FileInv, Awaited, ByProcess, ByCleanUp, Alive, Spawned
<1>3. ASSUME NEW r \in Request, Spawn(r) PROVE FileInv'
  <2>. SUFFICES ASSUME NEW f \in Folders, NEW c \in Case, Awaited(f, c) PROVE Awaited(f, c)'
    BY <1>3 DEF FileInv, Spawn, Folders
  <2>1. \A k \in Spawned : ByProcess(k, f, c) => Awaited(f, c)'
    <3>0. child \in Nat
      BY DEF TypeOK
    <3>1. Spawned \subseteq Spawned' /\ \A k \in Spawned : run'[k] = run[k]
      BY <1>3, <3>0, SpawnAdds
    <3>. QED
      BY <3>1 DEF Awaited, ByProcess, Alive
  <2>2. ASSUME NEW p \in reconcile, ByCleanUp(p, f, c) PROVE Awaited(f, c)'
    <3>. DEFINE q == [p EXCEPT !.alone = @ /\ p.dir # request[r].dir]
    <3>1. q \in reconcile'
      BY <1>3 DEF Spawn
    <3>2. p \in CleanUp
      BY DEF TypeOK
    <3>3. q.dir = p.dir /\ q.at = p.at /\ q.left = p.left
      BY <3>2 DEF CleanUp
    <3>. HIDE DEF q
    <3>. QED
      BY <2>2, <3>1, <3>3 DEF Awaited, ByCleanUp
  <2>. QED
    BY <2>1, <2>2 DEF Awaited
<1>4. CASE Stop
  <2>1. reconcile \subseteq reconcile' /\ Folders' = Folders
    BY <1>4 DEF Stop, Folders
  <2>. QED
    BY <1>4, <2>1, StopSame DEF FileInv, Awaited, ByProcess, ByCleanUp, SameRuns, Alive
<1>5. ASSUME NEW k \in Spawned, Works(k) PROVE FileInv'
  BY <1>5, WorksFile
<1>6. ASSUME NEW p \in reconcile, Clean(p) PROVE FileInv'
  BY <1>6, CleanFile
<1>7. CASE UNCHANGED vars
  BY <1>7 DEF vars, FileInv, Awaited, ByProcess, ByCleanUp, Alive, Folders, Spawned
<1>. QED
  BY <1>1, <1>2, <1>3, <1>4, <1>5, <1>6, <1>7 DEF Next, Handle

(* A process changes its own folder only, and only while it is alive.        *)
LEMMA WorksWithin ==
  ASSUME TypeOK, NEW k \in Spawned, Works(k)
  PROVE  \A f \in Folders : dir'[f] = dir[f] \/ (f = run[k].dir /\ Alive(k))
<1>1. run[k] \in Process
  BY DEF TypeOK, Spawned
<1>2. PICK n \in 0 .. MaxRuns : dir \in [1 .. n -> [Case -> Files]]
  BY DEF TypeOK
<1>3. CASE Begin(k)
  BY <1>1, <1>2, <1>3 DEF Begin, Alive, Folders
<1>4. CASE Stream(k) \/ Record(k) \/ Die(k)
  <2>1. Alive(k) /\ (dir' = dir \/ \E c, s : Says(k, c, s))
    BY <1>4 DEF Stream, Record, Die, Alive
  <2>2. CASE dir' = dir
    BY <2>2
  <2>3. ASSUME NEW c, NEW s, Says(k, c, s)
        PROVE  \A f \in Folders : dir'[f] = dir[f] \/ f = run[k].dir
    BY <2>3 DEF Says, Folders
  <2>. QED
    BY <2>1, <2>2, <2>3
<1>5. CASE Finish(k) \/ Exit(k)
  BY <1>5 DEF Finish, Exit
<1>. QED
  BY <1>3, <1>4, <1>5 DEF Works

(* What AloneInv says of one reconciliation.                                 *)
Lonely(p) ==
  p.alone => /\ \A k \in Spawned : run[k].dir = p.dir => ~Alive(k)
             /\ p.at \in Case => dir[p.dir][p.at] # "settled"

(* Every step keeps a reconciliation that is alone harmless.                 *)
LEMMA StepAlone == TypeOK /\ AloneInv /\ [Next]_vars => AloneInv'
<1>. SUFFICES ASSUME TypeOK, AloneInv, [Next]_vars PROVE AloneInv'
  OBVIOUS
<1>0. \A p \in reconcile : Lonely(p) /\ p \in CleanUp /\ p.dir \in Folders
  BY DEF TypeOK, AloneInv, Lonely, CleanUp
<1>. SUFFICES ASSUME NEW p \in reconcile' PROVE Lonely(p)'
  BY DEF AloneInv, Lonely
<1>1. ASSUME NEW r \in Request, Check(r) \/ Reject(r) PROVE Lonely(p)'
  BY <1>0, <1>1 DEF Check, Reject, Lonely, Alive, Spawned
<1>2. ASSUME NEW r \in Request, NEW a \in Actions, Place(r, a) PROVE Lonely(p)'
  BY <1>0, <1>2, PlaceKeeps DEF Lonely, Alive, Spawned
<1>3. ASSUME NEW r \in Request, Spawn(r) PROVE Lonely(p)'
  <2>1. PICK q \in reconcile : p = [q EXCEPT !.alone = @ /\ q.dir # request[r].dir]
    BY <1>3 DEF Spawn
  <2>2. p.dir = q.dir /\ p.at = q.at /\ (p.alone => q.alone /\ q.dir # request[r].dir)
    BY <1>0, <2>1 DEF CleanUp
  <2>3. UNCHANGED dir /\ child \in Nat
    BY <1>3 DEF Spawn, TypeOK
  <2>. QED
    BY <1>0, <1>3, <2>2, <2>3, SpawnAdds DEF Lonely, Alive
<1>4. CASE Stop
  <2>1. p \in reconcile \/ ~p.alone
    BY <1>4 DEF Stop, Due
  <2>. QED
    BY <1>0, <1>4, <2>1, StopSame DEF Lonely, SameRuns
<1>5. ASSUME NEW k \in Spawned, Works(k) PROVE Lonely(p)'
  <2>1. p \in reconcile \/ ~p.alone
    BY <1>5 DEF Works, Begin, Stream, Record, Finish, Die, Exit, Due
  <2>2. SUFFICES ASSUME p \in reconcile, p.alone PROVE Lonely(p)'
    BY <2>1 DEF Lonely
  <2>3. dir'[p.dir] = dir[p.dir]
    BY <1>0, <1>5, <2>2, WorksWithin DEF Lonely
  <2>. QED
    BY <1>0, <1>5, <2>2, <2>3, WorksSame DEF Lonely, SameRuns
<1>6. ASSUME NEW q \in reconcile, Clean(q) PROVE Lonely(p)'
  <2>1. q \in CleanUp /\ UNCHANGED run
    BY <1>0, <1>6 DEF Clean, List, Read, WriteBack
  <2>2. \A f \in Folders, c \in Case : dir'[f][c] = "settled" => dir[f][c] = "settled"
    <3>1. CASE WriteBack(q)
      <4>1. q.at \in Case /\ q.dir \in Folders /\ dir' = [dir EXCEPT ![q.dir][q.at] = "interrupted"]
        BY <1>0, <3>1 DEF WriteBack
      <4>2. PICK n \in 0 .. MaxRuns : dir \in [1 .. n -> [Case -> Files]]
        BY DEF TypeOK
      <4>. QED
        BY <4>1, <4>2 DEF Folders
    <3>. QED
      BY <1>6, <3>1 DEF Clean, List, Read
  <2>3. CASE p \in reconcile
    BY <1>0, <2>1, <2>2, <2>3 DEF Lonely, Alive, Spawned
  <2>4. CASE p \notin reconcile
    <3>1. CASE List(q)
      <4>1. p = [q EXCEPT !.at = "read", !.left = {c \in Case : dir[q.dir][c] # "absent"},
                          !.alone = ~InUse(q.dir)]
        BY <2>4, <3>1 DEF List, Becomes
      <4>2. p.dir = q.dir /\ p.at = "read" /\ p.alone = ~InUse(q.dir)
        BY <2>1, <4>1 DEF CleanUp
      <4>. QED
        BY <2>1, <4>2, ObserverAssumption DEF Lonely, InUse, Alive, Spawned
    <3>2. CASE \E c \in Case : Read(q, c)
      <4>1. PICK c \in Case : Read(q, c)
        BY <3>2
      <4>2. \/ p = [[q EXCEPT !.left = @ \ {c}] EXCEPT !.at = c] /\ dir[q.dir][c] = "running"
            \/ p = [q EXCEPT !.left = @ \ {c}]
        BY <2>4, <4>1 DEF Read, Becomes
      <4>3. /\ p.dir = q.dir /\ p.alone = q.alone
            /\ (p.at = c /\ dir[q.dir][c] = "running") \/ p.at = "read"
        BY <2>1, <4>1, <4>2 DEF CleanUp, Read
      <4>4. UNCHANGED dir
        BY <4>1 DEF Read
      <4>. QED
        BY <1>0, <2>1, <4>3, <4>4, ObserverAssumption DEF Lonely, Alive, Spawned
    <3>3. CASE WriteBack(q)
      <4>1. p = [q EXCEPT !.at = "read"]
        BY <2>4, <3>3 DEF WriteBack, Becomes
      <4>2. p.dir = q.dir /\ p.at = "read" /\ p.alone = q.alone
        BY <2>1, <4>1 DEF CleanUp
      <4>. QED
        BY <1>0, <2>1, <4>2, ObserverAssumption DEF Lonely, Alive, Spawned
    <3>. QED
      BY <1>6, <3>1, <3>2, <3>3 DEF Clean
  <2>. QED
    BY <2>3, <2>4
<1>7. CASE UNCHANGED vars
  BY <1>0, <1>7 DEF vars, Lonely, Alive, Spawned
<1>. QED
  BY <1>1, <1>2, <1>3, <1>4, <1>5, <1>6, <1>7 DEF Next, Handle

(* The inductive invariant holds in every behaviour.                         *)
THEOREM Invariance == Spec => []IInv
<1>1. Init => IInv
  BY InitInv
<1>2. IInv /\ [Next]_vars => IInv'
  BY StepType, StepCur, StepFile, StepSeen, StepChain, StepAlone DEF IInv
<1>. QED
  BY <1>1, <1>2, PTL DEF Spec

(* Type correctness; the tracker holds the process spawned last.             *)
THEOREM TypeCorrect == Spec => []TypeOK
<1>1. IInv => TypeOK
  BY DEF IInv
<1>. QED
  BY <1>1, Invariance, PTL

(* Two processes live at the same time only through requests that overlapped,*)
(* for any number of processes, requests and stops.                          *)
THEOREM NoTwoUnlessBlind == Spec => []OneAtATime
<1>1. IInv => OneAtATime
  BY DEF IInv, ChainInv, OneAtATime
<1>. QED
  BY <1>1, Invariance, PTL

(* No case is left at running for good.                                      *)
THEOREM NothingOrphaned == Spec => []NoOrphan
<1>1. IInv => NoOrphan
  BY DEF IInv, FileInv, Awaited, ByProcess, ByCleanUp, NoOrphan, Alive, Reaped
<1>. QED
  BY <1>1, Invariance, PTL

(* A reconciliation alone in its folder takes back no verdict.               *)
THEOREM VerdictsSafe == Spec => []TakesNoVerdict
<1>1. IInv => TakesNoVerdict
  BY DEF IInv, AloneInv, TakesNoVerdict
<1>. QED
  BY <1>1, Invariance, PTL
=============================================================================
