------------------------------ MODULE BenchRun ------------------------------
(* The benchmark runner (bench/run_bench.py: main, main_async) over its live *)
(* directory: launches that clear, keep or resume the directory, the         *)
(* survivable retry loop of a case, escalation to a second model, kills and  *)
(* the observer's reconciliation of a dead run.                              *)
(*                                                                           *)
(* A Case is a (case, backend) pair, one <case>__<backend>.json.  What the   *)
(* agent does inside one attempt (benchlib/agent.py, run_one) is its result. *)
EXTENDS Naturals, FiniteSets

CONSTANTS
  Case,           \* the (case, backend) pairs
  EscCase,        \* those on a backend with an escalation model
  NoCase,
  MaxLaunches     \* bound on the launches of the runner in one behaviour

ASSUME CaseAssumption == EscCase \subseteq Case /\ NoCase \notin Case
ASSUME MaxLaunchesAssumption == MaxLaunches \in Nat

ConnAttempts == 3         \* whole-run retries of main() on a connection drop

Verdict  == {"correct", "wrong"}
Terminal == Verdict \cup {"error"}
Files    == Terminal \cup {"absent", "running", "interrupted"}
Modes    == {"fresh", "keep", "continue"}
Working  == {"run", "wait", "escalate"}

VARIABLES
  file,           \* live_dir: what each loose transcript says
  pc,             \* where the runner is; "idle" when there is no process
  mode,           \* the flags of the launch
  plan,           \* the cases this launch selected
  left,           \* the cases of the plan the case loop has not left yet
  done,           \* done_pairs
  cur,            \* the case of this loop iteration
  results,        \* main_async's results, "none" when not appended
  conns,          \* connection attempts of main()
  exit,           \* exit status of the last launch that ended by itself
  launches

vars == <<file, pc, mode, plan, left, done, cur, results, conns, exit, launches>>
pass == <<mode, plan, launches>>

InPass == pc \in {"pick"} \cup Working

Init ==
  /\ file = [c \in Case |-> "absent"]
  /\ pc = "idle"
  /\ mode = "fresh"
  /\ plan = {} /\ left = {} /\ done = {}
  /\ cur = NoCase
  /\ results = [c \in Case |-> "none"]
  /\ conns = 0
  /\ exit = "none"
  /\ launches = 0

(* A launch: a selection of cases (--only) and a clear, append or resume.    *)
Launch(m, P) ==
  /\ pc = "idle"
  /\ launches < MaxLaunches
  /\ pc' = "begin" /\ mode' = m /\ plan' = P
  /\ conns' = 1 /\ exit' = "none" /\ launches' = launches + 1
  /\ UNCHANGED <<file, left, done, cur, results>>

(* main_async up to the MCP session: resume scans the directory for verdicts,*)
(* a fresh run clears it.  The scan asks for a boolean `correct`, which the  *)
(* record of an errored case has too.                                        *)
BugBegin ==     \* mutant: a fresh run does not clear the directory
  /\ pc = "begin"
  /\ pc' = "open"
  /\ done' = IF mode = "continue" THEN {c \in Case : file[c] \in Terminal} ELSE {}
  /\ left' = plan
  /\ results' = [c \in Case |-> "none"]
  /\ UNCHANGED <<file, cur, conns, exit, pass>>
Begin ==
  /\ pc = "begin"
  /\ pc' = "open"
  /\ done' = IF mode = "continue" THEN {c \in Case : file[c] \in Terminal} ELSE {}
  /\ file' = IF mode = "fresh" THEN [c \in Case |-> "absent"] ELSE file
  /\ left' = plan
  /\ results' = [c \in Case |-> "none"]
  /\ UNCHANGED <<cur, conns, exit, pass>>

(* The MCP session opens, or drops on establishment: main() runs main_async  *)
(* again from the top, three times in all.                                   *)
Open ==
  /\ pc = "open"
  /\ pc' = "pick"
  /\ UNCHANGED <<file, left, done, cur, results, conns, exit, pass>>

BugConnDrop ==     \* mutant: one connection attempt too many
  /\ pc = "open"
  /\ IF conns <= ConnAttempts
     THEN pc' = "begin" /\ conns' = conns + 1 /\ UNCHANGED exit
     ELSE pc' = "idle" /\ exit' = "1" /\ UNCHANGED conns
  /\ UNCHANGED <<file, left, done, cur, results, pass>>
ConnDrop ==
  /\ pc = "open"
  /\ IF conns < ConnAttempts
     THEN pc' = "begin" /\ conns' = conns + 1 /\ UNCHANGED exit
     ELSE pc' = "idle" /\ exit' = "1" /\ UNCHANGED conns
  /\ UNCHANGED <<file, left, done, cur, results, pass>>

(* The case loop.  Its order does not matter to anything stated here.        *)
Skip(c) ==
  /\ pc = "pick" /\ c \in left /\ c \in done
  /\ left' = left \ {c}
  /\ UNCHANGED <<file, pc, done, cur, results, conns, exit, pass>>

BugStartCase(c) ==     \* mutant: done_pairs is not consulted
  /\ pc = "pick" /\ c \in left
  /\ cur' = c /\ pc' = "run"
  /\ UNCHANGED <<file, left, done, results, conns, exit, pass>>
StartCase(c) ==
  /\ pc = "pick" /\ c \in left /\ c \notin done
  /\ cur' = c /\ pc' = "run"
  /\ UNCHANGED <<file, left, done, results, conns, exit, pass>>

(* _write_live after a step of the agent.                                    *)
Stream ==
  /\ pc \in {"run", "escalate"}
  /\ file' = [file EXCEPT ![cur] = "running"]
  /\ UNCHANGED <<pc, left, done, cur, results, conns, exit, pass>>

(* The case's record: the loose transcript, the result, the next case.       *)
BugRecord(v) ==     \* mutant: a failed case goes back to the end of the loop
  /\ file' = [file EXCEPT ![cur] = v]
  /\ results' = [results EXCEPT ![cur] = v]
  /\ left' = IF v = "correct" THEN left \ {cur} ELSE left
  /\ cur' = NoCase
  /\ pc' = "pick"
  /\ UNCHANGED <<done, conns, exit, pass>>
Record(v) ==
  /\ file' = [file EXCEPT ![cur] = v]
  /\ results' = [results EXCEPT ![cur] = v]
  /\ left' = left \ {cur}
  /\ cur' = NoCase
  /\ pc' = "pick"
  /\ UNCHANGED <<done, conns, exit, pass>>

(* run_one returned a score: a wrong one on an escalation backend is tried   *)
(* with the second model before anything is written.                         *)
Escalates(v) == v = "wrong" /\ cur \in EscCase

Scored(v) ==
  /\ pc = "run" /\ v \in Verdict /\ ~Escalates(v)
  /\ Record(v)

Escalate ==
  /\ pc = "run" /\ Escalates("wrong")
  /\ pc' = "escalate"
  /\ UNCHANGED <<file, left, done, cur, results, conns, exit, pass>>

(* The escalated result wins if it is correct; a wrong one, a provider error *)
(* or any exception keeps the primary one.                                   *)
BugEscalated(v) ==     \* mutant: the primary result is kept, the file is not
  /\ pc = "escalate" /\ v \in Verdict
  /\ results' = [results EXCEPT ![cur] = v]
  /\ left' = left \ {cur} /\ cur' = NoCase /\ pc' = "pick"
  /\ UNCHANGED <<file, done, conns, exit, pass>>
Escalated(v) ==
  /\ pc = "escalate" /\ v \in Verdict
  /\ Record(v)

(* A code bug or a permanent provider failure: an error record, no retry.    *)
CaseErrored ==
  /\ pc = "run"
  /\ Record("error")

(* A transport drop, a provider outage, a cancellation: the case waits for   *)
(* the system to recover and is run again from scratch, for ever.            *)
BugCaseDropped ==     \* mutant: a dropped case is abandoned
  /\ pc = "run"
  /\ pc' = "pick"
  /\ left' = left \ {cur} /\ cur' = NoCase
  /\ UNCHANGED <<file, done, results, conns, exit, pass>>
CaseDropped ==
  /\ pc = "run"
  /\ pc' = "wait"
  /\ UNCHANGED <<file, left, done, cur, results, conns, exit, pass>>

BugRecover ==     \* mutant: an outage starts the pass again
  /\ pc = "wait"
  /\ pc' = "begin"
  /\ UNCHANGED <<file, left, done, cur, results, conns, exit, pass>>
Recover ==
  /\ pc = "wait"
  /\ pc' = "run"
  /\ UNCHANGED <<file, left, done, cur, results, conns, exit, pass>>

(* All cases handled: the summary and the results file.                      *)
Finish ==
  /\ pc = "pick" /\ left = {}
  /\ pc' = "idle" /\ exit' = "0"
  /\ UNCHANGED <<file, left, done, cur, results, conns, pass>>

(* A Stop of the observer, a crash, an interrupt while waiting: the process  *)
(* is gone, the live file of its case says whatever it said last.            *)
Kill ==
  /\ pc # "idle"
  /\ pc' = "idle" /\ exit' = "killed" /\ cur' = NoCase
  /\ UNCHANGED <<file, left, done, results, conns, pass>>

(* The observer finds no process behind a running file.                      *)
Reconcile ==
  /\ pc = "idle"
  /\ \E c \in Case : file[c] = "running"
  /\ file' = [c \in Case |-> IF file[c] = "running" THEN "interrupted" ELSE file[c]]
  /\ UNCHANGED <<pc, left, done, cur, results, conns, exit, pass>>

CaseEnds == CaseErrored \/ (\E v \in Verdict : Scored(v))

Next ==
  \/ \E m \in Modes, P \in SUBSET Case : Launch(m, P)
  \/ Begin \/ Open \/ ConnDrop
  \/ \E c \in Case : Skip(c) \/ StartCase(c)
  \/ Stream \/ CaseErrored \/ CaseDropped \/ Recover
  \/ \E v \in Verdict : Scored(v) \/ Escalated(v)
  \/ Escalate \/ Finish \/ Kill \/ Reconcile

Spec == Init /\ [][Next]_vars

(* The runner's own steps are taken when they can be.  An outage ends: a     *)
(* case that is retried for ever is not dropped every time.                  *)
Fairness ==
  /\ WF_vars(Begin) /\ WF_vars(Open) /\ WF_vars(Recover) /\ WF_vars(Finish)
  /\ WF_vars(\E c \in Case : Skip(c) \/ StartCase(c))
  /\ WF_vars(\E v \in Verdict : Escalated(v))
  /\ SF_vars(CaseEnds \/ Escalate)

FairSpec == Spec /\ Fairness

-----------------------------------------------------------------------------
TypeOK ==
  /\ file \in [Case -> Files]
  /\ pc \in {"idle", "begin", "open", "pick"} \cup Working
  /\ mode \in Modes
  /\ plan \subseteq Case /\ left \subseteq Case /\ done \subseteq Case
  /\ cur \in Case \cup {NoCase} /\ (pc \in Working => cur \in Case)
  /\ results \in [Case -> Terminal \cup {"none"}]
  /\ conns \in 0 .. ConnAttempts
  /\ exit \in {"none", "0", "1", "killed"}
  /\ launches \in 0 .. MaxLaunches

(* A resumed run never rewrites a verdict, neither one an earlier launch     *)
(* left in the directory nor one of its own ("keep existing transcripts and  *)
(* SKIP every (case,backend) that already reached a verdict"), whatever is   *)
(* dropped, retried, escalated or killed on the way.                         *)
VerdictKept ==
  [][mode = "continue" /\ pc # "idle" =>
       \A c \in Case : file[c] \in Verdict => file'[c] = file[c]]_vars

(* A fresh run owns the directory: whatever it holds during the pass was     *)
(* written by this pass, never left over from an earlier launch or from an   *)
(* aborted connection attempt.                                               *)
OwnDir ==
  mode = "fresh" /\ InPass =>
    \A c \in Case : file[c] # "absent" => c \in plan /\ (c \notin left \/ c = cur)

(* A launch that exits 0 has abandoned no case: every selected case has a    *)
(* verdict or an error record on disk, and is in the results unless resume   *)
(* skipped it.  No outage ends a case.  A pair is selected only if its       *)
(* backend has an endpoint: the code skips the others (run_bench.py:421-423).*)
CompleteAtExit ==
  exit = "0" =>
    \A c \in plan : file[c] \in Terminal /\ (c \in done \/ results[c] # "none")

(* The results list and the directory never disagree: an entry of the list   *)
(* is what the observer reads, also after an escalation changed the winner.  *)
ResultsMatchFiles ==
  \A c \in Case : results[c] # "none" => file[c] = results[c]

(* A launch is a pass over its list: however often a connection, a case or  *)
(* a model fails on the way, no case is handled twice or left out of a pass  *)
(* that ends well, none that was handled is touched again, and a pass begins *)
(* anew only before its first case was handled.                              *)
Recorded == [c \in Case |-> IF file[c] \in Terminal THEN file[c] ELSE "none"]
Phase == CASE pc = "idle" -> "idle" [] pc = "begin" -> "taken" [] OTHER -> "going"
Abstract ==
  INSTANCE Checklist WITH book <- Recorded, phase <- Phase, list <- plan, todo <- left,
                          told <- results, settled <- done, outcome <- exit
IsChecklist == Abstract!Spec

(* "a file still at status running/interrupted/error is NOT done and gets    *)
(* re-run" (run_bench.py).                                                   *)
OnlyVerdictsAreDone ==
  pc # "idle" /\ mode = "continue" => \A c \in done : file[c] \in Verdict

(* A launched run ends: outages only pause it.                               *)
RunEnds == pc # "idle" ~> pc = "idle"
=============================================================================
