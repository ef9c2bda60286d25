--------------------------- MODULE BenchRun_proofs ---------------------------
(* Safety of BenchRun for every set of cases, every escalation set and every *)
(* number of launches, from one inductive invariant.                         *)
EXTENDS BenchRun, TLAPS

(* From the scan of the directory to the end of the pass.                    *)
Scanned == pc = "open" \/ InPass

(* Outside the loop body there is no current case; inside it the current     *)
(* case is still open, and was not taken for done.                           *)
CurInv ==
  /\ pc \notin Working => cur = NoCase
  /\ pc \in Working => cur \in left /\ cur \notin done

(* What the scan has left to do has no verdict yet on resume, what it took   *)
(* for done still has one, and no entry of the results is for an open case.  *)
ScanInv ==
  Scanned =>
    /\ left \subseteq plan
    /\ mode = "continue" => \A c \in left \ done : file[c] \notin Terminal
    /\ \A c \in done : file[c] \in Terminal
    /\ \A c \in left : results[c] = "none"

(* A case the loop has left is settled.                                      *)
HandledInv ==
  Scanned => \A c \in plan \ left : file[c] \in Terminal /\ (c \in done \/ results[c] # "none")

(* OwnDir, from the moment the directory is cleared.                         *)
FreshInv ==
  mode = "fresh" /\ Scanned =>
    \A c \in Case : file[c] # "absent" => c \in plan /\ (c \notin left \/ c = cur)

ExitInv == pc # "idle" => exit = "none"

(* Until the session is open nothing was handled, so main() may begin again. *)
OpenInv == pc = "open" => left = plan /\ results = [c \in Case |-> "none"]

IInv ==
  /\ TypeOK /\ CurInv /\ ScanInv /\ HandledInv /\ FreshInv /\ ExitInv /\ OpenInv
  /\ ResultsMatchFiles /\ CompleteAtExit

USE CaseAssumption, MaxLaunchesAssumption

(* The empty directory and no process satisfy the invariant.                 *)
LEMMA InitInv == Init => IInv
  BY DEF Init, IInv, TypeOK, CurInv, ScanInv, HandledInv, FreshInv, ExitInv, OpenInv, Scanned, InPass,
         ResultsMatchFiles, CompleteAtExit, Working, Modes, Files, Terminal, Verdict, ConnAttempts

(* Writing the record of the current case preserves the invariant, whatever  *)
(* the record says: the case leaves the loop settled, and in the results.    *)
LEMMA RecordInv ==
  ASSUME IInv, NEW v \in Terminal, pc \in Working, Record(v)
  PROVE  IInv'
<1>1. cur \in Case /\ cur \in left /\ cur \notin done
  BY DEF IInv, TypeOK, CurInv
<1>2. /\ file' = [file EXCEPT ![cur] = v] /\ results' = [results EXCEPT ![cur] = v]
      /\ left' = left \ {cur} /\ cur' = NoCase /\ pc' = "pick"
      /\ UNCHANGED <<done, conns, exit, mode, plan, launches>>
  BY DEF Record, pass
<1>3. TypeOK'
  BY <1>1, <1>2 DEF IInv, TypeOK, Working, Files, Terminal, Verdict
<1>4. CurInv' /\ ExitInv' /\ OpenInv'
  BY <1>2 DEF IInv, CurInv, ExitInv, OpenInv, Working
<1>5. ScanInv'
  BY <1>1, <1>2 DEF IInv, TypeOK, ScanInv, Scanned, InPass, Working
<1>6. HandledInv'
  BY <1>1, <1>2 DEF IInv, TypeOK, HandledInv, Scanned, InPass, Working, Terminal, Verdict
<1>7. FreshInv'
  BY <1>1, <1>2 DEF IInv, TypeOK, FreshInv, ScanInv, Scanned, InPass, Working
<1>8. ResultsMatchFiles'
  BY <1>1, <1>2 DEF IInv, TypeOK, ResultsMatchFiles
<1>9. CompleteAtExit'
  BY <1>2 DEF IInv, ExitInv, CompleteAtExit, Working
<1>. QED
  BY <1>3, <1>4, <1>5, <1>6, <1>7, <1>8, <1>9 DEF IInv

(* Every step preserves the invariant.                                       *)
LEMMA StepInv == IInv /\ [Next]_vars => IInv'
<1>. SUFFICES ASSUME IInv, [Next]_vars PROVE IInv'
  OBVIOUS
<1>. USE DEF IInv, TypeOK, CurInv, ScanInv, HandledInv, FreshInv, ExitInv, OpenInv, Scanned, InPass,
             ResultsMatchFiles, CompleteAtExit, Working, Modes, Files, Terminal, Verdict, pass
<1>1. ASSUME NEW m \in Modes, NEW P \in SUBSET Case, Launch(m, P) PROVE IInv'
  BY <1>1 DEF Launch, ConnAttempts
<1>2. CASE Begin
  BY <1>2 DEF Begin
<1>3. CASE Open
  BY <1>3 DEF Open
<1>4. CASE ConnDrop
  BY <1>4 DEF ConnDrop, ConnAttempts
<1>5. ASSUME NEW c \in Case, Skip(c) PROVE IInv'
  BY <1>5 DEF Skip
<1>6. ASSUME NEW c \in Case, StartCase(c) PROVE IInv'
  BY <1>6 DEF StartCase
<1>7. CASE Stream
  BY <1>7 DEF Stream
<1>8. CASE CaseErrored
  BY <1>8, RecordInv DEF CaseErrored
<1>9. CASE CaseDropped
  BY <1>9 DEF CaseDropped
<1>10. CASE Recover
  BY <1>10 DEF Recover
<1>11. ASSUME NEW v \in Verdict, Scored(v) \/ Escalated(v) PROVE IInv'
  BY <1>11, RecordInv DEF Scored, Escalated
<1>12. CASE Escalate
  BY <1>12 DEF Escalate
<1>13. CASE Finish
  BY <1>13 DEF Finish
<1>14. CASE Kill
  BY <1>14 DEF Kill
<1>15. CASE Reconcile
  BY <1>15 DEF Reconcile
<1>16. CASE UNCHANGED vars
  BY <1>16 DEF vars
<1>. QED
  BY <1>1, <1>2, <1>3, <1>4, <1>5, <1>6, <1>7, <1>8, <1>9, <1>10, <1>11, <1>12, <1>13, <1>14,
     <1>15, <1>16 DEF Next

(* The inductive invariant holds in every behaviour.                         *)
THEOREM Invariance == Spec => []IInv
  BY InitInv, StepInv, PTL DEF Spec

(* Every variable stays in its type, for any number of cases and launches.   *)
THEOREM TypeCorrect == Spec => []TypeOK
<1>1. IInv => TypeOK
  BY DEF IInv
<1>. QED
  BY <1>1, Invariance, PTL

(* A fresh run's directory holds this pass's transcripts only.               *)
THEOREM FreshOwnsDir == Spec => []OwnDir
<1>1. IInv => OwnDir
  BY DEF IInv, FreshInv, OwnDir, Scanned
<1>. QED
  BY <1>1, Invariance, PTL

(* Exit status 0 means that no selected case was abandoned.                  *)
THEOREM ExitComplete == Spec => []CompleteAtExit
<1>1. IInv => CompleteAtExit
  BY DEF IInv
<1>. QED
  BY <1>1, Invariance, PTL

(* The results list agrees with the transcripts on disk.                     *)
THEOREM ResultsAgree == Spec => []ResultsMatchFiles
<1>1. IInv => ResultsMatchFiles
  BY DEF IInv
<1>. QED
  BY <1>1, Invariance, PTL

(* No step of a resumed run changes a verdict: a record is only written for  *)
(* the current case, which the scan left open and no record has closed yet.  *)
LEMMA StepKeepsVerdicts ==
  ASSUME IInv, [Next]_vars, mode = "continue", pc # "idle",
         NEW c \in Case, file[c] \in Verdict
  PROVE  file'[c] = file[c]
<1>1. pc \in Working => c # cur
  BY DEF IInv, CurInv, ScanInv, Scanned, InPass, Terminal
<1>2. CASE pc \in Working
  <2>1. file' = file \/ \E v \in Terminal \cup {"running"} : file' = [file EXCEPT ![cur] = v]
    BY <1>2 DEF Next, vars, Launch, Begin, Open, ConnDrop, Skip, StartCase, Stream, CaseErrored,
       CaseDropped, Recover, Scored, Escalated, Escalate, Finish, Kill, Reconcile, Working,
       Record, Terminal, Verdict
  <2>. QED
    BY <1>1, <1>2, <2>1 DEF IInv, TypeOK
<1>3. CASE pc \notin Working
  BY <1>3 DEF Next, vars, Launch, Begin, Open, ConnDrop, Skip, StartCase, Stream, CaseErrored,
     CaseDropped, Recover, Scored, Escalated, Escalate, Finish, Kill, Reconcile, Working
<1>. QED
  BY <1>2, <1>3

(* Resuming keeps every verdict, neither retries nor escalations touch it.   *)
THEOREM ResumeKeepsVerdicts == Spec => VerdictKept
<1>1. IInv /\ [Next]_vars =>
        [mode = "continue" /\ pc # "idle" =>
           \A c \in Case : file[c] \in Verdict => file'[c] = file[c]]_vars
  BY StepKeepsVerdicts
<1>. QED
  BY <1>1, Invariance, PTL DEF Spec, VerdictKept

-----------------------------------------------------------------------------
(* The runner implements the checklist.                                      *)

(* The empty directory is an empty book.                                     *)
LEMMA InitIsChecklist == Init => Abstract!Init
  BY DEF Init, Abstract!Init, Abstract!Nothing, Recorded, Phase, Terminal, Verdict

(* The scan of the directory is the start of a pass in one of its forms.     *)
LEMMA BeginIsStart ==
  ASSUME IInv, Begin
  PROVE  Abstract!Start
<1>1. Phase = "taken" /\ Phase' = "going"
  BY DEF Begin, Phase
<1>2. left' = plan /\ results' = Abstract!Nothing /\ UNCHANGED <<plan, exit>>
  BY DEF Begin, pass, Abstract!Nothing
<1>3. CASE mode = "fresh"
  <2>1. Recorded' = Abstract!Nothing
    BY <1>3 DEF Begin, Recorded, Abstract!Nothing, Terminal, Verdict
  <2>. QED
    BY <1>1, <1>2, <1>3, <2>1 DEF Begin, Abstract!Start
<1>4. CASE mode # "fresh"
  <2>1. Recorded' = Recorded
    BY <1>4 DEF Begin, Recorded
  <2>2. {c \in Case : file[c] \in Terminal} = {c \in Case : Recorded[c] # "none"}
    BY DEF Recorded, Terminal, Verdict
  <2>. QED
    BY <1>1, <1>2, <1>4, <2>1, <2>2 DEF Begin, Abstract!Start
<1>. QED
  BY <1>3, <1>4

(* Writing a record settles the case.                                        *)
LEMMA RecordIsSettle ==
  ASSUME IInv, pc \in Working, NEW v \in Terminal, Record(v)
  PROVE  Abstract!Settle(cur, v) /\ cur \in Case
<1>1. cur \in Case /\ cur \in left /\ cur \notin done
  BY DEF IInv, TypeOK, CurInv
<1>2. Phase = "going" /\ Phase' = "going"
  BY DEF Record, Phase, Working
<1>3. Recorded' = [Recorded EXCEPT ![cur] = v]
  BY <1>1 DEF IInv, TypeOK, Record, Recorded
<1>. QED
  BY <1>1, <1>2, <1>3 DEF Record, pass, Abstract!Settle

(* A live file takes the place of the old record, if there is one.           *)
LEMMA StreamIsWithdraw ==
  ASSUME IInv, Stream
  PROVE  Abstract!Withdraw(cur) /\ cur \in Case
<1>1. cur \in Case /\ cur \in left /\ cur \notin done
  BY DEF IInv, TypeOK, CurInv, Stream, Working
<1>2. Phase = "going" /\ Phase' = "going"
  BY DEF Stream, Phase
<1>3. Recorded' = [Recorded EXCEPT ![cur] = "none"]
  BY <1>1 DEF IInv, TypeOK, Stream, Recorded, Terminal, Verdict
<1>. QED
  BY <1>1, <1>2, <1>3 DEF Stream, pass, Abstract!Withdraw

(* What happens between two records, and to the process around a pass.       *)
LEMMA QuietIsStutter ==
  ASSUME Open \/ (\E c \in Case : StartCase(c)) \/ CaseDropped \/ Recover \/ Escalate
           \/ Reconcile \/ UNCHANGED vars
  PROVE  UNCHANGED Abstract!vars
<1>1. Recorded' = Recorded
  BY DEF Open, StartCase, CaseDropped, Recover, Escalate, Reconcile, vars, Recorded, Terminal, Verdict
<1>2. Phase' = Phase
  BY DEF Open, StartCase, CaseDropped, Recover, Escalate, Reconcile, vars, Phase
<1>3. UNCHANGED <<plan, left, results, done, exit>>
  BY DEF Open, StartCase, CaseDropped, Recover, Escalate, Reconcile, vars, pass
<1>. QED
  BY <1>1, <1>2, <1>3 DEF Abstract!vars

(* A launch that ends has a reason the checklist knows.                      *)
LEMMA EndIsEnd ==
  ASSUME IInv, Finish \/ Kill \/ (ConnDrop /\ conns >= ConnAttempts)
  PROVE  \E o \in {"0", "1", "killed"} : Abstract!End(o)
<1>1. Recorded' = Recorded
  BY DEF Finish, Kill, ConnDrop, Recorded
<1>2. Phase # "idle" /\ Phase' = "idle" /\ UNCHANGED <<plan, left, results, done>>
  BY DEF IInv, TypeOK, Finish, Kill, ConnDrop, pass, Phase, ConnAttempts
<1>3. CASE Finish
  <2>. Abstract!End("0")
    BY <1>1, <1>2, <1>3 DEF Finish, Abstract!End, Phase
  <2>. QED
    OBVIOUS
<1>4. CASE Kill
  <2>. Abstract!End("killed")
    BY <1>1, <1>2, <1>4 DEF Kill, Abstract!End
  <2>. QED
    OBVIOUS
<1>5. CASE ConnDrop /\ conns >= ConnAttempts
  <2>1. Phase = "going" /\ Abstract!Untouched
    BY <1>5 DEF ConnDrop, Phase, IInv, OpenInv, Abstract!Untouched, Abstract!Nothing
  <2>2. exit' = "1"
    BY <1>5 DEF IInv, TypeOK, ConnDrop, ConnAttempts
  <2>. Abstract!End("1")
    BY <1>1, <1>2, <2>1, <2>2 DEF Abstract!End
  <2>. QED
    OBVIOUS
<1>. QED
  BY <1>3, <1>4, <1>5

(* Every step of the runner is a step of the checklist or none.              *)
LEMMA StepIsChecklist == IInv /\ [Next]_vars => [Abstract!Next]_Abstract!vars
<1>. SUFFICES ASSUME IInv, [Next]_vars PROVE Abstract!Next \/ UNCHANGED Abstract!vars
  OBVIOUS
<1>1. ASSUME NEW m \in Modes, NEW P \in SUBSET Case, Launch(m, P) PROVE Abstract!Next
  <2>1. Phase = "idle" /\ Phase' = "taken" /\ Recorded' = Recorded
    BY <1>1 DEF Launch, Phase, Recorded
  <2>2. Abstract!Take(P)
    BY <1>1, <2>1 DEF Launch, Abstract!Take
  <2>. QED
    BY <2>2 DEF Abstract!Next
<1>2. CASE Begin
  BY <1>2, BeginIsStart DEF Abstract!Next
<1>3. CASE ConnDrop /\ conns < ConnAttempts
  <2>1. Phase = "going" /\ Phase' = "taken" /\ Recorded' = Recorded
    BY <1>3 DEF ConnDrop, Phase, Recorded
  <2>2. Abstract!Untouched
    BY <1>3 DEF ConnDrop, IInv, OpenInv, Abstract!Untouched, Abstract!Nothing
  <2>3. Abstract!Restart
    BY <1>3, <2>1, <2>2 DEF ConnDrop, pass, Abstract!Restart
  <2>. QED
    BY <2>3 DEF Abstract!Next
<1>4. CASE Finish \/ Kill \/ (ConnDrop /\ conns >= ConnAttempts)
  BY <1>4, EndIsEnd DEF Abstract!Next
<1>5. ASSUME NEW c \in Case, Skip(c) PROVE Abstract!Next
  <2>1. Phase = "going" /\ Phase' = "going" /\ Recorded' = Recorded
    BY <1>5 DEF Skip, Phase, Recorded
  <2>2. Abstract!PassOver(c)
    BY <1>5, <2>1 DEF Skip, pass, Abstract!PassOver
  <2>. QED
    BY <2>2 DEF Abstract!Next
<1>6. ASSUME NEW c \in Case, StartCase(c) PROVE UNCHANGED Abstract!vars
  BY <1>6, QuietIsStutter
<1>7. CASE Stream
  BY <1>7, StreamIsWithdraw DEF Abstract!Next
<1>8. ASSUME pc \in Working, NEW v \in Terminal, Record(v) PROVE Abstract!Next
  BY <1>8, RecordIsSettle DEF Abstract!Next
<1>9. ASSUME NEW v \in Verdict, Scored(v) \/ Escalated(v) PROVE Abstract!Next
  BY <1>8, <1>9 DEF Scored, Escalated, Working, Terminal
<1>10. CASE CaseErrored
  BY <1>8, <1>10 DEF CaseErrored, Working, Terminal
<1>11. CASE Open \/ CaseDropped \/ Recover \/ Escalate \/ Reconcile \/ UNCHANGED vars
  BY <1>11, QuietIsStutter
<1>12. ConnDrop => conns < ConnAttempts \/ conns >= ConnAttempts
  BY DEF IInv, TypeOK, ConnAttempts
<1>. QED
  BY <1>1, <1>2, <1>3, <1>4, <1>5, <1>6, <1>7, <1>9, <1>10, <1>11, <1>12 DEF Next

(* The runner implements the checklist, for any cases and launches.          *)
THEOREM RunIsChecklist == Spec => IsChecklist
  BY InitIsChecklist, StepIsChecklist, Invariance, PTL DEF Spec, IsChecklist, Abstract!Spec
=============================================================================
