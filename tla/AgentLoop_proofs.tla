-------------------------- MODULE AgentLoop_proofs --------------------------
(* Safety of AgentLoop for every set of cases, every endpoint, every model   *)
(* and provider, and every limit, from one inductive invariant.              *)
EXTENDS AgentLoop, FiniteSetTheorems, WellFoundedInduction, TLAPS

USE LimitAssumption, CapAssumption

(* The loop of one attempt.                                                  *)
InAttempt == pc \in {"step", "chat", "call", "probe", "tool", "diagnose"}

(* A chat is only started, and calls are only handled, within the limits.    *)
StepInv ==
  /\ pc \in {"chat", "call", "probe", "tool", "diagnose"} => step < MaxSteps
  /\ pc = "chat" => spent + tok < Budget
  /\ InAttempt \/ pc = "judge" => attempt_no >= 1

(* What ended by a limit has no answer.                                      *)
LastInv == last.timed_out => last.answer = Null

(* run_one goes on after an answer only when a re-prompt gave its attempt    *)
(* back, so the attempts cannot run out on an answer nobody rejected.        *)
LoopInv == pc = "loop" => ~Grounded \/ attempt_no < MaxAttempts

(* The result is written once, by the verdict.                               *)
OpenInv == pc \notin {"struggle", "done"} => result = [correct |-> "open", category |-> "none"]

(* What reaches the verdict: nothing, an answer no gate rejects, or whatever *)
(* there was when a limit ended the case.                                    *)
VerdictInv ==
  pc = "verdict" => late \/ spent >= Budget \/ provider_error \/ ~Grounded \/ Case.ask
                    \/ Rejecter = "none"

(* What a guard has cached as absent is absent.                              *)
AbsentInv == \A t \in absent : Missing(t)

IInv ==
  /\ TypeOK /\ Accounting /\ SpendBounded /\ StepInv /\ LastInv /\ LoopInv /\ OpenInv
  /\ VerdictInv /\ AbsentInv /\ CorrectIsGrounded /\ WrongOnlyAfterRetries

-----------------------------------------------------------------------------
(* Which gate rejects.                                                       *)

(* A nonempty set of numbers has a least one, and Min is it.                 *)
LEMMA MinIn ==
  ASSUME NEW S \in SUBSET Nat, S # {}
  PROVE  Min(S) \in S /\ \A y \in S : Min(S) <= y
<1>1. PICK x \in S : \A y \in S : ~ (<<y, x>> \in OpToRel(<, Nat))
  BY NatLessThanWellFounded, WFMin
<1>2. \A y \in S : x =< y
  <2>. SUFFICES ASSUME NEW y \in S, y < x PROVE FALSE
    OBVIOUS
  <2>1. <<y, x>> \in OpToRel(<, Nat)
    BY DEF OpToRel
  <2>. QED
    BY <1>1, <2>1
<1>. QED
  BY <1>2 DEF Min

(* The gate that rejects an answer is one of the list, and fires: its        *)
(* counter is below its cap.                                                 *)
LEMMA FirstGate ==
  ASSUME NEW a, NEW exp, NEW enforced, NEW n
  PROVE  LET g == build_reprompt(a, exp, enforced, n)
         IN  \/ g = "none" /\ \A i \in 1 .. 11 : ~Fires(Gates[i], a, exp, enforced, n)
             \/ g \in ToSet(Gates) /\ Fires(g, a, exp, enforced, n)
<1>. DEFINE firing == {i \in DOMAIN Gates : Fires(Gates[i], a, exp, enforced, n)}
<1>1. DOMAIN Gates = 1 .. 11
  BY DEF Gates
<1>2. CASE firing = {}
  BY <1>1, <1>2 DEF build_reprompt
<1>3. CASE firing # {}
  <2>1. firing \in SUBSET Nat
    BY <1>1
  <2>2. Min(firing) \in firing
    <3>. HIDE DEF firing
    <3>. QED
      BY <1>3, <2>1, MinIn
  <2>3. build_reprompt(a, exp, enforced, n) = Gates[Min(firing)]
    BY <1>3 DEF build_reprompt
  <2>. QED
    BY <2>2, <2>3 DEF ToSet
<1>. QED
  BY <1>2, <1>3

-----------------------------------------------------------------------------
(* The steps.                                                                *)

(* A case about to start satisfies the invariant.                            *)
LEMMA InitInv == Init => IInv
<1>. SUFFICES ASSUME Init PROVE IInv
  OBVIOUS
<1>. USE DEF Init, NoAttempt
<1>1. TypeOK
  <2>1. retries \in [Counters -> Nat]
    OBVIOUS
  <2>2. 0 \in 0 .. Larger(1, BackoffAttempts - 1)
    BY DEF Larger
  <2>3. /\ attempt_no \in 0 .. MaxAttempts /\ started \in Nat /\ repeat \in Nat
        /\ spent \in Nat /\ tok \in Nat /\ step \in 0 .. MaxSteps
    OBVIOUS
  <2>4. tc \in DOMAIN TestCase /\ late \in BOOLEAN /\ pc = "loop" /\ last.answer = Null
    BY Zenon
  <2>. QED
    BY <2>1, <2>2, <2>3, <2>4 DEF TypeOK
<1>2. Accounting
  <2>1. \A c \in Counters : retries[c] = 0
    OBVIOUS
  <2>2. Spent = 0
    BY <2>1 DEF Spent, Counters
  <2>. QED
    BY <2>1, <2>2 DEF Accounting, Counters
<1>3. SpendBounded
  BY DEF SpendBounded
<1>4. StepInv /\ LastInv /\ LoopInv /\ OpenInv /\ VerdictInv /\ AbsentInv
  BY DEF StepInv, LastInv, LoopInv, OpenInv, VerdictInv, AbsentInv, InAttempt, Grounded
<1>5. CorrectIsGrounded /\ WrongOnlyAfterRetries
  BY DEF CorrectIsGrounded, WrongOnlyAfterRetries
<1>. QED
  BY <1>1, <1>2, <1>3, <1>4, <1>5 DEF IInv

(* Time passing.                                                             *)
LEMMA TickInv == IInv /\ Tick => IInv'
<1>. SUFFICES ASSUME IInv, Tick PROVE IInv'
  OBVIOUS
<1>. USE DEF Tick, outer, inner, IInv
<1>1. TypeOK'
  BY DEF TypeOK, Case
<1>2. Accounting'
  BY DEF Accounting, Spent
<1>3. SpendBounded'
  BY DEF SpendBounded
<1>4. StepInv' /\ LastInv' /\ LoopInv' /\ OpenInv' /\ VerdictInv' /\ AbsentInv'
  BY DEF StepInv, LastInv, LoopInv, OpenInv, VerdictInv, AbsentInv, InAttempt, Grounded
<1>5. CorrectIsGrounded' /\ WrongOnlyAfterRetries'
  BY DEF CorrectIsGrounded, WrongOnlyAfterRetries, Case
<1>. QED
  BY <1>1, <1>2, <1>3, <1>4, <1>5

(* The end of an attempt, whatever ended it.                                 *)
LEMMA ReturnInv ==
  ASSUME IInv, NEW n \in Nat, NEW answer, NEW timed_out, NEW capped, NEW failed,
         InAttempt, Return(answer, timed_out, capped, failed), spent' = spent + tok + n,
         answer \in Case.answers \cup {Null}, timed_out => answer = Null,
         n = 0 \/ (pc = "chat" /\ n \in ReplyTokens)
  PROVE  IInv'
<1>. USE DEF Return, Fresh, IInv
<1>1. TypeOK'
  BY DEF TypeOK, Case, Larger
<1>2. Accounting'
  BY DEF Accounting, Spent
<1>3. SpendBounded'
  BY DEF SpendBounded, StepInv, TypeOK
<1>4. StepInv' /\ LastInv' /\ LoopInv' /\ OpenInv' /\ VerdictInv' /\ AbsentInv'
  BY DEF StepInv, LastInv, LoopInv, OpenInv, VerdictInv, AbsentInv, InAttempt
<1>5. result'.correct = "open" /\ result'.category = "none"
  BY DEF OpenInv, InAttempt
<1>6. CorrectIsGrounded' /\ WrongOnlyAfterRetries'
  BY <1>5 DEF CorrectIsGrounded, WrongOnlyAfterRetries
<1>. QED
  BY <1>1, <1>2, <1>3, <1>4, <1>6

(* A turn is asked for, tried again, or answered with tool calls.            *)
LEMMA ChatInv ==
  ASSUME IInv,
         \/ AskModel \/ Backoff
         \/ \E t \in Case.turns, n \in ReplyTokens : Turn(t, n)
  PROVE  IInv'
<1>. USE DEF AskModel, Backoff, Turn, outer, IInv
<1>1. UNCHANGED <<outer, step, used_sparql, seen, blocks, late>>
  OBVIOUS
<1>2. /\ pc \in {"step", "chat"} /\ pc' \in {"chat", "call"}
      /\ pc' = "chat" => step < MaxSteps /\ spent + tok' < Budget
      /\ pc' = "call" => pc = "chat"
  BY DEF StepInv
<1>3. tok' \in Nat /\ tries' \in 0 .. Larger(1, BackoffAttempts - 1)
  BY DEF TypeOK, Larger
<1>4. tok' = tok \/ (pc = "chat" /\ \E n \in ReplyTokens : tok' = tok + n)
  OBVIOUS
<1>. HIDE DEF AskModel, Backoff, Turn
<1>5. TypeOK'
  BY <1>1, <1>2, <1>3 DEF TypeOK, Case
<1>6. Accounting'
  BY <1>1 DEF Accounting, Spent
<1>7. SpendBounded'
  <2>1. CASE tok' = tok
    BY <1>1, <2>1 DEF SpendBounded
  <2>2. ASSUME pc = "chat", NEW n \in ReplyTokens, tok' = tok + n
        PROVE  SpendBounded'
    <3>1. spent' = spent /\ spent + tok < Budget
      BY <1>1, <2>2 DEF StepInv
    <3>. QED
      BY <2>2, <3>1 DEF SpendBounded, TypeOK
  <2>. QED
    BY <1>4, <2>1, <2>2
<1>8. StepInv' /\ LastInv' /\ LoopInv' /\ OpenInv' /\ VerdictInv' /\ AbsentInv'
  BY <1>1, <1>2 DEF StepInv, LastInv, LoopInv, OpenInv, VerdictInv, AbsentInv, InAttempt
<1>9. CorrectIsGrounded' /\ WrongOnlyAfterRetries'
  BY <1>1 DEF CorrectIsGrounded, WrongOnlyAfterRetries, Case
<1>. QED
  BY <1>5, <1>6, <1>7, <1>8, <1>9

(* A call handled: the next one, or the next step.                           *)
LEMMA AnsweredInv ==
  ASSUME IInv, pc \in {"call", "probe", "tool", "diagnose"}, Answered, Stepped
  PROVE  /\ step' \in 0 .. MaxSteps
         /\ pc' \in {"step", "call"}
         /\ pc' = "call" => step' < MaxSteps
  BY DEF IInv, StepInv, Answered, Stepped, TypeOK

(* What a guard learns stays true, and nothing is both present and absent.   *)
LEMMA GuardInv ==
  ASSUME IInv, NEW n, NEW asked, NEW failed, Guard(n, asked, failed)
  PROVE  present' \cap absent' = {} /\ AbsentInv'
<1>. DEFINE new == {t \in asked \ failed : Missing(t)}
<1>1. /\ asked \cap (present \cup absent) = {}
      /\ absent' = absent \cup new /\ present' = present \cup (asked \ new)
  BY DEF Guard, Asks, Learnt
<1>. QED
  BY <1>1 DEF IInv, TypeOK, AbsentInv

(* A guard, or the diagnosis of an empty result, starts to ask the endpoint. *)
LEMMA ProbeInv == ASSUME IInv, StartProbe \/ StartDiagnosis PROVE IInv'
<1>. USE DEF IInv
<1>1. /\ UNCHANGED <<outer, inner, late>> /\ pc \in {"call", "tool"}
      /\ pc' \in {"probe", "diagnose"}
  BY DEF StartProbe, StartDiagnosis
<1>. USE <1>1 DEF outer, inner
<1>2. TypeOK'
  BY DEF TypeOK, Case
<1>3. Accounting' /\ SpendBounded'
  BY DEF Accounting, Spent, SpendBounded
<1>4. StepInv' /\ LastInv' /\ LoopInv' /\ OpenInv' /\ VerdictInv' /\ AbsentInv'
  BY DEF StepInv, LastInv, LoopInv, OpenInv, VerdictInv, AbsentInv, InAttempt
<1>5. CorrectIsGrounded' /\ WrongOnlyAfterRetries'
  BY DEF CorrectIsGrounded, WrongOnlyAfterRetries, Case
<1>. QED
  BY <1>2, <1>3, <1>4, <1>5

(* A tool call: fetched, blocked, replayed, executed or answered.            *)
LEMMA CallInv ==
  ASSUME IInv,
         SkillCall \/ QueryCall \/ ProbesAnswer
         \/ Diagnosed \/ \E o \in {"rows", "error"} : ToolReturns(o)
  PROVE  IInv'
<1>1. /\ pc \in {"call", "probe", "tool", "diagnose"}
      /\ step' \in 0 .. MaxSteps /\ pc' \in {"step", "call", "tool"}
      /\ pc' \in {"call", "tool"} => step' < MaxSteps
  <2>1. CASE \E asked, failed : pc \in {"call", "probe"} /\ Execute(asked, failed)
    BY <2>1 DEF Execute, IInv, StepInv, TypeOK
  <2>2. CASE pc \in {"call", "probe", "tool", "diagnose"} /\ Answered /\ Stepped
    BY <2>2, AnsweredInv
  <2>. QED
    BY <2>1, <2>2 DEF SkillCall, QueryCall, ProbesAnswer, Handled, Blocked, Replay, ToolReturns, Diagnosed, Remember
<1>2. UNCHANGED <<tc, attempt_no, started, retries, repeat, rejected, spent, last,
                  provider_error, result, tok, tries, late>>
  BY DEF SkillCall, QueryCall, ProbesAnswer, Handled, Blocked, Replay, Execute, Incoming,
     ToolReturns, Diagnosed, Remember, outer
<1>3. present' \cap absent' = {} /\ AbsentInv'
  <2>1. CASE \E n, asked, failed : Guard(n, asked, failed)
    BY <2>1, GuardInv
  <2>2. CASE UNCHANGED <<present, absent>>
    BY <2>2 DEF IInv, TypeOK, AbsentInv
  <2>. QED
    BY <2>1, <2>2 DEF SkillCall, QueryCall, ProbesAnswer, Handled, Blocked, Replay, Execute,
       Incoming, ToolReturns, Diagnosed, Remember, outer
<1>. USE DEF IInv
<1>4. TypeOK'
  BY <1>1, <1>2, <1>3 DEF TypeOK, Case
<1>5. Accounting'
  BY <1>2 DEF Accounting, Spent
<1>6. SpendBounded'
  BY <1>2 DEF SpendBounded
<1>7. StepInv' /\ LastInv' /\ LoopInv' /\ OpenInv' /\ VerdictInv'
  BY <1>1, <1>2 DEF StepInv, LastInv, LoopInv, OpenInv, VerdictInv, InAttempt
<1>8. CorrectIsGrounded' /\ WrongOnlyAfterRetries'
  BY <1>2 DEF CorrectIsGrounded, WrongOnlyAfterRetries, Case
<1>. QED
  BY <1>3, <1>4, <1>5, <1>6, <1>7, <1>8

(* The attempts that end.                                                    *)
LEMMA EndInv ==
  ASSUME IInv,
         \/ StepsDone \/ StepLate \/ TokenCap \/ ChatTimeout \/ ChatFails \/ CallLate
         \/ ToolTimeout
         \/ \E a \in Case.answers, n \in ReplyTokens :
              FinalTurn(<<a>>, n) \/ FinalTurn(<<a, a>>, n)
  PROVE  IInv'
<1>1. ASSUME NEW a \in Case.answers, NEW n \in ReplyTokens,
             FinalTurn(<<a>>, n) \/ FinalTurn(<<a, a>>, n)
      PROVE  IInv'
  <2>1. PICK answer \in {a, Null} :
          Return(answer, FALSE, FALSE, FALSE) /\ pc = "chat" /\ spent' = spent + tok + n
    <3>1. parse_answer(<<a>>) = a /\ parse_answer(<<a, a>>) = Null
      BY DEF parse_answer
    <3>. QED
      BY <1>1, <3>1 DEF FinalTurn
  <2>2. n \in Nat /\ answer \in Case.answers \cup {Null} /\ InAttempt
    BY <2>1 DEF InAttempt
  <2>. QED
    BY <2>1, <2>2, ReturnInv
<1>2. CASE StepsDone \/ StepLate \/ TokenCap \/ ChatTimeout \/ ChatFails \/ CallLate \/ ToolTimeout
  <2>1. PICK timed_out, capped, failed :
          Return(Null, timed_out, capped, failed) /\ InAttempt /\ spent' = spent + tok
    BY <1>2 DEF StepsDone, StepLate, TokenCap, ChatTimeout, ChatFails, CallLate, ToolTimeout, InAttempt
  <2>2. spent' = spent + tok + 0
    BY <2>1 DEF IInv, TypeOK
  <2>. QED
    BY <2>1, <2>2, ReturnInv
<1>. QED
  BY <1>1, <1>2

(* The re-prompts are counted in numbers, one gate at a time.                *)
LEMMA SpentNat == IInv => Spent \in Nat
<1>1. ASSUME retries \in [Counters -> Nat] PROVE Spent \in Nat
  <2>1. \A c \in Counters : retries[c] \in Nat
    BY <1>1
  <2>. QED
    BY <2>1 DEF Spent, Counters
<1>. QED
  BY <1>1 DEF IInv, TypeOK

LEMMA SpentStep ==
  ASSUME NEW c \in Counters, retries \in [Counters -> Nat],
         retries' = [retries EXCEPT ![c] = @ + 1]
  PROVE  /\ retries' \in [Counters -> Nat]
         /\ retries'[c] = retries[c] + 1
         /\ \A d \in Counters \ {c} : retries'[d] = retries[d]
         /\ Spent' = Spent + 1
<1>1. /\ retries' \in [Counters -> Nat]
      /\ retries'[c] = retries[c] + 1
      /\ \A d \in Counters \ {c} : retries'[d] = retries[d]
  OBVIOUS
<1>2. \A d \in Counters : retries[d] \in Nat /\ retries'[d] = IF d = c THEN retries[d] + 1 ELSE retries[d]
  BY <1>1
<1>3. Spent' = Spent + 1
  BY <1>2 DEF Spent, Counters
<1>. QED
  BY <1>1, <1>3

(* The top of run_one's loop.                                                *)
LEMMA LoopStepInv == IInv /\ (StartAttempt \/ EndLoop) => IInv'
<1>. SUFFICES ASSUME IInv, StartAttempt \/ EndLoop PROVE IInv'
  OBVIOUS
<1>. USE DEF StartAttempt, EndLoop, inner, outer, IInv
<1>1. TypeOK'
  <2>1. CASE StartAttempt
    <3>1. attempt_no' \in 0 .. MaxAttempts /\ started' \in Nat
      BY <2>1 DEF TypeOK, Exhausted
    <3>. QED
      BY <2>1, <3>1 DEF TypeOK, Case
  <2>2. CASE EndLoop
    BY <2>2 DEF TypeOK, Case
  <2>. QED
    BY <2>1, <2>2
<1>2. Accounting'
  <2>1. Spent' = Spent /\ Spent \in Nat
    BY SpentNat DEF Spent
  <2>2. /\ UNCHANGED <<retries, repeat>>
        /\ \/ UNCHANGED <<attempt_no, started>>
           \/ attempt_no' = attempt_no + 1 /\ started' = started + 1
    OBVIOUS
  <2>3. attempt_no \in Int /\ started \in Nat /\ started = attempt_no + Spent
    BY DEF TypeOK, Accounting
  <2>4. started' = attempt_no' + Spent'
    BY <2>1, <2>2, <2>3
  <2>. QED
    BY <2>2, <2>4 DEF Accounting
<1>3. SpendBounded'
  BY DEF SpendBounded
<1>4. StepInv' /\ LastInv' /\ LoopInv' /\ OpenInv' /\ AbsentInv'
  BY DEF StepInv, LastInv, LoopInv, OpenInv, AbsentInv, InAttempt, TypeOK
<1>5. VerdictInv'
  BY DEF VerdictInv, LoopInv, Exhausted, TypeOK, Grounded
<1>6. CorrectIsGrounded' /\ WrongOnlyAfterRetries'
  BY DEF CorrectIsGrounded, WrongOnlyAfterRetries, Case
<1>. QED
  BY <1>1, <1>2, <1>3, <1>4, <1>5, <1>6

(* An attempt accepted, given up, or to be followed by another.              *)
LEMMA AcceptInv == IInv /\ (ProviderDown \/ AskAccepts \/ LimitReached \/ TryAgain) => IInv'
<1>. SUFFICES ASSUME IInv, ProviderDown \/ AskAccepts \/ LimitReached \/ TryAgain PROVE IInv'
  OBVIOUS
<1>1. /\ pc = "judge" /\ pc' \in {"verdict", "loop"}
      /\ UNCHANGED <<judged, attempt_no, retries, repeat, rejected, inner, late>>
  BY DEF ProviderDown, AskAccepts, LimitReached, TryAgain
<1>2. /\ pc' = "loop" => ~Grounded
      /\ pc' = "verdict" => provider_error' = TRUE \/ ~Grounded \/ Case.ask
  BY DEF ProviderDown, AskAccepts, LimitReached, TryAgain
<1>. USE DEF judged, inner, IInv
<1>3. TypeOK'
  BY <1>1 DEF TypeOK, Case
<1>4. Accounting'
  BY <1>1 DEF Accounting, Spent
<1>5. SpendBounded'
  BY <1>1 DEF SpendBounded
<1>6. StepInv' /\ LastInv' /\ OpenInv' /\ AbsentInv'
  BY <1>1 DEF StepInv, LastInv, OpenInv, AbsentInv, InAttempt
<1>7. LoopInv' /\ VerdictInv'
  BY <1>1, <1>2 DEF LoopInv, VerdictInv, Grounded, Case
<1>8. result'.correct = "open" /\ result'.category = "none"
  BY <1>1 DEF OpenInv
<1>9. CorrectIsGrounded' /\ WrongOnlyAfterRetries'
  BY <1>8 DEF CorrectIsGrounded, WrongOnlyAfterRetries
<1>. QED
  BY <1>3, <1>4, <1>5, <1>6, <1>7, <1>9

(* A grounded answer judged by the gates.                                    *)
LEMMA JudgeInv == IInv /\ Judge => IInv'
<1>. SUFFICES ASSUME IInv, Judge PROVE IInv'
  OBVIOUS
<1>. USE DEF judged, inner, IInv
<1>1. /\ pc = "judge" /\ UNCHANGED <<judged, provider_error, inner, late>>
      /\ result'.correct = "open" /\ result'.category = "none"
  BY DEF Judge, OpenInv
<1>2. CASE Rejecter = "none"
  <2>1. /\ pc' = "verdict" /\ retries' = retries /\ repeat' = repeat
        /\ attempt_no' = attempt_no
    BY <1>2 DEF Judge, TypeOK
  <2>2. TypeOK'
    BY <1>1, <2>1 DEF TypeOK, Case
  <2>3. Accounting' /\ SpendBounded'
    BY <1>1, <2>1 DEF Accounting, Spent, SpendBounded
  <2>4. Rejecter' = "none"
    BY <1>1, <1>2, <2>1 DEF Rejecter, Case
  <2>5. StepInv' /\ LastInv' /\ LoopInv' /\ OpenInv' /\ AbsentInv' /\ VerdictInv'
    BY <1>1, <2>1, <2>4 DEF StepInv, LastInv, LoopInv, OpenInv, AbsentInv, VerdictInv, InAttempt
  <2>. QED
    BY <1>1, <2>2, <2>3, <2>5 DEF CorrectIsGrounded, WrongOnlyAfterRetries
<1>3. CASE Rejecter # "none"
  <2>. PICK g : g = Rejecter
    OBVIOUS
  <2>. PICK c : c = Counter(g)
    OBVIOUS
  <2>. DEFINE cap == IF c = "subject" THEN SubjectCap ELSE RetryCap
  <2>1. /\ pc' = "loop" /\ retries' = [retries EXCEPT ![c] = @ + 1]
        /\ attempt_no' = attempt_no - 1
        /\ repeat' = repeat + (IF g = "subject" /\ Signature(last.answer) \in rejected
                               THEN 1 ELSE 0)
    BY <1>3 DEF Judge
  <2>2. /\ g \in ToSet(Gates) /\ retries[c] < Cap(g)
    BY <1>3, FirstGate DEF Rejecter, Fires
  <2>3. /\ c \in Counters
        /\ g = "subject" => c = "subject"
        /\ Cap(g) <= cap
    <3>1. ToSet(Gates) = {"frac", "resolve", "shape", "label", "missing_label", "unc",
                          "unc_rss", "recompute", "order", "route", "subject"}
      BY DEF ToSet, Gates
    <3>. QED
      BY <2>2, <3>1 DEF Counter, Counters, Cap
  <2>4. /\ retries' \in [Counters -> Nat]
        /\ retries'[c] = retries[c] + 1
        /\ \A d \in Counters \ {c} : retries'[d] = retries[d]
        /\ Spent' = Spent + 1
    <3>1. retries \in [Counters -> Nat]
      BY DEF TypeOK
    <3>. HIDE DEF IInv
    <3>. QED
      BY <2>1, <2>3, <3>1, SpentStep
  <2>5. attempt_no >= 1 /\ attempt_no' \in 0 .. MaxAttempts /\ attempt_no' < MaxAttempts
    BY <1>1, <2>1 DEF StepInv, TypeOK
  <2>6. repeat' \in Nat /\ repeat' <= retries'["subject"]
    <3>1. repeat \in Nat /\ repeat <= retries["subject"] /\ retries \in [Counters -> Nat]
      BY DEF TypeOK, Accounting
    <3>2. "subject" \in Counters
      BY DEF Counters
    <3>. HIDE DEF IInv
    <3>3. retries["subject"] \in Nat /\ retries'["subject"] \in Nat
      BY <2>4, <3>1, <3>2
    <3>4. CASE g = "subject"
      <4>1. retries'["subject"] = retries["subject"] + 1
        BY <2>3, <2>4, <3>4
      <4>. QED
        BY <2>1, <3>1, <3>3, <4>1
    <3>5. CASE g # "subject"
      <4>1. repeat' = repeat
        BY <2>1, <3>1, <3>5
      <4>2. retries["subject"] <= retries'["subject"]
        BY <2>4, <3>2, <3>3
      <4>. QED
        BY <3>1, <3>3, <4>1, <4>2
    <3>. QED
      BY <3>4, <3>5
  <2>7. TypeOK'
    BY <1>1, <2>1, <2>4, <2>5, <2>6 DEF TypeOK, Case
  <2>8. Spent \in Nat
    BY SpentNat
  <2>9. Accounting'
    <3>1. started' = attempt_no' + Spent'
      BY <1>1, <2>1, <2>4, <2>8 DEF Accounting, TypeOK
    <3>2. ASSUME NEW d \in Counters
          PROVE  retries'[d] <= (IF d = "subject" THEN SubjectCap ELSE RetryCap)
      BY <2>2, <2>3, <2>4 DEF Accounting, TypeOK, Cap
    <3>. QED
      BY <2>6, <3>1, <3>2 DEF Accounting
  <2>10. SpendBounded'
    BY <1>1 DEF SpendBounded
  <2>11. StepInv' /\ LastInv' /\ LoopInv' /\ OpenInv' /\ AbsentInv' /\ VerdictInv'
    BY <1>1, <2>1, <2>5 DEF StepInv, LastInv, LoopInv, OpenInv, AbsentInv, VerdictInv, InAttempt
  <2>. QED
    BY <1>1, <2>7, <2>9, <2>10, <2>11 DEF CorrectIsGrounded, WrongOnlyAfterRetries
<1>. QED
  BY <1>2, <1>3

(* What the verdict calls wrong was scored, and found wrong.                 *)
LEMMA WrongWasScored ==
  ASSUME classify_error(Faults, FALSE, FALSE) \in {"wrong-class", "wrong-value"}
  PROVE  ~provider_error /\ Grounded /\ SubjectGate(score_answer(Case.exp, last.answer))
<1>1. ~provider_error /\ last.used_sparql /\ Faults = score_answer(Case.exp, last.answer)
  BY DEF Faults, classify_error
<1>2. last.answer # Null
  BY <1>1 DEF score_answer, classify_error
<1>. QED
  BY <1>1, <1>2 DEF Grounded, SubjectGate

(* A case scored.                                                            *)
LEMMA VerdictStepInv == IInv /\ Verdict => IInv'
<1>. SUFFICES ASSUME IInv, Verdict PROVE IInv'
  OBVIOUS
<1>1. /\ pc = "verdict" /\ pc' \in {"struggle", "done"}
      /\ UNCHANGED <<tc, attempt_no, started, retries, repeat, rejected, spent, last,
                     provider_error, present, absent, inner, late>>
  BY DEF Verdict
<1>2. /\ result'.correct = "yes" => Faults = {}
      /\ \/ result'.category = "none"
         \/ /\ result'.category = classify_error(Faults, FALSE, FALSE)
            /\ ~(Case.ask /\ last.used_sparql /\ ~provider_error)
  BY DEF Verdict
<1>. USE DEF inner, IInv
<1>3. TypeOK'
  BY <1>1 DEF TypeOK, Case
<1>4. Accounting' /\ SpendBounded'
  BY <1>1 DEF Accounting, Spent, SpendBounded
<1>5. StepInv' /\ LastInv' /\ LoopInv' /\ OpenInv' /\ VerdictInv' /\ AbsentInv'
  BY <1>1 DEF StepInv, LastInv, LoopInv, OpenInv, VerdictInv, AbsentInv, InAttempt
<1>6. CorrectIsGrounded'
  <2>. SUFFICES ASSUME Faults = {}
                PROVE  /\ last.used_sparql /\ ~provider_error /\ ~last.timed_out
                       /\ correct(Case.exp, last.answer)
    BY <1>1, <1>2 DEF CorrectIsGrounded, Case
  <2>1. last.used_sparql /\ ~provider_error /\ score_answer(Case.exp, last.answer) = {}
    BY DEF Faults
  <2>2. last.answer # Null
    BY <2>1 DEF score_answer
  <2>. QED
    BY <2>1, <2>2 DEF LastInv, correct
<1>7. WrongOnlyAfterRetries'
  <2>. SUFFICES ASSUME classify_error(Faults, FALSE, FALSE) \in {"wrong-class", "wrong-value"},
                       ~(Case.ask /\ last.used_sparql /\ ~provider_error),
                       ~late, spent < Budget
                PROVE  retries["subject"] = SubjectCap
    BY <1>1, <1>2 DEF WrongOnlyAfterRetries
  <2>1. ~provider_error /\ Grounded /\ SubjectGate(score_answer(Case.exp, last.answer))
    BY WrongWasScored
  <2>2. Rejecter = "none"
    BY <1>1, <2>1 DEF VerdictInv, Grounded, TypeOK
  <2>3. ~Fires("subject", last, Case.exp, Case.skills, retries)
    <3>1. Gates[11] = "subject" /\ "none" \notin ToSet(Gates)
      BY DEF Gates, ToSet
    <3>. QED
      BY <2>2, <3>1, FirstGate DEF Rejecter
  <2>4. Holds("subject", last, Case.exp, Case.skills)
    BY <2>1 DEF Holds
  <2>5. ~(retries["subject"] < SubjectCap)
    BY <2>3, <2>4 DEF Fires, Counter, Cap
  <2>6. retries["subject"] \in Nat /\ retries["subject"] <= SubjectCap
    BY DEF TypeOK, Accounting, Counters
  <2>. QED
    BY <2>5, <2>6
<1>. QED
  BY <1>3, <1>4, <1>5, <1>6, <1>7

(* A failed case explained, or not.                                          *)
LEMMA StruggleInv == IInv /\ (Explained \/ NoExplanation) => IInv'
<1>. SUFFICES ASSUME IInv, Explained \/ NoExplanation PROVE IInv'
  OBVIOUS
<1>1. /\ pc = "struggle" /\ pc' \in {"struggle", "done"}
      /\ UNCHANGED <<outer, step, tok, used_sparql, seen, blocks, calls, late>>
      /\ tries' \in {tries, 1}
  BY DEF Explained, NoExplanation, inner
<1>. USE DEF outer, IInv
<1>2. TypeOK'
  BY <1>1 DEF TypeOK, Case, Larger
<1>3. Accounting' /\ SpendBounded'
  BY <1>1 DEF Accounting, Spent, SpendBounded
<1>4. StepInv' /\ LastInv' /\ LoopInv' /\ OpenInv' /\ VerdictInv' /\ AbsentInv'
  BY <1>1 DEF StepInv, LastInv, LoopInv, OpenInv, VerdictInv, AbsentInv, InAttempt
<1>5. CorrectIsGrounded' /\ WrongOnlyAfterRetries'
  BY <1>1 DEF CorrectIsGrounded, WrongOnlyAfterRetries, Case
<1>. QED
  BY <1>2, <1>3, <1>4, <1>5

(* Nothing happening.                                                        *)
LEMMA StutterInv == IInv /\ UNCHANGED vars => IInv'
<1>. SUFFICES ASSUME IInv, UNCHANGED vars PROVE IInv'
  OBVIOUS
<1>. USE DEF vars, outer, inner, IInv
<1>1. TypeOK' /\ Accounting' /\ SpendBounded'
  BY DEF TypeOK, Case, Accounting, Spent, SpendBounded
<1>2. StepInv' /\ LastInv' /\ LoopInv' /\ OpenInv' /\ AbsentInv'
  BY DEF StepInv, LastInv, LoopInv, OpenInv, AbsentInv, InAttempt, Grounded
<1>3. VerdictInv'
  BY DEF VerdictInv, Grounded, Case, Rejecter
<1>4. CorrectIsGrounded' /\ WrongOnlyAfterRetries'
  BY DEF CorrectIsGrounded, WrongOnlyAfterRetries, Case
<1>. QED
  BY <1>1, <1>2, <1>3, <1>4

-----------------------------------------------------------------------------
(* The results.                                                              *)

(* The invariant holds in every state of every case: it bounds the attempts, *)
(* the re-prompts and the tokens, and grounds the verdict.                   *)
THEOREM Invariance == Spec => []IInv
<1>1. IInv /\ [Next]_vars => IInv'
  <2>1. IInv /\ Own => IInv'
    BY LoopStepInv, EndInv, ChatInv, CallInv, ProbeInv, AcceptInv, JudgeInv,
       VerdictStepInv, StruggleInv
       DEF Own
  <2>2. IInv /\ Outside => IInv'
    BY ChatInv, CallInv, ProbeInv, EndInv DEF Outside
  <2>. QED
    BY <2>1, <2>2, TickInv, StutterInv DEF Next, Done
<1>. QED
  BY <1>1, InitInv, PTL DEF Spec

(* Every variable keeps its shape, attempt_no stays in 0 .. max_attempts,    *)
(* and an attempt leaves no loop state behind (agent.py:328-347).            *)
THEOREM TypeCorrect == Spec => []TypeOK
<1>1. IInv => TypeOK
  BY DEF IInv
<1>. QED
  BY <1>1, Invariance, PTL

(* Every attempt begun is charged or was the re-prompt of one gate, and no   *)
(* gate fires above its cap (agent.py:162-164): never more than max_attempts *)
(* plus the sum of the caps attempts are begun.                              *)
THEOREM Accounted == Spec => [](Accounting /\ started <= MaxAttempts + 8 * RetryCap + SubjectCap)
<1>1. IInv => Accounting /\ started <= MaxAttempts + 8 * RetryCap + SubjectCap
  <2>. SUFFICES ASSUME IInv PROVE started <= MaxAttempts + 8 * RetryCap + SubjectCap
    BY DEF IInv
  <2>1. /\ started = attempt_no + Spent /\ attempt_no \in 0 .. MaxAttempts
        /\ retries \in [Counters -> Nat]
        /\ \A c \in Counters : retries[c] <= (IF c = "subject" THEN SubjectCap ELSE RetryCap)
    BY DEF IInv, TypeOK, Accounting
  <2>2. \A c \in Counters : retries[c] \in Nat
    BY <2>1
  <2>3. Spent \in Nat /\ Spent <= 8 * RetryCap + SubjectCap
    BY <2>1, <2>2 DEF Spent, Counters
  <2>. QED
    BY <2>1, <2>3
<1>. QED
  BY <1>1, Invariance, PTL

(* The token ceiling of a case is overrun by less than one reply             *)
(* (agent.py:430-431).                                                       *)
THEOREM SpendCeiling == Spec => []SpendBounded
<1>1. IInv => SpendBounded
  BY DEF IInv
<1>. QED
  BY <1>1, Invariance, PTL

(* No case is correct without rows, in the attempt that gave the answer, and *)
(* an answer that scores (agent.py:243-270).                                 *)
THEOREM Grounding == Spec => []CorrectIsGrounded
<1>1. IInv => CorrectIsGrounded
  BY DEF IInv
<1>. QED
  BY <1>1, Invariance, PTL

(* A wrong answer stands only when its re-prompts, the time or the tokens    *)
(* are used up (reprompt.py:386, agent.py:162-164).                          *)
THEOREM RetriesFirst == Spec => []WrongOnlyAfterRetries
<1>1. IInv => WrongOnlyAfterRetries
  BY DEF IInv
<1>. QED
  BY <1>1, Invariance, PTL

-----------------------------------------------------------------------------
(* The guards.                                                               *)

(* A repaired query keeps its branches, one for one.                         *)
LEMMA RepairedBranches ==
  ASSUME NEW n \in DOMAIN Query, Len(Query[n].branches) = 1
  PROVE  /\ DOMAIN Repaired[n].branches = {1}
         /\ Triples(Repaired[n]) = ToSet(Repaired[n].branches[1])
<1>1. DOMAIN Query[n].branches = {1}
  BY QueryAssumption
<1>2. DOMAIN Repaired[n].branches = {1}
  <2>1. "branches" \in DOMAIN Query[n]
    BY QueryAssumption
  <2>. QED
    BY <1>1, <2>1 DEF Repaired, autoprefix
<1>. QED
  BY <1>2 DEF Triples

(* A name stands for one IRI, a variable for none.                           *)
LEMMA ExpandOne ==
  ASSUME NEW t, NEW q, NEW x \in Expand(t, q)
  PROVE  Expand(t, q) = {x} /\ ~IsVar(t)
BY DEF Expand, IsVar

(* A pattern solved is a triple of the data with the pattern's names in it.  *)
LEMMA SolvedTriple ==
  ASSUME NEW T, NEW q, Solves(T, q), NEW u \in T
  PROVE  \E d \in Data : \A i \in {1, 2, 3} : \A x \in Expand(u[i], q) : d[i] = x
<1>. DEFINE V == {v \in UNION {{t[1], t[2], t[3]} : t \in T} : IsVar(v)}
            val(t, s) == IF IsVar(t) THEN {s[t]} ELSE Expand(t, q)
<1>1. PICK s \in [V -> Nodes] :
        \A t \in T : (val(t[1], s) \X val(t[2], s) \X val(t[3], s)) \cap Data # {}
  BY DEF Solves
<1>2. PICK d \in Data : d \in val(u[1], s) \X val(u[2], s) \X val(u[3], s)
  BY <1>1
<1>3. d[1] \in val(u[1], s) /\ d[2] \in val(u[2], s) /\ d[3] \in val(u[3], s)
  <2>. HIDE DEF val
  <2>. QED
    BY <1>2
<1>4. ASSUME NEW i \in {1, 2, 3}, NEW x \in Expand(u[i], q) PROVE d[i] = x
  <2>1. d[i] \in val(u[i], s)
    BY <1>3
  <2>. QED
    BY <2>1, ExpandOne
<1>. QED
  BY <1>4

(* A term one of the asking guards wants to know of is a term of a query     *)
(* that has rows: it occurs where the guard looks for it.                    *)
LEMMA SolvedSuspect ==
  ASSUME NEW n \in DOMAIN Query, Len(Query[n].branches) = 1, HasRows(Repaired[n]),
         NEW c \in Suspects(Repaired[n])
  PROVE  ~Missing(c)
<1>. DEFINE q == Repaired[n]
            T == Triples(q)
<1>1. Solves(T, q)
  BY RepairedBranches DEF HasRows
<1>2. CASE c[1] = "class"
  <2>1. c[2] \in ClassTerms(q)
    BY <1>2 DEF Suspects, SuspectClasses
  <2>2. PICK u \in T : c[2] \in Expand(u[1], q) \/ c[2] \in Expand(u[3], q)
    <3>. HIDE DEF q
    <3>1. CASE c[2] \in UNION {Expand(t[3], q) : t \in {v \in Triples(q) : v[2] \in {Type, SubClassOf}}}
      BY <3>1
    <3>2. CASE c[2] \in UNION {Expand(t[1], q) : t \in {v \in Triples(q) : v[2] = SubClassOf}}
      BY <3>2
    <3>. QED
      BY <2>1, <3>1, <3>2 DEF ClassTerms
  <2>3. \E d \in Data : d[1] = c[2] \/ d[3] = c[2]
    <3>. HIDE DEF T, q
    <3>. QED
      BY <1>1, <2>2, SolvedTriple
  <2>. QED
    BY <1>2, <2>3 DEF Missing, Occurs
<1>3. CASE c[1] # "class"
  <2>1. c[2] \in PredicateTerms(q)
    BY <1>3 DEF Suspects, SuspectPredicates
  <2>2. PICK u \in T : c[2] \in Expand(u[2], q)
    BY <2>1 DEF PredicateTerms
  <2>3. \E d \in Data : d[2] = c[2]
    <3>. HIDE DEF T, q
    <3>. QED
      BY <1>1, <2>2, SolvedTriple
  <2>. QED
    BY <1>3, <2>3 DEF Missing, OccursAsPredicate
<1>. QED
  BY <1>2, <1>3

(* A query without UNION branches that the class or predicate guard holds    *)
(* back would have returned nothing, whatever probes failed before           *)
(* (classcheck.py:134-207, predicatecheck.py:187-259).                       *)
THEOREM GuardsAreRight == Spec => []BlockedIsEmpty
<1>1. IInv => BlockedIsEmpty
  <2>. SUFFICES ASSUME AbsentInv, NEW n \in GivesRows, Len(Query[n].branches) = 1,
                       BlockedBy(Repaired[n], absent) \in {"class", "predicate"}
                PROVE  FALSE
    BY DEF IInv, BlockedIsEmpty
  <2>1. n \in DOMAIN Query /\ HasRows(Repaired[n])
    BY DEF GivesRows
  <2>2. PICK c \in Suspects(Repaired[n]) : c \in absent
    BY DEF BlockedBy, Suspects
  <2>3. Missing(c)
    BY <2>2 DEF AbsentInv
  <2>. QED
    BY <2>1, <2>3, SolvedSuspect
<1>. QED
  BY <1>1, Invariance, PTL

-----------------------------------------------------------------------------
(* The gates and a right answer.                                             *)

(* Induction, as a fact about sets of numbers.                               *)
LEMMA AllNumbers ==
  ASSUME NEW S \in SUBSET Nat, 0 \in S, \A n \in S : n + 1 \in S
  PROVE  S = Nat
<1>. SUFFICES ASSUME Nat \ S # {} PROVE FALSE
  OBVIOUS
<1>1. Min(Nat \ S) \in Nat \ S /\ \A y \in Nat \ S : Min(Nat \ S) <= y
  <2>1. Nat \ S \in SUBSET Nat
    OBVIOUS
  <2>. QED
    BY <2>1, MinIn
<1>. DEFINE m == Min(Nat \ S)
<1>. HIDE DEF m
<1>2. m \in Nat \ S /\ \A y \in Nat \ S : m <= y
  BY <1>1 DEF m
<1>3. m # 0 /\ m - 1 \in Nat /\ m - 1 \notin Nat \ S
  BY <1>2
<1>4. (m - 1) + 1 \in S
  BY <1>3
<1>. QED
  BY <1>2, <1>4

(* f is computed over the subsets of S by taking out c[s] of each s.         *)
FoldsBy(f, S, base, c, Step) ==
  \A s \in SUBSET S : f[s] = IF s = {} THEN base ELSE Step[<<c[s], f[s \ {c[s]}]>>]

(* A recursion over the subsets of a finite set has a value at each of them. *)
LEMMA SubsetRecursion ==
  ASSUME NEW S, IsFiniteSet(S), NEW V, NEW base \in V,
         NEW c \in [(SUBSET S) \ {{}} -> S], \A s \in (SUBSET S) \ {{}} : c[s] \in s,
         NEW Step \in [S \X V -> V]
  PROVE  \E f \in [SUBSET S -> V] : FoldsBy(f, S, base, c, Step)
<1>. DEFINE upto(k) == {s \in SUBSET S : Cardinality(s) <= k}
            next(f, s) == IF s = {} THEN base ELSE Step[<<c[s], f[s \ {c[s]}]>>]
            N == {k \in Nat : \E f \in [upto(k) -> V] : \A s \in upto(k) : f[s] = next(f, s)}
<1>1. \A s \in SUBSET S : /\ IsFiniteSet(s) /\ Cardinality(s) \in Nat
                          /\ Cardinality(s) = 0 <=> s = {}
                          /\ s # {} => /\ s \ {c[s]} \in SUBSET S
                                       /\ Cardinality(s \ {c[s]}) = Cardinality(s) - 1
  BY FS_Subset, FS_CardinalityType, FS_EmptySet, FS_RemoveElement
<1>0. \A k : k \in N <=> k \in Nat /\ \E f \in [upto(k) -> V] : \A s \in upto(k) : f[s] = next(f, s)
  <2>. HIDE DEF upto, next
  <2>. QED
    OBVIOUS
<1>2. 0 \in N
  <2>1. upto(0) = {{}}
    <3>1. ASSUME NEW s \in SUBSET S PROVE Cardinality(s) <= 0 <=> s = {}
      <4>1. Cardinality(s) \in Nat /\ (Cardinality(s) = 0 <=> s = {})
        BY <1>1
      <4>. QED
        BY <4>1
    <3>2. {} \in SUBSET S
      OBVIOUS
    <3>. QED
      BY <3>1, <3>2
  <2>2. [s \in {{}} |-> base] \in [{{}} -> V]
    OBVIOUS
  <2>3. next([s \in {{}} |-> base], {}) = base
    OBVIOUS
  <2>. HIDE DEF upto, next
  <2>4. \A s \in upto(0) : [r \in {{}} |-> base][s] = next([r \in {{}} |-> base], s)
    BY <2>1, <2>3
  <2>. QED
    BY <1>0, <2>1, <2>2, <2>4
<1>3. ASSUME NEW k \in N PROVE k + 1 \in N
  <2>1. PICK f \in [upto(k) -> V] : \A s \in upto(k) : f[s] = next(f, s)
    BY <1>3
  <2>2. ASSUME NEW s \in upto(k + 1), s # {}
        PROVE  s \ {c[s]} \in upto(k) /\ c[s] \in S
    <3>1. /\ s \in SUBSET S /\ Cardinality(s) \in Nat /\ Cardinality(s) <= k + 1
          /\ s \ {c[s]} \in SUBSET S /\ Cardinality(s \ {c[s]}) = Cardinality(s) - 1
      BY <1>1, <2>2
    <3>2. c[s] \in s
      BY <2>2, <3>1
    <3>. QED
      BY <3>1, <3>2
  <2>3. ASSUME NEW s \in upto(k + 1) PROVE next(f, s) \in V
    <3>1. CASE s = {}
      BY <3>1
    <3>2. CASE s # {}
      <4>1. f[s \ {c[s]}] \in V /\ c[s] \in S
        BY <2>1, <2>2, <3>2
      <4>. QED
        BY <3>2, <4>1
    <3>. QED
      BY <3>1, <3>2
  <2>. DEFINE g == [s \in upto(k + 1) |-> next(f, s)]
  <2>4. g \in [upto(k + 1) -> V]
    <3>. HIDE DEF upto, next
    <3>. QED
      BY <2>3
  <2>5. upto(k) \subseteq upto(k + 1)
    <3>. SUFFICES ASSUME NEW s \in SUBSET S, Cardinality(s) <= k PROVE Cardinality(s) <= k + 1
      OBVIOUS
    <3>1. Cardinality(s) \in Nat
      BY <1>1
    <3>. QED
      BY <3>1
  <2>6. \A s \in upto(k) : g[s] = f[s]
    <3>. HIDE DEF upto, next
    <3>. QED
      BY <2>1, <2>5
  <2>7. ASSUME NEW s \in upto(k + 1) PROVE g[s] = next(g, s)
    <3>1. g[s] = next(f, s)
      BY <2>7
    <3>. HIDE DEF g
    <3>2. CASE s = {}
      BY <3>1, <3>2
    <3>3. CASE s # {}
      <4>1. s \ {c[s]} \in upto(k)
        BY <2>2, <3>3
      <4>2. g[s \ {c[s]}] = f[s \ {c[s]}]
        BY <2>6, <4>1
      <4>. QED
        BY <3>1, <3>3, <4>2
    <3>. QED
      BY <3>2, <3>3
  <2>8. \E h \in [upto(k + 1) -> V] : \A s \in upto(k + 1) : h[s] = next(h, s)
    <3>. HIDE DEF g, upto, next
    <3>. QED
      BY <2>4, <2>7
  <2>. HIDE DEF upto, next, N
  <2>9. k \in Nat
    BY <1>0
  <2>. QED
    BY <1>0, <2>8, <2>9
<1>4. N = Nat
  <2>. HIDE DEF N
  <2>1. N \in SUBSET Nat
    BY DEF N
  <2>. QED
    BY <1>2, <1>3, <2>1, AllNumbers
<1>5. upto(Cardinality(S)) = SUBSET S /\ Cardinality(S) \in Nat
  BY FS_Subset, FS_CardinalityType
<1>6. PICK f \in [SUBSET S -> V] : \A s \in SUBSET S : f[s] = next(f, s)
  <2>1. Cardinality(S) \in N
    BY <1>4, <1>5
  <2>2. PICK f \in [upto(Cardinality(S)) -> V] : \A s \in upto(Cardinality(S)) : f[s] = next(f, s)
    <3>. HIDE DEF upto, next
    <3>. QED
      BY <2>1
  <2>. HIDE DEF upto, next
  <2>. QED
    BY <1>5, <2>2
<1>. QED
  BY <1>6 DEF FoldsBy

(* A finite set of numbers, not empty, has a greatest one, and Max is it.    *)
LEMMA MaxIn ==
  ASSUME NEW n \in Nat, NEW S \in SUBSET (1 .. n), S # {}
  PROVE  Max(S) \in S /\ \A y \in S : Max(S) >= y
<1>. DEFINE R == {n - x : x \in S}
<1>0. \A x \in S : x \in 1 .. n /\ n - x \in Nat
  OBVIOUS
<1>1. R \in SUBSET Nat /\ R # {}
  BY <1>0
<1>2. PICK r \in R : \A y \in R : r <= y
  <2>. HIDE DEF R
  <2>. QED
    BY <1>1, MinIn
<1>3. PICK x \in S : r = n - x
  BY <1>2
<1>4. ASSUME NEW y \in S PROVE x >= y
  <2>1. n - y \in R /\ n - x <= n - y
    BY <1>2, <1>3
  <2>. QED
    BY <1>0, <2>1
<1>. QED
  BY <1>4 DEF Max

FoldsDown(f, n, V, base, Step) ==
  /\ f[{}] = base
  /\ \A I \in (SUBSET (1 .. n)) \ {{}} :
       /\ Max(I) \in 1 .. n /\ f[I \ {Max(I)}] \in V
       /\ f[I] = Step[<<Max(I), f[I \ {Max(I)}]>>]

(* A fold over 1 .. n from its greatest element down has a value.            *)
LEMMA MaxRecursion ==
  ASSUME NEW n \in Nat, NEW V, NEW base \in V, NEW Step \in [(1 .. n) \X V -> V]
  PROVE  \E f \in [SUBSET (1 .. n) -> V] :
           FoldsDown(f, n, V, base, Step)
<1>. DEFINE D == 1 .. n
            c == [I \in (SUBSET D) \ {{}} |-> Max(I)]
<1>1. \A I \in (SUBSET D) \ {{}} : Max(I) \in I
  BY MaxIn
<1>2. IsFiniteSet(D) /\ Step \in [D \X V -> V]
  BY FS_Interval
<1>. HIDE DEF D
<1>3. /\ c \in [(SUBSET D) \ {{}} -> D]
      /\ \A I \in (SUBSET D) \ {{}} : c[I] = Max(I) /\ c[I] \in I
  BY <1>1
<1>. HIDE DEF c
<1>4. PICK f \in [SUBSET D -> V] : FoldsBy(f, D, base, c, Step)
  BY <1>2, <1>3, SubsetRecursion
<1>5. f[{}] = base
  BY <1>4 DEF FoldsBy
<1>6. ASSUME NEW I \in (SUBSET D) \ {{}}
      PROVE  /\ Max(I) \in D /\ f[I \ {Max(I)}] \in V
             /\ f[I] = Step[<<Max(I), f[I \ {Max(I)}]>>]
  BY <1>1, <1>3, <1>4 DEF FoldsBy
<1>. QED
  BY <1>4, <1>5, <1>6 DEF D, FoldsDown

(* A sequence is folded one prefix of its domain after the other.            *)
LEMMA FirstOnes ==
  ASSUME NEW n \in Nat, NEW k \in 1 .. n
  PROVE  /\ (1 .. k) \in SUBSET (1 .. n)
         /\ (1 .. k) # {}
         /\ Max(1 .. k) = k
         /\ (1 .. k) \ {k} = 1 .. (k - 1)
<1>1. (1 .. k) \in SUBSET (1 .. k) /\ (1 .. k) # {} /\ k \in 1 .. k /\ k \in Nat
  OBVIOUS
<1>2. Max(1 .. k) \in 1 .. k /\ Max(1 .. k) >= k
  BY <1>1, MaxIn
<1>3. Max(1 .. k) = k
  <2>1. ASSUME NEW m \in 1 .. k, m >= k PROVE m = k
    BY <1>1, <2>1
  <2>. QED
    BY <1>2, <2>1
<1>4. (1 .. k) \in SUBSET (1 .. n)
  OBVIOUS
<1>5. (1 .. k) \ {k} = 1 .. (k - 1)
  OBVIOUS
<1>. QED
  BY <1>1, <1>3, <1>4, <1>5

(* What holds of {} and after each step holds of every prefix.               *)
LEMMA FoldStays ==
  ASSUME NEW n \in Nat, NEW F, NEW V, F[{}] \in V,
         \A k \in 1 .. n : F[1 .. k - 1] \in V => F[1 .. k] \in V
  PROVE  \A k \in 0 .. n : F[1 .. k] \in V
<1>. DEFINE S == {k \in Nat : k <= n => F[1 .. k] \in V}
<1>1. 0 \in S
  <2>1. 1 .. 0 = {}
    OBVIOUS
  <2>. QED
    BY <2>1
<1>2. ASSUME NEW k \in S PROVE k + 1 \in S
  <2>. SUFFICES ASSUME k + 1 <= n PROVE F[1 .. k + 1] \in V
    OBVIOUS
  <2>1. F[1 .. k] \in V /\ k + 1 \in 1 .. n /\ (k + 1) - 1 = k
    BY <1>2
  <2>. QED
    BY <2>1
<1>3. S = Nat
  <2>. HIDE DEF S
  <2>1. S \in SUBSET Nat
    BY DEF S
  <2>. QED
    BY <1>1, <1>2, <2>1, AllNumbers
<1>. QED
  BY <1>3

(* Appending adds one element.                                               *)
LEMMA AppendSet ==
  ASSUME NEW T, NEW r \in Seq(T), NEW x \in T
  PROVE  ToSet(Append(r, x)) = ToSet(r) \cup {x}
<1>1. /\ DOMAIN r = 1 .. Len(r) /\ Len(r) \in Nat /\ DOMAIN Append(r, x) = 1 .. Len(r) + 1
      /\ Append(r, x)[Len(r) + 1] = x /\ \A i \in 1 .. Len(r) : Append(r, x)[i] = r[i]
  OBVIOUS
<1>2. DOMAIN Append(r, x) = DOMAIN r \cup {Len(r) + 1} /\ Len(r) + 1 \notin DOMAIN r
  BY <1>1
<1>. QED
  BY <1>1, <1>2 DEF ToSet

(* Known keeps what is given and drops what is not.                          *)
LEMMA KnownSet ==
  ASSUME NEW T, NEW s \in Seq(T)
  PROVE  Known(s) \in Seq(T) /\ ToSet(Known(s)) = ToSet(s) \ {Null}
<1>. DEFINE n == Len(s)
            V == Seq(T)
            one(x, r) == IF s[x] = Null THEN r ELSE Append(r, s[x])
            next(f, I) == IF I = {} THEN <<>> ELSE one(Max(I), f[I \ {Max(I)}])
            F == CHOOSE f : f = [I \in SUBSET (1 .. n) |-> next(f, I)]
<1>0. n \in Nat /\ DOMAIN s = 1 .. n
  OBVIOUS
<1>1. Known(s) = F[1 .. n]
  <2>1. Known(s) = (CHOOSE f : f = [I \in SUBSET DOMAIN s |-> next(f, I)])[DOMAIN s]
    BY DEF Known, FoldLeft, MapThenFoldSet
  <2>. HIDE DEF n, next
  <2>. QED
    BY <1>0, <2>1
<1>8. \A x \in 1 .. n : \A r \in V : one(x, r) \in V
  OBVIOUS
<1>. HIDE DEF n
<1>2. F = [I \in SUBSET (1 .. n) |-> next(F, I)]
  <2>. DEFINE Step == [x \in (1 .. n) \X V |-> one(x[1], x[2])]
  <2>1. <<>> \in V
    OBVIOUS
  <2>2. Step \in [(1 .. n) \X V -> V]
    <3>. HIDE DEF one, V
    <3>. QED
      BY <1>8
  <2>. HIDE DEF V, Step, one
  <2>3. PICK f \in [SUBSET (1 .. n) -> V] :
          /\ f[{}] = <<>>
          /\ \A I \in (SUBSET (1 .. n)) \ {{}} :
               /\ Max(I) \in 1 .. n /\ f[I \ {Max(I)}] \in V
               /\ f[I] = Step[<<Max(I), f[I \ {Max(I)}]>>]
    <3>. DEFINE e == <<>>
    <3>. HIDE DEF e
    <3>1. e \in V
      BY <2>1 DEF e
    <3>2. \E f \in [SUBSET (1 .. n) -> V] : FoldsDown(f, n, V, e, Step)
      BY <1>0, <2>2, <3>1, MaxRecursion
    <3>. QED
      BY <3>2 DEF e, FoldsDown
  <2>4. ASSUME NEW I \in SUBSET (1 .. n) PROVE f[I] = next(f, I)
    BY <2>3 DEF Step
  <2>8. f = [I \in SUBSET (1 .. n) |-> next(f, I)]
    <3>. HIDE DEF next
    <3>. QED
      BY <2>3, <2>4
  <2>. HIDE DEF next
  <2>. QED
    BY <2>8
<1>. HIDE DEF F
<1>3. F[{}] = <<>> /\ \A k \in 1 .. n : F[1 .. k] = one(k, F[1 .. k - 1])
  <2>1. {} \in SUBSET (1 .. n)
    OBVIOUS
  <2>2. F[{}] = next(F, {})
    BY <1>2, <2>1
  <2>3. ASSUME NEW k \in 1 .. n PROVE F[1 .. k] = one(k, F[1 .. k - 1])
    <3>1. (1 .. k) \in SUBSET (1 .. n) /\ (1 .. k) # {} /\ Max(1 .. k) = k /\ (1 .. k) \ {k} = 1 .. (k - 1)
      BY <1>0, FirstOnes
    <3>2. F[1 .. k] = next(F, 1 .. k)
      BY <1>2, <3>1
    <3>. HIDE DEF one
    <3>. QED
      BY <3>1, <3>2
  <2>. QED
    BY <2>2, <2>3
<1>4. \A k \in 0 .. n : F[1 .. k] \in V
  <2>1. \A k \in 1 .. n : F[1 .. k - 1] \in V => F[1 .. k] \in V
    <3>. HIDE DEF V, one
    <3>. QED
      BY <1>8, <1>3
  <2>2. F[{}] \in V
    BY <1>3
  <2>. HIDE DEF V
  <2>. QED
    BY <1>0, <2>1, <2>2, FoldStays
<1>5. \A k \in 0 .. n : ToSet(F[1 .. k]) = {s[i] : i \in 1 .. k} \ {Null}
  <2>. DEFINE G == [I \in SUBSET (1 .. n) |-> ToSet(F[I]) = {s[i] : i \in I} \ {Null}]
  <2>1. {} \in SUBSET (1 .. n) /\ \A k \in 0 .. n : 1 .. k \in SUBSET (1 .. n)
    BY <1>0
  <2>2. G[{}] = TRUE
    <3>1. ToSet(<<>>) = {}
      BY DEF ToSet
    <3>. QED
      BY <1>3, <2>1, <3>1
  <2>3. ASSUME NEW k \in 1 .. n, G[1 .. k - 1] = TRUE PROVE G[1 .. k] = TRUE
    <3>1. k - 1 \in 0 .. n /\ k \in 0 .. n
      BY <1>0
    <3>2. ToSet(F[1 .. k - 1]) = {s[i] : i \in 1 .. k - 1} \ {Null} /\ F[1 .. k - 1] \in V
      BY <1>4, <2>1, <2>3, <3>1
    <3>3. F[1 .. k] = one(k, F[1 .. k - 1])
      BY <1>3
    <3>4. {s[i] : i \in 1 .. k} = {s[i] : i \in 1 .. k - 1} \cup {s[k]}
      BY <1>0
    <3>5. ToSet(F[1 .. k]) = {s[i] : i \in 1 .. k} \ {Null}
      <4>1. CASE s[k] = Null
        BY <3>2, <3>3, <3>4, <4>1
      <4>2. CASE s[k] # Null
        <5>2. s[k] \in T
          BY <1>0
        <5>3. ToSet(F[1 .. k]) = ToSet(F[1 .. k - 1]) \cup {s[k]}
          BY <3>2, <3>3, <4>2, <5>2, AppendSet
        <5>. QED
          BY <3>2, <3>4, <4>2, <5>3
      <4>. QED
        BY <4>1, <4>2
    <3>. QED
      BY <2>1, <3>1, <3>5
  <2>4. \A k \in 0 .. n : G[1 .. k] \in {TRUE}
    <3>1. \A k \in 1 .. n : G[1 .. k - 1] \in {TRUE} => G[1 .. k] \in {TRUE}
      BY <2>3
    <3>2. G[{}] \in {TRUE}
      BY <2>2
    <3>. HIDE DEF G
    <3>. QED
      BY <1>0, <3>1, <3>2, FoldStays
  <2>. QED
    BY <2>1, <2>4
<1>6. n \in 0 .. n /\ ToSet(s) = {s[i] : i \in 1 .. n}
  BY <1>0 DEF ToSet
<1>. QED
  BY <1>0, <1>1, <1>4, <1>5, <1>6

(* What holds of {} and of every set once it holds of the set without one    *)
(* chosen element holds of every subset of a finite set.                     *)
LEMMA SubsetStays ==
  ASSUME NEW S, IsFiniteSet(S), NEW F, NEW V, NEW c, F[{}] \in V,
         \A s \in (SUBSET S) \ {{}} : c[s] \in s /\ (F[s \ {c[s]}] \in V => F[s] \in V)
  PROVE  \A s \in SUBSET S : F[s] \in V
<1>. DEFINE N == {k \in Nat : \A s \in SUBSET S : Cardinality(s) <= k => F[s] \in V}
<1>1. \A s \in SUBSET S : /\ IsFiniteSet(s) /\ Cardinality(s) \in Nat
                          /\ Cardinality(s) = 0 <=> s = {}
  BY FS_Subset, FS_CardinalityType, FS_EmptySet
<1>2. 0 \in N
  <2>. SUFFICES ASSUME NEW s \in SUBSET S, Cardinality(s) <= 0 PROVE F[s] \in V
    OBVIOUS
  <2>1. Cardinality(s) = 0
    BY <1>1
  <2>. QED
    BY <1>1, <2>1
<1>3. ASSUME NEW k \in N PROVE k + 1 \in N
  <2>. SUFFICES ASSUME NEW s \in SUBSET S, Cardinality(s) <= k + 1 PROVE F[s] \in V
    OBVIOUS
  <2>1. CASE s = {}
    BY <2>1
  <2>2. CASE s # {}
    <3>1. c[s] \in s /\ s \ {c[s]} \in SUBSET S
      BY <2>2
    <3>2. Cardinality(s \ {c[s]}) = Cardinality(s) - 1
      BY <1>1, <3>1, FS_RemoveElement
    <3>3. Cardinality(s \ {c[s]}) <= k
      BY <1>1, <3>2
    <3>4. F[s \ {c[s]}] \in V
      BY <3>1, <3>3
    <3>. QED
      BY <2>2, <3>4
  <2>. QED
    BY <2>1, <2>2
<1>4. N = Nat
  <2>. HIDE DEF N
  <2>1. N \in SUBSET Nat
    BY DEF N
  <2>. QED
    BY <1>2, <1>3, <2>1, AllNumbers
<1>. SUFFICES ASSUME NEW s \in SUBSET S PROVE F[s] \in V
  OBVIOUS
<1>5. Cardinality(s) \in N /\ Cardinality(s) \in Nat
  BY <1>1, <1>4
<1>. QED
  BY <1>5

(* The sum of natural numbers is one.                                        *)
LEMMA SumIsNat ==
  ASSUME NEW I, IsFiniteSet(I), NEW f, \A x \in I : f[x] \in Nat
  PROVE  SumFunctionOnSet(f, I) \in Nat
<1>. DEFINE pick(s) == CHOOSE x \in s : TRUE
            next(g, s) == IF s = {} THEN 0 ELSE f[pick(s)] + g[s \ {pick(s)}]
            F == CHOOSE g : g = [s \in SUBSET I |-> next(g, s)]
            c == [s \in (SUBSET I) \ {{}} |-> pick(s)]
            Step == [x \in I \X Nat |-> f[x[1]] + x[2]]
<1>1. SumFunctionOnSet(f, I) = F[I]
  BY DEF SumFunctionOnSet, FoldFunctionOnSet, MapThenFoldSet
<1>2. IsFiniteSet(I)
  OBVIOUS
<1>3. \A s \in (SUBSET I) \ {{}} : pick(s) \in s /\ pick(s) \in I /\ c[s] = pick(s)
  OBVIOUS
<1>4. c \in [(SUBSET I) \ {{}} -> I]
  BY <1>3
<1>5. Step \in [I \X Nat -> Nat]
  <2>1. ASSUME NEW x \in I \X Nat PROVE f[x[1]] + x[2] \in Nat
    <3>1. x[1] \in I /\ x[2] \in Nat
      OBVIOUS
    <3>2. f[x[1]] \in Nat
      BY <3>1
    <3>. QED
      BY <3>1, <3>2
  <2>. QED
    BY <2>1
<1>. HIDE DEF pick, c
<1>6. F = [s \in SUBSET I |-> next(F, s)]
  <2>1. PICK g \in [SUBSET I -> Nat] : FoldsBy(g, I, 0, c, Step)
    <3>. DEFINE e == 0
                V == Nat
    <3>1. (\A s \in (SUBSET I) \ {{}} : c[s] \in s) /\ e \in V /\ Step \in [I \X V -> V]
      BY <1>3, <1>5
    <3>. HIDE DEF Step, e, V
    <3>2. \E g \in [SUBSET I -> V] : FoldsBy(g, I, e, c, Step)
      BY <1>2, <1>4, <3>1, SubsetRecursion
    <3>. QED
      BY <3>2 DEF e, V
  <2>2. ASSUME NEW s \in SUBSET I PROVE g[s] = next(g, s)
    <3>1. CASE s = {}
      BY <2>1, <3>1 DEF FoldsBy
    <3>2. CASE s # {}
      <4>1. g[s] = Step[<<c[s], g[s \ {c[s]}]>>] /\ c[s] = pick(s) /\ pick(s) \in I
        BY <1>3, <2>1, <3>2 DEF FoldsBy
      <4>2. g[s \ {pick(s)}] \in Nat
        BY <2>1
      <4>. QED
        BY <3>2, <4>1, <4>2
    <3>. QED
      BY <3>1, <3>2
  <2>3. g = [s \in SUBSET I |-> next(g, s)]
    <3>. HIDE DEF next
    <3>. QED
      BY <2>1, <2>2
  <2>. HIDE DEF next
  <2>. QED
    BY <2>3
<1>. HIDE DEF F
<1>7. F[{}] \in Nat
  BY <1>6
<1>8. \A s \in (SUBSET I) \ {{}} : c[s] \in s /\ (F[s \ {c[s]}] \in Nat => F[s] \in Nat)
  <2>. SUFFICES ASSUME NEW s \in (SUBSET I) \ {{}}, F[s \ {c[s]}] \in Nat PROVE F[s] \in Nat
    BY <1>3
  <2>1. F[s] = f[pick(s)] + F[s \ {pick(s)}]
    BY <1>6
  <2>2. f[pick(s)] \in Nat /\ pick(s) = c[s]
    BY <1>3
  <2>. QED
    BY <2>1, <2>2
<1>9. \A s \in SUBSET I : F[s] \in Nat
  BY <1>2, <1>7, <1>8, SubsetStays
<1>. QED
  BY <1>1, <1>9

(* What is left of a sequence without one of its elements was in it.         *)
LEMMA RemoveAtKeeps ==
  ASSUME NEW T, NEW r \in Seq(T), NEW j \in DOMAIN r
  PROVE  RemoveAt(r, j) \in Seq(T) /\ ToSet(RemoveAt(r, j)) \subseteq ToSet(r)
<1>1. Len(r) \in Nat /\ j \in 1 .. Len(r) /\ DOMAIN r = 1 .. Len(r)
  OBVIOUS
<1>. DEFINE a == SubSeq(r, 1, j - 1)
            b == SubSeq(r, j + 1, Len(r))
<1>2. /\ a \in Seq(T) /\ Len(a) = j - 1
      /\ \A i \in 1 .. j - 1 : a[i] = r[i]
  BY <1>1
<1>3. /\ b \in Seq(T) /\ Len(b) = Len(r) - j
      /\ \A i \in 1 .. Len(r) - j : b[i] = r[i + j]
  BY <1>1
<1>4. RemoveAt(r, j) = a \o b
  BY DEF RemoveAt
<1>. HIDE DEF a, b
<1>5. a \o b \in Seq(T) /\ DOMAIN (a \o b) = 1 .. Len(r) - 1
  <2>1. a \o b \in Seq(T) /\ Len(a \o b) = Len(a) + Len(b)
    <3>1. \A p, q \in Seq(T) : p \o q \in Seq(T) /\ Len(p \o q) = Len(p) + Len(q)
      OBVIOUS
    <3>. QED
      BY <1>2, <1>3, <3>1
  <2>2. Len(a \o b) = Len(r) - 1
    BY <1>1, <1>2, <1>3, <2>1
  <2>3. \A q \in Seq(T) : DOMAIN q = 1 .. Len(q)
    OBVIOUS
  <2>. QED
    BY <2>1, <2>2, <2>3
<1>6. ASSUME NEW i \in 1 .. Len(r) - 1 PROVE (a \o b)[i] \in ToSet(r)
  <2>1. CASE i <= j - 1
    <3>1. (a \o b)[i] = r[i] /\ i \in DOMAIN r
      BY <1>1, <1>2, <1>3, <2>1
    <3>. QED
      BY <3>1 DEF ToSet
  <2>2. CASE i > j - 1
    <3>1. (a \o b)[i] = b[i - (j - 1)] /\ i - (j - 1) \in 1 .. Len(r) - j
      <4>1. i \in 1 .. Len(a) + Len(b) /\ i > Len(a) /\ i - Len(a) \in 1 .. Len(r) - j
        BY <1>1, <1>2, <1>3, <2>2
      <4>2. \A p, q \in Seq(T) : \A k \in 1 .. Len(p) + Len(q) :
              k > Len(p) => (p \o q)[k] = q[k - Len(p)]
        OBVIOUS
      <4>. QED
        BY <1>2, <1>3, <4>1, <4>2
    <3>2. b[i - (j - 1)] = r[i + 1] /\ i + 1 \in DOMAIN r
      BY <1>1, <1>3, <3>1
    <3>. QED
      BY <3>1, <3>2 DEF ToSet
  <2>3. i <= j - 1 \/ i > j - 1
    BY <1>1
  <2>. QED
    BY <2>1, <2>2, <2>3
<1>. QED
  BY <1>4, <1>5, <1>6 DEF ToSet

(* A number expected takes one of the numbers left.                          *)
LEMMA TakeOne ==
  ASSUME NEW T, NEW r \in Seq(T), NEW w, Take(r, w) # <<Null>>
  PROVE  /\ r # <<Null>>
         /\ Take(r, w) \in Seq(T) /\ ToSet(Take(r, w)) \subseteq ToSet(r)
         /\ \E x \in ToSet(r) : Close(x, w)
<1>. DEFINE hits == {i \in DOMAIN r : Close(r[i], w)}
<1>1. r # <<Null>> /\ hits # {} /\ Take(r, w) = RemoveAt(r, Min(hits))
  BY DEF Take
<1>2. hits \in SUBSET Nat
  OBVIOUS
<1>3. Min(hits) \in hits
  <2>. HIDE DEF hits
  <2>. QED
    BY <1>1, <1>2, MinIn
<1>4. Min(hits) \in DOMAIN r /\ Close(r[Min(hits)], w)
  BY <1>3
<1>5. r[Min(hits)] \in ToSet(r)
  BY <1>4 DEF ToSet
<1>. HIDE DEF hits
<1>6. RemoveAt(r, Min(hits)) \in Seq(T) /\ ToSet(RemoveAt(r, Min(hits))) \subseteq ToSet(r)
  BY <1>4, RemoveAtKeeps
<1>. QED
  BY <1>1, <1>4, <1>5, <1>6

(* When every expected number is matched, each has an answer close to it.    *)
LEMMA MatchedClose ==
  ASSUME NEW T, NEW got \in Seq(T), NEW W, NEW want \in Seq(W),
         Unmatched(got, want) # <<Null>>, NEW i \in DOMAIN want
  PROVE  \E x \in ToSet(got) : Close(x, want[i])
<1>. DEFINE n == Len(want)
            V == {r \in Seq(T) : ToSet(r) \subseteq ToSet(got)} \cup {<<Null>>}
            one(x, r) == Take(r, want[x])
            next(f, I) == IF I = {} THEN got ELSE one(Max(I), f[I \ {Max(I)}])
            F == CHOOSE f : f = [I \in SUBSET (1 .. n) |-> next(f, I)]
<1>0. n \in Nat /\ DOMAIN want = 1 .. n
  OBVIOUS
<1>1. Unmatched(got, want) = F[1 .. n]
  <2>1. Unmatched(got, want) = (CHOOSE f : f = [I \in SUBSET DOMAIN want |-> next(f, I)])[DOMAIN want]
    BY DEF Unmatched, FoldLeft, MapThenFoldSet
  <2>. HIDE DEF n, next
  <2>. QED
    BY <1>0, <2>1
<1>2. \A x \in 1 .. n : \A r \in V : one(x, r) \in V
  <2>. SUFFICES ASSUME NEW x \in 1 .. n, NEW r \in V, Take(r, want[x]) # <<Null>>
                PROVE  Take(r, want[x]) \in V
    OBVIOUS
  <2>1. CASE r = <<Null>>
    BY <2>1 DEF Take
  <2>2. CASE r # <<Null>>
    <3>1. r \in Seq(T) /\ ToSet(r) \subseteq ToSet(got)
      BY <2>2
    <3>2. Take(r, want[x]) \in Seq(T) /\ ToSet(Take(r, want[x])) \subseteq ToSet(r)
      BY <3>1, TakeOne
    <3>. QED
      BY <3>1, <3>2
  <2>. QED
    BY <2>1, <2>2
<1>3. got \in V
  OBVIOUS
<1>. HIDE DEF n, V
<1>4. F = [I \in SUBSET (1 .. n) |-> next(F, I)]
  <2>. DEFINE Step == [x \in (1 .. n) \X V |-> one(x[1], x[2])]
  <2>1. Step \in [(1 .. n) \X V -> V]
    <3>. HIDE DEF one
    <3>. QED
      BY <1>2
  <2>. HIDE DEF Step, one
  <2>2. PICK f \in [SUBSET (1 .. n) -> V] : FoldsDown(f, n, V, got, Step)
    BY <1>0, <1>3, <2>1, MaxRecursion
  <2>3. ASSUME NEW I \in SUBSET (1 .. n) PROVE f[I] = next(f, I)
    BY <2>2 DEF Step, FoldsDown
  <2>4. f = [I \in SUBSET (1 .. n) |-> next(f, I)]
    <3>. HIDE DEF next
    <3>. QED
      BY <2>2, <2>3
  <2>. HIDE DEF next
  <2>. QED
    BY <2>4
<1>. HIDE DEF F
<1>5. F[{}] = got /\ \A k \in 1 .. n : F[1 .. k] = one(k, F[1 .. k - 1])
  <2>1. {} \in SUBSET (1 .. n)
    OBVIOUS
  <2>2. F[{}] = next(F, {})
    BY <1>4, <2>1
  <2>3. ASSUME NEW k \in 1 .. n PROVE F[1 .. k] = one(k, F[1 .. k - 1])
    <3>1. (1 .. k) \in SUBSET (1 .. n) /\ (1 .. k) # {} /\ Max(1 .. k) = k /\ (1 .. k) \ {k} = 1 .. (k - 1)
      BY <1>0, FirstOnes
    <3>2. F[1 .. k] = next(F, 1 .. k)
      BY <1>4, <3>1
    <3>. HIDE DEF one
    <3>. QED
      BY <3>1, <3>2
  <2>. QED
    BY <2>2, <2>3
<1>6. \A k \in 0 .. n : F[1 .. k] \in V
  <2>1. \A k \in 1 .. n : F[1 .. k - 1] \in V => F[1 .. k] \in V
    <3>. HIDE DEF one
    <3>. QED
      BY <1>2, <1>5
  <2>2. F[{}] \in V
    BY <1>3, <1>5
  <2>. QED
    BY <1>0, <2>1, <2>2, FoldStays
<1>7. F[1 .. i] # <<Null>>
  <2>. SUFFICES ASSUME F[1 .. i] = <<Null>> PROVE F[1 .. n] = <<Null>>
    BY <1>1
  <2>. DEFINE G == [I \in SUBSET (1 .. n) |-> IF i \in I THEN F[I] ELSE <<Null>>]
  <2>1. {} \in SUBSET (1 .. n) /\ \A k \in 0 .. n : (1 .. k) \in SUBSET (1 .. n)
    BY <1>0
  <2>2. G[{}] \in {<<Null>>}
    BY <2>1
  <2>3. ASSUME NEW k \in 1 .. n, G[1 .. k - 1] \in {<<Null>>} PROVE G[1 .. k] \in {<<Null>>}
    <3>0. (1 .. k) \in SUBSET (1 .. n) /\ (1 .. k - 1) \in SUBSET (1 .. n)
      BY <1>0
    <3>. SUFFICES ASSUME i \in 1 .. k PROVE F[1 .. k] = <<Null>>
      BY <3>0
    <3>1. CASE i = k
      BY <3>1
    <3>2. CASE i # k
      <4>1. i \in 1 .. k - 1 /\ k - 1 \in 0 .. n
        BY <1>0, <3>2
      <4>2. F[1 .. k - 1] = <<Null>>
        BY <2>3, <3>0, <4>1
      <4>3. Take(F[1 .. k - 1], want[k]) = <<Null>>
        BY <4>2 DEF Take
      <4>. QED
        BY <1>5, <4>3
    <3>. QED
      BY <3>1, <3>2
  <2>4. \A k \in 0 .. n : G[1 .. k] \in {<<Null>>}
    <3>1. \A k \in 1 .. n : G[1 .. k - 1] \in {<<Null>>} => G[1 .. k] \in {<<Null>>}
      BY <2>3
    <3>. HIDE DEF G
    <3>. QED
      BY <1>0, <2>2, <3>1, FoldStays
  <2>5. n \in 0 .. n /\ i \in 1 .. n
    BY <1>0
  <2>. QED
    BY <2>1, <2>4, <2>5
<1>8. i \in 1 .. n /\ i - 1 \in 0 .. n
  BY <1>0
<1>9. Take(F[1 .. i - 1], want[i]) # <<Null>>
  BY <1>5, <1>7, <1>8
<1>10. F[1 .. i - 1] \in Seq(T) /\ ToSet(F[1 .. i - 1]) \subseteq ToSet(got)
  <2>1. F[1 .. i - 1] # <<Null>>
    BY <1>9 DEF Take
  <2>. QED
    BY <1>6, <1>8, <2>1 DEF V
<1>. QED
  BY <1>9, <1>10, TakeOne

-----------------------------------------------------------------------------
(* A right answer.                                                           *)

(* Normalising keeps labels, +- and unit, and leaves the numbers in values.  *)
LEMMA Normal ==
  ASSUME NEW ans \in Answers, ans # Null
  PROVE  LET nv == normalize_scalar_answer(ans)
         IN  /\ nv \in Answers /\ nv.labels = ans.labels /\ nv.uncs = ans.uncs /\ nv.unit = ans.unit
             /\ normalize_scalar_answer(nv) = nv
             /\ answer_numbers(ans) = Known(nv.values)
             /\ NumberSet(ans) = ToSet(nv.values) \ {Null} /\ NumberSet(ans) \subseteq Int
<1>. DEFINE nv == normalize_scalar_answer(ans)
<1>1. ans.value \in Int \cup {Null} /\ ans.values \in Seq(Int \cup {Null})
  BY DEF Answers
<1>2. nv \in Answers /\ nv.labels = ans.labels /\ nv.uncs = ans.uncs /\ nv.unit = ans.unit
  <2>1. CASE ans.values # <<>> \/ ans.value = Null
    BY <2>1 DEF normalize_scalar_answer
  <2>2. CASE ~(ans.values # <<>> \/ ans.value = Null)
    <3>. DEFINE m == [ans EXCEPT !.values = <<ans.value>>]
    <3>1. <<ans.value>> \in Seq(Int \cup {Null})
      BY <1>1
    <3>2. m \in Answers /\ m.labels = ans.labels /\ m.uncs = ans.uncs /\ m.unit = ans.unit
      BY <3>1 DEF Answers
    <3>3. nv = [m EXCEPT !.value = Null]
      BY <2>2 DEF normalize_scalar_answer
    <3>. HIDE DEF nv, m
    <3>. QED
      BY <3>2, <3>3 DEF Answers
  <2>. QED
    BY <2>1, <2>2
<1>3. nv.values # <<>> \/ nv.value = Null
  <2>1. CASE ans.values # <<>> \/ ans.value = Null
    BY <2>1 DEF normalize_scalar_answer
  <2>2. CASE ~(ans.values # <<>> \/ ans.value = Null)
    <3>1. nv = [ans EXCEPT !.values = <<ans.value>>, !.value = Null]
      BY <2>2 DEF normalize_scalar_answer
    <3>2. nv.value = Null
      BY <3>1 DEF Answers
    <3>. QED
      BY <3>2
  <2>. QED
    BY <2>1, <2>2
<1>4. answer_numbers(ans) = Known(nv.values)
  BY DEF answer_numbers
<1>5. nv.values \in Seq(Int \cup {Null})
  BY <1>2 DEF Answers
<1>. HIDE DEF nv
<1>6. normalize_scalar_answer(nv) = nv
  BY <1>3 DEF normalize_scalar_answer
<1>7. NumberSet(ans) = ToSet(nv.values) \ {Null}
  BY <1>4, <1>5, KnownSet DEF NumberSet
<1>8. NumberSet(ans) \subseteq Int
  BY <1>5, <1>7 DEF ToSet
<1>. QED
  BY <1>2, <1>4, <1>6, <1>7, <1>8 DEF nv

(* No known number, no number.                                               *)
LEMMA NoneKnown ==
  ASSUME NEW T, NEW s \in Seq(T)
  PROVE  Known(s) = <<>> <=> ToSet(s) \subseteq {Null}
<1>1. Known(s) \in Seq(T) /\ ToSet(Known(s)) = ToSet(s) \ {Null}
  BY KnownSet
<1>2. \A q \in Seq(T) : q = <<>> <=> ToSet(q) = {}
  <2>. SUFFICES ASSUME NEW q \in Seq(T) PROVE q = <<>> <=> ToSet(q) = {}
    OBVIOUS
  <2>1. ToSet(<<>>) = {}
    BY DEF ToSet
  <2>2. ASSUME q # <<>> PROVE q[1] \in ToSet(q)
    <3>1. 1 \in DOMAIN q
      BY <2>2
    <3>. QED
      BY <3>1 DEF ToSet
  <2>. QED
    BY <2>1, <2>2
<1>. QED
  BY <1>1, <1>2

(* What a right answer looks like.                                           *)
Right(ans, exp) ==
  ans \in Answers /\ ans # Null /\ WellFormed(exp) /\ Aligned(ans, exp) /\ correct(exp, ans)

(* A right list of names has IRIs only and no number.                        *)
LEMMA RightNames ==
  ASSUME NEW ans, NEW exp, Right(ans, exp), exp.names_only
  PROVE  ~has_string_labels(ans) /\ answer_numbers(ans) = <<>>
<1>. DEFINE nv == normalize_scalar_answer(ans)
<1>1. NameFaults(nv, exp) = {}
  BY DEF Right, correct, score_answer
<1>2. ~has_string_labels(nv) /\ nv.values = <<>>
  BY <1>1 DEF NameFaults
<1>3. nv.labels = ans.labels /\ answer_numbers(ans) = Known(nv.values)
  BY Normal DEF Right
<1>4. Known(<<>>) = <<>>
  <2>1. <<>> \in Seq({}) /\ ToSet(<<>>) = {}
    BY DEF ToSet
  <2>. QED
    BY <2>1, NoneKnown
<1>. HIDE DEF nv
<1>. QED
  BY <1>2, <1>3, <1>4 DEF has_string_labels

(* A right answer with numbers has as many as expected, and none is at fault.*)
LEMMA RightNumbers ==
  ASSUME NEW ans, NEW exp, Right(ans, exp), ~exp.names_only
  PROVE  LET nv == normalize_scalar_answer(ans)
         IN  /\ answer_numbers(ans) # <<>> /\ nv.values # <<>> /\ exp.values # <<>>
             /\ Len(nv.values) = Len(exp.values)
             /\ Len(ans.labels) = Len(exp.labels)
             /\ ~has_string_labels(ans)
             /\ UncFaults(nv, exp) = {}
             /\ exp.labels # <<>> => LabelledFaults(nv, exp) = {}
             /\ exp.labels = <<>> => PlainFaults(nv, exp) = {}
<1>. DEFINE nv == normalize_scalar_answer(ans)
<1>1. /\ answer_numbers(nv) # <<>>
      /\ exp.labels # <<>> => LabelledFaults(nv, exp) = {}
      /\ exp.labels = <<>> => PlainFaults(nv, exp) = {}
  <2>. HIDE DEF nv
  <2>1. score_answer(exp, ans) = {}
    BY DEF Right, correct
  <2>. QED
    BY <2>1 DEF Right, score_answer, nv
<1>2. /\ nv \in Answers /\ nv.labels = ans.labels /\ normalize_scalar_answer(nv) = nv
      /\ answer_numbers(ans) = Known(nv.values)
  BY Normal DEF Right
<1>3. Len(nv.values) = Len(exp.values) /\ (exp.values # <<>> => Len(ans.labels) = Len(exp.labels))
  BY DEF Right, Aligned
<1>. HIDE DEF nv
<1>4. answer_numbers(nv) = Known(nv.values)
  BY <1>1, <1>2 DEF answer_numbers
<1>5. nv.values \in Seq(Int \cup {Null}) /\ ans.labels \in Seq([iri : BOOLEAN, key : STRING])
  BY <1>2 DEF Answers, Labels, Right
<1>6. nv.values # <<>>
  <2>1. ToSet(nv.values) # {}
    BY <1>1, <1>4, <1>5, NoneKnown
  <2>. QED
    BY <2>1 DEF ToSet
<1>7. exp.values # <<>> /\ exp.values \in Seq(Int) /\ exp.labels \in Seq([iri : BOOLEAN, key : STRING])
  <2>1. exp.values \in Seq(Int) /\ exp.labels \in Seq([iri : BOOLEAN, key : STRING])
    BY DEF Right, WellFormed, Labels
  <2>. QED
    BY <1>3, <1>5, <1>6, <2>1
<1>8. ~has_string_labels(ans)
  <2>1. CASE exp.labels # <<>>
    <3>1. ~has_string_labels(nv)
      BY <1>1, <2>1 DEF LabelledFaults
    <3>. QED
      BY <1>2, <3>1 DEF has_string_labels
  <2>2. CASE exp.labels = <<>>
    <3>1. Len(ans.labels) = 0
      BY <1>3, <1>7, <2>2
    <3>2. DOMAIN ans.labels = {}
      BY <1>5, <3>1
    <3>. QED
      BY <3>2 DEF has_string_labels
  <2>. QED
    BY <2>1, <2>2
<1>9. UncFaults(nv, exp) = {}
  <2>1. CASE exp.labels # <<>>
    BY <1>1, <2>1 DEF LabelledFaults
  <2>2. CASE exp.labels = <<>>
    BY <1>1, <2>2 DEF PlainFaults
  <2>. QED
    BY <2>1, <2>2
<1>. QED
  BY <1>1, <1>2, <1>3, <1>4, <1>6, <1>7, <1>8, <1>9 DEF nv

(* A number below 1.5 as a fraction is not close to one above 1.53.          *)
LEMMA FarApart ==
  ASSUME NEW a \in Int, NEW b \in Int, Magnitude(a) < 1500, Magnitude(b) >= 1530,
         NEW u \in {"kg/kg", "g/kg", "%"}, NEW w \in {"kg", "kg/kg"}
  PROVE  ~Close(canonical(a, u), canonical(b, w))
<1>1. canonical(b, w) = 1000 * b /\ canonical(a, u) \in {a, 10 * a, 1000 * a}
  BY DEF canonical, Factor
<1>2. ASSUME NEW x \in Int, NEW y \in Int, Magnitude(x) <= 1499000, Magnitude(y) >= 1530000
      PROVE  ~Close(x, y)
  BY <1>2 DEF Close, Magnitude, Larger
<1>3. Magnitude(1000 * b) >= 1530000
  BY DEF Magnitude
<1>4. Magnitude(a) <= 1499000 /\ Magnitude(10 * a) <= 1499000 /\ Magnitude(1000 * a) <= 1499000
  BY DEF Magnitude
<1>5. ~Close(a, 1000 * b) /\ ~Close(10 * a, 1000 * b) /\ ~Close(1000 * a, 1000 * b)
  BY <1>2, <1>3, <1>4
<1>. QED
  BY <1>1, <1>5

(* Each labelled number of a right answer is close to the one expected.      *)
LEMMA LabelledClose ==
  ASSUME NEW ans, NEW exp, Right(ans, exp), ~exp.names_only, exp.labels # <<>>,
         NEW i \in DOMAIN exp.values
  PROVE  \E a \in NumberSet(ans) : Close(canonical(a, ans.unit), canonical(exp.values[i], exp.unit))
<1>. DEFINE nv == normalize_scalar_answer(ans)
            rows(k) == {j \in DOMAIN nv.labels \cap DOMAIN nv.values :
                          nv.labels[j].key = k /\ nv.values[j] # Null}
            given == {k \in Keys(exp.labels) : rows(k) # {}}
            got(k) == canonical(nv.values[Max(rows(k))], nv.unit)
            at(k) == CHOOSE x \in DOMAIN exp.labels : exp.labels[x].key = k
            want(k) == canonical(exp.values[at(k)], exp.unit)
            key == exp.labels[i].key
<1>1. nv \in Answers /\ nv.unit = ans.unit /\ NumberSet(ans) = ToSet(nv.values) \ {Null}
  BY Normal DEF Right
<1>2. LabelledFaults(nv, exp) = {}
  BY RightNumbers
<1>3. /\ exp.labels \in Labels /\ exp.values \in Seq(Int) /\ Len(exp.labels) = Len(exp.values)
      /\ \A x, y \in DOMAIN exp.labels : exp.labels[x].key = exp.labels[y].key => x = y
  BY DEF Right, WellFormed
<1>. HIDE DEF nv
<1>4. given = Keys(exp.labels) /\ \A k \in given : Close(got(k), want(k))
  <2>1. (IF given = Keys(exp.labels) THEN {} ELSE {"missing"}) = {}
    BY <1>2 DEF LabelledFaults
  <2>2. (IF \A k \in given : Close(got(k), want(k)) THEN {} ELSE {"wrong-value"}) = {}
    BY <1>2 DEF LabelledFaults
  <2>3. given = Keys(exp.labels)
    <3>. HIDE DEF given
    <3>. QED
      BY <2>1
  <2>4. \A k \in given : Close(got(k), want(k))
    <3>. HIDE DEF given, got, want
    <3>. QED
      BY <2>2
  <2>. QED
    BY <2>3, <2>4
<1>5. i \in DOMAIN exp.labels
  BY <1>3 DEF Labels
<1>6. key \in Keys(exp.labels) /\ at(key) = i
  BY <1>3, <1>5 DEF Keys
<1>7. rows(key) # {} /\ Close(got(key), want(key))
  BY <1>4, <1>6
<1>8. Max(rows(key)) \in rows(key)
  <2>1. nv.values \in Seq(Int \cup {Null})
    BY <1>1 DEF Answers
  <2>2. Len(nv.values) \in Nat /\ rows(key) \in SUBSET (1 .. Len(nv.values))
    BY <2>1
  <2>. HIDE DEF rows
  <2>. QED
    BY <1>7, <2>2, MaxIn
<1>9. nv.values[Max(rows(key))] \in NumberSet(ans)
  BY <1>1, <1>8 DEF ToSet
<1>. QED
  BY <1>1, <1>6, <1>7, <1>9

(* Each expected number without a label has an answer close to it.           *)
LEMMA PlainClose ==
  ASSUME NEW ans, NEW exp, Right(ans, exp), ~exp.names_only, exp.labels = <<>>,
         NEW i \in DOMAIN exp.values
  PROVE  \E a \in NumberSet(ans) : Close(canonical(a, ans.unit), canonical(exp.values[i], exp.unit))
<1>. DEFINE nv == normalize_scalar_answer(ans)
            known == Known(nv.values)
            canon(s, unit) == [x \in DOMAIN s |-> canonical(s[x], unit)]
            T == {canonical(a, ans.unit) : a \in NumberSet(ans)}
            W == {canonical(x, exp.unit) : x \in Int}
<1>1. nv \in Answers /\ nv.unit = ans.unit /\ NumberSet(ans) = ToSet(nv.values) \ {Null}
  BY Normal DEF Right
<1>2. PlainFaults(nv, exp) = {}
  BY RightNumbers
<1>3. Unmatched(canon(known, ans.unit), canon(exp.values, exp.unit)) # <<Null>>
  <2>. HIDE DEF nv
  <2>. QED
    BY <1>1, <1>2 DEF PlainFaults
<1>. HIDE DEF nv
<1>4. known \in Seq(Int \cup {Null}) /\ ToSet(known) = NumberSet(ans)
  BY <1>1, KnownSet DEF Answers
<1>. HIDE DEF known
<1>5. canon(known, ans.unit) \in Seq(T)
  BY <1>4 DEF ToSet
<1>6. exp.values \in Seq(Int)
  BY DEF Right, WellFormed
<1>7. canon(exp.values, exp.unit) \in Seq(W) /\ i \in DOMAIN canon(exp.values, exp.unit)
      /\ canon(exp.values, exp.unit)[i] = canonical(exp.values[i], exp.unit)
  BY <1>6
<1>8. PICK x \in ToSet(canon(known, ans.unit)) : Close(x, canonical(exp.values[i], exp.unit))
  <2>. HIDE DEF canon, T, W
  <2>. QED
    BY <1>3, <1>5, <1>7, MatchedClose
<1>9. x \in T
  BY <1>5, <1>8 DEF ToSet
<1>. QED
  BY <1>8, <1>9

(* A right answer is not taken for a fraction.                               *)
LEMMA NoFraction ==
  ASSUME NEW ans, NEW exp, Right(ans, exp), ClearOfFractions(exp)
  PROVE  ~is_fraction_not_kg(ans, exp)
<1>. SUFFICES ASSUME is_fraction_not_kg(ans, exp) PROVE FALSE
  OBVIOUS
<1>1. /\ ~exp.names_only /\ exp.unit \in {"kg", "kg/kg"} /\ ans.unit \in {"kg/kg", "g/kg", "%"}
      /\ \A n \in NumberSet(ans) : Magnitude(n) < 1500
  <2>1. ~exp.names_only
    BY Zenon DEF is_fraction_not_kg
  <2>2. exp.unit \in {"kg", "kg/kg", "g/kg"}
    BY Zenon DEF is_fraction_not_kg
  <2>3. ans.unit \in {"kg/kg", "g/kg", "%"}
    BY Zenon DEF is_fraction_not_kg
  <2>4. \A n \in NumberSet(ans) : Magnitude(n) < 1500
    BY Zenon DEF is_fraction_not_kg
  <2>5. exp.unit # "g/kg"
    BY DEF ClearOfFractions
  <2>. QED
    BY <2>1, <2>2, <2>3, <2>4, <2>5
<1>2. PICK i \in DOMAIN exp.values : Magnitude(exp.values[i]) >= 1500
  BY DEF is_fraction_not_kg
<1>3. exp.values[i] \in Int /\ Magnitude(exp.values[i]) >= 1530
  <2>1. exp.values \in Seq(Int)
    BY DEF Right, WellFormed
  <2>2. exp.values[i] \in Int
    BY <2>1
  <2>3. Magnitude(exp.values[i]) \notin 1500 .. 1529
    BY DEF ClearOfFractions
  <2>4. Magnitude(exp.values[i]) \in Int
    BY <2>2 DEF Magnitude
  <2>. QED
    BY <1>2, <2>2, <2>3, <2>4
<1>4. PICK a \in NumberSet(ans) : Close(canonical(a, ans.unit), canonical(exp.values[i], exp.unit))
  BY <1>1, LabelledClose, PlainClose
<1>5. a \in Int
  BY Normal DEF Right
<1>. QED
  BY <1>1, <1>3, <1>4, <1>5, FarApart

(* A right answer has the shape asked for, with its labels.                  *)
LEMMA GoodShape ==
  ASSUME NEW ans, NEW exp, Right(ans, exp)
  PROVE  /\ ~shape_mismatch(ans, exp)
         /\ ~has_string_labels(ans)
         /\ ~(exp.labels # <<>> /\ ~exp.names_only /\ missing_labels(ans))
<1>1. CASE exp.names_only
  BY <1>1, RightNames DEF shape_mismatch
<1>2. CASE ~exp.names_only
  <2>. DEFINE nv == normalize_scalar_answer(ans)
  <2>1. /\ answer_numbers(ans) # <<>> /\ nv.values # <<>>
        /\ Len(nv.values) = Len(exp.values) /\ Len(ans.labels) = Len(exp.labels)
        /\ ~has_string_labels(ans)
    BY <1>2, RightNumbers
  <2>2. exp.labels # <<>> => Len(exp.labels) = Len(exp.values)
    BY <1>2 DEF Right, WellFormed
  <2>3. exp.labels # <<>> => ans.labels # <<>>
    <3>1. exp.labels \in Seq([iri : BOOLEAN, key : STRING]) /\ ans.labels \in Seq([iri : BOOLEAN, key : STRING])
      BY DEF Right, WellFormed, Labels, Answers
    <3>. QED
      BY <2>1, <3>1
  <2>4. exp.labels = <<>> /\ Len(exp.values) = 1 => ~(Len(nv.values) > 1)
    BY <2>1
  <2>. HIDE DEF nv
  <2>. QED
    BY <1>2, <2>1, <2>2, <2>3, <2>4 DEF shape_mismatch, missing_labels, nv
<1>. QED
  BY <1>1, <1>2

(* A right answer has the +- that are scored.                                *)
LEMMA HasUncertainties ==
  ASSUME NEW ans, NEW exp, Right(ans, exp)
  PROVE  ~UncGate(exp, ans)
<1>. SUFFICES ASSUME exp.score_uncertainty, missing_uncertainties(ans) PROVE FALSE
  BY DEF UncGate
<1>1. answer_numbers(ans) # <<>> /\ Known(ans.uncs) = <<>>
  BY DEF missing_uncertainties
<1>2. ~exp.names_only
  BY <1>1, RightNames
<1>. DEFINE nv == normalize_scalar_answer(ans)
<1>3. UncFaults(nv, exp) = {} /\ nv.uncs = ans.uncs /\ ans.uncs \in Seq(Int \cup {Null})
  BY <1>2, RightNumbers, Normal DEF Right, Answers
<1>4. exp.uncs \in Seq(Int) /\ exp.uncs # <<>>
  BY DEF Right, WellFormed
<1>5. 1 \in DOMAIN exp.uncs
  BY <1>4
<1>. HIDE DEF nv
<1>6. UncFor(nv, exp, 1) # Null
  <2>. DEFINE absent_rows == {i \in DOMAIN exp.uncs : UncFor(nv, exp, i) = Null}
  <2>1. absent_rows = {}
    <3>1. (IF absent_rows # {} THEN {"unc-wrong", "unc-missing"} ELSE {}) = {}
      BY <1>3, <1>4 DEF UncFaults
    <3>. HIDE DEF absent_rows
    <3>. QED
      BY <3>1
  <2>. QED
    BY <1>5, <2>1
<1>7. PICK at \in DOMAIN ans.uncs : ans.uncs[at] # Null
  BY <1>3, <1>6 DEF UncFor
<1>8. ToSet(ans.uncs) \subseteq {Null}
  BY <1>1, <1>3, NoneKnown
<1>. QED
  BY <1>7, <1>8 DEF ToSet

(* What the queries returned, or their sums, is not called fabricated.       *)
LEMMA DerivedTraces ==
  ASSUME NEW results \in Seq(Seq(Nat)), NEW v \in Int, v # 0, Derived(v, results)
  PROVE  \E c \in Combos(results) : Traces(v, c)
<1>1. \A i \in DOMAIN results : results[i] \in Seq(Nat)
  OBVIOUS
<1>2. ASSUME NEW s \in Seq(Nat)
      PROVE  /\ [i \in DOMAIN s |-> Magnitude(s[i])] = s
             /\ Total(s) = SumFunction(s) /\ SumFunction(s) \in Nat
  <2>1. \A i \in DOMAIN s : s[i] \in Nat /\ Magnitude(s[i]) = s[i]
    BY DEF Magnitude
  <2>2. [i \in DOMAIN s |-> Magnitude(s[i])] = s
    BY <2>1
  <2>3. IsFiniteSet(DOMAIN s)
    <3>1. DOMAIN s = 1 .. Len(s) /\ Len(s) \in Nat
      OBVIOUS
    <3>. QED
      BY <3>1, FS_Interval
  <2>4. SumFunctionOnSet(s, DOMAIN s) \in Nat
    BY <2>1, <2>3, SumIsNat
  <2>. QED
    BY <2>2, <2>4 DEF Total, SumFunction
<1>3. ASSUME v \in Nat, v \in Combos(results) PROVE \E c \in Combos(results) : Traces(v, c)
  <2>1. Magnitude(v) = v /\ Magnitude(v - v) = 0
    BY <1>3 DEF Magnitude
  <2>2. Traces(v, v)
    BY <1>3, <2>1 DEF Traces, Larger, Magnitude
  <2>. QED
    BY <1>3, <2>2
<1>4. CASE \E i \in DOMAIN results : v \in ToSet(results[i])
  <2>. DEFINE pool == {Magnitude(x) : x \in UNION {ToSet(results[i]) : i \in DOMAIN results}}
  <2>1. v \in Nat /\ Magnitude(v) = v
    BY <1>1, <1>4 DEF ToSet, Magnitude
  <2>2. v \in UNION {ToSet(results[i]) : i \in DOMAIN results}
    BY <1>4
  <2>3. v \in pool
    BY <2>1, <2>2
  <2>4. pool \subseteq Combos(results)
    BY DEF Combos
  <2>. HIDE DEF pool
  <2>. QED
    BY <1>3, <2>1, <2>3, <2>4
<1>5. ASSUME NEW I \in Tried(results),
             v = SumFunctionOnSet([i \in DOMAIN results |-> SumFunction(results[i])], I)
      PROVE  \E c \in Combos(results) : Traces(v, c)
  <2>. DEFINE sums == [i \in DOMAIN results |-> SumFunction(results[i])]
  <2>1. sums = [i \in DOMAIN results |-> Total(results[i])]
    BY <1>1, <1>2
  <2>2. v \in Sums(results)
    <3>. HIDE DEF sums
    <3>1. v = SumFunctionOnSet(sums, I)
      BY <1>5 DEF sums
    <3>. QED
      BY <2>1, <3>1 DEF Sums
  <2>3. Sums(results) \subseteq Combos(results)
    BY DEF Combos
  <2>4. I \subseteq DOMAIN results /\ IsFiniteSet(I)
    <3>1. DOMAIN results = 1 .. Len(results) /\ Len(results) \in Nat
      OBVIOUS
    <3>2. I \subseteq DOMAIN results
      BY DEF Tried
    <3>3. IsFiniteSet(DOMAIN results)
      BY <3>1, FS_Interval
    <3>. QED
      BY <3>2, <3>3, FS_Subset
  <2>5. \A i \in I : sums[i] \in Nat
    BY <1>1, <1>2, <2>4
  <2>6. v \in Nat
    <3>. HIDE DEF sums
    <3>1. v = SumFunctionOnSet(sums, I)
      BY <1>5 DEF sums
    <3>. QED
      BY <2>4, <2>5, <3>1, SumIsNat
  <2>. QED
    BY <1>3, <2>2, <2>3, <2>6
<1>. QED
  BY <1>4, <1>5 DEF Derived

(* An answer made of what the queries returned is not rejected as made up.   *)
LEMMA NothingFabricated ==
  ASSUME NEW ans \in Answers, ans # Null, NEW results \in Seq(Seq(Nat)),
         \A v \in NumberSet(ans) : Derived(v, results)
  PROVE  ungrounded(ans, results) = {}
<1>1. \A v \in NumberSet(ans) : v \in Int
  BY Normal
<1>2. \A v \in NumberSet(ans) : v # 0 => \E c \in Combos(results) : Traces(v, c)
  BY <1>1, DerivedTraces
<1>. QED
  BY <1>2 DEF ungrounded

(* The gates' conditions, none of which a right answer meets.                *)
LEMMA NoGateHolds ==
  ASSUME NEW a, NEW exp, NEW enforced, Right(a.answer, exp), ClearOfFractions(exp),
         a.blocks \in Seq(Seq(Nat)), \A v \in NumberSet(a.answer) : Derived(v, a.blocks),
         NEW g \in ToSet(Gates)
  PROVE  ~Holds(g, a, exp, enforced)
<1>1. ToSet(Gates) = {"frac", "resolve", "shape", "label", "missing_label", "unc",
                      "unc_rss", "recompute", "order", "route", "subject"}
  BY DEF ToSet, Gates
<1>2. score_answer(exp, a.answer) = {}
  BY DEF Right, correct
<1>3. ~is_fraction_not_kg(a.answer, exp)
  BY NoFraction
<1>4. /\ ~shape_mismatch(a.answer, exp) /\ ~has_string_labels(a.answer)
      /\ ~(exp.labels # <<>> /\ ~exp.names_only /\ missing_labels(a.answer))
  BY GoodShape
<1>5. ~UncGate(exp, a.answer)
  BY HasUncertainties
<1>6. ~RecomputeGate(a)
  BY NothingFabricated DEF RecomputeGate, Right
<1>7. /\ ~RssGate(exp, a.answer, {}) /\ ~OrderGate(exp, {}) /\ ~RouteGate(exp, {})
      /\ ~SubjectGate({})
  BY DEF RssGate, OrderGate, RouteGate, SubjectGate, classify_error
<1>. QED
  BY <1>1, <1>2, <1>3, <1>4, <1>5, <1>6, <1>7 DEF Holds

-----------------------------------------------------------------------------
(* What the attempts' queries returned.                                      *)

(* Only queries with rows count as having returned some, and the blocks are  *)
(* the numbers of such results.                                              *)
Results == {Query[n].nums : n \in DOMAIN Query}
NumsInv ==
  /\ blocks \in Seq(Results) /\ last.blocks \in Seq(Results)
  /\ \A n \in DOMAIN seen : seen[n] = "rows" => n \in DOMAIN Query

(* Every step keeps this.                                                    *)
LEMMA NumsStep == NumsInv /\ [Next]_vars => NumsInv'
<1>. SUFFICES ASSUME NumsInv, [Next]_vars PROVE NumsInv'
  OBVIOUS
<1>1. CASE UNCHANGED <<blocks, last, seen>>
  BY <1>1 DEF NumsInv
<1>2. ASSUME NEW answer, NEW timed_out, NEW capped, NEW failed,
             Return(answer, timed_out, capped, failed)
      PROVE  NumsInv'
  BY <1>2 DEF NumsInv, Return, Fresh
<1>3. ASSUME NEW asked, NEW failed, Replay(asked, failed)
      PROVE  NumsInv'
  <2>. DEFINE q == Sent[Head(calls)]
  <2>1. q \in DOMAIN seen /\ UNCHANGED <<last, seen>>
        /\ blocks' = IF seen[q] = "rows" /\ Query[q].nums # <<>> THEN Append(blocks, Query[q].nums) ELSE blocks
    BY <1>3 DEF Replay, Incoming
  <2>2. seen[q] = "rows" => Query[q].nums \in Results
    BY <2>1 DEF NumsInv, Results
  <2>. HIDE DEF q
  <2>. QED
    BY <2>1, <2>2 DEF NumsInv
<1>4. ASSUME NEW o \in {"rows", "empty", "error"}, Remember(o),
             o = "rows" => Sent[Head(calls)] \in GivesRows
      PROVE  NumsInv'
  <2>. DEFINE q == Sent[Head(calls)]
  <2>1. /\ blocks' = IF o = "rows" /\ Query[q].nums # <<>> THEN Append(blocks, Query[q].nums) ELSE blocks
        /\ seen' = [n \in DOMAIN seen \cup {q} |-> IF n = q THEN o ELSE seen[n]] /\ last' = last
        /\ o = "rows" => q \in GivesRows
    BY <1>4 DEF Remember, outer
  <2>2. o = "rows" => q \in DOMAIN Query
    BY <2>1 DEF GivesRows
  <2>. HIDE DEF q
  <2>3. \A n \in DOMAIN seen' : seen'[n] = "rows" => n \in DOMAIN Query
    BY <2>1, <2>2 DEF NumsInv
  <2>. QED
    BY <2>1, <2>2, <2>3 DEF NumsInv, Results
<1>5. CASE Own
  BY <1>1, <1>2, <1>3, <1>5 DEF Own, EndLoop, StartAttempt, StepsDone, StepLate, TokenCap, AskModel,
     ChatTimeout, CallLate, SkillCall, QueryCall, StartProbe, Handled, Blocked, Execute, Incoming, ToolTimeout,
     ProviderDown, AskAccepts, Judge, LimitReached, TryAgain, Verdict, Explained, NoExplanation,
     judged, outer, inner
<1>6. CASE Outside
  <2>1. CASE StartDiagnosis
    BY <1>1, <2>1 DEF StartDiagnosis, outer, inner
  <2>2. CASE Diagnosed \/ \E o \in {"rows", "error"} : ToolReturns(o)
    BY <1>4, <2>2 DEF Diagnosed, ToolReturns
  <2>. QED
    BY <1>1, <1>2, <1>3, <1>6, <2>1, <2>2 DEF Outside, Turn, FinalTurn, Backoff, ChatFails,
       ProbesAnswer, Handled, Blocked, Execute, Incoming, outer
<1>7. CASE Tick \/ Done \/ UNCHANGED vars
  BY <1>1, <1>7 DEF Tick, Done, vars, outer, inner
<1>. QED
  BY <1>5, <1>6, <1>7 DEF Next

(* The blocks are such numbers throughout.                                   *)
LEMMA NumsInvariant == Spec => []NumsInv
<1>1. Init => NumsInv
  BY DEF Init, NumsInv, NoAttempt
<1>. QED
  BY <1>1, NumsStep, PTL DEF Spec

(* No gate turns away a right answer, of cases as the code is given them,    *)
(* whatever was asked, answered and rejected before (scoring.py:263,         *)
(* reprompt.py:113-430).                                                     *)
THEOREM RightAnswersStand ==
  ASSUME FairCases
  PROVE  Spec => []RightAnswerStands
<1>1. IInv /\ NumsInv => RightAnswerStands
  <2>. SUFFICES ASSUME IInv, NumsInv, Grounded, Aligned(last.answer, Case.exp),
                       correct(Case.exp, last.answer),
                       \A n \in NumberSet(last.answer) : Derived(n, last.blocks)
                PROVE  Rejecter = "none"
    BY DEF RightAnswerStands
  <2>1. tc \in DOMAIN TestCase /\ last.answer # Null /\ last.answer \in Case.answers
    BY DEF IInv, TypeOK, Grounded
  <2>2. /\ Case.answers \subseteq Answers /\ WellFormed(Case.exp) /\ ClearOfFractions(Case.exp)
    BY <2>1 DEF FairCases, Case
  <2>3. Right(last.answer, Case.exp)
    BY <2>1, <2>2 DEF Right
  <2>4. last.blocks \in Seq(Seq(Nat))
    <3>1. Results \subseteq Seq(Nat)
      BY DEF Results, FairCases
    <3>. QED
      BY <3>1 DEF NumsInv
  <2>5. \A g \in ToSet(Gates) : ~Holds(g, last, Case.exp, Case.skills)
    BY <2>2, <2>3, <2>4, NoGateHolds
  <2>. QED
    BY <2>5, FirstGate DEF Rejecter, Fires
<1>. QED
  BY <1>1, Invariance, NumsInvariant, PTL
=============================================================================
