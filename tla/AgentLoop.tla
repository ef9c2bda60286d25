----------------------------- MODULE AgentLoop -----------------------------
(* One (case, backend) of the benchmark: run_one and _attempt of             *)
(* benchlib/agent.py, with the retry layer of the LLM adapters (llm.py) and  *)
(* the closing question of helpers.py.  run_one starts attempts until an     *)
(* answer is accepted or a limit ends it; an attempt is a loop of chat       *)
(* turns, each followed by the tool calls the model asked for.               *)
(*                                                                           *)
(* The model, the provider, the endpoint and the clock are the environment:  *)
(* any turn, any answer of the case, any failure, any moment.  The live file *)
(* and the KPIs are left out.                                                *)
EXTENDS Reprompt, Guards, TLC

CONSTANTS
  TestCase,       \* name -> [exp, answers, turns, skills, ask]: the expectation, what
                  \*   the model may answer, the calls one turn may ask for
  Query,          \* name -> the query as the model wrote it
  MaxAttempts, MaxSteps, Budget,
  BackoffAttempts,   \* tries of one chat call; 1 for an adapter without backoff
  ReplyTokens,       \* what one turn may cost
  Skill              \* get_skill("resolve-class"), the one call that is no query

ASSUME LimitAssumption ==
  /\ MaxAttempts \in Nat /\ MaxSteps \in Nat /\ Budget \in Nat \ {0}
  /\ BackoffAttempts \in Nat \ {0} /\ ReplyTokens \subseteq Nat

(* A query has a list of branches, a branch is a list of triples.            *)
ASSUME QueryAssumption ==
  \A n \in DOMAIN Query : /\ "branches" \in DOMAIN Query[n]
                          /\ Query[n].branches \in Seq(Seq(Term \X Term \X Term))

NudgePercents == {50, 70, 85, 95}
NudgeQueries == {8, 14, 20, 28}

VARIABLES
  tc,             \* the name of the case
  late,           \* the deadline has passed
  pc,
  attempt_no, started,   \* attempts charged, attempts begun
  retries, repeat, rejected,
  spent,          \* tokens of the attempts that ended
  last,           \* what the latest attempt returned
  provider_error, result,
  step, tok, used_sparql, saw_number, query_count, nudge_level, fetched,   \* _attempt
  calls,          \* the calls of this turn not handled yet
  seen,           \* query, as sent -> what it gave, in this attempt
  blocks,         \* the numbers of each tool result
  tries,          \* failed tries of the chat call in progress
  present, absent \* what each guard learnt of the endpoint (module-level caches)

outer == <<tc, attempt_no, started, retries, repeat, rejected, spent, last,
           provider_error, result, present, absent>>
inner == <<step, tok, used_sparql, saw_number, query_count, nudge_level, fetched,
           calls, seen, blocks, tries>>
vars == <<outer, inner, late, pc>>

(* What autoprefix makes of each query, and one name for every text sent.    *)
Repaired == [n \in DOMAIN Query |-> autoprefix(Query[n])]
Sent == [n \in DOMAIN Query |-> CHOOSE m \in DOMAIN Query : Repaired[m] = Repaired[n]]
GivesRows == {n \in DOMAIN Query : HasRows(Repaired[n])}
Case == TestCase[tc]

NoAttempt == [answer |-> Null, used_sparql |-> FALSE, timed_out |-> TRUE,
              token_capped |-> FALSE, chat_failed |-> FALSE, blocks |-> <<>>,
              fetched |-> FALSE]
BugFresh ==     \* mutant: the memory of queries is not local to the attempt
  /\ step' = 0 /\ tok' = 0 /\ used_sparql' = FALSE /\ saw_number' = FALSE
  /\ query_count' = 0 /\ nudge_level' = 0 /\ fetched' = FALSE /\ calls' = <<>>
  /\ seen' = seen /\ blocks' = <<>> /\ tries' = 0
Fresh ==
  /\ step' = 0 /\ tok' = 0 /\ used_sparql' = FALSE /\ saw_number' = FALSE
  /\ query_count' = 0 /\ nudge_level' = 0 /\ fetched' = FALSE /\ calls' = <<>>
  /\ seen' = <<>> /\ blocks' = <<>> /\ tries' = 0

Init ==
  /\ tc \in DOMAIN TestCase
  /\ late = FALSE /\ pc = "loop"
  /\ attempt_no = 0 /\ started = 0
  /\ retries = [c \in Counters |-> 0] /\ repeat = 0 /\ rejected = {}
  /\ spent = 0 /\ last = NoAttempt
  /\ provider_error = FALSE /\ result = [correct |-> "open", category |-> "none"]
  /\ step = 0 /\ tok = 0 /\ used_sparql = FALSE /\ saw_number = FALSE
  /\ query_count = 0 /\ nudge_level = 0 /\ fetched = FALSE /\ calls = <<>>
  /\ seen = <<>> /\ blocks = <<>> /\ tries = 0
  /\ present = {} /\ absent = {}

(* The wall clock passes the deadline.                                       *)
Tick ==
  /\ ~late /\ pc # "done"
  /\ late' = TRUE
  /\ UNCHANGED <<outer, inner, pc>>

(* The top of run_one's loop.  The fallback for a loop that ends here is the *)
(* last attempt, or an empty one: `last` is both.                            *)
Exhausted == late \/ attempt_no >= MaxAttempts \/ spent >= Budget
EndLoop ==
  /\ pc = "loop" /\ Exhausted
  /\ pc' = "verdict"
  /\ UNCHANGED <<outer, inner, late>>
StartAttempt ==
  /\ pc = "loop" /\ ~Exhausted
  /\ pc' = "step"
  /\ attempt_no' = attempt_no + 1 /\ started' = started + 1
  /\ UNCHANGED <<tc, retries, repeat, rejected, spent, last, provider_error,
                 result, present, absent, inner, late>>

(* _ret: the attempt ends, its tokens are added up.                          *)
Return(answer, timed_out, capped, failed) ==
  /\ last' = [answer |-> answer, used_sparql |-> used_sparql, timed_out |-> timed_out,
              token_capped |-> capped, chat_failed |-> failed, blocks |-> blocks,
              fetched |-> fetched]
  /\ pc' = "judge"
  /\ Fresh
  /\ UNCHANGED <<tc, attempt_no, started, retries, repeat, rejected, provider_error,
                 result, present, absent, late>>

(* The head of the step loop: out of steps, late, out of tokens, or a chat,  *)
(* with a firmer nudge whenever another threshold was crossed.               *)
StepsDone ==
  /\ pc = "step" /\ step = MaxSteps
  /\ spent' = spent + tok
  /\ Return(Null, FALSE, FALSE, FALSE)
StepLate ==
  /\ pc = "step" /\ step < MaxSteps /\ late
  /\ spent' = spent + tok
  /\ Return(Null, TRUE, FALSE, FALSE)
TokenCap ==
  /\ pc = "step" /\ step < MaxSteps /\ ~late /\ spent + tok >= Budget
  /\ spent' = spent + tok
  /\ Return(Null, TRUE, TRUE, FALSE)

WantedLevel ==
  LET crossed == Larger(
        Cardinality({p \in NudgePercents : 100 * (spent + tok) >= p * Budget}),
        Cardinality({n \in NudgeQueries : query_count >= n}))
  IN  crossed + (IF step >= Larger(1, MaxSteps - 3) THEN 1 ELSE 0)
BugAskModel ==     \* mutant: the earlier attempts' tokens are not counted
  /\ pc = "step" /\ step < MaxSteps /\ ~late /\ tok < Budget
  /\ nudge_level' = IF used_sparql THEN Larger(nudge_level, WantedLevel) ELSE nudge_level
  /\ pc' = "chat"
  /\ UNCHANGED <<outer, step, tok, used_sparql, saw_number, query_count, fetched,
                 calls, seen, blocks, tries, late>>
AskModel ==
  /\ pc = "step" /\ step < MaxSteps /\ ~late /\ spent + tok < Budget
  /\ nudge_level' = IF used_sparql THEN Larger(nudge_level, WantedLevel) ELSE nudge_level
  /\ pc' = "chat"
  /\ UNCHANGED <<outer, step, tok, used_sparql, saw_number, query_count, fetched,
                 calls, seen, blocks, tries, late>>

(* The chat call: a turn with tool calls, a final turn, a failure that the   *)
(* adapter retries or passes on, or the deadline.                            *)
Turn(t, n) ==
  /\ pc = "chat" /\ t # <<>>
  /\ pc' = "call"
  /\ tok' = tok + n /\ calls' = t /\ tries' = 0
  /\ fetched' = (fetched \/ Skill \in ToSet(t))
  /\ UNCHANGED <<outer, step, used_sparql, saw_number, query_count, nudge_level,
                 seen, blocks, late>>
FinalTurn(objects, n) ==
  /\ pc = "chat"
  /\ spent' = spent + tok + n
  /\ Return(parse_answer(objects), FALSE, FALSE, FALSE)
Backoff ==
  /\ pc = "chat" /\ tries < BackoffAttempts - 1
  /\ tries' = tries + 1
  /\ UNCHANGED <<outer, step, tok, used_sparql, saw_number, query_count, nudge_level,
                 fetched, calls, seen, blocks, late, pc>>
ChatFails ==
  /\ pc = "chat"
  /\ spent' = spent + tok
  /\ Return(Null, FALSE, FALSE, TRUE)
ChatTimeout ==
  /\ pc = "chat" /\ late
  /\ spent' = spent + tok
  /\ Return(Null, TRUE, FALSE, FALSE)

(* The tool calls of a turn, one by one.                                     *)
Answered == calls' = Tail(calls) /\ pc' = IF Len(calls) = 1 THEN "step" ELSE "call"
Stepped == step' = IF Len(calls) = 1 THEN step + 1 ELSE step
CallLate ==
  /\ pc = "call" /\ late
  /\ spent' = spent + tok
  /\ Return(Null, TRUE, FALSE, FALSE)
SkillCall ==
  /\ pc = "call" /\ ~late /\ Head(calls) = Skill
  /\ Answered /\ Stepped
  /\ UNCHANGED <<outer, tok, used_sparql, saw_number, query_count, nudge_level, fetched,
                 seen, blocks, tries, late>>

(* A query: repaired, shown to the guards (which may have to ask the         *)
(* endpoint, and take a failed probe for a yes), then blocked, replayed or   *)
(* executed.  A guard asks for one term after the other, up to the first     *)
(* that is absent; the predicate guard is asked when the class guard passed. *)
Learnt(asked, failed) == {t \in asked \ failed : Missing(t)}
Asks(n, asked, failed) ==
  LET unknown == Suspects(Repaired[n]) \ (present \cup absent)
      new == Learnt(asked, failed)
      objection == BlockedBy(Repaired[n], absent \cup new)
  IN  /\ asked \subseteq unknown
      /\ CASE objection = "class"     -> Cardinality(new) <= 1 /\ \A t \in asked : t[1] = "class"
           [] objection = "predicate" -> /\ Cardinality(new) <= 1
                                         /\ \A t \in unknown : t[1] = "class" => t \in asked
           [] OTHER                   -> asked = unknown
Guard(n, asked, failed) ==
  /\ Asks(n, asked, failed)
  /\ absent' = absent \cup Learnt(asked, failed)
  /\ present' = present \cup (asked \ Learnt(asked, failed))
Incoming(asked, failed) ==
  /\ Guard(Head(calls), asked, failed)
  /\ query_count' = query_count + 1
  /\ UNCHANGED <<tc, attempt_no, started, retries, repeat, rejected, spent, last,
                 provider_error, result, tok, nudge_level, fetched, tries, late>>
Blocked(asked, failed) ==
  LET q == Sent[Head(calls)]
  IN  /\ Incoming(asked, failed)
      /\ BlockedBy(Repaired[q], absent') # "none"
      /\ Answered /\ Stepped
      /\ UNCHANGED <<used_sparql, saw_number, seen, blocks>>
Replay(asked, failed) ==
  LET q == Sent[Head(calls)]
  IN  /\ Incoming(asked, failed)
      /\ BlockedBy(Repaired[q], absent') = "none"
      /\ q \in DOMAIN seen
      /\ blocks' = IF seen[q] = "rows" /\ Query[q].nums # <<>> THEN Append(blocks, Query[q].nums) ELSE blocks
      /\ Answered /\ Stepped
      /\ UNCHANGED <<used_sparql, saw_number, seen>>
Execute(asked, failed) ==
  LET q == Sent[Head(calls)]
  IN  /\ Incoming(asked, failed)
      /\ BlockedBy(Repaired[q], absent') = "none"
      /\ q \notin DOMAIN seen
      /\ pc' = "tool"
      /\ UNCHANGED <<step, calls, used_sparql, saw_number, seen, blocks>>

(* The tool answers with rows or an error; an empty result is diagnosed      *)
(* first, by queries that are no more cut off than those of the guards.      *)
Remember(outcome) ==
  LET q == Sent[Head(calls)]
      rows == outcome = "rows"
  IN  /\ used_sparql' = (used_sparql \/ rows)
      /\ saw_number' = (saw_number \/ (rows /\ Query[q].nums # <<>>))
      /\ blocks' = IF rows /\ Query[q].nums # <<>> THEN Append(blocks, Query[q].nums) ELSE blocks
      /\ seen' = [n \in DOMAIN seen \cup {q} |-> IF n = q THEN outcome ELSE seen[n]]
      /\ Answered /\ Stepped
      /\ UNCHANGED <<outer, tok, query_count, nudge_level, fetched, tries, late>>
ToolReturns(outcome) ==
  /\ pc = "tool"
  /\ outcome \in {"error"} \cup (IF Sent[Head(calls)] \in GivesRows THEN {"rows"} ELSE {})
  /\ Remember(outcome)
StartDiagnosis ==
  /\ pc = "tool" /\ Sent[Head(calls)] \notin GivesRows
  /\ pc' = "diagnose"
  /\ UNCHANGED <<outer, inner, late>>
Diagnosed == pc = "diagnose" /\ Remember("empty")
BugToolTimeout ==     \* mutant: no wait_for around the tool call
  /\ pc = "tool" /\ late /\ FALSE
  /\ spent' = spent + tok
  /\ Return(Null, TRUE, FALSE, FALSE)
ToolTimeout ==
  /\ pc = "tool" /\ late
  /\ spent' = spent + tok
  /\ Return(Null, TRUE, FALSE, FALSE)

(* Back in run_one.                                                          *)
judged == <<tc, started, spent, last, result, present, absent>>
ProviderDown ==
  /\ pc = "judge"
  /\ last.chat_failed /\ ~last.used_sparql
  /\ provider_error' = TRUE /\ pc' = "verdict"
  /\ UNCHANGED <<judged, attempt_no, retries, repeat, rejected, inner, late>>

Grounded == last.answer # Null /\ last.used_sparql
AskAccepts ==
  /\ pc = "judge" /\ Grounded /\ Case.ask
  /\ pc' = "verdict"
  /\ UNCHANGED <<judged, attempt_no, retries, repeat, rejected, provider_error, inner, late>>
Rejecter == build_reprompt(last, Case.exp, Case.skills, retries)
BugJudge ==     \* mutant: a corrective re-prompt spends the attempt
  /\ pc = "judge" /\ Grounded /\ ~Case.ask
  /\ \E g \in {Rejecter} :
       /\ retries' = IF g = "none" THEN retries ELSE [retries EXCEPT ![Counter(g)] = @ + 1]
       /\ repeat' = repeat + (IF g = "subject" /\ Signature(last.answer) \in rejected
                              THEN 1 ELSE 0)
       /\ pc' = IF g = "none" THEN "verdict" ELSE "loop"
       /\ attempt_no' = attempt_no
  /\ rejected' = rejected \cup {Signature(last.answer)}
  /\ UNCHANGED <<judged, provider_error, inner, late>>
Judge ==
  /\ pc = "judge" /\ Grounded /\ ~Case.ask
  /\ \E g \in {Rejecter} :
       /\ retries' = IF g = "none" THEN retries ELSE [retries EXCEPT ![Counter(g)] = @ + 1]
       /\ repeat' = repeat + (IF g = "subject" /\ Signature(last.answer) \in rejected
                              THEN 1 ELSE 0)
       /\ pc' = IF g = "none" THEN "verdict" ELSE "loop"
       /\ attempt_no' = IF g = "none" THEN attempt_no ELSE attempt_no - 1
  /\ rejected' = rejected \cup {Signature(last.answer)}
  /\ UNCHANGED <<judged, provider_error, inner, late>>
LimitReached ==
  /\ pc = "judge" /\ ~Grounded /\ last.timed_out
  /\ pc' = "verdict"
  /\ UNCHANGED <<judged, attempt_no, retries, repeat, rejected, provider_error, inner, late>>
TryAgain ==
  /\ pc = "judge" /\ ~Grounded /\ ~last.timed_out
  /\ ~(last.chat_failed /\ ~last.used_sparql)
  /\ pc' = "loop"
  /\ UNCHANGED <<judged, attempt_no, retries, repeat, rejected, provider_error, inner, late>>

(* The verdict on the chosen attempt.  classify_error is not told of the     *)
(* limits.                                                                   *)
Faults ==
  IF provider_error          THEN {"chat-failed"}
  ELSE IF ~last.used_sparql  THEN {"not-grounded"}
  ELSE score_answer(Case.exp, last.answer)
BugVerdict ==     \* mutant: the grounding of the chosen attempt is not asked for
  /\ pc = "verdict"
  /\ LET faults == IF provider_error THEN {"chat-failed"} ELSE score_answer(Case.exp, last.answer)
         correct_is == IF Case.ask /\ last.used_sparql /\ ~provider_error THEN "none"
                       ELSE IF faults = {} THEN "yes" ELSE "no"
     IN  /\ result' = [correct |-> correct_is,
                       category |-> IF correct_is = "no" THEN classify_error(faults, FALSE, FALSE)
                                    ELSE "none"]
         /\ pc' = IF correct_is = "no" /\ ~provider_error /\ ~Case.ask THEN "struggle" ELSE "done"
  /\ UNCHANGED <<tc, attempt_no, started, retries, repeat, rejected, spent, last,
                 provider_error, present, absent, inner, late>>
Verdict ==
  /\ pc = "verdict"
  /\ LET correct_is == IF Case.ask /\ last.used_sparql /\ ~provider_error THEN "none"
                       ELSE IF Faults = {} THEN "yes" ELSE "no"
     IN  /\ result' = [correct |-> correct_is,
                       category |-> IF correct_is = "no" THEN classify_error(Faults, FALSE, FALSE)
                                    ELSE "none"]
         /\ pc' = IF correct_is = "no" /\ ~provider_error /\ ~Case.ask THEN "struggle" ELSE "done"
  /\ UNCHANGED <<tc, attempt_no, started, retries, repeat, rejected, spent, last,
                 provider_error, present, absent, inner, late>>

(* _ask_why_struggled: two tries, outside the deadline and the budget.  Each *)
(* ends because a request has a timeout of its own.                          *)
Explained ==
  /\ pc = "struggle"
  /\ pc' = "done"
  /\ UNCHANGED <<outer, inner, late>>
NoExplanation ==
  /\ pc = "struggle"
  /\ IF tries = 0 THEN tries' = 1 /\ UNCHANGED pc ELSE pc' = "done" /\ UNCHANGED tries
  /\ UNCHANGED <<outer, step, tok, used_sparql, saw_number, query_count, nudge_level,
                 fetched, calls, seen, blocks, late>>
Done == pc = "done" /\ UNCHANGED vars

(* A query that the guards can judge from what they know is handled at once. *)
(* For the others they ask the endpoint, as the class guard may also do to   *)
(* find names for its hint: a plain call, inside no wait_for, that stops the *)
(* whole runner until the endpoint answers or fails, the deadline past or    *)
(* not.                                                                      *)
Handled(asked, failed) ==
  Blocked(asked, failed) \/ Replay(asked, failed) \/ Execute(asked, failed)
QueryCall ==
  /\ pc = "call" /\ ~late /\ Head(calls) # Skill
  /\ Handled({}, {})
StartProbe ==
  /\ pc = "call" /\ ~late /\ Head(calls) # Skill
  /\ \E asked \in SUBSET Suspects(Repaired[Head(calls)]) : \E failed \in SUBSET asked :
       /\ Asks(Head(calls), asked, failed)
       /\ asked # {} \/ BlockedBy(Repaired[Head(calls)], absent) = "class"
  /\ pc' = "probe"
  /\ UNCHANGED <<outer, inner, late>>
ProbesAnswer ==
  /\ pc = "probe"
  /\ \E asked \in SUBSET Suspects(Repaired[Head(calls)]) : \E failed \in SUBSET asked :
       Handled(asked, failed)

(* What waits for nobody.                                                    *)
Own ==
  \/ EndLoop \/ StartAttempt
  \/ StepsDone \/ StepLate \/ TokenCap \/ AskModel
  \/ ChatTimeout \/ CallLate \/ SkillCall \/ QueryCall \/ StartProbe
  \/ ToolTimeout
  \/ ProviderDown \/ AskAccepts \/ Judge \/ LimitReached \/ TryAgain
  \/ Verdict \/ Explained \/ NoExplanation

(* The answers of the model, the provider and the endpoint.                  *)
Outside ==
  \/ \E t \in Case.turns, n \in ReplyTokens : Turn(t, n)
  \/ \E a \in Case.answers, n \in ReplyTokens : FinalTurn(<<a>>, n)
  \/ \E a \in Case.answers, n \in ReplyTokens : FinalTurn(<<a, a>>, n)
  \/ Backoff \/ ChatFails
  \/ ProbesAnswer
  \/ \E o \in {"rows", "error"} : ToolReturns(o)
  \/ StartDiagnosis \/ Diagnosed

Next == Own \/ Outside \/ Tick \/ Done

Spec == Init /\ [][Next]_vars /\ WF_vars(Own) /\ WF_vars(Tick)
---------------------------------------------------------------------------
(* Properties.                                                               *)

(* Every variable keeps its shape; an attempt that ended leaves no loop      *)
(* state behind for the next one.                                            *)
TypeOK ==
  /\ tc \in DOMAIN TestCase /\ late \in BOOLEAN
  /\ pc \in {"loop", "step", "chat", "call", "probe", "tool", "diagnose",
            "judge", "verdict", "struggle", "done"}
  /\ attempt_no \in 0 .. MaxAttempts /\ started \in Nat /\ repeat \in Nat
  /\ spent \in Nat /\ tok \in Nat /\ step \in 0 .. MaxSteps
  /\ retries \in [Counters -> Nat]
  /\ tries \in 0 .. Larger(1, BackoffAttempts - 1)
  /\ last.answer \in Case.answers \cup {Null}
  /\ present \cap absent = {}
  /\ pc \in {"loop", "judge", "verdict"} => seen = <<>> /\ blocks = <<>> /\ calls = <<>>

(* Every attempt begun is either charged to max_attempts or was a re-prompt  *)
(* of exactly one gate, and no gate fires above its cap: a model that never  *)
(* learns still gets a bounded conversation (agent.py:162-164).              *)
Spent ==
  retries["frac"] + retries["resolve"] + retries["shape"] + retries["label"]
  + retries["missing_label"] + retries["unc"] + retries["recompute"]
  + retries["order"] + retries["subject"]
Accounting ==
  /\ started = attempt_no + Spent
  /\ \A c \in Counters : retries[c] <= (IF c = "subject" THEN SubjectCap ELSE RetryCap)
  /\ repeat <= retries["subject"]

(* The token ceiling holds across all attempts of a case: it is overrun by   *)
(* less than one reply (agent.py:430-431).                                   *)
SpendBounded == \A n \in ReplyTokens :
  (\A m \in ReplyTokens : m <= n) => spent + tok < Budget + n

(* A query without UNION branches that the class or predicate guard holds    *)
(* back would have returned nothing, also after failed probes were cached    *)
(* (classcheck.py: "it would return nothing").                               *)
BlockedIsEmpty ==
  pc \in {"call", "probe"} /\ Head(calls) # Skill =>
    LET q == Head(calls)
    IN  BlockedBy(Repaired[q], absent) \in {"class", "predicate"}
        /\ Len(Query[q].branches) = 1 => q \notin GivesRows

(* A case counts as correct only when a query of the very attempt that gave  *)
(* the answer returned rows, not an earlier attempt's, and no limit or       *)
(* provider failure ended it (agent.py:243-270).                             *)
CorrectIsGrounded ==
  result.correct = "yes" =>
    /\ last.used_sparql /\ ~provider_error /\ ~last.timed_out
    /\ correct(Case.exp, last.answer)

(* An answer with the wrong classes or numbers stands only when its re-      *)
(* prompts are used up, or the deadline or the budget ended the case         *)
(* (reprompt.py:386, agent.py:162-164).                                      *)
WrongOnlyAfterRetries ==
  result.category \in {"wrong-class", "wrong-value"} /\ ~late /\ spent < Budget =>
    retries["subject"] = SubjectCap

(* Cases whose right answers are no fractions to answer_is_fraction_not_kg:  *)
(* it takes numbers below 1.5 kg/kg for those of a fraction, so nothing is   *)
(* expected in g/kg, nor within the tolerance of 1.5.                        *)
ClearOfFractions(exp) ==
  /\ exp.unit # "g/kg"
  /\ \A i \in DOMAIN exp.values : Magnitude(exp.values[i]) \notin 1500 .. 1529
FairCases ==
  /\ \A c \in DOMAIN TestCase : /\ TestCase[c].answers \subseteq Answers
                               /\ WellFormed(TestCase[c].exp) /\ ClearOfFractions(TestCase[c].exp)
  /\ \A n \in DOMAIN Query : Query[n].nums \in Seq(Nat)

(* No gate turns away a right answer: one aligned with the expectation that  *)
(* scores correct and whose every number is one the attempt's queries        *)
(* returned, or the sum of all the numbers of some of its results (of one or *)
(* of all when they are more than MaxSubsetSum), is accepted, whatever was   *)
(* rejected, repeated or replayed before (scoring.py:263, reprompt.py:310).  *)
Aligned(ans, exp) ==
  /\ Len(normalize_scalar_answer(ans).values) = Len(exp.values)
  /\ exp.values # <<>> => Len(ans.labels) = Len(exp.labels)
Derived(n, results) ==
  \/ \E i \in DOMAIN results : n \in ToSet(results[i])
  \/ \E I \in Tried(results) :
       n = SumFunctionOnSet([i \in DOMAIN results |-> SumFunction(results[i])], I)
RightAnswerStands ==
  pc = "judge" /\ Grounded /\ Aligned(last.answer, Case.exp)
  /\ correct(Case.exp, last.answer)
  /\ (\A n \in NumberSet(last.answer) : Derived(n, last.blocks)) => Rejecter = "none"

(* The case ends whatever the model and the provider do, and whatever the    *)
(* endpoint does to a query of the model, even when they never answer,       *)
(* because time passes (agent.py:511-517, 577-584, 611-613, 750-764).  The   *)
(* one thing that can hold it is a query of the program's own, for a guard   *)
(* or for the diagnosis of an empty result, that is never answered.          *)
Terminates == <>(pc = "done") \/ <>[](pc \in {"probe", "diagnose"})

(* A promise of the repository: the timeout is a "hard wall-clock budget per *)
(* (question, backend)", "no case may run longer" (run_bench.py:754-758).    *)
Deadline == <>(pc = "done")
=============================================================================
