--------------------------- MODULE AgentTurnProofs ---------------------------
(***************************************************************************)
(* Proofs about AgentTurn for any turns, sessions, tools, responses,       *)
(* fallbacks and limits.  Run's local state is handled by helpers that map *)
(* one record to the next, so the argument is about them first: each maps  *)
(* a consistent record of an agent to a consistent one.                    *)
(***************************************************************************)
EXTENDS AgentTurn, FiniteSetTheorems, SequenceTheorems, TLAPS

AtTool == {"tool", "check", "execute", "store", "spawned"}

\* A turn of a cron session goes on only while it has seen no tool error.
CronClean(a, r) == IsCronSession(a) => ~r.flawed

\* The local state of Run is consistent: every tool call before todo has its
\* result, of the call itself, and those in todo are the ones that lack it.
RunOK(a, r) ==
  /\ r \in RunState
  /\ ~r.stale
  /\ r.pc \in {"idle", "attempt", "calling", "done"} => r.owed = 0
  /\ r.pc \in AtTool => r.todo # <<>> /\ r.owed = Len(r.todo)
  /\ r.pc \in {"attempt", "calling"} /\ r.why = "critic" => r.rounds < MaxRounds
  /\ r.pc # "failed" => CronClean(a, r)

\* A record of the idempotency store carries the result of the very call
\* whose key it has.
KeysOK ==
  \A k \in keys : k.by = <<k.key[1], k.key[3], k.key[4]>>

\* What a circuit admits: an open one nothing, a half-open one its probe.
CircuitsOK ==
  /\ brk \in [Breakers -> [state : {"closed", "open", "half-open"}, fails : 0..MaxFail - 1]]
  /\ current \subseteq Agents
  /\ \A b \in Breakers :
       /\ brk[b].state = "open" => InFlight(b) = {}
       /\ brk[b].state = "half-open" => \E a \in Agents : InFlight(b) = {a}

RunsOK ==
  /\ run \in [Agents -> RunState]
  /\ firstErr \in [Turns -> {"none", "ctx", "other", "denied"}]
  /\ \A a \in Agents : RunOK(a, run[a])

TurnInv ==
  /\ RunsOK
  /\ KeysOK
  /\ CircuitsOK
-----------------------------------------------------------------------------
(***************************************************************************)
(* The helpers of Run.                                                     *)
(***************************************************************************)
\* A record whose transcript is complete, and one that has calls to answer.
Complete(a, r) == r \in RunState /\ ~r.stale /\ r.owed = 0 /\ CronClean(a, r)
Owing(a, r) ==
  /\ r \in RunState /\ ~r.stale /\ CronClean(a, r)
  /\ r.todo # <<>> /\ r.owed = Len(r.todo)

Errs == {"none", "ctx", "other", "denied"}

LEMMA ZeroAttempts == 0 \in 0..MaxRetries /\ 0 \in 0..MaxRounds
BY LimitsAssumption

LEMMA IdleType == Idle \in RunState
BY ZeroAttempts DEF Idle, RunState

LEMMA RunOKParts ==
  ASSUME NEW a \in Agents, NEW r, RunOK(a, r)
  PROVE  /\ r.pc \in {"attempt", "calling"} => Complete(a, r)
         /\ r.pc \in AtTool => Owing(a, r)
BY DEF RunOK, Complete, Owing, AtTool

LEMMA ReturnOK ==
  ASSUME NEW a \in Agents, NEW r \in RunState, ~r.stale, NEW e \in Errs
  PROVE  /\ RunOK(a, Failed(r, e))
         /\ Complete(a, r) => RunOK(a, Done(r))
<1> DEFINE how == {"done", "failed"}
<1> SUFFICES ASSUME NEW w \in how, NEW x \in Errs, w = "done" => Complete(a, r)
             PROVE  RunOK(a, Return(r, w, x))
  BY DEF Failed, Done, Errs
<1>1. PICK q : q = Return(r, w, x)
  OBVIOUS
<1>2. q \in RunState
  <2>1. w \in {"idle", "attempt", "calling", "tool", "check", "execute", "store", "spawned",
              "done", "failed"}
    OBVIOUS
  <2>2. r.flawed \in BOOLEAN /\ r.stale \in BOOLEAN /\ r.owed \in Nat
    BY DEF RunState
  <2> QED
    BY <1>1, <2>1, <2>2, IdleType DEF Return, RunState, Errs
<1>3. q.pc = w /\ ~q.stale /\ q.owed = r.owed /\ q.flawed = r.flawed
  BY <1>1 DEF Return, Idle, RunState
<1> QED
  BY <1>1, <1>2, <1>3 DEF RunOK, Complete, AtTool, CronClean

LEMMA AskOK ==
  ASSUME NEW a \in Agents, NEW r, Complete(a, r), NEW why \in {"chat", "plan", "critic"},
         why = "critic" => r.rounds < MaxRounds
  PROVE  RunOK(a, Ask(r, why))
<1>1. PICK q : q = Ask(r, why)
  OBVIOUS
<1>2. q \in RunState
  <2>1. r \in RunState
    BY DEF Complete
  <2> QED
    BY <1>1, <2>1, ZeroAttempts DEF Ask, RunState
<1>3. /\ q.pc = "attempt" /\ q.why = why /\ q.rounds = r.rounds
      /\ ~q.stale /\ q.owed = 0 /\ q.flawed = r.flawed
  BY <1>1 DEF Ask, Complete, RunState
<1> QED
  BY <1>1, <1>2, <1>3 DEF RunOK, Complete, AtTool, CronClean

LEMMA LoopOK ==
  ASSUME NEW a \in Agents, NEW r, Complete(a, r)
  PROVE  RunOK(a, Loop(a, r)) /\ RunOK(a, NextIter(a, r))
<1>1. \A q : Complete(a, q) => RunOK(a, Loop(a, q))
  <2> SUFFICES ASSUME NEW q, Complete(a, q) PROVE RunOK(a, Loop(a, q))
    OBVIOUS
  <2>1. RunOK(a, Ask(q, "chat"))
    BY AskOK
  <2>2. RunOK(a, Failed(q, "other"))
    BY ReturnOK DEF Complete, Errs
  <2> QED
    BY <2>1, <2>2 DEF Loop
<1>2. Complete(a, [r EXCEPT !.iter = @ + 1])
  BY DEF Complete, RunState, CronClean
<1> QED
  BY <1>1, <1>2 DEF NextIter

LEMMA ChatFailedOK ==
  ASSUME NEW a \in Agents, NEW r, Complete(a, r), NEW e \in Errs
  PROVE  RunOK(a, ChatFailed(a, r, e))
<1>1. RunOK(a, Failed(r, e)) /\ RunOK(a, Done(r))
  BY ReturnOK DEF Complete
<1>2. RunOK(a, Loop(a, r))
  BY LoopOK
<1>3. r.why \in {"chat", "plan", "critic"}
  BY DEF Complete, RunState
<1> QED
  BY <1>1, <1>2, <1>3 DEF ChatFailed

LEMMA RetryOK ==
  ASSUME NEW a \in Agents, NEW r, RunOK(a, r), r.pc \in {"attempt", "calling"}, NEW e \in Errs
  PROVE  RunOK(a, Retry(a, r, e))
<1>1. CASE r.attempt < MaxRetries
  <2>1. PICK q : q = Retry(a, r, e)
    OBVIOUS
  <2>2. q \in RunState
    <3>1. r \in RunState
      BY DEF RunOK
    <3>2. r.attempt + 1 \in 0..MaxRetries
      BY <1>1, <3>1, LimitsAssumption DEF RunState
    <3> QED
      BY <1>1, <2>1, <3>1, <3>2 DEF Retry, RunState
  <2>3. /\ q.pc = "attempt" /\ q.why = r.why /\ q.rounds = r.rounds
        /\ ~q.stale /\ q.owed = 0 /\ q.flawed = r.flawed
    BY <1>1, <2>1 DEF Retry, RunOK, RunState
  <2> QED
    BY <2>1, <2>2, <2>3 DEF RunOK, AtTool, CronClean
<1>2. CASE ~(r.attempt < MaxRetries)
  BY <1>2, RunOKParts, ChatFailedOK DEF Retry
<1> QED
  BY <1>1, <1>2

LEMMA TerminalOK ==
  ASSUME NEW a \in Agents, NEW r, Complete(a, r)
  PROVE  RunOK(a, Terminal(r))
<1>1. RunOK(a, Done(r))
  BY ReturnOK DEF Complete, Errs
<1>2. r.rounds < MaxRounds => RunOK(a, Ask(r, "critic"))
  BY AskOK
<1> QED
  BY <1>1, <1>2 DEF Terminal

LEMMA ResultOK ==
  ASSUME NEW a \in Agents, NEW r, Owing(a, r)
  PROVE  RunOK(a, Result(a, r))
<1> DEFINE left == [r EXCEPT !.todo = Tail(@), !.owed = @ - 1]
<1>1. /\ Tail(r.todo) \in Seq(Tools \cup {Unknown})
      /\ Len(Tail(r.todo)) = Len(r.todo) - 1
      /\ Len(Tail(r.todo)) \in Nat
      /\ Tail(r.todo) = <<>> => Len(Tail(r.todo)) = 0
  <2>1. r.todo \in Seq(Tools \cup {Unknown}) /\ r.todo # <<>>
    BY DEF Owing, RunState
  <2>2. Tail(r.todo) \in Seq(Tools \cup {Unknown}) /\ Len(Tail(r.todo)) = Len(r.todo) - 1
    BY <2>1, HeadTailProperties
  <2>3. Len(Tail(r.todo)) \in Nat
    BY <2>2, LenProperties
  <2> QED
    BY <2>2, <2>3, EmptySeq
<1>2. left \in RunState /\ ~left.stale /\ CronClean(a, left) /\ left.owed = Len(left.todo)
  BY <1>1 DEF Owing, RunState, CronClean
<1> HIDE DEF left
<1>3. CASE left.todo = <<>>
  <2>1. Complete(a, left)
    BY <1>1, <1>2, <1>3 DEF Complete
  <2> QED
    BY <1>3, <2>1, LoopOK DEF Result, left
<1>4. CASE left.todo # <<>>
  <2>1. RunOK(a, [left EXCEPT !.pc = "tool"])
    <3>1. PICK q : q = [left EXCEPT !.pc = "tool"]
      OBVIOUS
    <3>2. q \in RunState
      BY <1>2, <3>1 DEF RunState
    <3>3. /\ q.pc = "tool" /\ q.todo = left.todo /\ q.owed = left.owed
          /\ ~q.stale /\ q.flawed = left.flawed
      BY <1>2, <3>1 DEF RunState
    <3> QED
      BY <1>2, <1>4, <3>1, <3>2, <3>3 DEF RunOK, AtTool, CronClean
  <2> QED
    BY <1>4, <2>1 DEF Result, left
<1> QED
  BY <1>3, <1>4

LEMMA ToolFailedOK ==
  ASSUME NEW a \in Agents, NEW r, Owing(a, r), NEW e \in Errs
  PROVE  RunOK(a, ToolFailed(a, r, e))
<1>1. RunOK(a, Failed(r, e))
  BY ReturnOK DEF Owing
<1>2. CASE ~IsCronSession(a)
  <2>1. Owing(a, [r EXCEPT !.flawed = TRUE])
    BY <1>2 DEF Owing, RunState, CronClean
  <2> QED
    BY <1>1, <2>1, ResultOK DEF ToolFailed
<1> QED
  BY <1>1, <1>2 DEF ToolFailed
-----------------------------------------------------------------------------
(***************************************************************************)
(* The actions and the local states.                                       *)
(***************************************************************************)
LEMMA SetOK ==
  ASSUME RunsOK, NEW a \in Agents, NEW r, RunOK(a, r), Set(a, r),
         UNCHANGED <<session, firstErr>>
  PROVE  RunsOK'
<1>1. r \in RunState
  BY DEF RunOK
<1>2. run' \in [Agents -> RunState]
  BY <1>1 DEF Set, RunsOK
<1>3. \A b \in Agents : \A q : RunOK(b, q) => RunOK(b, q)'
  BY DEF RunOK, CronClean, IsCronSession
<1>4. ASSUME NEW b \in Agents PROVE RunOK(b, run[b])'
  <2>1. CASE b = a
    BY <2>1, <1>3 DEF Set, RunsOK
  <2>2. CASE b # a
    BY <2>2, <1>3 DEF Set, RunsOK
  <2> QED BY <2>1, <2>2
<1> QED
  BY <1>2, <1>4 DEF RunsOK

LEMMA StartRuns ==
  ASSUME RunsOK, NEW t \in Turns, Start(t)
  PROVE  RunsOK'
<1>1. t \in Agents /\ RunOK(t, run[t]) /\ run[t].pc = "idle"
  BY DEF RunsOK, Start, Agents
<1>2. Complete(t, run[t])
  BY <1>1 DEF RunOK, Complete
<1>3. RunOK(t, Ask(run[t], "plan")) /\ RunOK(t, Loop(t, run[t]))
  BY <1>1, <1>2, AskOK, LoopOK
<1> QED
  BY <1>1, <1>3, SetOK DEF Start

LEMMA ChatRuns ==
  ASSUME RunsOK, NEW a \in Agents,
         WaitFails(a) \/ Admitted(a) \/ Rejected(a) \/ ChatErrs(a)
  PROVE  RunsOK'
<1>1. RunOK(a, run[a]) /\ run[a].pc \in {"attempt", "calling"}
  BY DEF RunsOK, WaitFails, Admitted, Rejected, ChatErrs
<1>2. Complete(a, run[a])
  BY <1>1, RunOKParts
<1>3. \A e \in Errs : RunOK(a, ChatFailed(a, run[a], e)) /\ RunOK(a, Retry(a, run[a], e))
  BY <1>1, <1>2, ChatFailedOK, RetryOK
<1>4. ASSUME WaitFails(a) PROVE RunsOK'
  BY <1>3, <1>4, SetOK DEF WaitFails, Errs
<1>5. ASSUME Admitted(a) PROVE RunsOK'
  <2>1. PICK q : q = [run[a] EXCEPT !.pc = "calling"]
    OBVIOUS
  <2>2. RunOK(a, q)
    BY <1>1, <2>1 DEF RunOK, RunState, AtTool, CronClean
  <2> QED
    BY <1>5, <2>1, <2>2, SetOK DEF Admitted
<1>6. ASSUME Rejected(a) PROVE RunsOK'
  BY <1>3, <1>6, SetOK DEF Rejected, Errs
<1>7. ASSUME ChatErrs(a) PROVE RunsOK'
  BY <1>3, <1>7, SetOK DEF ChatErrs, Errs
<1> QED
  BY <1>4, <1>5, <1>6, <1>7

LEMMA ChatReturnsRuns ==
  ASSUME RunsOK, NEW a \in Agents, ChatReturns(a)
  PROVE  RunsOK'
<1>1. PICK r : r = [run[a] EXCEPT !.attempt = 0]
  OBVIOUS
<1>2. RunOK(a, run[a]) /\ run[a].pc = "calling" /\ run[a] \in RunState
  <2>1. RunOK(a, run[a]) /\ run[a] \in RunState
    BY DEF RunsOK, RunOK
  <2>2. run[a].pc = "calling"
    BY <2>1 DEF ChatReturns, RunState
  <2> QED BY <2>1, <2>2
<1>3. Complete(a, run[a])
  BY <1>2, RunOKParts
<1>4. Complete(a, r) /\ r.why = run[a].why /\ r.rounds = run[a].rounds /\ r.pc = "calling"
  BY <1>1, <1>2, <1>3, ZeroAttempts DEF Complete, RunState, CronClean
<1>5. ASSUME NEW ok \in BOOLEAN PROVE RunOK(a, Loop(a, [r EXCEPT !.rubric = ok]))
  <2>1. Complete(a, [r EXCEPT !.rubric = ok])
    BY <1>4 DEF Complete, RunState, CronClean
  <2> QED BY <2>1, LoopOK
<1>6. RunOK(a, Done(r))
  BY <1>4, ReturnOK DEF Complete, Errs
<1>7. ASSUME r.why = "critic" PROVE RunOK(a, NextIter(a, [r EXCEPT !.rounds = @ + 1]))
  <2>1. r.rounds + 1 \in 0..MaxRounds
    BY <1>2, <1>4, <1>7, LimitsAssumption DEF RunOK, RunState
  <2>2. Complete(a, [r EXCEPT !.rounds = @ + 1])
    BY <1>4, <2>1 DEF Complete, RunState, CronClean
  <2> QED BY <2>2, LoopOK
<1>8. RunOK(a, Terminal(r))
  BY <1>4, TerminalOK
<1>9. ASSUME NEW calls \in Responses[a]
      PROVE  RunOK(a, [r EXCEPT !.pc = "tool", !.todo = calls, !.owed = Len(calls)])
  <2>1. calls \in Seq(Tools \cup {Unknown}) /\ calls # <<>>
    BY ResponsesAssumption
  <2>2. Len(calls) \in Nat
    BY <2>1, LenProperties
  <2>3. PICK q : q = [r EXCEPT !.pc = "tool", !.todo = calls, !.owed = Len(calls)]
    OBVIOUS
  <2>4. q \in RunState
    BY <1>4, <2>1, <2>2, <2>3 DEF Complete, RunState
  <2>5. q.pc = "tool" /\ q.todo = calls /\ q.owed = Len(calls) /\ ~q.stale /\ q.flawed = r.flawed
    BY <1>4, <2>3 DEF Complete, RunState
  <2>6. RunOK(a, q)
    BY <1>4, <2>1, <2>4, <2>5 DEF RunOK, Complete, AtTool, CronClean
  <2> QED BY <2>3, <2>6
<1>10. UNCHANGED <<session, firstErr>>
  BY DEF ChatReturns
<1> QED
  BY <1>1, <1>4, <1>5, <1>6, <1>7, <1>8, <1>9, <1>10, SetOK DEF ChatReturns

LEMMA PreToolRuns ==
  ASSUME RunsOK, NEW a \in Agents, PreTool(a)
  PROVE  RunsOK'
<1>1. RunOK(a, run[a]) /\ Owing(a, run[a]) /\ run[a].pc = "tool"
  BY RunOKParts DEF RunsOK, PreTool, AtTool
<1>2. ASSUME NEW pc \in {"check", "execute"}
      PROVE  RunOK(a, [[run[a] EXCEPT !.seqLen = @ + 1] EXCEPT !.pc = pc])
  <2>1. PICK q : q = [[run[a] EXCEPT !.seqLen = @ + 1] EXCEPT !.pc = pc]
    OBVIOUS
  <2>2. q \in RunState
    <3>1. [run[a] EXCEPT !.seqLen = @ + 1] \in RunState
      BY SMTT(30), <1>1 DEF Owing, RunState
    <3> QED BY <2>1, <3>1 DEF RunState
  <2>3. /\ q.pc = pc /\ q.todo = run[a].todo /\ q.owed = run[a].owed
        /\ ~q.stale /\ q.flawed = run[a].flawed
    BY <1>1, <2>1 DEF Owing, RunState
  <2>4. RunOK(a, q)
    BY <1>1, <2>2, <2>3 DEF RunOK, Owing, AtTool, CronClean
  <2> QED BY <2>1, <2>4
<1>3. RunOK(a, Failed([run[a] EXCEPT !.seqLen = @ + 1], "denied"))
  <2>1. /\ [run[a] EXCEPT !.seqLen = @ + 1] \in RunState
        /\ ~[run[a] EXCEPT !.seqLen = @ + 1].stale
    BY SMTT(30), <1>1 DEF Owing, RunState
  <2> QED BY <2>1, ReturnOK DEF Errs
<1> QED
  BY <1>2, <1>3, SetOK DEF PreTool

\* The heart of FreshResults: a record found under the key of a call is that
\* call's own, since the key names the invocation, the iteration and the position.
LEMMA HitIsOwn ==
  ASSUME KeysOK, NEW a \in Agents, NEW k \in keys, k.key = IdemKey(a)
  PROVE  k.by = CallId(a)
BY DEF KeysOK, IdemKey, CallId

LEMMA CheckRuns ==
  ASSUME RunsOK, KeysOK, NEW a \in Agents, Check(a)
  PROVE  RunsOK'
<1>1. RunOK(a, run[a]) /\ Owing(a, run[a]) /\ run[a].pc = "check"
  BY RunOKParts DEF RunsOK, Check, AtTool
<1>2. RunOK(a, [run[a] EXCEPT !.pc = "execute"])
  <2>1. PICK q : q = [run[a] EXCEPT !.pc = "execute"]
    OBVIOUS
  <2>2. q \in RunState
    BY <1>1, <2>1 DEF Owing, RunState
  <2>3. /\ q.pc = "execute" /\ q.todo = run[a].todo /\ q.owed = run[a].owed
        /\ ~q.stale /\ q.flawed = run[a].flawed
    BY <1>1, <2>1 DEF Owing, RunState
  <2> QED
    BY <1>1, <2>1, <2>2, <2>3 DEF RunOK, Owing, AtTool, CronClean
<1>3. ASSUME NEW k \in keys, k.key = IdemKey(a)
      PROVE  RunOK(a, Result(a, [run[a] EXCEPT !.stale = @ \/ k.by # CallId(a)]))
  <2>1. k.by = CallId(a)
    BY <1>3, HitIsOwn
  <2>2. [run[a] EXCEPT !.stale = @ \/ k.by # CallId(a)] = run[a]
    BY <1>1, <2>1 DEF Owing, RunState
  <2> QED
    BY <1>1, <2>2, ResultOK
<1>4. \A e \in {"ctx", "other"} : RunOK(a, ToolFailed(a, run[a], e))
  BY <1>1, ToolFailedOK DEF Errs
<1> QED
  BY <1>2, <1>3, <1>4, SetOK DEF Check

LEMMA ExecuteRuns ==
  ASSUME RunsOK, NEW a \in Agents, Execute(a) \/ Store(a)
  PROVE  RunsOK'
<1>1. RunOK(a, run[a]) /\ Owing(a, run[a])
  BY RunOKParts DEF RunsOK, Execute, Store, AtTool
<1>2. RunOK(a, [run[a] EXCEPT !.pc = "store"])
  <2>1. PICK q : q = [run[a] EXCEPT !.pc = "store"]
    OBVIOUS
  <2>2. q \in RunState
    BY <1>1, <2>1 DEF Owing, RunState
  <2>3. /\ q.pc = "store" /\ q.todo = run[a].todo /\ q.owed = run[a].owed
        /\ ~q.stale /\ q.flawed = run[a].flawed
    BY <1>1, <2>1 DEF Owing, RunState
  <2> QED
    BY <1>1, <2>1, <2>2, <2>3 DEF RunOK, Owing, AtTool, CronClean
<1>3. RunOK(a, Result(a, run[a]))
  BY <1>1, ResultOK
<1>4. \A e \in {"ctx", "other"} : RunOK(a, ToolFailed(a, run[a], e))
  BY <1>1, ToolFailedOK DEF Errs
<1> QED
  BY <1>2, <1>3, <1>4, SetOK DEF Execute, Store

LEMMA SubIsAgent ==
  ASSUME NEW t \in Turns
  PROVE  /\ t \in Agents /\ Sub(t) \in Agents /\ Sub(t) # t
         /\ Sub(t) \notin Turns /\ Sub(t) \in Breakers /\ Sub(t) # Main
         /\ BreakerOf(Sub(t)) = Sub(t)
BY AgentsAssumption DEF Agents, Subs, Breakers, BreakerOf

\* An attempt of the spawn chain sets the turn and starts a sub-agent anew.
LEMMA PairOK ==
  ASSUME RunsOK, NEW t \in Turns, NEW r, NEW s, RunOK(t, r), RunOK(Sub(t), s),
         run' = [run EXCEPT ![t] = r, ![Sub(t)] = s], UNCHANGED session,
         firstErr' \in [Turns -> Errs]
  PROVE  RunsOK'
<1>1. t \in Agents /\ Sub(t) \in Agents /\ Sub(t) # t
  BY SubIsAgent
<1>2. r \in RunState /\ s \in RunState
  BY DEF RunOK
<1>3. run' \in [Agents -> RunState]
  BY <1>1, <1>2 DEF RunsOK
<1>4. \A b \in Agents : \A q : RunOK(b, q) => RunOK(b, q)'
  BY DEF RunOK, CronClean, IsCronSession
<1>5. ASSUME NEW b \in Agents PROVE RunOK(b, run[b])'
  <2>1. run'[b] = IF b = Sub(t) THEN s ELSE IF b = t THEN r ELSE run[b]
    BY <1>1 DEF RunsOK
  <2>2. RunOK(b, run'[b])
    BY <2>1 DEF RunsOK
  <2> QED BY <1>4, <2>2
<1> QED
  BY <1>3, <1>5 DEF RunsOK, Errs

LEMMA AttemptRuns ==
  ASSUME RunsOK, NEW t \in Turns, NEW k, NEW r, RunOK(t, r), Attempt(t, k, r),
         UNCHANGED session, firstErr' \in [Turns -> Errs]
  PROVE  RunsOK'
<1>1. Sub(t) \in Agents /\ ~IsCronSession(Sub(t))
  BY SubIsAgent DEF IsCronSession
<1>2. PICK fresh : fresh = [Idle EXCEPT !.ctxDone = r.ctxDone]
  OBVIOUS
<1>3. fresh \in RunState /\ ~fresh.stale /\ fresh.owed = 0
  <2>1. r.ctxDone \in BOOLEAN
    BY DEF RunOK, RunState
  <2>2. fresh \in RunState
    BY <1>2, <2>1, IdleType DEF RunState
  <2> QED
    BY <1>2, <2>2 DEF Idle
<1>4. RunOK(Sub(t), Loop(Sub(t), fresh))
  BY <1>1, <1>3, LoopOK DEF Complete, CronClean
<1> QED
  BY <1>2, <1>4, PairOK DEF Attempt

LEMMA SpawnRuns ==
  ASSUME RunsOK, NEW t \in Turns, TurnStep(t)
  PROVE  RunsOK'
<1>1. t \in Agents /\ Sub(t) \in Agents
  BY SubIsAgent
<1>2. RunOK(t, run[t]) /\ Owing(t, run[t])
  BY <1>1, RunOKParts DEF RunsOK, TurnStep, SpawnSub, SubReplied, SubFailed, AtTool
<1>3. RunOK(Sub(t), Idle)
  BY IdleType, SubIsAgent DEF RunOK, Idle, AtTool, CronClean, IsCronSession
<1>4. UNCHANGED session
  BY DEF TurnStep, SpawnSub, SubReplied, SubFailed
<1>5. ASSUME NEW r, RunOK(t, r), SpawnReturns(t, r) PROVE RunsOK'
  <2>1. firstErr' \in [Turns -> Errs]
    BY <1>5 DEF SpawnReturns, RunsOK, Errs
  <2> QED
    BY <1>3, <1>4, <1>5, <2>1, PairOK DEF SpawnReturns
<1>6. ASSUME SpawnSub(t) PROVE RunsOK'
  <2>1. PICK q : q = [run[t] EXCEPT !.pc = "spawned"]
    OBVIOUS
  <2>2. q \in RunState
    BY <1>2, <2>1 DEF Owing, RunState
  <2>3. /\ q.pc = "spawned" /\ q.todo = run[t].todo /\ q.owed = run[t].owed
        /\ ~q.stale /\ q.flawed = run[t].flawed
    BY <1>2, <2>1 DEF Owing, RunState
  <2>4. RunOK(t, q)
    BY <1>2, <2>2, <2>3 DEF RunOK, Owing, AtTool, CronClean
  <2>5. firstErr' \in [Turns -> Errs]
    BY <1>6 DEF SpawnSub, RunsOK, Errs
  <2> QED
    BY <1>4, <1>6, <2>1, <2>4, <2>5, AttemptRuns DEF SpawnSub
<1>7. ASSUME SubReplied(t) PROVE RunsOK'
  BY <1>2, <1>5, <1>7, ResultOK, <1>1 DEF SubReplied
<1>8. ASSUME SubFailed(t) PROVE RunsOK'
  <2>1. PICK e : e = IF chain[t] = 1 THEN run[Sub(t)].err ELSE firstErr[t]
    OBVIOUS
  <2>2. e \in Errs
    BY <1>1, <2>1 DEF RunsOK, RunState, Errs
  <2>3. CASE chain[t] < Len(SpawnChain)
    <3>1. firstErr' = [firstErr EXCEPT ![t] = e] /\ Attempt(t, chain[t] + 1, run[t])
      BY <1>8, <2>1, <2>3 DEF SubFailed
    <3>2. firstErr' \in [Turns -> Errs]
      BY <2>2, <3>1 DEF RunsOK, Errs
    <3> QED
      BY <1>2, <1>4, <3>1, <3>2, AttemptRuns
  <2>4. CASE ~(chain[t] < Len(SpawnChain))
    <3>1. SpawnReturns(t, ToolFailed(t, run[t], e))
      BY <1>8, <2>1, <2>4 DEF SubFailed
    <3>2. RunOK(t, ToolFailed(t, run[t], e))
      BY <1>1, <1>2, <2>2, ToolFailedOK
    <3> QED
      BY <1>5, <3>1, <3>2
  <2> QED BY <2>3, <2>4
<1> QED
  BY <1>6, <1>7, <1>8 DEF TurnStep

LEMMA CtxEndsRuns ==
  ASSUME RunsOK, NEW a \in Agents, CtxEnds(a)
  PROVE  RunsOK'
<1>1. ASSUME NEW b \in Agents PROVE RunOK(b, [run[b] EXCEPT !.ctxDone = TRUE])
  <2>1. PICK q : q = [run[b] EXCEPT !.ctxDone = TRUE]
    OBVIOUS
  <2>2. RunOK(b, run[b]) /\ run[b] \in RunState
    BY DEF RunsOK, RunOK
  <2>3. q \in RunState
    BY <2>1, <2>2 DEF RunState
  <2>4. /\ q.pc = run[b].pc /\ q.why = run[b].why /\ q.rounds = run[b].rounds
        /\ q.todo = run[b].todo /\ q.owed = run[b].owed
        /\ q.stale = run[b].stale /\ q.flawed = run[b].flawed
    BY <2>1, <2>2 DEF RunState
  <2>5. RunOK(b, q)
    BY <2>2, <2>3, <2>4 DEF RunOK, AtTool, CronClean
  <2> QED BY <2>1, <2>5
<1>2. \A b \in Agents : \A q : RunOK(b, q) => RunOK(b, q)'
  BY DEF CtxEnds, RunOK, CronClean, IsCronSession
<1>3. ASSUME NEW b \in Agents
      PROVE  run'[b] = [run[b] EXCEPT !.ctxDone = TRUE] \/ run'[b] = run[b]
  BY DEF CtxEnds
<1>4. ASSUME NEW b \in Agents PROVE RunOK(b, run[b])'
  BY <1>1, <1>2, <1>3 DEF RunsOK
<1>5. run' \in [Agents -> RunState]
  <2>1. \A b \in Agents : run'[b] \in RunState
    BY <1>4 DEF RunOK
  <2> QED
    BY <2>1 DEF CtxEnds
<1> QED
  BY <1>4, <1>5 DEF RunsOK, CtxEnds
-----------------------------------------------------------------------------
(***************************************************************************)
(* The breakers.  A breaker's requests are followed only through brk and   *)
(* current.                                                                *)
(***************************************************************************)
LEMMA AdmittedCircuits ==
  ASSUME CircuitsOK, NEW a \in Agents, Admitted(a)
  PROVE  CircuitsOK'
<1> DEFINE b == BreakerOf(a)
<1>1. b \in Breakers
  BY DEF BreakerOf, Breakers, Agents
<1>2. ASSUME NEW c \in Breakers, c # b PROVE InFlight(c)' = InFlight(c)
  BY <1>2 DEF Admitted, InFlight
<1>3. current' \subseteq Agents
  BY DEF Admitted, CircuitsOK
<1>4. CASE brk[b].state = "closed"
  <2>1. UNCHANGED brk
    BY <1>4 DEF Admitted
  <2> QED
    BY <1>2, <1>3, <1>4, <2>1 DEF CircuitsOK
<1>5. CASE brk[b].state = "open"
  <2>1. brk' = [brk EXCEPT ![b] = [state |-> "half-open", fails |-> 0]]
    BY <1>5 DEF Admitted
  <2>2. InFlight(b)' = {a}
    BY <1>5 DEF Admitted, InFlight
  <2>3. 0 \in 0..MaxFail - 1
    BY LimitsAssumption
  <2>4. brk' \in [Breakers -> [state : {"closed", "open", "half-open"}, fails : 0..MaxFail - 1]]
    BY <1>1, <2>1, <2>3 DEF CircuitsOK
  <2>5. brk'[b].state = "half-open" /\ \A c \in Breakers : c # b => brk'[c] = brk[c]
    BY <1>1, <2>1 DEF CircuitsOK
  <2> QED
    BY <1>2, <1>3, <2>2, <2>4, <2>5 DEF CircuitsOK
<1>6. CASE brk[b].state = "half-open"
  <2>1. UNCHANGED brk /\ Cardinality(InFlight(b)) < 1
    BY <1>6 DEF Admitted, MaxRequests
  <2>2. PICK p \in Agents : InFlight(b) = {p}
    BY <1>1, <1>6 DEF CircuitsOK
  <2>3. Cardinality({p}) = 1
    BY FS_Singleton
  <2> QED
    BY <2>1, <2>2, <2>3
<1> QED
  BY <1>1, <1>4, <1>5, <1>6 DEF CircuitsOK

LEMMA AfterRequestCircuits ==
  ASSUME CircuitsOK, NEW a \in Agents, NEW ok \in BOOLEAN, AfterRequest(a, ok)
  PROVE  CircuitsOK'
<1> DEFINE b == BreakerOf(a)
           s == brk[b]
           fails == IF ok THEN 0 ELSE s.fails + 1
           next == CASE s.state = "half-open" -> IF ok THEN "closed" ELSE "open"
                     [] s.state = "closed" -> IF fails >= MaxFail THEN "open" ELSE "closed"
<1>1. b \in Breakers
  BY DEF BreakerOf, Breakers, Agents
<1>2. CASE a \notin current
  BY <1>2 DEF AfterRequest, CircuitsOK, InFlight
<1>3. CASE a \in current
  <2>1. a \in InFlight(b)
    BY <1>3 DEF InFlight
  <2>2. s.state \in {"closed", "half-open"} /\ s.fails \in 0..MaxFail - 1
    BY <1>1, <2>1 DEF CircuitsOK
  <2>3. next \in {"closed", "open"} /\ (s.state = "half-open" => next # s.state)
    BY <2>2
  <2>4. 0 \in 0..MaxFail - 1
    BY LimitsAssumption
  <2>5. current' \subseteq Agents /\ \A c \in Breakers : c # b => InFlight(c)' = InFlight(c)
    BY <1>3 DEF AfterRequest, CircuitsOK, InFlight
  <2>6. CASE next = s.state
    <3>1. s.state = "closed" /\ fails \in 0..MaxFail - 1
      BY <2>2, <2>3, <2>4, <2>6, LimitsAssumption
    <3>2. brk' = [brk EXCEPT ![b].fails = fails]
      BY <1>3, <2>6 DEF AfterRequest
    <3> HIDE DEF fails, next
    <3>3. /\ brk' \in [Breakers -> [state : {"closed", "open", "half-open"},
                                      fails : 0..MaxFail - 1]]
          /\ brk'[b].state = "closed"
          /\ \A c \in Breakers : c # b => brk'[c] = brk[c]
      BY <1>1, <3>1, <3>2 DEF CircuitsOK
    <3> QED
      BY <2>5, <3>3 DEF CircuitsOK
  <2>7. CASE next # s.state
    <3>1. /\ brk' = [brk EXCEPT ![b] = [state |-> next, fails |-> 0]]
          /\ current' = current \ InFlight(b)
      BY <1>3, <2>7 DEF AfterRequest
    <3> HIDE DEF fails, next
    <3>2. InFlight(b)' = {}
      BY <3>1 DEF InFlight
    <3>3. /\ brk' \in [Breakers -> [state : {"closed", "open", "half-open"},
                                      fails : 0..MaxFail - 1]]
          /\ brk'[b].state # "half-open"
          /\ \A c \in Breakers : c # b => brk'[c] = brk[c]
      BY <1>1, <2>3, <2>4, <3>1 DEF CircuitsOK
    <3> QED
      BY <2>5, <3>2, <3>3 DEF CircuitsOK
  <2> QED BY <2>6, <2>7
<1> QED
  BY <1>2, <1>3

\* A circuit made anew, or whose window ended, is closed; the others stay.
LEMMA RenewedCircuits ==
  ASSUME CircuitsOK, NEW R \in SUBSET Breakers,
         brk' = [b \in Breakers |-> IF b \in R THEN Closed ELSE brk[b]],
         current' \subseteq current,
         \A b \in Breakers \ R : InFlight(b)' = InFlight(b)
  PROVE  CircuitsOK'
<1>1. Closed \in [state : {"closed", "open", "half-open"}, fails : 0..MaxFail - 1]
  BY LimitsAssumption DEF Closed
<1>2. brk' \in [Breakers -> [state : {"closed", "open", "half-open"}, fails : 0..MaxFail - 1]]
  BY <1>1 DEF CircuitsOK
<1>3. \A b \in R : brk'[b].state = "closed"
  BY DEF Closed
<1>4. \A b \in Breakers \ R : brk'[b] = brk[b]
  OBVIOUS
<1>5. current' \subseteq Agents
  BY DEF CircuitsOK
<1>6. ASSUME NEW b \in Breakers
      PROVE  /\ brk'[b].state = "open" => InFlight(b)' = {}
             /\ brk'[b].state = "half-open" => \E a \in Agents : InFlight(b)' = {a}
  <2>1. CASE b \in R
    BY <1>3, <2>1
  <2>2. CASE b \notin R
    BY <1>4, <2>2 DEF CircuitsOK
  <2> QED BY <2>1, <2>2
<1> QED
  BY <1>2, <1>5, <1>6 DEF CircuitsOK

LEMMA NextCircuits ==
  ASSUME CircuitsOK, Next
  PROVE  CircuitsOK'
<1>1. UNCHANGED <<brk, current>> => CircuitsOK'
  BY DEF CircuitsOK, InFlight
<1>2. ASSUME NEW a \in Agents, Admitted(a) PROVE CircuitsOK'
  BY <1>2, AdmittedCircuits
<1>3. ASSUME NEW a \in Agents, ChatErrs(a) \/ ChatReturns(a) PROVE CircuitsOK'
  BY <1>3, AfterRequestCircuits DEF ChatErrs, ChatReturns
<1>4. ASSUME NEW b \in Breakers, WindowEnds(b) PROVE CircuitsOK'
  <2>1. brk' = [c \in Breakers |-> IF c \in {b} THEN Closed ELSE brk[c]]
    BY <1>4 DEF WindowEnds, CircuitsOK
  <2>2. /\ current' \subseteq current
        /\ \A c \in Breakers \ {b} : InFlight(c)' = InFlight(c)
    BY <1>4 DEF WindowEnds, InFlight
  <2> QED BY <2>1, <2>2, RenewedCircuits
<1>5. ASSUME ResetAll PROVE CircuitsOK'
  <2> DEFINE R == {registry[p] : p \in Provs} \cap Breakers
  <2>1. brk' = [c \in Breakers |-> IF c \in R THEN Closed ELSE brk[c]]
    BY <1>5 DEF ResetAll
  <2>2. /\ current' \subseteq current
        /\ \A c \in Breakers \ R : InFlight(c)' = InFlight(c)
    BY <1>5 DEF ResetAll, InFlight
  <2> QED BY <2>1, <2>2, RenewedCircuits
<1>6. ASSUME NEW t \in Turns, NEW k, NEW r, Attempt(t, k, r) PROVE CircuitsOK'
  <2>1. Sub(t) \in Breakers /\ BreakerOf(Sub(t)) = Sub(t)
    BY SubIsAgent
  <2>2. brk' = [c \in Breakers |-> IF c \in {Sub(t)} THEN Closed ELSE brk[c]]
    BY <1>6, <2>1 DEF Attempt, CircuitsOK
  <2>3. /\ current' \subseteq current
        /\ \A c \in Breakers \ {Sub(t)} : InFlight(c)' = InFlight(c)
    BY <1>6, <2>1 DEF Attempt, InFlight
  <2> QED BY <2>1, <2>2, <2>3, RenewedCircuits
<1>7. ASSUME NEW t \in Turns, NEW r, SpawnReturns(t, r) PROVE CircuitsOK'
  <2>1. Sub(t) \in Breakers
    BY SubIsAgent
  <2>2. brk' = [c \in Breakers |-> IF c \in {Sub(t)} THEN Closed ELSE brk[c]]
    BY <1>7, <2>1 DEF SpawnReturns, CircuitsOK
  <2>3. /\ current' \subseteq current
        /\ \A c \in Breakers \ {Sub(t)} : InFlight(c)' = InFlight(c)
    BY <1>7 DEF SpawnReturns, InFlight
  <2> QED BY <2>1, <2>2, <2>3, RenewedCircuits
<1>8. ASSUME NEW t \in Turns, Start(t) \/ TurnStep(t) PROVE CircuitsOK'
  BY <1>1, <1>6, <1>7, <1>8 DEF Start, TurnStep, SpawnSub, SubReplied, SubFailed
<1>9. ASSUME NEW a \in Agents, Step(a) \/ CtxEnds(a) PROVE CircuitsOK'
  BY <1>1, <1>2, <1>3, <1>9 DEF Step, CtxEnds, WaitFails, Rejected, PreTool, Check, Execute,
     Store
<1> QED
  BY <1>1, <1>4, <1>5, <1>8, <1>9 DEF Next, Expire, vars
-----------------------------------------------------------------------------
LEMMA TurnInitInv == Init => TurnInv
<1> SUFFICES ASSUME Init PROVE TurnInv
  OBVIOUS
<1>1. \A a \in Agents : RunOK(a, Idle)
  BY IdleType DEF RunOK, Idle, AtTool, CronClean
<1>2. RunsOK
  BY <1>1, IdleType DEF Init, RunsOK
<1>3. Closed \in [state : {"closed", "open", "half-open"}, fails : 0..MaxFail - 1]
  BY LimitsAssumption DEF Closed
<1>4. CircuitsOK
  BY <1>3 DEF Init, CircuitsOK, Closed
<1> QED
  BY <1>2, <1>4 DEF Init, TurnInv, KeysOK

LEMMA NextKeys ==
  ASSUME KeysOK, Next
  PROVE  KeysOK'
<1>1. ASSUME NEW a \in Agents, Store(a) PROVE KeysOK'
  <2>1. \A k \in keys' : k \in keys \/ k = [key |-> IdemKey(a), by |-> CallId(a)]
    BY <1>1 DEF Store
  <2> QED
    BY <2>1 DEF KeysOK, IdemKey, CallId
<1>2. keys' \subseteq keys => KeysOK'
  BY DEF KeysOK
<1>3. ASSUME NEW t \in Turns, Start(t) \/ TurnStep(t) PROVE keys' \subseteq keys
  BY <1>3 DEF Start, TurnStep, SpawnSub, SubReplied, SubFailed
<1>4. ASSUME NEW a \in Agents, Step(a), ~Store(a) PROVE keys' \subseteq keys
  BY <1>4 DEF Step, WaitFails, Admitted, Rejected, ChatErrs, ChatReturns, PreTool, Check, Execute
<1>5. ASSUME NEW a \in Agents, CtxEnds(a) PROVE keys' \subseteq keys
  BY <1>5 DEF CtxEnds
<1>6. ASSUME NEW b \in Breakers, WindowEnds(b) PROVE keys' \subseteq keys
  BY <1>6 DEF WindowEnds
<1>7. ASSUME NEW k \in keys, Expire(k) PROVE keys' \subseteq keys
  BY <1>7 DEF Expire
<1>8. ResetAll \/ UNCHANGED vars => keys' \subseteq keys
  BY DEF ResetAll, vars
<1> QED
  BY <1>1, <1>2, <1>3, <1>4, <1>5, <1>6, <1>7, <1>8 DEF Next

LEMMA NextRuns ==
  ASSUME RunsOK, KeysOK, Next
  PROVE  RunsOK'
<1>1. UNCHANGED <<run, session, firstErr>> => RunsOK'
  BY DEF RunsOK, RunOK, CronClean, IsCronSession
<1>2. ASSUME NEW t \in Turns, Start(t) \/ TurnStep(t) PROVE RunsOK'
  BY <1>2, StartRuns, SpawnRuns
<1>3. ASSUME NEW a \in Agents, Step(a) \/ CtxEnds(a) PROVE RunsOK'
  BY <1>3, ChatRuns, ChatReturnsRuns, PreToolRuns, CheckRuns, ExecuteRuns, CtxEndsRuns DEF Step
<1> QED
  BY <1>1, <1>2, <1>3 DEF Next, WindowEnds, Expire, ResetAll, vars

(***************************************************************************)
(* In every behaviour the local state of every Run, the idempotency store  *)
(* and the circuits stay consistent, whatever fails, ends, expires or is   *)
(* reset; in particular a turn asks at most maxGenRetries times more and   *)
(* corrects its answer at most MaxReflectionRounds times.                  *)
(***************************************************************************)
THEOREM TurnInvariant == Spec => []TurnInv
<1>1. TurnInv /\ [Next]_vars => TurnInv'
  <2> SUFFICES ASSUME TurnInv, [Next]_vars PROVE TurnInv'
    OBVIOUS
  <2>1. CASE Next
    BY <2>1, NextRuns, NextKeys, NextCircuits DEF TurnInv
  <2>2. CASE UNCHANGED vars
    BY <2>2 DEF vars, TurnInv, RunsOK, RunOK, CronClean, IsCronSession, KeysOK, CircuitsOK,
       InFlight
  <2> QED BY <2>1, <2>2
<1> QED
  BY <1>1, TurnInitInv, PTL DEF Spec

(***************************************************************************)
(* No tool call is answered from the idempotency store with the result of  *)
(* another call, for any turns, sessions and tools, with every argument    *)
(* equal (executeToolCall, autoIdempotencyKey).                            *)
(***************************************************************************)
THEOREM TurnFreshResults == Spec => []FreshResults
<1>1. TurnInv => FreshResults
  BY DEF TurnInv, RunsOK, RunOK, FreshResults
<1> QED
  BY <1>1, TurnInvariant, PTL

(***************************************************************************)
(* Whenever the provider is asked, and when the transcript is returned,    *)
(* every tool call in it has its result, for responses of any length       *)
(* (processToolCalls).                                                     *)
(***************************************************************************)
THEOREM TurnPaired == Spec => []Paired
<1>1. TurnInv => Paired
  BY DEF TurnInv, RunsOK, RunOK, Paired
<1> QED
  BY <1>1, TurnInvariant, PTL

(***************************************************************************)
(* A turn of a cron session that answers saw no tool error, through any    *)
(* chain of sub-agents (runToolWithHooks).                                 *)
(***************************************************************************)
THEOREM TurnFailClosed == Spec => []FailClosed
<1>1. TurnInv => FailClosed
  BY DEF TurnInv, RunsOK, RunOK, CronClean, FailClosed, Agents
<1> QED
  BY <1>1, TurnInvariant, PTL

(***************************************************************************)
(* A half-open circuit has exactly one request under way, however many     *)
(* turns share the breaker and whenever it is reset (Breaker.Execute).     *)
(***************************************************************************)
THEOREM TurnProbeAlone == Spec => []ProbeAlone
<1>1. TurnInv => ProbeAlone
  <2> SUFFICES ASSUME TurnInv, NEW b \in Breakers, brk[b].state = "half-open"
               PROVE  Cardinality(InFlight(b)) = 1
    BY DEF ProbeAlone
  <2>1. PICK a \in Agents : InFlight(b) = {a}
    BY DEF TurnInv, CircuitsOK
  <2> QED
    BY <2>1, FS_Singleton
<1> QED
  BY <1>1, TurnInvariant, PTL
=============================================================================
