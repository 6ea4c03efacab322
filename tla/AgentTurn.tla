------------------------------ MODULE AgentTurn ------------------------------
(***************************************************************************)
(* The agent's turn: AgentRunner.Run (internal/app/runner*.go) with its    *)
(* retries, tool calls, idempotency store and reflection, the circuit      *)
(* breakers of internal/resilience, and the sub-agents that the spawn tool *)
(* runs with runners of their own (internal/app/spawn_tool.go).            *)
(*                                                                         *)
(* All turns share the main runner, so its breaker and the table of        *)
(* idempotency keys.  A sub-agent has a runner of its own: a new breaker,  *)
(* no hooks, no idempotency store, a session key that is not a cron key.   *)
(* Provider calls, tools and approvals take time, and other turns, the     *)
(* end of a context, expiring keys and /reset_circuits come in between.    *)
(* The approval of a tool call is modelled in Approval; here the hooks     *)
(* pass it or abort the turn.  Tool arguments are always equal, which is   *)
(* the case in which idempotency keys could clash.                         *)
(***************************************************************************)
EXTENDS Integers, Sequences, FiniteSets

CONSTANTS
  Turns,         \* invocations of Run on the main runner
  Sessions,
  CronSessions,  \* the ones with a cron: key
  Reads,         \* tools without side effects
  Writes,        \* tools declared side-effecting
  Spawn,         \* spawn_subagent
  Unknown,       \* a name the model invents
  Responses,     \* agent -> sequences of tool calls its responses may carry
  Specialist,    \* [prov, model] of the sub-agent's specialist
  Default,       \* [prov, model] of the main runner
  Fallbacks,     \* configured [prov, model] of _fallback and _escalation, in order
  Reflect,       \* EnableReflection
  MaxRounds,     \* MaxReflectionRounds
  MaxIter,       \* MaxToolIterations
  SubIter,       \* spawnMaxIterations
  MaxRetries,    \* maxGenRetries
  MaxFail,       \* maxConsecutiveFailures
  Main,          \* the breaker of the main runner
  NoBreaker      \* nothing, or a breaker no runner uses any more

Tools == Reads \cup Writes \cup {Spawn}
Sub(t) == <<t, "sub">>
Subs == {Sub(t) : t \in Turns}
Agents == Turns \cup Subs
Breakers == {Main} \cup Subs
BreakerOf(a) == IF a \in Turns THEN Main ELSE a
LimitOf(a) == IF a \in Turns THEN MaxIter ELSE SubIter

\* Requests that may be under way in the half-open state.
MutMaxRequests == 2
MaxRequests == 1

ASSUME AgentsAssumption == Turns \cap Subs = {} /\ Main \notin Subs
ASSUME ResponsesAssumption ==
  \A a \in Agents : Responses[a] \subseteq Seq(Tools \cup {Unknown}) \ {<<>>}
ASSUME LimitsAssumption ==
  /\ MaxRounds \in Nat /\ MaxIter \in Nat \ {0} /\ SubIter \in Nat \ {0}
  /\ MaxRetries \in Nat /\ MaxFail \in Nat \ {0} /\ Reflect \in BOOLEAN
ASSUME SessionsAssumption == CronSessions \subseteq Sessions

VARIABLES
  run,        \* agent -> the local state of its Run
  session,    \* turn -> its session
  brk,        \* breaker -> state and consecutive failures
  current,    \* agents whose provider call belongs to the present generation of its breaker
  registry,   \* provider name -> the breaker registered under it
  keys,       \* idempotency_keys: the key, and the call that produced the result
  chain,      \* turn -> position of its sub-agent in SpawnChain
  firstErr    \* turn -> error of the first attempt of the spawn chain

vars == <<run, session, brk, current, registry, keys, chain, firstErr>>

Closed == [state |-> "closed", fails |-> 0]

\* The locals of Run; owed counts the tool calls of the transcript without a
\* result, flawed tells that it holds a TOOL_ERROR, stale that it holds the
\* result of another call.
Idle == [pc |-> "idle", why |-> "chat", attempt |-> 0, iter |-> 0, rounds |-> 0,
         rubric |-> FALSE, todo |-> <<>>, seqLen |-> 0, owed |-> 0, ctxDone |-> FALSE,
         err |-> "none", flawed |-> FALSE, stale |-> FALSE]

Ended == {"done", "failed"}
Active(a) == run[a].pc \notin Ended \cup {"idle"}

\* The sub-agent's attempts: the specialist's provider, the default provider
\* if that is another one, the configured fallbacks with another model.
SpawnChain ==
  <<Specialist>>
  \o (IF Specialist.prov # Default.prov THEN <<Default>> ELSE <<>>)
  \o SelectSeq(Fallbacks, LAMBDA f : f.model # Specialist.model)

Provs == {Default.prov} \cup {SpawnChain[k].prov : k \in 1..Len(SpawnChain)}

\* wireSubTools: the read-only subset, without the spawn tool itself.
SubTools == Reads
ToolsOf(a) == IF a \in Turns THEN Tools ELSE SubTools
IsCronSession(a) == a \in Turns /\ session[a] \in CronSessions

Init ==
  /\ run = [a \in Agents |-> Idle]
  /\ session \in [Turns -> Sessions]
  /\ brk = [b \in Breakers |-> Closed]
  /\ current = {}
  /\ registry = [p \in Provs |-> IF p = Default.prov THEN Main ELSE NoBreaker]
  /\ keys = {}
  /\ chain = [t \in Turns |-> 0]
  /\ firstErr = [t \in Turns |-> "none"]

Set(a, r) == run' = [run EXCEPT ![a] = r]

\* Run returns: its locals are gone, the flags on the transcript remain.
Return(r, how, e) ==
  [Idle EXCEPT !.pc = how, !.err = e, !.flawed = r.flawed, !.stale = r.stale, !.owed = r.owed]
Done(r) == Return(r, "done", "none")
Failed(r, e) == Return(r, "failed", e)
Ask(r, why) == [r EXCEPT !.pc = "attempt", !.why = why, !.attempt = 0]

\* The head of the loop over iterations.
Loop(a, r) == IF r.iter < LimitOf(a) THEN Ask(r, "chat") ELSE Failed(r, "other")
NextIter(a, r) == Loop(a, [r EXCEPT !.iter = @ + 1])
-----------------------------------------------------------------------------
(***************************************************************************)
(* RetryChat and the breaker.                                              *)
(***************************************************************************)
\* A RetryChat that fails ends the turn; a rubric or an audit is done without.
ChatFailed(a, r, e) ==
  CASE r.why = "chat" -> Failed(r, e)
    [] r.why = "plan" -> Loop(a, r)
    [] r.why = "critic" -> Done(r)

\* After an error that shouldRetry accepts; the next attempt begins with the delay.
Retry(a, r, e) ==
  IF r.attempt < MaxRetries THEN [r EXCEPT !.pc = "attempt", !.attempt = @ + 1]
                            ELSE ChatFailed(a, r, e)

InFlight(b) == {a \in current : BreakerOf(a) = b}

\* Run up to the loop.  The session lock admits one turn of a session.
Start(t) ==
  /\ run[t].pc = "idle"
  /\ \A u \in Turns : Active(u) => session[u] # session[t]
  /\ Set(t, IF Reflect THEN Ask(run[t], "plan") ELSE Loop(t, run[t]))
  /\ UNCHANGED <<session, brk, current, registry, keys, chain, firstErr>>

\* The context has ended, or will before the limiter admits: waitBeforeRetry
\* returns its error, or (before the first attempt, or if the delay is over as
\* well) Limiter.Wait does, and that error mentions the rate limit and is
\* therefore retried.
WaitFails(a) ==
  /\ run[a].pc = "attempt" /\ run[a].ctxDone
  /\ \/ run[a].attempt > 0 /\ Set(a, ChatFailed(a, run[a], "ctx"))
     \/ \E e \in {"ctx", "other"} : Set(a, Retry(a, run[a], e))
  /\ UNCHANGED <<session, brk, current, registry, keys, chain, firstErr>>

\* The call goes out: the circuit is closed, or open for longer than its
\* timeout, or half-open without its probe.
Admitted(a) ==
  LET b == BreakerOf(a) IN
  /\ run[a].pc = "attempt" /\ ~run[a].ctxDone
  /\ \/ brk[b].state = "closed" /\ UNCHANGED brk /\ current' = current \cup {a}
     \/ /\ brk[b].state = "open"
        /\ brk' = [brk EXCEPT ![b] = [state |-> "half-open", fails |-> 0]]
        /\ current' = (current \ InFlight(b)) \cup {a}
     \/ /\ brk[b].state = "half-open" /\ Cardinality(InFlight(b)) < MaxRequests
        /\ UNCHANGED brk /\ current' = current \cup {a}
  /\ Set(a, [run[a] EXCEPT !.pc = "calling"])
  /\ UNCHANGED <<session, registry, keys, chain, firstErr>>

\* ErrCircuitOpen is not retried.
Rejected(a) ==
  LET b == BreakerOf(a) IN
  /\ run[a].pc = "attempt" /\ ~run[a].ctxDone
  /\ \/ brk[b].state = "open"
     \/ brk[b].state = "half-open" /\ Cardinality(InFlight(b)) >= MaxRequests
  /\ Set(a, ChatFailed(a, run[a], "other"))
  /\ UNCHANGED <<session, brk, current, registry, keys, chain, firstErr>>

\* The breaker takes note of a result of its present generation only; a
\* change of state begins the next one.
AfterRequest(a, ok) ==
  LET b == BreakerOf(a)
      s == brk[b]
      fails == IF ok THEN 0 ELSE s.fails + 1
      next == CASE s.state = "half-open" -> IF ok THEN "closed" ELSE "open"
                [] s.state = "closed" -> IF fails >= MaxFail THEN "open" ELSE "closed"
  IN IF a \notin current THEN UNCHANGED <<brk, current>>
     ELSE IF next = s.state
       THEN /\ brk' = [brk EXCEPT ![b].fails = fails]
            /\ current' = current \ {a}
       ELSE /\ brk' = [brk EXCEPT ![b] = [state |-> next, fails |-> 0]]
            /\ current' = current \ InFlight(b)

\* An error of the provider, transient or not.  It is of the kind "ctx" (Canceled
\* or DeadlineExceeded) when the context has ended, and also when the provider's
\* own client times out.
ChatErrs(a) ==
  /\ run[a].pc = "calling"
  /\ AfterRequest(a, FALSE)
  /\ \E e \in {"ctx", "other"} : \/ Set(a, Retry(a, run[a], e))
                                 \/ Set(a, ChatFailed(a, run[a], e))
  /\ UNCHANGED <<session, registry, keys, chain, firstErr>>

\* The counts of a closed circuit start anew after its window.
WindowEnds(b) ==
  /\ brk[b].state = "closed"
  /\ brk[b].fails > 0 \/ InFlight(b) # {}
  /\ brk' = [brk EXCEPT ![b] = Closed]
  /\ current' = current \ InFlight(b)
  /\ UNCHANGED <<run, session, registry, keys, chain, firstErr>>

\* /reset_circuits: the registered breakers get new circuits.
ResetAll ==
  LET reg == {registry[p] : p \in Provs} IN
  /\ brk' = [b \in Breakers |-> IF b \in reg THEN Closed ELSE brk[b]]
  /\ current' = {a \in current : BreakerOf(a) \notin reg}
  /\ UNCHANGED <<run, session, registry, keys, chain, firstErr>>
-----------------------------------------------------------------------------
(***************************************************************************)
(* What Run does with a response.                                          *)
(***************************************************************************)
\* handleTerminalResponse: the text is the answer unless it is to be audited.
Terminal(r) ==
  IF Reflect /\ r.rubric /\ r.rounds < MaxRounds THEN Ask(r, "critic")
                                                 ELSE Done(r)

\* The rubric may not parse; nor may the report of the critic, and a low score
\* sends the turn into another iteration with a correction.
ChatReturns(a) ==
  LET r == [run[a] EXCEPT !.attempt = 0] IN
  /\ r.pc = "calling"
  /\ AfterRequest(a, TRUE)
  /\ \/ r.why = "plan" /\ \E ok \in BOOLEAN : Set(a, Loop(a, [r EXCEPT !.rubric = ok]))
     \/ r.why = "critic" /\ \/ Set(a, Done(r))
                            \/ Set(a, NextIter(a, [r EXCEPT !.rounds = @ + 1]))
     \/ r.why = "chat" /\ Set(a, Terminal(r))
     \/ r.why = "chat" /\ \E calls \in Responses[a] :
          Set(a, [r EXCEPT !.pc = "tool", !.todo = calls, !.owed = Len(calls)])
  /\ UNCHANGED <<session, registry, keys, chain, firstErr>>

\* The result of the first call of todo is appended; after the last one the
\* provider is asked again.
Result(a, r) ==
  LET left == [r EXCEPT !.todo = Tail(@), !.owed = @ - 1]
  IN IF left.todo = <<>> THEN NextIter(a, left) ELSE [left EXCEPT !.pc = "tool"]

\* An error of the tool: the end of a context ends the turn, and so does any
\* error in a cron session; otherwise the model is told.
MutToolFailed(a, r, e) ==
  IF e = "ctx" THEN Failed(r, e) ELSE Result(a, [r EXCEPT !.flawed = TRUE])
MutToolFailedSkips(a, r, e) ==
  IF e = "ctx" \/ IsCronSession(a) THEN Failed(r, e) ELSE NextIter(a, [r EXCEPT !.flawed = TRUE])
ToolFailed(a, r, e) ==
  IF e = "ctx" \/ IsCronSession(a) THEN Failed(r, e) ELSE Result(a, [r EXCEPT !.flawed = TRUE])

Tool(a) == Head(run[a].todo)
Guarded(a) == a \in Turns /\ Tool(a) \in Writes
CallId(a) == <<a, run[a].iter, run[a].seqLen>>

\* The key auto-v2:invocation:session:iteration:position:tool:hash.
MutIdemKey(a) == <<session[a], run[a].iter, run[a].seqLen, Tool(a)>>
IdemKey(a) == <<a, session[a], run[a].iter, run[a].seqLen, Tool(a)>>

\* The hooks of a turn pass the call or end the turn; a sub-agent has none.
\* A hook may also answer in the place of the tool, but neither of the two
\* that are registered, the policy's and the approval's, ever does.
PreTool(a) ==
  LET r == [run[a] EXCEPT !.seqLen = @ + 1] IN
  /\ run[a].pc = "tool"
  /\ \/ Set(a, [r EXCEPT !.pc = IF Guarded(a) THEN "check" ELSE "execute"])
     \/ a \in Turns /\ Set(a, Failed(r, "denied"))
  /\ UNCHANGED <<session, brk, current, registry, keys, chain, firstErr>>

\* IdempotencyStore.Check: no record, a record, or an error of the database.
Check(a) ==
  LET hits == {k \in keys : k.key = IdemKey(a)} IN
  /\ run[a].pc = "check"
  /\ \/ hits = {} /\ Set(a, [run[a] EXCEPT !.pc = "execute"])
     \/ \E k \in hits :
          Set(a, Result(a, [run[a] EXCEPT !.stale = @ \/ k.by # CallId(a)]))
     \/ \E e \in {"ctx", "other"} : Set(a, ToolFailed(a, run[a], e))
  /\ UNCHANGED <<session, brk, current, registry, keys, chain, firstErr>>

\* executeToolInner: an unknown name, an error (also from a panic, or from a
\* context of the tool's own that ended), or a result.
Execute(a) ==
  LET known == Tool(a) \in ToolsOf(a) \ {Spawn} IN
  /\ run[a].pc = "execute"
  /\ \/ Set(a, ToolFailed(a, run[a], "other"))
     \/ known /\ Set(a, ToolFailed(a, run[a], "ctx"))
     \/ known /\ Set(a, IF Guarded(a) THEN [run[a] EXCEPT !.pc = "store"]
                                      ELSE Result(a, run[a]))
  /\ UNCHANGED <<session, brk, current, registry, keys, chain, firstErr>>

\* IdempotencyStore.Store; a failure is only logged.
Store(a) ==
  /\ run[a].pc = "store"
  /\ keys' \in {keys, keys \cup {[key |-> IdemKey(a), by |-> CallId(a)]}}
  /\ Set(a, Result(a, run[a]))
  /\ UNCHANGED <<session, brk, current, registry, chain, firstErr>>

\* A record reaches its TTL: CleanupExpired, or the next Check, deletes it.
Expire(k) ==
  /\ keys' = keys \ {k}
  /\ UNCHANGED <<run, session, brk, current, registry, chain, firstErr>>
-----------------------------------------------------------------------------
(***************************************************************************)
(* The spawn tool.                                                         *)
(***************************************************************************)
\* The k-th runner of the chain: New registers its breaker under the name of
\* the provider, in place of any other.
Attempt(t, k, parent) ==
  LET s == Sub(t)
      p == SpawnChain[k].prov
      fresh == [Idle EXCEPT !.ctxDone = parent.ctxDone]
  IN /\ run' = [run EXCEPT ![t] = parent, ![s] = Loop(s, fresh)]
     /\ brk' = [brk EXCEPT ![s] = Closed]
     /\ current' = current \ {s}
     /\ registry' = [q \in Provs |-> IF q = p THEN s
                                     ELSE IF registry[q] = s THEN NoBreaker ELSE registry[q]]
     /\ chain' = [chain EXCEPT ![t] = k]

SpawnSub(t) ==
  /\ run[t].pc = "execute" /\ Tool(t) = Spawn
  /\ Attempt(t, 1, [run[t] EXCEPT !.pc = "spawned"])
  /\ UNCHANGED <<session, keys, firstErr>>

\* The tool returns, and nobody uses the runner of the sub-agent any more; its
\* breaker stays registered.
SpawnReturns(t, r) ==
  /\ run' = [run EXCEPT ![t] = r, ![Sub(t)] = Idle]
  /\ brk' = [brk EXCEPT ![Sub(t)] = Closed]
  /\ registry' = [q \in Provs |-> IF registry[q] = Sub(t) THEN NoBreaker ELSE registry[q]]
  /\ chain' = [chain EXCEPT ![t] = 0]
  /\ firstErr' = [firstErr EXCEPT ![t] = "none"]
  /\ UNCHANGED current

SubReplied(t) ==
  /\ run[t].pc = "spawned" /\ run[Sub(t)].pc = "done"
  /\ SpawnReturns(t, Result(t, run[t]))
  /\ UNCHANGED <<session, keys>>

\* handleFallback; when nothing is left the error is the one of the first attempt.
SubFailed(t) ==
  LET s == run[Sub(t)]
      e == IF chain[t] = 1 THEN s.err ELSE firstErr[t]
  IN /\ run[t].pc = "spawned" /\ s.pc = "failed"
     /\ IF chain[t] < Len(SpawnChain)
          THEN Attempt(t, chain[t] + 1, run[t]) /\ firstErr' = [firstErr EXCEPT ![t] = e]
          ELSE SpawnReturns(t, ToolFailed(t, run[t], e))
     /\ UNCHANGED <<session, keys>>

\* The context of a turn ends (shutdown, the deadline of a job), or the five
\* minutes of a sub-agent are over.
CtxEnds(a) ==
  /\ Active(a) /\ ~run[a].ctxDone
  /\ run' = [b \in Agents |-> IF b = a \/ (a \in Turns /\ b = Sub(a) /\ Active(b))
                                THEN [run[b] EXCEPT !.ctxDone = TRUE] ELSE run[b]]
  /\ UNCHANGED <<session, brk, current, registry, keys, chain, firstErr>>
-----------------------------------------------------------------------------
Step(a) ==
  \/ WaitFails(a) \/ Admitted(a) \/ Rejected(a) \/ ChatErrs(a)
  \/ ChatReturns(a) \/ PreTool(a) \/ Check(a) \/ Execute(a) \/ Store(a)

TurnStep(t) == SpawnSub(t) \/ SubReplied(t) \/ SubFailed(t)

Finished == \A t \in Turns : run[t].pc \in Ended

Next ==
  \/ \E t \in Turns : Start(t) \/ TurnStep(t)
  \/ \E a \in Agents : Step(a) \/ CtxEnds(a)
  \/ \E b \in Breakers : WindowEnds(b)
  \/ \E k \in keys : Expire(k)
  \/ ResetAll
  \/ Finished /\ UNCHANGED vars

Spec == Init /\ [][Next]_vars
-----------------------------------------------------------------------------
RunState ==
  [pc : {"idle", "attempt", "calling", "tool", "check", "execute", "store",
         "spawned", "done", "failed"},
   why : {"chat", "plan", "critic"}, attempt : 0..MaxRetries, iter : Nat, rounds : 0..MaxRounds,
   rubric : BOOLEAN, todo : Seq(Tools \cup {Unknown}), seqLen : Nat, owed : Nat,
   ctxDone : BOOLEAN, err : {"none", "ctx", "other", "denied"}, flawed : BOOLEAN, stale : BOOLEAN]

\* The state is well-typed; in particular a turn never retries a provider
\* call more than maxGenRetries times, and corrects its answer at most
\* MaxReflectionRounds times.
TypeOK ==
  /\ run \in [Agents -> RunState]
  /\ session \in [Turns -> Sessions]
  /\ brk \in [Breakers -> [state : {"closed", "open", "half-open"}, fails : 0..MaxFail - 1]]
  /\ current \subseteq Agents
  /\ registry \in [Provs -> Breakers \cup {NoBreaker}]
  /\ chain \in [Turns -> 0..Len(SpawnChain)]
  /\ firstErr \in [Turns -> {"none", "ctx", "other", "denied"}]

\* A tool result in a transcript was produced by the call it answers: the
\* idempotency key tells apart equal calls of two turns of one session, and
\* equal calls of one turn, so no call is answered from the table with the
\* result of another (executeToolCall).
FreshResults == \A a \in Agents : ~run[a].stale

\* Whenever the provider is asked, and when the transcript is returned to be
\* saved, every tool call in it has its result, whatever failed (processToolCalls).
Paired ==
  \A a \in Agents :
    run[a].pc \in {"attempt", "calling", "done"} => run[a].owed = 0

\* A turn of a cron session that answers saw no tool error (runToolWithHooks).
FailClosed == \A t \in Turns : IsCronSession(t) /\ run[t].pc = "done" => ~run[t].flawed

\* A half-open circuit lets one request probe the provider, however many
\* turns share the breaker (Breaker.Execute, MaxRequests).
ProbeAlone ==
  \A b \in Breakers : brk[b].state = "half-open" => Cardinality(InFlight(b)) = 1
=============================================================================
