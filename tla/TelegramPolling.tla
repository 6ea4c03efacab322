--------------------------- MODULE TelegramPolling ---------------------------
(***************************************************************************)
(* The Telegram side: the poller of internal/app/telegram.go, the loops    *)
(* and dispatch goroutines of internal/bot, the pairing gate and its       *)
(* tables (internal/context/pairing.go), the handler behind it             *)
(* (internal/app/handler.go) and the operator's "gobot authorize".         *)
(*                                                                         *)
(* A generation is a pair of channels and one worker that polls for both.  *)
(* The update loop starts the worker, the callback loop only joins; when   *)
(* the worker ends both channels are closed and the loops acquire the next *)
(* generation.  The offset and the table of seen messages outlive it.      *)
(*                                                                         *)
(* The Telegram service is external: it returns the updates from the       *)
(* offset on, perhaps with older ones before them, or an error.  A client  *)
(* call other than the long poll is one step.  The back-off of the loops   *)
(* is a wait of any length.                                                *)
(***************************************************************************)
EXTENDS Integers, Sequences, SequencesExt, FiniteSets

CONSTANTS
  Stream,      \* the updates in the order of their ids
  AllowFrom,   \* chats of channels.telegram.allowFrom
  Chats,       \* chat ids
  Codes,       \* pairing codes; a code that is also a chat id is in both sets
  Args,        \* what the operator types
  NoChat,      \* a callback without a message or a chat
  Cap,         \* capacity of a channel (100)
  MaxFail,     \* consecutive failures that open the breaker
  MaxGens,     \* bound on the generations
  MaxTrouble   \* bound on all disturbances together: failing calls and statements,
               \* calls of Stop, expiries, commands of the operator

Ids == 1..Len(Stream)
Gens == 1..MaxGens
Loops == {"updates", "callbacks"}
Msgs == {u \in Ids : Stream[u].kind = "message"}
Cbs == Ids \ Msgs

ASSUME StreamAssumption ==
  \A u \in Ids : /\ Stream[u].kind \in {"message", "callback"}
                 /\ Stream[u].chat \in Chats \cup {NoChat}
                 /\ Stream[u].kind = "message" => Stream[u].chat \in Chats
ASSUME AllowAssumption == AllowFrom # {} /\ AllowFrom \subseteq Chats
ASSUME CapAssumption == Cap \in Nat \ {0} /\ MaxFail \in Nat \ {0}
ASSUME BoundsAssumption == /\ Len(Stream) \in Nat /\ MaxGens \in Nat /\ MaxTrouble \in Nat
                           /\ IsFiniteSet(AllowFrom)

VARIABLES
  alive,      \* the context of Bot.Run
  offset,     \* nextUpdateID
  gens,       \* the generations created so far
  brk,        \* circuit breaker "telegram": state and consecutive failures
  seen,       \* seenMsgs
  loop,       \* loop -> program counter and generation it drains
  disp,       \* update -> its dispatch goroutine: program counter, what became of the update
  authorized, \* authorized_users
  codes,      \* pairing_codes: code, chat, valid
  op,         \* the operator's process
  trouble,    \* disturbances still to come, stops and expiries so far
  dispatched, \* update -> times it was handed to a dispatch goroutine
  lost        \* updates given up because the generation's context ended

polling == <<gens, offset, seen>>
pairing == <<authorized, codes>>
seenBy == <<dispatched, lost>>
vars == <<alive, polling, brk, loop, disp, pairing, op, trouble, seenBy>>

\* A disturbance, within the bound.
Trouble == trouble.left > 0 /\ trouble' = [trouble EXCEPT !.left = @ - 1]
Count(k) == trouble.left > 0 /\ trouble' = [trouble EXCEPT !.left = @ - 1, ![k] = @ + 1]

Closed == [state |-> "closed", fails |-> 0]
Idle == [pc |-> "none", x |-> ""]
Nobody == [pc |-> "idle", code |-> 0, chat |-> NoChat]
NewGeneration == [live |-> TRUE, started |-> FALSE, closed |-> FALSE, pc |-> "wait", counted |-> FALSE,
                  batch |-> <<>>, msgs |-> <<>>, cbs |-> <<>>, joined |-> {}]

\* The context of a generation is a child of the context of Bot.Run.
Live(g) == alive /\ gens[g].live
Key(u) == <<Stream[u].chat, Stream[u].mid>>

-----------------------------------------------------------------------------
(* The circuit breaker all calls to Telegram share.                        *)

\* A long poll of the breaker's present generation is in flight.
InFlight == \E g \in DOMAIN gens : gens[g].pc = "polling" /\ gens[g].counted
Admits == brk.state = "closed" \/ (brk.state = "half-open" /\ ~InFlight)

\* The breaker after a call; the window of its counts may have ended before it.
After(ok, window) ==
  LET fails == IF ok THEN 0 ELSE IF window THEN 1 ELSE brk.fails + 1 IN
  IF brk.state = "half-open" THEN [state |-> IF ok THEN "closed" ELSE "open", fails |-> 0]
  ELSE IF fails >= MaxFail THEN [state |-> "open", fails |-> 0]
  ELSE [state |-> "closed", fails |-> fails]

\* The generations as a change of the breaker's state leaves them: results of
\* calls made before it no longer count.
Uncounted == [g \in DOMAIN gens |-> [gens[g] EXCEPT !.counted = FALSE]]
Settle(b) == IF b.state = brk.state THEN gens ELSE Uncounted

\* A short call through Execute: rejected, or made with result ok.
Execute(ok) ==
  IF ~Admits THEN ~ok /\ UNCHANGED <<brk, trouble>>
  ELSE /\ IF ok THEN UNCHANGED trouble ELSE Trouble
       /\ \E window \in BOOLEAN : brk' = After(ok, window)

OpenTimeout ==
  /\ brk.state = "open"
  /\ brk' = [state |-> "half-open", fails |-> 0]
  /\ gens' = Uncounted
  /\ UNCHANGED <<alive, offset, seen, loop, disp, pairing, op, trouble, seenBy>>

-----------------------------------------------------------------------------
(* The loops of Bot.Run and the generations they acquire.                  *)

\* Mutant: the callback loop starts the worker too.
MutAcquireGeneration(l) ==
  LET n == Len(gens)
      join == IF n = 0 \/ gens[n].closed THEN Append(gens, NewGeneration) ELSE gens
      k == Len(join)
  IN IF n > 0 /\ ~gens[n].closed /\ ~Live(n)
       THEN loop' = [loop EXCEPT ![l] = [pc |-> "waiting", g |-> n]] /\ UNCHANGED gens
     ELSE /\ k <= MaxGens
          /\ gens' = [join EXCEPT ![k].started = TRUE, ![k].joined = @ \cup {l}]
          /\ loop' = [loop EXCEPT ![l] = [pc |-> "drain", g |-> k]]

\* acquireGeneration under the lifecycle mutex: wait for a cancelled worker,
\* refuse to start into an open circuit, or join the newest generation, a new
\* one if there is none or it is closed.
acquireGeneration(l) ==
  LET n == Len(gens)
      join == IF n = 0 \/ gens[n].closed THEN Append(gens, NewGeneration) ELSE gens
      k == Len(join)
      start == l = "updates"
  IN IF n > 0 /\ ~gens[n].closed /\ ~Live(n)
       THEN loop' = [loop EXCEPT ![l] = [pc |-> "waiting", g |-> n]] /\ UNCHANGED gens
     ELSE IF start /\ brk.state = "open"
       THEN loop' = [loop EXCEPT ![l].pc = "retry"] /\ UNCHANGED gens
     ELSE /\ k <= MaxGens
          /\ gens' = [join EXCEPT ![k].started = @ \/ start, ![k].joined = @ \cup {l}]
          /\ loop' = [loop EXCEPT ![l] = [pc |-> "drain", g |-> k]]

acquire(l) ==
  /\ loop[l].pc = "acquire"
  /\ IF alive THEN acquireGeneration(l)
     ELSE loop' = [loop EXCEPT ![l].pc = "retry"] /\ UNCHANGED gens
  /\ UNCHANGED <<alive, offset, seen, brk, disp, pairing, op, trouble, seenBy>>

\* The wait for the worker of a cancelled generation.
acquireWaited(l) ==
  /\ loop[l].pc = "waiting"
  /\ \/ gens[loop[l].g].closed /\ loop' = [loop EXCEPT ![l].pc = "acquire"]
     \/ ~alive /\ loop' = [loop EXCEPT ![l].pc = "retry"]
  /\ UNCHANGED <<alive, polling, brk, disp, pairing, op, trouble, seenBy>>

waitRetry(l) ==
  /\ loop[l].pc = "retry"
  /\ loop' = [loop EXCEPT ![l].pc = IF alive THEN "acquire" ELSE "end"]
  /\ UNCHANGED <<alive, polling, brk, disp, pairing, op, trouble, seenBy>>

Started == [pc |-> "dispatch", x |-> ""]

drainUpdates ==
  LET g == loop["updates"].g IN
  /\ loop["updates"].pc = "drain" /\ gens[g].msgs # <<>>
  /\ LET u == Head(gens[g].msgs) IN
     /\ gens' = [gens EXCEPT ![g].msgs = Tail(@)]
     /\ disp' = [disp EXCEPT ![u] = Started]
     /\ dispatched' = [dispatched EXCEPT ![u] = @ + 1]
  /\ UNCHANGED <<alive, offset, seen, brk, loop, pairing, op, trouble, lost>>

drainCallbacks ==
  LET g == loop["callbacks"].g IN
  /\ loop["callbacks"].pc = "drain" /\ gens[g].cbs # <<>>
  /\ LET u == Head(gens[g].cbs) IN
     /\ gens' = [gens EXCEPT ![g].cbs = Tail(@)]
     /\ disp' = [disp EXCEPT ![u] = Started]
     /\ dispatched' = [dispatched EXCEPT ![u] = @ + 1]
  /\ UNCHANGED <<alive, offset, seen, brk, loop, pairing, op, trouble, lost>>

\* A closed and empty channel sends the loop back to acquire; a cancelled
\* context ends it whatever the channel still holds.
Pending(l) == IF l = "updates" THEN gens[loop[l].g].msgs ELSE gens[loop[l].g].cbs
\* Mutant: a closed channel ends the loop.
MutDrainEnds(l) ==
  /\ loop[l].pc = "drain"
  /\ (gens[loop[l].g].closed /\ Pending(l) = <<>>) \/ ~alive
  /\ loop' = [loop EXCEPT ![l].pc = "end"]
  /\ UNCHANGED <<alive, polling, brk, disp, pairing, op, trouble, seenBy>>
drainEnds(l) ==
  /\ loop[l].pc = "drain"
  /\ \/ gens[loop[l].g].closed /\ Pending(l) = <<>> /\ loop' = [loop EXCEPT ![l].pc = "acquire"]
     \/ ~alive /\ loop' = [loop EXCEPT ![l].pc = "end"]
  /\ UNCHANGED <<alive, polling, brk, disp, pairing, op, trouble, seenBy>>

Stop ==
  /\ Count("stop") /\ gens # <<>>
  /\ gens' = [gens EXCEPT ![Len(gens)].live = FALSE]
  /\ UNCHANGED <<alive, offset, seen, brk, loop, disp, pairing, op, seenBy>>

-----------------------------------------------------------------------------
(* The worker of a generation.                                             *)

\* The first deferred act is to cancel the context.
Ending(g) == [gens EXCEPT ![g].pc = "ending", ![g].live = FALSE, ![g].counted = FALSE]

runGeneration(g) ==
  /\ gens[g].pc = "wait"
  /\ \/ ~Live(g) /\ gens' = Ending(g)
     \/ gens[g].started /\ gens' = [gens EXCEPT ![g].pc = "batch"]
  /\ UNCHANGED <<alive, offset, seen, brk, loop, disp, pairing, op, trouble, seenBy>>

finishGeneration(g) ==
  /\ gens[g].pc = "ending"
  /\ gens' = [gens EXCEPT ![g].pc = "done", ![g].closed = TRUE]
  /\ UNCHANGED <<alive, offset, seen, brk, loop, disp, pairing, op, trouble, seenBy>>

startPoller(g) ==
  /\ gens[g].pc = "batch" /\ gens[g].batch = <<>>
  /\ gens' = IF Live(g) /\ Admits THEN [gens EXCEPT ![g].pc = "polling", ![g].counted = TRUE]
             ELSE Ending(g)
  /\ UNCHANGED <<alive, offset, seen, brk, loop, disp, pairing, op, trouble, seenBy>>

\* The breaker takes the result of a call that still counts.
Result(g, ok) == \E window \in BOOLEAN : brk' = IF gens[g].counted THEN After(ok, window) ELSE brk

\* Any error, also of the cancelled context, ends the generation.
fetchFails(g) ==
  /\ gens[g].pc = "polling"
  /\ IF Live(g) THEN Trouble ELSE UNCHANGED trouble
  /\ Result(g, FALSE)
  /\ gens' = [Settle(brk') EXCEPT ![g].pc = "ending", ![g].live = FALSE, ![g].counted = FALSE]
  /\ UNCHANGED <<alive, offset, seen, loop, disp, pairing, op, seenBy>>

\* Updates from the offset on, perhaps after one that was confirmed before.
fetchUpdates(g) ==
  /\ gens[g].pc = "polling"
  /\ Result(g, TRUE)
  /\ \E a \in {offset - 1, offset} \ {0}, z \in (offset - 1)..Len(Stream) :
       gens' = [Settle(brk') EXCEPT ![g].pc = "batch", ![g].counted = FALSE,
                                    ![g].batch = [i \in 1..(z - a + 1) |-> a + i - 1]]
  /\ UNCHANGED <<alive, offset, seen, loop, disp, pairing, op, trouble, seenBy>>

Next1(g) == [gens EXCEPT ![g].batch = Tail(@)]

isDuplicate(u) == Key(u) \in seen

\* What handleMessage and handleCallbackQuery do before they hand over: the
\* table of seen messages takes the message even of a chat that is not listed.
handleMessage(g, u) ==
  /\ seen' = IF Stream[u].text = "" THEN seen ELSE seen \cup {Key(u)}
  /\ gens' = IF Stream[u].text # "" /\ ~isDuplicate(u) /\ Stream[u].chat \in AllowFrom
               THEN [gens EXCEPT ![g].pc = "handing"] ELSE Next1(g)
handleCallbackQuery(g, u) ==
  /\ gens' = IF Stream[u].chat \in AllowFrom THEN [gens EXCEPT ![g].pc = "answer"] ELSE Next1(g)
  /\ UNCHANGED seen

\* Mutant: updates below the offset are handled again.
MutHandleGenerationUpdate(g) ==
  /\ gens[g].pc = "batch" /\ gens[g].batch # <<>>
  /\ LET u == Head(gens[g].batch) IN
     /\ offset' = u + 1
     /\ IF u \in Msgs THEN handleMessage(g, u) ELSE handleCallbackQuery(g, u)
  /\ UNCHANGED <<alive, brk, loop, disp, pairing, op, trouble, seenBy>>
handleGenerationUpdate(g) ==
  /\ gens[g].pc = "batch" /\ gens[g].batch # <<>>
  /\ LET u == Head(gens[g].batch) IN
     IF u < offset THEN gens' = Next1(g) /\ UNCHANGED <<offset, seen>>
     ELSE /\ offset' = u + 1
          /\ IF u \in Msgs THEN handleMessage(g, u) ELSE handleCallbackQuery(g, u)
  /\ UNCHANGED <<alive, brk, loop, disp, pairing, op, trouble, seenBy>>

\* The spinner is answered whether or not that succeeds.
answerCallback(g) ==
  /\ gens[g].pc = "answer"
  /\ \E ok \in BOOLEAN : Execute(ok)
  /\ gens' = [Settle(brk') EXCEPT ![g].pc = "handing"]
  /\ UNCHANGED <<alive, offset, seen, loop, disp, pairing, op, seenBy>>

\* The select of a hand-over: a free slot, or the end of the context.
Handed(g) == [Next1(g) EXCEPT ![g].pc = "batch"]
GivenUp(g) ==
  /\ ~Live(g)
  /\ gens' = Handed(g)
  /\ lost' = lost \cup {Head(gens[g].batch)}
sendMessage(g) ==
  /\ gens[g].pc = "handing" /\ Head(gens[g].batch) \in Msgs
  /\ \/ /\ Len(gens[g].msgs) < Cap
        /\ gens' = [Handed(g) EXCEPT ![g].msgs = Append(@, Head(gens[g].batch))]
        /\ UNCHANGED lost
     \/ GivenUp(g)
  /\ UNCHANGED <<alive, offset, seen, brk, loop, disp, pairing, op, trouble, dispatched>>
sendCallback(g) ==
  /\ gens[g].pc = "handing" /\ Head(gens[g].batch) \in Cbs
  /\ \/ /\ Len(gens[g].cbs) < Cap
        /\ gens' = [Handed(g) EXCEPT ![g].cbs = Append(@, Head(gens[g].batch))]
        /\ UNCHANGED lost
     \/ GivenUp(g)
  /\ UNCHANGED <<alive, offset, seen, brk, loop, disp, pairing, op, trouble, dispatched>>

-----------------------------------------------------------------------------
(* Dispatch of a message or callback in a goroutine of its own.            *)

Goto(u, pc, x) == disp' = [disp EXCEPT ![u] = [pc |-> pc, x |-> x]]

Validate(u) == Stream[u].sender # 0

\* Validate, then Typing: a first action and a ticker.
dispatch(u) ==
  /\ u \in Msgs /\ disp[u].pc = "dispatch"
  /\ IF ~Validate(u)
       THEN Goto(u, "done", "") /\ UNCHANGED <<brk, gens, trouble>>
       ELSE /\ \E ok \in BOOLEAN : Execute(ok)
            /\ gens' = Settle(brk')
            /\ Goto(u, "check", "")
  /\ UNCHANGED <<alive, offset, seen, loop, pairing, op, seenBy>>

\* The ticker of Typing, until the dispatch or the context ends.
sendTyping(u) ==
  /\ alive /\ u \in Msgs /\ disp[u].pc \notin {"none", "dispatch", "done"}
  /\ \E ok \in BOOLEAN : Execute(ok)
  /\ gens' = Settle(brk')
  /\ UNCHANGED <<alive, offset, seen, loop, disp, pairing, op, seenBy>>

\* A statement of the pairing store that fails ends in the failure notice.
\* Mutant: a failing check lets the update through.
MutDbErr(u) == Trouble /\ Goto(u, "done", "served")
DbErr(u) ==
  /\ Trouble
  /\ IF u \in Msgs THEN Goto(u, IF alive THEN "send" ELSE "done", "failed") ELSE Goto(u, "done", "failed")
DbFails(u) ==
  /\ disp[u].pc \in {"check", "delete", "insert"} \/ (u \in Cbs /\ disp[u].pc = "dispatch")
  /\ DbErr(u)
  /\ UNCHANGED <<alive, polling, brk, loop, pairing, op, seenBy>>

IsAuthorized(chat) == chat \in authorized
ValidCodes(chat) == {r \in codes : r.chat = chat /\ r.valid}

\* The text may be /reset_circuits, which replaces all circuits, the one of
\* Telegram among them.
maybeHandleAdminCommand(u) ==
  /\ brk' = Closed /\ gens' = Uncounted
  /\ Goto(u, "send", "served")

\* DispatchHandler.Handle: an answer, an empty one, an open circuit (an
\* apology, as an answer), or another error.  Answers are remembered.
innerHandle(u) ==
  /\ \/ \E pc \in {"send", "done"} : Goto(u, pc, "remembered")
     \/ Goto(u, IF alive THEN "send" ELSE "done", "served")
  /\ UNCHANGED <<brk, gens>>

\* PairingHandler.Handle: the inner handler, the code of the chat, or a new code.
Handle(u) ==
  LET chat == Stream[u].chat IN
  /\ u \in Msgs /\ disp[u].pc = "check"
  /\ IF IsAuthorized(chat) THEN maybeHandleAdminCommand(u) \/ innerHandle(u)
     ELSE /\ IF ValidCodes(chat) # {} THEN Goto(u, "send", "code") ELSE Goto(u, "delete", "")
          /\ UNCHANGED <<brk, gens>>
  /\ UNCHANGED <<alive, offset, seen, loop, pairing, op, trouble, seenBy>>

\* GetOrCreateCode goes on with two statements of its own.
DeleteExpired(u) ==
  /\ disp[u].pc = "delete"
  /\ codes' = {r \in codes : r.valid \/ r.chat # Stream[u].chat}
  /\ Goto(u, "insert", "")
  /\ UNCHANGED <<alive, polling, brk, loop, authorized, op, trouble, seenBy>>
GetOrCreateCode(u) ==
  /\ disp[u].pc = "insert"
  /\ \E c \in Codes :
       IF \E r \in codes : r.code = c
         THEN Goto(u, IF alive THEN "send" ELSE "done", "failed") /\ UNCHANGED codes
         ELSE /\ codes' = codes \cup {[code |-> c, chat |-> Stream[u].chat, valid |-> TRUE]}
              /\ Goto(u, "send", "code")
  /\ UNCHANGED <<alive, polling, brk, loop, authorized, op, trouble, seenBy>>

\* Send: text that Telegram cannot parse is sent once more without mark-up;
\* every failure counts for the breaker.
Send(u) ==
  /\ disp[u].pc \in {"send", "plain"}
  /\ \E ok \in BOOLEAN : /\ Execute(ok)
                         /\ \/ Goto(u, "done", disp[u].x)
                            \/ disp[u].pc = "send" /\ ~ok /\ Admits /\ Goto(u, "plain", disp[u].x)
  /\ gens' = Settle(brk')
  /\ UNCHANGED <<alive, offset, seen, loop, pairing, op, seenBy>>

\* Callbacks go to the approval manager when the chat is authorized.
HandleCallback(u) ==
  /\ u \in Cbs /\ disp[u].pc = "dispatch"
  /\ Goto(u, "done", IF IsAuthorized(Stream[u].chat) THEN "served" ELSE "refused")
  /\ UNCHANGED <<alive, polling, brk, loop, pairing, op, trouble, seenBy>>

-----------------------------------------------------------------------------
(* gobot authorize <code or chat id>, in a process of its own.             *)

authorize(arg) ==
  /\ op.pc = "idle" /\ Trouble
  /\ \/ \E r \in codes : r.code = arg /\ r.valid /\ op' = [pc |-> "insert", code |-> arg, chat |-> r.chat]
     \/ (\A r \in codes : r.code # arg \/ ~r.valid) /\ op' = [pc |-> "direct", code |-> arg, chat |-> arg]
  /\ UNCHANGED <<alive, polling, brk, loop, disp, pairing, seenBy>>

\* A failing insert falls back to the number as a chat id.
AuthorizeByCode ==
  /\ op.pc = "insert"
  /\ \/ /\ authorized' = authorized \cup {op.chat}
        /\ op' = [op EXCEPT !.pc = "delete"]
        /\ UNCHANGED trouble
     \/ /\ Trouble
        /\ op' = [op EXCEPT !.pc = "direct", !.chat = op.code]
        /\ UNCHANGED authorized
  /\ UNCHANGED <<alive, polling, brk, loop, disp, codes, seenBy>>
DeleteCode ==
  /\ op.pc = "delete"
  /\ \/ codes' = {r \in codes : r.code # op.code} /\ UNCHANGED trouble
     \/ Trouble /\ UNCHANGED codes
  /\ op' = Nobody
  /\ UNCHANGED <<alive, polling, brk, loop, disp, authorized, seenBy>>
AuthorizeByChatID ==
  /\ op.pc = "direct"
  /\ \/ authorized' = authorized \cup {op.chat} /\ UNCHANGED trouble
     \/ Trouble /\ UNCHANGED authorized
  /\ op' = Nobody
  /\ UNCHANGED <<alive, polling, brk, loop, disp, codes, seenBy>>

-----------------------------------------------------------------------------
(* The world.                                                              *)

Cancel ==
  /\ alive /\ alive' = FALSE
  /\ UNCHANGED <<polling, brk, loop, disp, pairing, op, trouble, seenBy>>

\* dedupTTL passes for a message, 24 hours for a code.
EvictSeen ==
  /\ Count("expiry")
  /\ \E k \in seen : seen' = seen \ {k}
  /\ UNCHANGED <<alive, gens, offset, brk, loop, disp, pairing, op, seenBy>>
ExpireCode ==
  /\ Count("expiry")
  /\ \E r \in codes : r.valid /\ codes' = (codes \ {r}) \cup {[r EXCEPT !.valid = FALSE]}
  /\ UNCHANGED <<alive, polling, brk, loop, disp, authorized, op, seenBy>>

\* At boot the listed chats are authorized, but for those whose statement failed.
ReconcileAuthorizedFromAllowFrom(failed) == AllowFrom \ failed

Init ==
  /\ alive = TRUE /\ offset = 1 /\ gens = <<>>
  /\ brk = Closed /\ seen = {}
  /\ loop = [l \in Loops |-> [pc |-> "acquire", g |-> 0]]
  /\ disp = [u \in Ids |-> Idle]
  /\ \E failed \in SUBSET AllowFrom : /\ Cardinality(failed) <= MaxTrouble
                                      /\ authorized = ReconcileAuthorizedFromAllowFrom(failed)
                                      /\ trouble = [left |-> MaxTrouble - Cardinality(failed), stop |-> 0, expiry |-> 0]
  /\ codes = {} /\ op = Nobody
  /\ dispatched = [u \in Ids |-> 0]
  /\ lost = {}

Loop(l) == acquire(l) \/ acquireWaited(l) \/ waitRetry(l) \/ drainEnds(l)
runUpdateLoop == Loop("updates") \/ drainUpdates
runCallbackLoop == Loop("callbacks") \/ drainCallbacks
Worker(g) ==
  /\ g \in DOMAIN gens
  /\ \/ runGeneration(g) \/ finishGeneration(g) \/ startPoller(g) \/ fetchFails(g) \/ fetchUpdates(g)
     \/ handleGenerationUpdate(g) \/ answerCallback(g) \/ sendMessage(g) \/ sendCallback(g)
Dispatch(u) ==
  \/ dispatch(u) \/ Handle(u) \/ DeleteExpired(u) \/ GetOrCreateCode(u)
  \/ Send(u) \/ HandleCallback(u)
Operator == (\E arg \in Args : authorize(arg)) \/ AuthorizeByCode \/ DeleteCode \/ AuthorizeByChatID
World == Cancel \/ EvictSeen \/ ExpireCode \/ OpenTimeout \/ Stop

Next ==
  \/ runUpdateLoop
  \/ runCallbackLoop
  \/ \E g \in Gens : Worker(g)
  \/ \E u \in Ids : Dispatch(u) \/ DbFails(u) \/ sendTyping(u)
  \/ Operator
  \/ World

Spec == Init /\ [][Next]_vars

-----------------------------------------------------------------------------
(* Properties.                                                             *)

LoopState == [pc : {"acquire", "waiting", "drain", "retry", "end"}, g : 0..MaxGens]
Generation ==
  [live : BOOLEAN, started : BOOLEAN, closed : BOOLEAN, counted : BOOLEAN, joined : SUBSET Loops,
   pc : {"wait", "batch", "polling", "answer", "handing", "ending", "done"},
   batch : Seq(Ids), msgs : Seq(Msgs), cbs : Seq(Cbs)]
TypeOK ==
  /\ alive \in BOOLEAN /\ offset \in 1..(Len(Stream) + 1)
  /\ gens \in Seq(Generation) /\ Len(gens) <= MaxGens
  /\ brk \in [state : {"closed", "open", "half-open"}, fails : 0..(MaxFail - 1)]
  /\ loop \in [Loops -> LoopState]
  /\ disp \in [Ids -> [pc : {"none", "dispatch", "check", "delete", "insert", "send", "plain", "done"},
                       x : {"", "code", "failed", "refused", "served", "remembered"}]]
  /\ trouble \in [left : Nat, stop : Nat, expiry : Nat]
  /\ dispatched \in [Ids -> Nat] /\ lost \subseteq Ids
  /\ codes \subseteq [code : Codes, chat : Chats, valid : BOOLEAN]

\* Updates that must get through: of a listed chat, and the first of its message.
Wanted(u) ==
  /\ Stream[u].chat \in AllowFrom
  /\ u \in Msgs => /\ Stream[u].text # ""
                   /\ \A v \in Msgs : v < u => Key(v) # Key(u)
LoopOf(u) == IF u \in Msgs THEN "updates" ELSE "callbacks"
Channel(g, u) == IF u \in Msgs THEN gens[g].msgs ELSE gens[g].cbs
InHand(u) == \E g \in DOMAIN gens : gens[g].pc \in {"answer", "handing"} /\ Head(gens[g].batch) = u
Drained(u) == \E g \in DOMAIN gens : Contains(Channel(g, u), u) /\ loop[LoopOf(u)] = [pc |-> "drain", g |-> g]
NotJoined(u) == \E g \in DOMAIN gens : Contains(Channel(g, u), u) /\ LoopOf(u) \notin gens[g].joined

\* The offset has passed an update, so Telegram will not send it again: it is in
\* the worker's hands, in a channel that its loop drains, or dispatched, unless
\* the run was cancelled or stopped.  Only a callback may also be left in a
\* generation that the callback loop has not joined (startPoller, acquire).
NoSilentLoss ==
  \A u \in Ids : u < offset /\ Wanted(u) =>
    \/ dispatched[u] > 0 \/ InHand(u) \/ Drained(u)
    \/ ~alive \/ (u \in lost /\ trouble.stop > 0)
    \/ u \in Cbs /\ NotJoined(u)

\* However often an update is sent, over whatever generations and under whatever
\* ids, a button press is dispatched once, and a message once for each five
\* minutes (isDuplicate, the skip of startPoller).
AtMostOnce ==
  /\ \A u \in Cbs : dispatched[u] <= 1
  /\ \A u \in Msgs : LET same == {v \in Msgs : Key(v) = Key(u) /\ dispatched[v] > 0}
                     IN dispatched[u] <= 1 /\ Cardinality(same) <= 1 + trouble.expiry

\* The agent and the approval manager see only what comes from a chat that is
\* both listed and authorized, and an answer is remembered only for such a chat;
\* failing statements never open the gate (PairingHandler).
Gated ==
  \A u \in Ids : disp[u].x \in {"served", "remembered"} => Stream[u].chat \in AllowFrom \cap authorized

\* The worker never waits for good on a full channel, nor a loop on a worker:
\* while the run lasts, the loop of a full channel drains it or is on its way to
\* join its generation, and a loop waits only for a worker whose context has
\* ended (acquire, handleMessage).
NoWedge ==
  alive =>
    /\ \A g \in DOMAIN gens : gens[g].pc = "handing" /\ Live(g) =>
         LET l == LoopOf(Head(gens[g].batch)) IN
         \/ loop[l] = [pc |-> "drain", g |-> g]
         \/ loop[l].pc \in {"acquire", "retry"}
         \/ loop[l].pc \in {"drain", "waiting"} /\ gens[loop[l].g].closed
    /\ \A l \in Loops : /\ loop[l].pc = "waiting" => ~Live(loop[l].g)
                        /\ loop[l].pc # "end"

=============================================================================
