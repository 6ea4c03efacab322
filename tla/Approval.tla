------------------------------- MODULE Approval -------------------------------
(***************************************************************************)
(* Human-in-the-loop approval of tool calls: the pre-tool hooks of         *)
(* internal/agent/policy.go and hitl.go, the hitl_approvals table of       *)
(* internal/context/manager.go, and the Telegram callbacks that decide.    *)
(*                                                                         *)
(* A tool call passes the policy hook, then the HITL hook; each may ask    *)
(* for approval under a request id that is a hash of session, tool and     *)
(* arguments, so identical calls share it.  A callback is a goroutine of   *)
(* its own.  Decisions travel two ways, through the table and through the  *)
(* channel of the registered waiter, and either may be missed: the write   *)
(* may fail, the waiter may not be registered yet or any more, the process *)
(* may restart.                                                            *)
(***************************************************************************)
EXTENDS Integers

CONSTANTS
  Calls,        \* tool calls
  Reqs,         \* request ids
  ReqOf,        \* call -> its request id
  Channel,      \* call -> kind of session: "telegram", "cron" or "other"
  Policy,       \* call -> decision of the policy: "allow", "deny", "require_hitl"
  HighRisk,     \* calls the HITL hook asks about
  Clicks,       \* button presses
  ClickReq,     \* press -> the request id of its button
  ClickDec,     \* press -> "approved" or "rejected"
  NoWaiter,
  MaxRestarts   \* bound on process restarts

Decisions == {"approved", "rejected"}
Waiters == Calls \X {"policy", "hitl"}

ASSUME CallsAssumption ==
  /\ ReqOf \in [Calls -> Reqs]
  /\ Channel \in [Calls -> {"telegram", "cron", "other"}]
  /\ Policy \in [Calls -> {"allow", "deny", "require_hitl"}]
ASSUME ClicksAssumption ==
  ClickReq \in [Clicks -> Reqs] /\ ClickDec \in [Clicks -> Decisions]
ASSUME NoWaiterAssumption == NoWaiter \notin Waiters
ASSUME MaxRestartsAssumption == MaxRestarts \in Nat

VARIABLES
  pc,         \* call -> where it is
  hook,       \* call -> the hook it is in: "policy" or "hitl"
  result,     \* call -> what RequestApproval is about to return
  pending,    \* HITLManager.pending: request id -> waiter, or NoWaiter
  chan,       \* waiter -> content of its one-slot channel
  status,     \* request id -> status in hitl_approvals
  buttons,    \* request ids whose approval message reached the chat
  clickPc,    \* press -> where its callback goroutine is
  clickFor,   \* press -> the waiter its callback found
  restarts

vars == <<pc, hook, result, pending, chan, status, buttons, clickPc, clickFor, restarts>>

me(c) == <<c, hook[c]>>
Decided(q) == status[q] \in Decisions

\* Between registerWaiter and releaseWaiter.
Registered(c) == pc[c] \in {"status", "sending", "send", "pending", "poll", "recheck",
                            "wait", "release"}

Ended == {"executed", "denied", "failed"}

Init ==
  /\ pc = [c \in Calls |-> "idle"]
  /\ hook = [c \in Calls |-> "policy"]
  /\ result = [c \in Calls |-> "none"]
  /\ pending = [q \in Reqs |-> NoWaiter]
  /\ chan = [w \in Waiters |-> "empty"]
  /\ status = [q \in Reqs |-> "none"]
  /\ buttons = {}
  /\ clickPc = [k \in Clicks |-> "none"]
  /\ clickFor = [k \in Clicks |-> NoWaiter]
  /\ restarts = 0

Goto(c, where) == pc' = [pc EXCEPT ![c] = where]
ClickVars == <<clickPc, clickFor>>
-----------------------------------------------------------------------------
(***************************************************************************)
(* The two hooks.  A hook that lets the call pass moves on to the next     *)
(* one, or to the tool itself.                                             *)
(***************************************************************************)
\* Where a call goes when the current hook lets it pass.
Pass(c) ==
  IF hook[c] = "policy" THEN /\ hook' = [hook EXCEPT ![c] = "hitl"]
                             /\ Goto(c, "gate")
                        ELSE Goto(c, "executed") /\ UNCHANGED hook

\* The entry of RequestApproval: cron sessions are approved, sessions of other
\* channels (and a missing Telegram API) fail closed.
RequestApproval(c) ==
  \/ Channel[c] = "cron" /\ Pass(c)
  \/ Channel[c] = "other" /\ Goto(c, "failed") /\ UNCHANGED hook
  \/ Channel[c] = "telegram" /\ Goto(c, "register") /\ UNCHANGED hook

PolicyHook(c) ==
  /\ pc[c] = "idle"
  /\ \/ Policy[c] = "deny" /\ Goto(c, "denied") /\ UNCHANGED hook
     \/ Policy[c] = "allow" /\ Pass(c)
     \/ Policy[c] = "require_hitl" /\ RequestApproval(c)
  /\ UNCHANGED <<result, pending, chan, status, buttons, ClickVars, restarts>>

PreToolHook(c) ==
  /\ pc[c] = "gate"
  /\ \/ c \notin HighRisk /\ Pass(c)
     \/ c \in HighRisk /\ RequestApproval(c)
  /\ UNCHANGED <<result, pending, chan, status, buttons, ClickVars, restarts>>
-----------------------------------------------------------------------------
(***************************************************************************)
(* RequestApproval from registerWaiter on.                                 *)
(***************************************************************************)
\* The waiter replaces one that is already registered.
MutRegisterWaiter(c) ==
  /\ pc[c] = "register"
  /\ pending' = [pending EXCEPT ![ReqOf[c]] = me(c)]
  /\ chan' = [chan EXCEPT ![me(c)] = "empty"]
  /\ Goto(c, "status")
  /\ UNCHANGED <<hook, result, status, buttons, ClickVars, restarts>>

registerWaiter(c) ==
  /\ pc[c] = "register"
  /\ IF pending[ReqOf[c]] = NoWaiter
     THEN /\ pending' = [pending EXCEPT ![ReqOf[c]] = me(c)]
          /\ chan' = [chan EXCEPT ![me(c)] = "empty"]
          /\ Goto(c, "status")
     ELSE Goto(c, "failed") /\ UNCHANGED <<pending, chan>>
  /\ UNCHANGED <<hook, result, status, buttons, ClickVars, restarts>>

\* RequestApproval will return `what` after the deferred releaseWaiter.
Answer(c, what) ==
  /\ result' = [result EXCEPT ![c] = what]
  /\ Goto(c, "release")

readStatus(c) ==
  /\ pc[c] = "status"
  /\ \/ Answer(c, "error")
     \/ Decided(ReqOf[c]) /\ Answer(c, status[ReqOf[c]])
     \/ status[ReqOf[c]] = "pending" /\ Goto(c, "poll") /\ UNCHANGED result
     \/ status[ReqOf[c]] \in {"none", "sending"} /\ Goto(c, "sending") /\ UNCHANGED result
  /\ UNCHANGED <<hook, pending, chan, status, buttons, ClickVars, restarts>>

\* The upsert: a lifecycle status does not replace a decision.
SaveHITLApproval(q, s) ==
  IF s \in Decisions \/ ~Decided(q) THEN status' = [status EXCEPT ![q] = s]
                                    ELSE UNCHANGED status

\* Lifecycle writes are best effort.
persistLifecycle(c, s) == SaveHITLApproval(ReqOf[c], s) \/ UNCHANGED status

saveSending(c) ==
  /\ pc[c] = "sending"
  /\ persistLifecycle(c, "sending")
  /\ Goto(c, "send")
  /\ UNCHANGED <<hook, result, pending, chan, buttons, ClickVars, restarts>>

\* The message may reach the chat even when the call reports a failure.
SendWithButtons(c) ==
  /\ pc[c] = "send"
  /\ \/ Goto(c, "pending") /\ UNCHANGED result
        /\ buttons' = buttons \union {ReqOf[c]}
     \/ Answer(c, "error")
        /\ buttons' \in {buttons, buttons \union {ReqOf[c]}}
  /\ UNCHANGED <<hook, pending, chan, status, ClickVars, restarts>>

savePending(c) ==
  /\ pc[c] = "pending"
  /\ persistLifecycle(c, "pending")
  /\ Goto(c, "poll")
  /\ UNCHANGED <<hook, result, pending, chan, buttons, ClickVars, restarts>>
-----------------------------------------------------------------------------
(***************************************************************************)
(* waitForApproval.                                                        *)
(***************************************************************************)
Receive(c) ==
  /\ chan[me(c)] # "empty"
  /\ chan' = [chan EXCEPT ![me(c)] = "empty"]
  /\ Answer(c, chan[me(c)])

pollChannel(c) ==
  /\ pc[c] = "poll"
  /\ \/ Receive(c)
     \/ chan[me(c)] = "empty" /\ Goto(c, "recheck") /\ UNCHANGED <<result, chan>>
  /\ UNCHANGED <<hook, pending, status, buttons, ClickVars, restarts>>

recheckStatus(c) ==
  /\ pc[c] = "recheck"
  /\ \/ Answer(c, "error")
     \/ Decided(ReqOf[c]) /\ Answer(c, status[ReqOf[c]])
     \/ ~Decided(ReqOf[c]) /\ Goto(c, "wait") /\ UNCHANGED result
  /\ UNCHANGED <<hook, pending, chan, status, buttons, ClickVars, restarts>>

waitDecision(c) ==
  /\ pc[c] = "wait"
  /\ Receive(c)
  /\ UNCHANGED <<hook, pending, status, buttons, ClickVars, restarts>>

\* A timer that lets the call through.
MutWaitTimeout(c) ==
  /\ pc[c] = "wait"
  /\ Answer(c, "approved")
  /\ UNCHANGED <<hook, pending, chan, status, buttons, ClickVars, restarts>>

\* The context is done or the ten minutes are over.
waitTimeout(c) ==
  /\ pc[c] = "wait"
  /\ Answer(c, "error")
  /\ UNCHANGED <<hook, pending, chan, status, buttons, ClickVars, restarts>>

\* releaseWaiter, and what the hook makes of the answer.
releaseWaiter(c) ==
  /\ pc[c] = "release"
  /\ pending' = IF pending[ReqOf[c]] = me(c)
                THEN [pending EXCEPT ![ReqOf[c]] = NoWaiter]
                ELSE pending
  /\ \/ result[c] = "approved" /\ Pass(c)
     \/ result[c] = "rejected" /\ Goto(c, "denied") /\ UNCHANGED hook
     \/ result[c] = "error" /\ Goto(c, "failed") /\ UNCHANGED hook
  /\ UNCHANGED <<result, chan, status, buttons, ClickVars, restarts>>
-----------------------------------------------------------------------------
(***************************************************************************)
(* HandleCallback: persist the decision, look the waiter up, hand it over. *)
(***************************************************************************)
ClickTo(k, where) == clickPc' = [clickPc EXCEPT ![k] = where]
CallVars == <<pc, hook, result>>

Press(k) ==
  /\ clickPc[k] = "none"
  /\ ClickReq[k] \in buttons
  /\ ClickTo(k, "persist")
  /\ UNCHANGED <<CallVars, pending, chan, status, buttons, clickFor, restarts>>

\* The decision is written best effort, then the callback goes on.
persistDecision(k) ==
  /\ clickPc[k] = "persist"
  /\ SaveHITLApproval(ClickReq[k], ClickDec[k]) \/ UNCHANGED status
  /\ ClickTo(k, "lookup")
  /\ UNCHANGED <<CallVars, pending, chan, buttons, clickFor, restarts>>

lookupWaiter(k) ==
  /\ clickPc[k] = "lookup"
  /\ clickFor' = [clickFor EXCEPT ![k] = pending[ClickReq[k]]]
  /\ ClickTo(k, IF pending[ClickReq[k]] = NoWaiter THEN "done" ELSE "notify")
  /\ UNCHANGED <<CallVars, pending, chan, status, buttons, restarts>>

\* The send does not block: with a decision already in the channel it is a
\* duplicate and is dropped.
notifyHITLWaiter(k) ==
  /\ clickPc[k] = "notify"
  /\ chan' = IF chan[clickFor[k]] = "empty"
             THEN [chan EXCEPT ![clickFor[k]] = ClickDec[k]]
             ELSE chan
  /\ ClickTo(k, "done")
  /\ UNCHANGED <<CallVars, pending, status, buttons, clickFor, restarts>>

\* The process restarts: the map, the channels and all goroutines are gone.
Restart ==
  /\ restarts < MaxRestarts
  /\ restarts' = restarts + 1
  /\ pc' = [c \in Calls |-> IF pc[c] = "idle" \/ pc[c] \in Ended THEN pc[c] ELSE "failed"]
  /\ clickPc' = [k \in Clicks |-> IF clickPc[k] = "none" THEN "none" ELSE "done"]
  /\ pending' = [q \in Reqs |-> NoWaiter]
  /\ UNCHANGED <<hook, result, chan, status, buttons, clickFor>>
-----------------------------------------------------------------------------
CallStep(c) ==
  \/ PolicyHook(c) \/ PreToolHook(c)
  \/ registerWaiter(c) \/ readStatus(c)
  \/ saveSending(c) \/ SendWithButtons(c) \/ savePending(c)
  \/ pollChannel(c) \/ recheckStatus(c) \/ waitDecision(c)
  \/ releaseWaiter(c)

\* The callback looks the waiter up first and records the decision afterwards.
MutClickStep(k) ==
  \/ /\ clickPc[k] = "persist"
     /\ clickFor' = [clickFor EXCEPT ![k] = pending[ClickReq[k]]]
     /\ ClickTo(k, "lookup")
     /\ UNCHANGED <<CallVars, pending, chan, status, buttons, restarts>>
  \/ /\ clickPc[k] = "lookup"
     /\ SaveHITLApproval(ClickReq[k], ClickDec[k]) \/ UNCHANGED status
     /\ ClickTo(k, IF clickFor[k] = NoWaiter THEN "done" ELSE "notify")
     /\ UNCHANGED <<CallVars, pending, chan, buttons, clickFor, restarts>>
  \/ notifyHITLWaiter(k)

\* HandleCallback, in the order of its steps.
ClickStep(k) == persistDecision(k) \/ lookupWaiter(k) \/ notifyHITLWaiter(k)

Next ==
  \/ \E c \in Calls : CallStep(c) \/ waitTimeout(c)
  \/ \E k \in Clicks : Press(k) \/ ClickStep(k)
  \/ Restart

Spec == Init /\ [][Next]_vars
-----------------------------------------------------------------------------
CallPcs == {"idle", "gate", "register", "status", "sending", "send", "pending",
            "poll", "recheck", "wait", "release"} \union Ended

TypeOK ==
  /\ pc \in [Calls -> CallPcs]
  /\ hook \in [Calls -> {"policy", "hitl"}]
  /\ result \in [Calls -> Decisions \union {"none", "error"}]
  /\ pending \in [Reqs -> Waiters \union {NoWaiter}]
  /\ chan \in [Waiters -> Decisions \union {"empty"}]
  /\ status \in [Reqs -> Decisions \union {"none", "sending", "pending"}]
  /\ buttons \subseteq Reqs
  /\ clickPc \in [Clicks -> {"none", "persist", "lookup", "notify", "done"}]
  /\ clickFor \in [Clicks -> Waiters \union {NoWaiter}]
  /\ \A k \in Clicks : clickPc[k] = "notify" => clickFor[k] \in Waiters
  /\ restarts \in Nat

\* The tool needs a human decision before it may run.
NeedsApproval(c) ==
  Channel[c] # "cron" /\ (c \in HighRisk \/ Policy[c] = "require_hitl")

Pressed(q, d) ==
  \E k \in Clicks : ClickReq[k] = q /\ ClickDec[k] = d /\ clickPc[k] # "none"

(***************************************************************************)
(* A tool that needs approval runs only if the human pressed Approve on    *)
(* that very request (session, tool and arguments), and a tool the policy  *)
(* denies never runs: not after a timeout, a failed write, a late or       *)
(* duplicate callback, or a restart.                                       *)
(***************************************************************************)
RunsOnlyApproved ==
  \A c \in Calls : pc[c] = "executed" =>
    /\ Policy[c] # "deny"
    /\ NeedsApproval(c) => Channel[c] = "telegram" /\ Pressed(ReqOf[c], "approved")

(***************************************************************************)
(* As long as RequestApproval is between registerWaiter and releaseWaiter, *)
(* callbacks can reach it: the map leads to its channel, so no other       *)
(* request, callback or late release has displaced it.                     *)
(***************************************************************************)
WaiterReachable ==
  \A c \in Calls : Registered(c) => pending[ReqOf[c]] = me(c)

(***************************************************************************)
(* No decision falls between the table and the channel: when a waiter has  *)
(* committed to the final select and its channel is empty, a decision in   *)
(* the table still has its callback on the way to the waiter.              *)
(***************************************************************************)
NoLostDecision ==
  \A c \in Calls :
    pc[c] = "wait" /\ chan[me(c)] = "empty" /\ Decided(ReqOf[c]) =>
      \E k \in Clicks :
        /\ ClickReq[k] = ReqOf[c]
        /\ \/ clickPc[k] = "lookup"
           \/ clickPc[k] = "notify" /\ clickFor[k] = me(c)
=============================================================================
