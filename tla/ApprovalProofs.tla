---------------------------- MODULE ApprovalProofs ----------------------------
(***************************************************************************)
(* Proofs about Approval for any tool calls, requests, policy, channels    *)
(* and button presses, and any number of restarts: ApprovalInv is          *)
(* inductive, and what the runs check of approval follows from it.         *)
(***************************************************************************)
EXTENDS Approval, TLAPS

(***************************************************************************)
(* The inductive invariant.                                                *)
(***************************************************************************)
\* What the policy hook let through: nothing it denies, and what it asks
\* about only in a cron session or with the button pressed.
PolicyPassed(c) ==
  /\ Policy[c] # "deny"
  /\ Policy[c] = "require_hitl" /\ Channel[c] # "cron" =>
       Channel[c] = "telegram" /\ Pressed(ReqOf[c], "approved")

\* The program counter tells the hook, and only Telegram sessions are asked.
HookOrder ==
  \A c \in Calls :
    /\ pc[c] = "idle" => hook[c] = "policy"
    /\ pc[c] = "gate" => hook[c] = "hitl"
    /\ pc[c] = "register" \/ Registered(c) => Channel[c] = "telegram" /\ Policy[c] # "deny"
    /\ hook[c] = "hitl" => PolicyPassed(c)

\* Waiters are found under their own request only.
WaitersOfRequest ==
  /\ \A q \in Reqs : pending[q] # NoWaiter => ReqOf[pending[q][1]] = q
  /\ \A k \in Clicks : clickPc[k] = "notify" => ReqOf[clickFor[k][1]] = ClickReq[k]

\* A decision, wherever it is kept, was made by the human on that request.
DecisionsPressed ==
  \A d \in Decisions :
    /\ \A q \in Reqs : status[q] = d => Pressed(q, d)
    /\ \A w \in Waiters : chan[w] = d => Pressed(ReqOf[w[1]], d)
    /\ \A c \in Calls : result[c] = d => Pressed(ReqOf[c], d)

ApprovalInv ==
  /\ TypeOK
  /\ HookOrder
  /\ WaitersOfRequest
  /\ DecisionsPressed
  /\ RunsOnlyApproved
  /\ WaiterReachable
  /\ NoLostDecision
-----------------------------------------------------------------------------
LEMMA ApprovalInitInv == Init => ApprovalInv
BY CallsAssumption, ClicksAssumption, NoWaiterAssumption
   DEF Init, ApprovalInv, TypeOK, CallPcs, Ended, Decisions, HookOrder, WaitersOfRequest,
       DecisionsPressed, RunsOnlyApproved, WaiterReachable, NoLostDecision, Registered,
       Decided, Waiters

\* Each action keeps the types.
LEMMA TypeStep ==
  ASSUME TypeOK, Next
  PROVE  TypeOK'
<1> USE CallsAssumption, ClicksAssumption, NoWaiterAssumption, MaxRestartsAssumption
    DEF TypeOK, CallPcs, Ended, Decisions, Waiters, me, Goto, CallVars, ClickVars, ClickTo
<1>1. ASSUME NEW c \in Calls, PolicyHook(c) PROVE TypeOK'
  BY <1>1 DEF PolicyHook, RequestApproval, Pass
<1>2. ASSUME NEW c \in Calls, PreToolHook(c) PROVE TypeOK'
  <2>1. pc' \in [Calls -> CallPcs] /\ hook' \in [Calls -> {"policy", "hitl"}]
    BY SMTT(30), <1>2 DEF PreToolHook, RequestApproval, Pass
  <2> QED BY <1>2, <2>1 DEF PreToolHook
<1>3. ASSUME NEW c \in Calls, registerWaiter(c) PROVE TypeOK'
  <2>1. CASE pending[ReqOf[c]] = NoWaiter
    <3>1. me(c) \in Waiters /\ ReqOf[c] \in Reqs
      OBVIOUS
    <3>2. pending' \in [Reqs -> Waiters \union {NoWaiter}]
      BY SMTT(30), <1>3, <2>1, <3>1 DEF registerWaiter
    <3>3. chan' \in [Waiters -> Decisions \union {"empty"}]
      BY <1>3, <2>1, <3>1 DEF registerWaiter
    <3>4. pc' \in [Calls -> CallPcs]
      BY <1>3, <2>1 DEF registerWaiter
    <3> QED BY <1>3, <3>2, <3>3, <3>4 DEF registerWaiter
  <2>2. CASE pending[ReqOf[c]] # NoWaiter
    BY <1>3, <2>2 DEF registerWaiter
  <2> QED BY <2>1, <2>2
<1>4. ASSUME NEW c \in Calls, readStatus(c) PROVE TypeOK'
  BY <1>4 DEF readStatus, Answer, Decided
<1>5. ASSUME NEW c \in Calls, saveSending(c) PROVE TypeOK'
  BY <1>5 DEF saveSending, persistLifecycle, SaveHITLApproval
<1>6. ASSUME NEW c \in Calls, SendWithButtons(c) PROVE TypeOK'
  BY <1>6 DEF SendWithButtons, Answer
<1>7. ASSUME NEW c \in Calls, savePending(c) PROVE TypeOK'
  BY <1>7 DEF savePending, persistLifecycle, SaveHITLApproval
<1>8. ASSUME NEW c \in Calls, pollChannel(c) PROVE TypeOK'
  <2>1. me(c) \in Waiters
    OBVIOUS
  <2>2. CASE Receive(c)
    BY <1>8, <2>1, <2>2 DEF pollChannel, Receive, Answer
  <2>3. CASE ~Receive(c)
    BY <1>8, <2>3 DEF pollChannel
  <2> QED BY <2>2, <2>3
<1>9. ASSUME NEW c \in Calls, recheckStatus(c) PROVE TypeOK'
  <2>1. CASE Answer(c, "error")
    BY <1>9, <2>1 DEF recheckStatus, Answer
  <2>2. CASE Decided(ReqOf[c]) /\ Answer(c, status[ReqOf[c]])
    BY <1>9, <2>2 DEF recheckStatus, Answer, Decided
  <2>3. CASE Goto(c, "wait") /\ UNCHANGED result
    BY <1>9, <2>3 DEF recheckStatus
  <2> QED BY <1>9, <2>1, <2>2, <2>3 DEF recheckStatus
<1>10. ASSUME NEW c \in Calls, waitDecision(c) PROVE TypeOK'
  BY <1>10 DEF waitDecision, Receive, Answer
<1>11. ASSUME NEW c \in Calls, waitTimeout(c) PROVE TypeOK'
  BY <1>11 DEF waitTimeout, Answer
<1>12. ASSUME NEW c \in Calls, releaseWaiter(c) PROVE TypeOK'
  BY SMTT(30), <1>12 DEF releaseWaiter, Pass
<1>13. ASSUME NEW k \in Clicks, Press(k) PROVE TypeOK'
  BY <1>13 DEF Press
<1>14. ASSUME NEW k \in Clicks, persistDecision(k) PROVE TypeOK'
  BY <1>14 DEF persistDecision, SaveHITLApproval
<1>15. ASSUME NEW k \in Clicks, lookupWaiter(k) PROVE TypeOK'
  BY <1>15 DEF lookupWaiter
<1>16. ASSUME NEW k \in Clicks, notifyHITLWaiter(k) PROVE TypeOK'
  BY <1>16 DEF notifyHITLWaiter
<1>17. ASSUME Restart PROVE TypeOK'
  BY <1>17 DEF Restart
<1> QED
  BY <1>1, <1>2, <1>3, <1>4, <1>5, <1>6, <1>7, <1>8, <1>9, <1>10, <1>11, <1>12, <1>13,
     <1>14, <1>15, <1>16, <1>17 DEF Next, CallStep, ClickStep

\* A press is never taken back, and a callback that runs was pressed.
LEMMA PressedStays ==
  ASSUME TypeOK, Next, NEW q \in Reqs, NEW d \in Decisions, Pressed(q, d)
  PROVE  Pressed(q, d)'
<1>1. PICK k \in Clicks : ClickReq[k] = q /\ ClickDec[k] = d /\ clickPc[k] # "none"
  BY DEF Pressed
<1>2. clickPc'[k] # "none"
  BY <1>1 DEF Next, CallStep, ClickStep, PolicyHook, PreToolHook, registerWaiter, readStatus,
     saveSending, SendWithButtons, savePending, pollChannel, recheckStatus, waitDecision,
     waitTimeout, releaseWaiter, Press, persistDecision, lookupWaiter, notifyHITLWaiter,
     Restart, ClickVars, ClickTo, TypeOK
<1> QED
  BY <1>1, <1>2 DEF Pressed

LEMMA HookOrderStep ==
  ASSUME ApprovalInv, Next
  PROVE  HookOrder'
<1> USE CallsAssumption DEF ApprovalInv, TypeOK, Registered, me, Goto, CallVars, ClickVars
<1>0. \A q \in Reqs : Pressed(q, "approved") => Pressed(q, "approved")'
  BY PressedStays DEF Decisions
<1>1. ASSUME NEW c \in Calls, PolicyHook(c) PROVE HookOrder'
  BY <1>0, <1>1 DEF PolicyHook, RequestApproval, Pass, HookOrder, PolicyPassed
<1>2. ASSUME NEW c \in Calls, PreToolHook(c) PROVE HookOrder'
  BY <1>0, <1>2 DEF PreToolHook, RequestApproval, Pass, HookOrder, PolicyPassed
<1>3. ASSUME NEW c \in Calls, releaseWaiter(c) PROVE HookOrder'
  <2>1. result[c] = "approved" => Pressed(ReqOf[c], "approved")
    BY DEF DecisionsPressed, Decisions
  <2> QED
    BY <1>0, <1>3, <2>1 DEF releaseWaiter, Pass, HookOrder, PolicyPassed
<1>4. ASSUME NEW c \in Calls,
             \/ registerWaiter(c) \/ readStatus(c) \/ saveSending(c) \/ SendWithButtons(c)
             \/ savePending(c) \/ pollChannel(c) \/ recheckStatus(c) \/ waitDecision(c)
             \/ waitTimeout(c)
      PROVE HookOrder'
  BY <1>0, <1>4 DEF registerWaiter, readStatus, saveSending, SendWithButtons, savePending,
     pollChannel, recheckStatus, waitDecision, waitTimeout, Answer, Receive, HookOrder,
     PolicyPassed
<1>5. ASSUME NEW k \in Clicks, Press(k) \/ ClickStep(k) PROVE HookOrder'
  BY <1>0, <1>5 DEF Press, ClickStep, persistDecision, lookupWaiter, notifyHITLWaiter,
     HookOrder, PolicyPassed
<1>6. ASSUME Restart PROVE HookOrder'
  BY <1>0, <1>6 DEF Restart, HookOrder, PolicyPassed, Ended
<1> QED
  BY <1>1, <1>2, <1>3, <1>4, <1>5, <1>6 DEF Next, CallStep, HookOrder

LEMMA WaitersOfRequestStep ==
  ASSUME ApprovalInv, Next
  PROVE  WaitersOfRequest'
<1> USE CallsAssumption, ClicksAssumption, NoWaiterAssumption
    DEF ApprovalInv, TypeOK, Waiters, me, CallVars, ClickVars, ClickTo, WaitersOfRequest
<1>1. ASSUME NEW c \in Calls, registerWaiter(c) PROVE WaitersOfRequest'
  BY <1>1 DEF registerWaiter
<1>2. ASSUME NEW c \in Calls, releaseWaiter(c) PROVE WaitersOfRequest'
  BY <1>2 DEF releaseWaiter
<1>3. ASSUME NEW c \in Calls,
             \/ PolicyHook(c) \/ PreToolHook(c) \/ readStatus(c) \/ saveSending(c)
             \/ SendWithButtons(c) \/ savePending(c) \/ pollChannel(c) \/ recheckStatus(c)
             \/ waitDecision(c) \/ waitTimeout(c)
      PROVE WaitersOfRequest'
  BY <1>3 DEF PolicyHook, PreToolHook, readStatus, saveSending, SendWithButtons,
     savePending, pollChannel, recheckStatus, waitDecision, waitTimeout
<1>4. ASSUME NEW k \in Clicks, Press(k) \/ ClickStep(k) PROVE WaitersOfRequest'
  BY <1>4 DEF Press, ClickStep, persistDecision, lookupWaiter, notifyHITLWaiter
<1>5. ASSUME Restart PROVE WaitersOfRequest'
  BY <1>5 DEF Restart
<1> QED
  BY <1>1, <1>2, <1>3, <1>4, <1>5 DEF Next, CallStep

LEMMA DecisionsPressedStep ==
  ASSUME ApprovalInv, Next
  PROVE  DecisionsPressed'
<1> USE CallsAssumption, ClicksAssumption
    DEF ApprovalInv, TypeOK, Waiters, Decisions, me, CallVars, ClickVars, ClickTo,
        DecisionsPressed
<1>0. \A q \in Reqs, d \in Decisions : Pressed(q, d) => Pressed(q, d)'
  BY PressedStays
<1>1. ASSUME NEW c \in Calls, registerWaiter(c) PROVE DecisionsPressed'
  BY SMTT(30), <1>0, <1>1 DEF registerWaiter
<1>2. ASSUME NEW c \in Calls, readStatus(c) \/ recheckStatus(c) PROVE DecisionsPressed'
  BY <1>0, <1>2 DEF readStatus, recheckStatus, Answer, Decided
<1>3. ASSUME NEW c \in Calls, saveSending(c) \/ savePending(c) PROVE DecisionsPressed'
  BY <1>0, <1>3 DEF saveSending, savePending, persistLifecycle, SaveHITLApproval
<1>4. ASSUME NEW c \in Calls, SendWithButtons(c) \/ waitTimeout(c) PROVE DecisionsPressed'
  BY <1>0, <1>4 DEF SendWithButtons, waitTimeout, Answer
<1>5. ASSUME NEW c \in Calls, pollChannel(c) \/ waitDecision(c) PROVE DecisionsPressed'
  <2>1. me(c) \in Waiters /\ me(c)[1] = c
    OBVIOUS
  <2> QED
    BY SMTT(30), <1>0, <1>5, <2>1 DEF pollChannel, waitDecision, Receive, Answer
<1>6. ASSUME NEW c \in Calls, PolicyHook(c) \/ PreToolHook(c) \/ releaseWaiter(c)
      PROVE DecisionsPressed'
  BY <1>0, <1>6 DEF PolicyHook, PreToolHook, releaseWaiter
<1>7. ASSUME NEW k \in Clicks, persistDecision(k) PROVE DecisionsPressed'
  <2>1. Pressed(ClickReq[k], ClickDec[k])'
    BY <1>7 DEF persistDecision, Pressed
  <2> QED
    BY <1>0, <1>7, <2>1 DEF persistDecision, SaveHITLApproval
<1>8. ASSUME NEW k \in Clicks, notifyHITLWaiter(k) PROVE DecisionsPressed'
  <2>1. Pressed(ClickReq[k], ClickDec[k])'
    BY <1>8 DEF notifyHITLWaiter, Pressed
  <2>2. clickFor[k] \in Waiters /\ ReqOf[clickFor[k][1]] = ClickReq[k]
    BY <1>8 DEF notifyHITLWaiter, WaitersOfRequest
  <2> QED
    BY <1>0, <1>8, <2>1, <2>2 DEF notifyHITLWaiter
<1>9. ASSUME NEW k \in Clicks, Press(k) \/ lookupWaiter(k) PROVE DecisionsPressed'
  BY <1>0, <1>9 DEF Press, lookupWaiter
<1>10. ASSUME Restart PROVE DecisionsPressed'
  BY <1>0, <1>10 DEF Restart
<1> QED
  BY <1>1, <1>2, <1>3, <1>4, <1>5, <1>6, <1>7, <1>8, <1>9, <1>10 DEF Next, CallStep, ClickStep

\* A call starts to run from one of three places: its policy hook never asks,
\* the HITL hook does not ask, or releaseWaiter returns an approval.
LEMMA RunsOnlyApprovedStep ==
  ASSUME ApprovalInv, Next
  PROVE  RunsOnlyApproved'
<1> USE CallsAssumption
    DEF ApprovalInv, TypeOK, Goto, CallVars, ClickVars, NeedsApproval, RunsOnlyApproved
<1>0. \A q \in Reqs : Pressed(q, "approved") => Pressed(q, "approved")'
  BY PressedStays DEF Decisions
<1>1. ASSUME NEW c \in Calls, PolicyHook(c) \/ PreToolHook(c) PROVE RunsOnlyApproved'
  BY <1>0, <1>1 DEF PolicyHook, PreToolHook, RequestApproval, Pass, HookOrder, PolicyPassed
<1>2. ASSUME NEW c \in Calls, releaseWaiter(c) PROVE RunsOnlyApproved'
  <2>1. result[c] = "approved" => Pressed(ReqOf[c], "approved")
    BY DEF DecisionsPressed, Decisions
  <2>2. Channel[c] = "telegram" /\ Policy[c] # "deny"
    BY <1>2 DEF releaseWaiter, HookOrder, Registered
  <2> QED
    BY <1>0, <1>2, <2>1, <2>2 DEF releaseWaiter, Pass
<1>3. ASSUME NEW c \in Calls,
             \/ registerWaiter(c) \/ readStatus(c) \/ saveSending(c) \/ SendWithButtons(c)
             \/ savePending(c) \/ pollChannel(c) \/ recheckStatus(c) \/ waitDecision(c)
             \/ waitTimeout(c)
      PROVE RunsOnlyApproved'
  BY <1>0, <1>3 DEF registerWaiter, readStatus, saveSending, SendWithButtons, savePending,
     pollChannel, recheckStatus, waitDecision, waitTimeout, Answer, Receive
<1>4. ASSUME NEW k \in Clicks, Press(k) \/ ClickStep(k) PROVE RunsOnlyApproved'
  BY <1>0, <1>4 DEF Press, ClickStep, persistDecision, lookupWaiter, notifyHITLWaiter
<1>5. ASSUME Restart PROVE RunsOnlyApproved'
  BY <1>0, <1>5 DEF Restart
<1> QED
  BY <1>1, <1>2, <1>3, <1>4, <1>5 DEF Next, CallStep

LEMMA WaiterReachableStep ==
  ASSUME ApprovalInv, Next
  PROVE  WaiterReachable'
<1> USE CallsAssumption
    DEF ApprovalInv, TypeOK, Registered, me, Goto, CallVars, ClickVars, WaiterReachable
<1>1. ASSUME NEW c \in Calls, PolicyHook(c) \/ PreToolHook(c) PROVE WaiterReachable'
  BY <1>1 DEF PolicyHook, PreToolHook, RequestApproval, Pass
<1>2. ASSUME NEW c \in Calls, registerWaiter(c) PROVE WaiterReachable'
  BY <1>2, NoWaiterAssumption DEF registerWaiter, Waiters
<1>3. ASSUME NEW c \in Calls, releaseWaiter(c) PROVE WaiterReachable'
  BY <1>3 DEF releaseWaiter, Pass
<1>4. ASSUME NEW c \in Calls,
             \/ readStatus(c) \/ saveSending(c) \/ SendWithButtons(c) \/ savePending(c)
             \/ pollChannel(c) \/ recheckStatus(c) \/ waitDecision(c) \/ waitTimeout(c)
      PROVE WaiterReachable'
  BY <1>4 DEF readStatus, saveSending, SendWithButtons, savePending, pollChannel,
     recheckStatus, waitDecision, waitTimeout, Answer, Receive
<1>5. ASSUME NEW k \in Clicks, Press(k) \/ ClickStep(k) PROVE WaiterReachable'
  BY <1>5 DEF Press, ClickStep, persistDecision, lookupWaiter, notifyHITLWaiter
<1>6. ASSUME Restart PROVE WaiterReachable'
  BY <1>6 DEF Restart, Ended
<1> QED
  BY <1>1, <1>2, <1>3, <1>4, <1>5, <1>6 DEF Next, CallStep

\* A callback that will reach the waiter of a call.
CallbackComing(c) ==
  \E k \in Clicks :
    /\ ClickReq[k] = ReqOf[c]
    /\ \/ clickPc[k] = "lookup"
       \/ clickPc[k] = "notify" /\ clickFor[k] = me(c)

\* A waiter goes into the final select only when no decision was made, so a
\* step of a call that leaves a decided waiter there found it there.
LEMMA CallStepWaits ==
  ASSUME ApprovalInv, NEW c \in Calls, CallStep(c) \/ waitTimeout(c),
         NEW b \in Calls, pc'[b] = "wait", chan'[me(b)'] = "empty", Decided(ReqOf[b])'
  PROVE  /\ pc[b] = "wait" /\ chan[me(b)] = "empty" /\ Decided(ReqOf[b])
         /\ UNCHANGED <<me(b), clickPc, clickFor>>
<1> USE CallsAssumption DEF ApprovalInv, TypeOK, me, Goto, CallVars, ClickVars, Decided
<1>1. ASSUME PolicyHook(c) \/ PreToolHook(c)
      PROVE  c # b /\ UNCHANGED <<me(b), chan, status, clickPc, clickFor>>
  BY <1>1 DEF PolicyHook, PreToolHook, RequestApproval, Pass
<1>2. ASSUME registerWaiter(c)
      PROVE  c # b /\ UNCHANGED <<me(b), chan[me(b)], status, clickPc, clickFor>>
  BY <1>2 DEF registerWaiter, Waiters
<1>3. ASSUME saveSending(c) \/ savePending(c)
      PROVE  c # b /\ UNCHANGED <<me(b), chan, clickPc, clickFor>> /\ Decided(ReqOf[b])
  BY <1>3 DEF saveSending, savePending, persistLifecycle, SaveHITLApproval, Decisions
<1>4. ASSUME readStatus(c) \/ recheckStatus(c) \/ SendWithButtons(c) \/ waitTimeout(c)
      PROVE  c # b /\ UNCHANGED <<me(b), chan, status, clickPc, clickFor>>
  BY <1>4 DEF readStatus, recheckStatus, SendWithButtons, waitTimeout, Answer
<1>5. ASSUME pollChannel(c) \/ waitDecision(c)
      PROVE  c # b /\ UNCHANGED <<me(b), chan[me(b)], status, clickPc, clickFor>>
  BY SMTT(30), <1>5 DEF pollChannel, waitDecision, Receive, Answer, Waiters
<1>6. ASSUME releaseWaiter(c)
      PROVE  c # b /\ UNCHANGED <<me(b), chan, status, clickPc, clickFor>>
  BY <1>6 DEF releaseWaiter, Pass
<1>7. c # b => pc[b] = "wait"
  BY DEF CallStep, PolicyHook, PreToolHook, RequestApproval, Pass, registerWaiter, readStatus,
     recheckStatus, saveSending, savePending, SendWithButtons, pollChannel, waitDecision,
     waitTimeout, releaseWaiter, Receive, Answer
<1> QED
  BY <1>1, <1>2, <1>3, <1>4, <1>5, <1>6, <1>7 DEF CallStep

LEMMA NoLostDecisionStep ==
  ASSUME ApprovalInv, Next
  PROVE  NoLostDecision'
<1>00. NoLostDecision
  BY DEF ApprovalInv
<1>01. \A c \in Calls :
        pc[c] = "wait" /\ chan[me(c)] = "empty" /\ Decided(ReqOf[c]) => CallbackComing(c)
  BY <1>00 DEF NoLostDecision, CallbackComing
<1> USE CallsAssumption, ClicksAssumption
    DEF ApprovalInv, TypeOK, me, CallVars, ClickTo, Decided
<1> SUFFICES ASSUME NEW b \in Calls, pc'[b] = "wait", chan'[me(b)'] = "empty",
                    Decided(ReqOf[b])'
             PROVE  CallbackComing(b)'
  BY DEF NoLostDecision, CallbackComing
<1>0. pc[b] = "wait" /\ chan[me(b)] = "empty" /\ Decided(ReqOf[b]) => CallbackComing(b)
  BY <1>01
<1>1. ASSUME NEW c \in Calls, CallStep(c) \/ waitTimeout(c) PROVE CallbackComing(b)'
  <2>1. CallbackComing(b) /\ UNCHANGED <<me(b), clickPc, clickFor>>
    BY <1>0, <1>1, CallStepWaits
  <2> QED
    BY <2>1 DEF CallbackComing
<1>2. ASSUME NEW k \in Clicks, persistDecision(k) PROVE CallbackComing(b)'
  <2>1. CASE ClickReq[k] = ReqOf[b]
    <3>1. clickPc'[k] = "lookup"
      BY <1>2 DEF persistDecision
    <3> QED
      BY <2>1, <3>1 DEF CallbackComing
  <2>2. CASE ClickReq[k] # ReqOf[b]
    <3>1. CallbackComing(b)
      BY <1>0, <1>2, <2>2 DEF persistDecision, SaveHITLApproval
    <3> QED
      BY <1>2, <3>1 DEF persistDecision, CallbackComing
  <2> QED BY <2>1, <2>2
<1>3. ASSUME NEW k \in Clicks, lookupWaiter(k) PROVE CallbackComing(b)'
  <2>1. CallbackComing(b)
    BY <1>0, <1>3 DEF lookupWaiter
  <2>2. pending[ReqOf[b]] = me(b) /\ me(b) # NoWaiter
    BY <1>3, NoWaiterAssumption DEF lookupWaiter, WaiterReachable, Registered, Waiters
  <2> QED
    BY <1>3, <2>1, <2>2 DEF lookupWaiter, CallbackComing
<1>4. ASSUME NEW k \in Clicks, notifyHITLWaiter(k) PROVE CallbackComing(b)'
  <2>1. clickFor[k] \in Waiters /\ ClickDec[k] # "empty"
    BY <1>4 DEF notifyHITLWaiter, Decisions
  <2>2. chan[me(b)] = "empty" /\ clickFor[k] # me(b)
    BY <1>4, <2>1 DEF notifyHITLWaiter
  <2>3. CallbackComing(b)
    BY <1>0, <1>4, <2>2 DEF notifyHITLWaiter
  <2> QED
    BY <1>4, <2>2, <2>3 DEF notifyHITLWaiter, CallbackComing
<1>5. ASSUME NEW k \in Clicks, Press(k) PROVE CallbackComing(b)'
  <2>1. CallbackComing(b)
    BY <1>0, <1>5 DEF Press
  <2> QED
    BY <1>5, <2>1 DEF Press, CallbackComing
<1>6. ASSUME Restart PROVE CallbackComing(b)'
  BY <1>6 DEF Restart, Ended
<1> QED
  BY <1>1, <1>2, <1>3, <1>4, <1>5, <1>6 DEF Next, ClickStep

LEMMA ApprovalStepInv ==
  ASSUME ApprovalInv, [Next]_vars
  PROVE  ApprovalInv'
<1>1. CASE Next
  BY <1>1, TypeStep, HookOrderStep, WaitersOfRequestStep, DecisionsPressedStep,
     RunsOnlyApprovedStep, WaiterReachableStep, NoLostDecisionStep DEF ApprovalInv
<1>2. CASE UNCHANGED vars
  <2> USE <1>2 DEF vars, ApprovalInv
  <2>1. TypeOK'
    BY DEF TypeOK
  <2>2. HookOrder' /\ RunsOnlyApproved'
    BY DEF HookOrder, RunsOnlyApproved, Registered, PolicyPassed, Pressed
  <2>3. WaitersOfRequest' /\ DecisionsPressed'
    BY DEF WaitersOfRequest, DecisionsPressed, Pressed
  <2>4. WaiterReachable'
    BY DEF WaiterReachable, Registered, me
  <2>5. NoLostDecision'
    BY DEF NoLostDecision, Decided, me
  <2> QED BY <2>1, <2>2, <2>3, <2>4, <2>5
<1> QED
  BY <1>1, <1>2
-----------------------------------------------------------------------------
(***************************************************************************)
(* The waiter map, the channels, the table and the callbacks stay          *)
(* consistent in every behaviour, whatever is pressed, lost or restarted.  *)
(***************************************************************************)
THEOREM ApprovalInvariant == Spec => []ApprovalInv
<1>1. ApprovalInv /\ [Next]_vars => ApprovalInv'
  BY ApprovalStepInv
<1> QED
  BY <1>1, ApprovalInitInv, PTL DEF Spec

(***************************************************************************)
(* A tool that needs approval runs only after Approve was pressed on that  *)
(* very request, in a Telegram session, and a denied tool never runs, for  *)
(* any policy and any presses (PreToolHook, RequestApproval).              *)
(***************************************************************************)
THEOREM ApprovalRunsOnlyApproved == Spec => []RunsOnlyApproved
<1>1. ApprovalInv => RunsOnlyApproved
  BY DEF ApprovalInv
<1> QED
  BY <1>1, ApprovalInvariant, PTL

(***************************************************************************)
(* While RequestApproval holds a waiter, the map of HITLManager leads to   *)
(* it: no other call or callback displaces it, for any number of calls     *)
(* that share the request (registerWaiter, releaseWaiter).                 *)
(***************************************************************************)
THEOREM ApprovalWaiterReachable == Spec => []WaiterReachable
<1>1. ApprovalInv => WaiterReachable
  BY DEF ApprovalInv
<1> QED
  BY <1>1, ApprovalInvariant, PTL

(***************************************************************************)
(* A decision in the table whose waiter is in the final select with an     *)
(* empty channel still has its callback on the way, for any interleaving   *)
(* of callbacks, failed writes and restarts (waitForApproval,              *)
(* HandleCallback).                                                        *)
(***************************************************************************)
THEOREM ApprovalNoLostDecision == Spec => []NoLostDecision
<1>1. ApprovalInv => NoLostDecision
  BY DEF ApprovalInv
<1> QED
  BY <1>1, ApprovalInvariant, PTL
=============================================================================
