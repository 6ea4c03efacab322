----------------------------- MODULE MCTurnGuards -----------------------------
(* The two guards every turn passes, in behaviours of their own: the lock of *)
(* its session ("lock") and the approval of its tool calls ("approval").     *)
(* They share no state.                                                      *)
(*                                                                           *)
(* Lock: three goroutines, two of one session and one of another, the        *)
(* smallest instance in which a lock object is shared, waited for, dropped   *)
(* and re-created while another session's object comes and goes.             *)
(* Approval: identical tool calls t1, t2 share request q1 (t1 is asked for   *)
(* by both hooks), t3 runs in a cron session, t4 in a channel without        *)
(* approval, and t5 is denied by the policy.  k1 presses Approve, k3 Reject. *)
EXTENDS SessionLock, Approval, TLC

CONSTANTS p1, p2, p3, s1, s2, t1, t2, t3, t4, t5, q1, k1, k3

VARIABLE scenario

MCKeyOf == (p1 :> s1) @@ (p2 :> s1) @@ (p3 :> s2)

MCReqOf == [c \in Calls |-> q1]
MCChannel == [c \in Calls |-> IF c = t3 THEN "cron" ELSE IF c = t4 THEN "other" ELSE "telegram"]
MCPolicy == [c \in Calls |-> IF c = t5 THEN "deny"
                             ELSE IF c = t2 THEN "allow" ELSE "require_hitl"]
MCClickReq == [k \in Clicks |-> q1]
MCClickDec == [k \in Clicks |-> IF k = k3 THEN "rejected" ELSE "approved"]

\* Calls that ask nobody register no waiter: they need not run beside those
\* that do.
Apart ==
  (\E c \in {t3, t4, t5} : pc[c] # "idle") => \A c \in {t1, t2} : pc[c] = "idle"

MCInit == LockInit /\ Init /\ scenario \in {"lock", "approval"}

MCNext ==
  /\ UNCHANGED scenario
  /\ \/ scenario = "lock" /\ LockNext /\ UNCHANGED vars
     \/ scenario = "approval" /\ Next /\ Apart' /\ UNCHANGED lockVars

MCSpec == MCInit /\ [][MCNext]_<<lockVars, vars, scenario>> /\ LockFairness
=============================================================================
