SPECIFICATION MCSpec
CONSTANTS
  p1 = p1
  p2 = p2
  p3 = p3
  s1 = s1
  s2 = s2
  t1 = t1
  t2 = t2
  t3 = t3
  t4 = t4
  t5 = t5
  q1 = q1
  k1 = k1
  k3 = k3
  Procs = {p1, p2, p3}
  Keys = {s1, s2}
  LockIds = {l1, l2, l3}
  KeyOf <- MCKeyOf
  NoLock = NoLock
  Calls = {t1, t2, t3, t4, t5}
  Reqs = {q1}
  ReqOf <- MCReqOf
  Channel <- MCChannel
  Policy <- MCPolicy
  HighRisk = {t1, t2, t3, t5}
  Clicks = {k1, k3}
  ClickReq <- MCClickReq
  ClickDec <- MCClickDec
  NoWaiter = NoWaiter
  MaxRestarts = 1
INVARIANTS
  MutualExclusion
  NoLeak
  SendNeverBlocks
  RunsOnlyApproved
  WaiterReachable
  NoLostDecision
PROPERTIES
  WaiterServed
CHECK_DEADLOCK FALSE
