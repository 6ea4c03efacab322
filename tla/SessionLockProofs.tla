-------------------------- MODULE SessionLockProofs --------------------------
(***************************************************************************)
(* Proofs about SessionLock for any finite set of goroutines, any sessions *)
(* and any heap: LockInv is inductive, and the safety properties of the    *)
(* per-session lock follow from it.                                        *)
(***************************************************************************)
EXTENDS SessionLock, FiniteSetTheorems, TLAPS

\* Reference counts start at one and end at zero with the set of users.
LEMMA UsersFinite ==
  ASSUME NEW k \in Keys
  PROVE  /\ IsFiniteSet(Users(k))
         /\ Cardinality(Users(k)) \in Nat
<1>1. Users(k) \subseteq Procs
  BY DEF Users
<1>2. IsFiniteSet(Users(k))
  BY <1>1, ProcsAssumption, FS_Subset
<1> QED
  BY <1>2, FS_CardinalityType

\* A step that only moves one goroutine between two non-idle places leaves
\* the sets of users alone.
LEMMA UsersSame ==
  ASSUME NEW p \in Procs, NEW v \in LockPcs \ {"idle"}, LockTypeOK,
         lpc[p] # "idle", lpc' = [lpc EXCEPT ![p] = v]
  PROVE  \A k \in Keys : Users(k)' = Users(k)
BY DEF Users, LockTypeOK

LEMMA UsersAdded ==
  ASSUME NEW p \in Procs, LockTypeOK,
         lpc[p] = "idle", lpc' = [lpc EXCEPT ![p] = "waiting"]
  PROVE  /\ Users(KeyOf[p])' = Users(KeyOf[p]) \union {p}
         /\ Cardinality(Users(KeyOf[p])') = Cardinality(Users(KeyOf[p])) + 1
         /\ \A k \in Keys : k # KeyOf[p] => Users(k)' = Users(k)
<1>1. KeyOf[p] \in Keys
  BY KeyOfAssumption
<1>2. Users(KeyOf[p])' = Users(KeyOf[p]) \union {p}
  BY DEF Users, LockTypeOK
<1>3. p \notin Users(KeyOf[p])
  BY DEF Users
<1>4. Cardinality(Users(KeyOf[p]) \union {p}) = Cardinality(Users(KeyOf[p])) + 1
  BY <1>1, <1>3, UsersFinite, FS_AddElement
<1>5. \A k \in Keys : k # KeyOf[p] => Users(k)' = Users(k)
  BY DEF Users, LockTypeOK
<1> QED
  BY <1>2, <1>4, <1>5

LEMMA UsersRemoved ==
  ASSUME NEW p \in Procs, LockTypeOK,
         lpc[p] # "idle", lpc' = [lpc EXCEPT ![p] = "idle"]
  PROVE  /\ Users(KeyOf[p])' = Users(KeyOf[p]) \ {p}
         /\ Cardinality(Users(KeyOf[p])') = Cardinality(Users(KeyOf[p])) - 1
         /\ \A k \in Keys : k # KeyOf[p] => Users(k)' = Users(k)
<1>1. KeyOf[p] \in Keys
  BY KeyOfAssumption
<1>2. Users(KeyOf[p])' = Users(KeyOf[p]) \ {p}
  BY DEF Users, LockTypeOK
<1>3. p \in Users(KeyOf[p])
  BY DEF Users
<1>4. Cardinality(Users(KeyOf[p]) \ {p}) = Cardinality(Users(KeyOf[p])) - 1
  BY <1>1, <1>3, UsersFinite, FS_RemoveElement
<1>5. \A k \in Keys : k # KeyOf[p] => Users(k)' = Users(k)
  BY DEF Users, LockTypeOK
<1> QED
  BY <1>2, <1>4, <1>5
-----------------------------------------------------------------------------
LEMMA LockInitInv == LockInit => LockInv
BY KeyOfAssumption, NoLockAssumption
   DEF LockInit, LockInv, LockTypeOK, LockPcs, PointersAgree, ObjectsDistinct,
       RefCountExact, TokenOut, MutualExclusion, MetricsHaveHolder, Holds

\* acquireLock on a registered object.
LEMMA FindInv ==
  ASSUME LockInv, NEW p \in Procs, acquireLock(p), FindLock(p)
  PROVE  LockInv'
<1> DEFINE k == KeyOf[p]
           l == allLocks[k]
<1>1. k \in Keys /\ l \in LockIds /\ l # NoLock /\ lpc[p] = "idle"
  BY KeyOfAssumption DEF FindLock, acquireLock, LockInv, LockTypeOK
<1>2. LockTypeOK'
  BY <1>1, KeyOfAssumption DEF FindLock, acquireLock, LockInv, LockTypeOK, LockPcs
<1>3. PointersAgree'
  BY <1>1, KeyOfAssumption DEF FindLock, acquireLock, LockInv, LockTypeOK, PointersAgree
<1>4. ObjectsDistinct'
  BY DEF FindLock, LockInv, ObjectsDistinct
<1>5. RefCountExact'
  <2> SUFFICES ASSUME NEW j \in Keys, allLocks[j] # NoLock
               PROVE  (Users(j) # {})' /\ refCount'[allLocks[j]] = Cardinality(Users(j)')
    BY DEF RefCountExact, FindLock
  <2>0. lpc' = [lpc EXCEPT ![p] = "waiting"] /\ LockTypeOK
    BY DEF acquireLock, LockInv
  <2>1. CASE j = k
    <3>1. refCount'[l] = refCount[l] + 1
      BY <1>1 DEF FindLock, LockInv, LockTypeOK
    <3>2. refCount[l] = Cardinality(Users(k))
      BY <1>1 DEF LockInv, RefCountExact
    <3> QED
      BY <1>1, <2>0, <2>1, <3>1, <3>2, UsersAdded
  <2>2. CASE j # k
    <3>1. refCount'[allLocks[j]] = refCount[allLocks[j]]
      BY <1>1, <2>2 DEF FindLock, LockInv, LockTypeOK, ObjectsDistinct
    <3>2. Users(j)' = Users(j)
      BY <1>1, <2>0, <2>2, UsersAdded
    <3> QED
      BY <3>1, <3>2 DEF LockInv, RefCountExact
  <2> QED BY <2>1, <2>2
<1>6. TokenOut'
  BY <1>1 DEF FindLock, acquireLock, LockInv, LockTypeOK, TokenOut, Holds
<1>7. MutualExclusion'
  BY <1>1 DEF acquireLock, LockInv, LockTypeOK, MutualExclusion, Holds
<1>8. MetricsHaveHolder'
  BY <1>1 DEF FindLock, acquireLock, LockInv, LockTypeOK, MetricsHaveHolder
<1> QED
  BY <1>2, <1>3, <1>4, <1>5, <1>6, <1>7, <1>8 DEF LockInv

\* acquireLock when the session has no object: the new one is fresh.
LEMMA CreateInv ==
  ASSUME LockInv, NEW p \in Procs, acquireLock(p), CreateLock(p)
  PROVE  LockInv'
<1> DEFINE k == KeyOf[p]
<1>0. PICK l \in LockIds :
        /\ Unreferenced(l)
        /\ allLocks' = [allLocks EXCEPT ![k] = l]
        /\ refCount' = [refCount EXCEPT ![l] = 1]
        /\ token'    = [token EXCEPT ![l] = TRUE]
        /\ isLocked' = [isLocked EXCEPT ![l] = FALSE]
        /\ ptr'      = [ptr EXCEPT ![p] = l]
  BY DEF CreateLock
<1>1. /\ k \in Keys /\ l # NoLock /\ lpc[p] = "idle"
      /\ allLocks[k] = NoLock
      /\ lpc' = [lpc EXCEPT ![p] = "waiting"]
      /\ LockTypeOK
      /\ Users(k) = {}
  <2>1. k \in Keys /\ l # NoLock /\ lpc[p] = "idle" /\ allLocks[k] = NoLock
    BY KeyOfAssumption, NoLockAssumption DEF acquireLock, CreateLock
  <2>2. lpc' = [lpc EXCEPT ![p] = "waiting"] /\ LockTypeOK
    BY DEF acquireLock, LockInv
  <2>3. Users(k) = {}
    BY <2>1 DEF Users, LockInv, PointersAgree
  <2> QED BY <2>1, <2>2, <2>3
<1>2. LockTypeOK'
  BY <1>0, <1>1 DEF LockTypeOK, LockPcs
<1>3. PointersAgree'
  BY <1>0, <1>1, KeyOfAssumption DEF LockInv, LockTypeOK, PointersAgree
<1>4. ObjectsDistinct'
  BY <1>0, <1>1 DEF LockInv, LockTypeOK, ObjectsDistinct, Unreferenced
<1>5. RefCountExact'
  <2> SUFFICES ASSUME NEW j \in Keys, allLocks'[j] # NoLock
               PROVE  (Users(j) # {})' /\ refCount'[allLocks'[j]] = Cardinality(Users(j)')
    BY DEF RefCountExact
  <2>1. CASE j = k
    <3>1. allLocks'[j] = l /\ refCount'[l] = 1
      BY <1>0, <1>1, <2>1 DEF LockTypeOK
    <3>2. Cardinality(Users(k)) = 0
      BY <1>1, FS_EmptySet
    <3>3. /\ Users(k)' = Users(k) \union {p}
          /\ Cardinality(Users(k)') = Cardinality(Users(k)) + 1
      BY <1>1, UsersAdded
    <3> QED
      BY <2>1, <3>1, <3>2, <3>3
  <2>2. CASE j # k
    <3>1. allLocks'[j] = allLocks[j] /\ allLocks[j] # l
      BY <1>0, <1>1, <2>2 DEF LockTypeOK, Unreferenced
    <3>2. refCount'[allLocks[j]] = refCount[allLocks[j]]
      BY <1>0, <1>1, <3>1 DEF LockTypeOK
    <3>3. Users(j)' = Users(j)
      BY <1>1, <2>2, UsersAdded
    <3> QED
      BY <3>1, <3>2, <3>3 DEF LockInv, RefCountExact
  <2> QED BY <2>1, <2>2
<1>6. TokenOut'
  BY <1>0, <1>1 DEF LockInv, LockTypeOK, TokenOut, Holds, Unreferenced, PointersAgree
<1>7. MutualExclusion'
  BY <1>1 DEF LockInv, LockTypeOK, MutualExclusion, Holds
<1>8. MetricsHaveHolder'
  BY <1>0, <1>1 DEF LockInv, LockTypeOK, MetricsHaveHolder, Unreferenced
<1> QED
  BY <1>2, <1>3, <1>4, <1>5, <1>6, <1>7, <1>8 DEF LockInv

\* Steps that keep the registry: what they share.
LEMMA InsideInv ==
  ASSUME LockInv, NEW p \in Procs, NEW v \in LockPcs \ {"idle"}, lpc[p] # "idle",
         lpc' = [lpc EXCEPT ![p] = v], UNCHANGED <<allLocks, refCount, ptr>>
  PROVE  PointersAgree' /\ ObjectsDistinct' /\ RefCountExact'
<1>1. PointersAgree'
  BY DEF LockInv, LockTypeOK, PointersAgree
<1>2. ObjectsDistinct'
  BY DEF LockInv, ObjectsDistinct
<1>3. RefCountExact'
  <2>1. \A k \in Keys : Users(k)' = Users(k)
    BY UsersSame DEF LockInv
  <2> QED
    BY <2>1 DEF LockInv, RefCountExact
<1> QED BY <1>1, <1>2, <1>3

LEMMA LockTakeInv ==
  ASSUME LockInv, NEW p \in Procs, LockTake(p)
  PROVE  LockInv'
<1>0. ptr[p] \in LockIds /\ allLocks[KeyOf[p]] = ptr[p]
  BY DEF LockTake, LockInv, LockTypeOK, PointersAgree
<1>1. LockTypeOK'
  BY DEF LockTake, LockInv, LockTypeOK, LockPcs
<1>2. PointersAgree' /\ ObjectsDistinct' /\ RefCountExact'
  BY InsideInv DEF LockTake, LockPcs
<1>3. TokenOut'
  BY <1>0 DEF LockTake, LockInv, LockTypeOK, TokenOut, Holds
<1>4. \A q \in Procs : q # p /\ KeyOf[p] = KeyOf[q] => ~Holds(q)
  <2> SUFFICES ASSUME NEW q \in Procs, KeyOf[p] = KeyOf[q], Holds(q)
               PROVE  FALSE
    OBVIOUS
  <2>1. ptr[q] = ptr[p]
    BY <1>0 DEF LockInv, PointersAgree, Holds
  <2> QED
    BY <2>1 DEF LockTake, LockInv, TokenOut
<1>5. MutualExclusion'
  BY <1>4 DEF LockTake, LockInv, LockTypeOK, MutualExclusion, Holds
<1>6. MetricsHaveHolder'
  BY DEF LockTake, LockInv, LockTypeOK, MetricsHaveHolder
<1> QED
  BY <1>1, <1>2, <1>3, <1>5, <1>6 DEF LockInv

LEMMA LockRecordInv ==
  ASSUME LockInv, NEW p \in Procs, LockRecord(p)
  PROVE  LockInv'
<1>1. LockTypeOK'
  BY DEF LockRecord, LockInv, LockTypeOK, LockPcs
<1>2. PointersAgree' /\ ObjectsDistinct' /\ RefCountExact'
  BY InsideInv DEF LockRecord, LockPcs
<1>3. TokenOut'
  BY DEF LockRecord, LockInv, LockTypeOK, TokenOut, Holds
<1>4. MutualExclusion'
  BY DEF LockRecord, LockInv, LockTypeOK, MutualExclusion, Holds
<1>5. MetricsHaveHolder'
  BY DEF LockRecord, LockInv, LockTypeOK, MetricsHaveHolder
<1> QED
  BY <1>1, <1>2, <1>3, <1>4, <1>5 DEF LockInv

LEMMA LockFailInv ==
  ASSUME LockInv, NEW p \in Procs, LockFail(p)
  PROVE  LockInv'
<1>1. LockTypeOK'
  BY DEF LockFail, LockInv, LockTypeOK, LockPcs
<1>2. PointersAgree' /\ ObjectsDistinct' /\ RefCountExact'
  BY InsideInv DEF LockFail, LockPcs
<1>3. TokenOut' /\ MutualExclusion'
  BY DEF LockFail, LockInv, LockTypeOK, TokenOut, MutualExclusion, Holds
<1>4. MetricsHaveHolder'
  BY DEF LockFail, LockInv, LockTypeOK, MetricsHaveHolder
<1> QED
  BY <1>1, <1>2, <1>3, <1>4 DEF LockInv

LEMMA UnlockRecordInv ==
  ASSUME LockInv, NEW p \in Procs, UnlockRecord(p)
  PROVE  LockInv'
<1>1. LockTypeOK'
  BY DEF UnlockRecord, LockInv, LockTypeOK, LockPcs
<1>2. PointersAgree' /\ ObjectsDistinct' /\ RefCountExact'
  BY InsideInv DEF UnlockRecord, LockPcs
<1>3. TokenOut' /\ MutualExclusion'
  BY DEF UnlockRecord, LockInv, LockTypeOK, TokenOut, MutualExclusion, Holds
<1>4. MetricsHaveHolder'
  BY DEF UnlockRecord, LockInv, LockTypeOK, MetricsHaveHolder
<1> QED
  BY <1>1, <1>2, <1>3, <1>4 DEF LockInv

LEMMA UnlockSendInv ==
  ASSUME LockInv, NEW p \in Procs, UnlockSend(p)
  PROVE  LockInv'
<1>0. ptr[p] \in LockIds /\ allLocks[KeyOf[p]] = ptr[p] /\ ptr[p] # NoLock
  BY DEF UnlockSend, LockInv, LockTypeOK, PointersAgree
<1>1. LockTypeOK'
  BY DEF UnlockSend, LockInv, LockTypeOK, LockPcs
<1>2. PointersAgree' /\ ObjectsDistinct' /\ RefCountExact'
  BY InsideInv DEF UnlockSend, LockPcs
<1>3. TokenOut'
  <2> SUFFICES ASSUME NEW q \in Procs, Holds(q)'
               PROVE  ~token'[ptr'[q]]
    BY DEF TokenOut
  <2>1. q # p /\ Holds(q)
    BY DEF UnlockSend, LockInv, LockTypeOK, Holds
  <2>2. KeyOf[q] # KeyOf[p]
    BY <2>1 DEF UnlockSend, LockInv, MutualExclusion, Holds
  <2>3. allLocks[KeyOf[q]] = ptr[q]
    BY <2>1 DEF LockInv, PointersAgree, Holds
  <2>4. ptr[q] # ptr[p]
    BY <1>0, <2>2, <2>3, KeyOfAssumption DEF LockInv, ObjectsDistinct
  <2> QED
    BY <1>0, <2>1, <2>4 DEF UnlockSend, LockInv, LockTypeOK, TokenOut
<1>4. MutualExclusion'
  BY DEF UnlockSend, LockInv, LockTypeOK, MutualExclusion, Holds
<1>5. MetricsHaveHolder'
  BY DEF UnlockSend, LockInv, LockTypeOK, MetricsHaveHolder
<1> QED
  BY <1>1, <1>2, <1>3, <1>4, <1>5 DEF LockInv

LEMMA ReleaseInv ==
  ASSUME LockInv, NEW p \in Procs, release(p)
  PROVE  LockInv'
<1> DEFINE k == KeyOf[p]
           l == ptr[p]
<1>1. /\ k \in Keys /\ l \in LockIds /\ l # NoLock /\ allLocks[k] = l
      /\ lpc[p] \in {"unlocked", "failed"}
      /\ lpc' = [lpc EXCEPT ![p] = "idle"]
      /\ ptr' = [ptr EXCEPT ![p] = NoLock]
      /\ UNCHANGED <<token, isLocked>>
      /\ LockTypeOK
  BY KeyOfAssumption DEF release, LockInv, LockTypeOK, PointersAgree
<1>2. /\ refCount' = [refCount EXCEPT ![l] = refCount[l] - 1]
      /\ allLocks' = IF refCount[l] - 1 <= 0 THEN [allLocks EXCEPT ![k] = NoLock]
                                             ELSE allLocks
  BY DEF release
<1>4. /\ refCount[l] = Cardinality(Users(k))
      /\ Cardinality(Users(k)') = Cardinality(Users(k)) - 1
      /\ Cardinality(Users(k)) \in Nat
      /\ IsFiniteSet(Users(k))
      /\ Users(k)' = Users(k) \ {p}
      /\ \A j \in Keys : j # k => Users(j)' = Users(j)
  BY <1>1, UsersRemoved, UsersFinite DEF LockInv, RefCountExact
<1>3. LockTypeOK'
  <2>1. IsFiniteSet(Users(k) \ {p})
    BY <1>4, FS_Subset
  <2>2. refCount[l] - 1 \in Nat
    BY <1>4, <2>1, FS_CardinalityType
  <2> QED
    BY <1>1, <1>2, <2>2 DEF LockTypeOK, LockPcs
<1>5. PointersAgree' /\ ObjectsDistinct' /\ RefCountExact'
  <2>1. CASE refCount[l] - 1 <= 0
    <3>1. Users(k)' = {}
      <4>1. Cardinality(Users(k) \ {p}) <= 0
        BY <1>4, <2>1
      <4>2. IsFiniteSet(Users(k) \ {p})
        BY <1>4, FS_Subset
      <4> QED
        BY <1>4, <4>1, <4>2, FS_EmptySet, FS_CardinalityType
    <3>2. \A q \in Procs : KeyOf[q] = k => lpc'[q] = "idle"
      BY <3>1 DEF Users
    <3>3. PointersAgree'
      BY <1>1, <1>2, <2>1, <3>2, KeyOfAssumption DEF LockInv, LockTypeOK, PointersAgree
    <3>4. ObjectsDistinct'
      BY <1>1, <1>2, <2>1 DEF LockInv, LockTypeOK, ObjectsDistinct
    <3>5. RefCountExact'
      <4> SUFFICES ASSUME NEW j \in Keys, allLocks'[j] # NoLock
                   PROVE  (Users(j) # {})' /\ refCount'[allLocks'[j]] = Cardinality(Users(j)')
        BY DEF RefCountExact
      <4>1. j # k /\ allLocks'[j] = allLocks[j] /\ allLocks[j] # l
        BY <1>1, <1>2, <2>1 DEF LockInv, LockTypeOK, ObjectsDistinct
      <4>2. refCount'[allLocks[j]] = refCount[allLocks[j]]
        BY <1>1, <1>2, <4>1 DEF LockTypeOK
      <4> QED
        BY <1>4, <4>1, <4>2 DEF LockInv, RefCountExact
    <3> QED BY <3>3, <3>4, <3>5
  <2>2. CASE ~(refCount[l] - 1 <= 0)
    <3>1. allLocks' = allLocks
      BY <1>2, <2>2
    <3>2. Users(k)' # {}
      <4>1. Cardinality(Users(k)') # 0
        BY <1>4, <2>2
      <4> QED
        BY <4>1, FS_EmptySet
    <3>3. PointersAgree'
      BY <1>1, <3>1 DEF LockInv, LockTypeOK, PointersAgree
    <3>4. ObjectsDistinct'
      BY <3>1 DEF LockInv, ObjectsDistinct
    <3>5. RefCountExact'
      <4> SUFFICES ASSUME NEW j \in Keys, allLocks[j] # NoLock
                   PROVE  (Users(j) # {})' /\ refCount'[allLocks[j]] = Cardinality(Users(j)')
        BY <3>1 DEF RefCountExact
      <4>1. CASE j = k
        <5>1. refCount'[allLocks[j]] = refCount[l] - 1
          BY <1>1, <1>2, <4>1 DEF LockTypeOK
        <5> QED
          BY <1>4, <3>2, <4>1, <5>1
      <4>2. CASE j # k
        <5>1. refCount'[allLocks[j]] = refCount[allLocks[j]]
          BY <1>1, <1>2, <4>2 DEF LockInv, LockTypeOK, ObjectsDistinct
        <5> QED
          BY <1>4, <4>2, <5>1 DEF LockInv, RefCountExact
      <4> QED BY <4>1, <4>2
    <3> QED BY <3>3, <3>4, <3>5
  <2> QED BY <2>1, <2>2
<1>7. TokenOut'
  BY <1>1 DEF LockInv, LockTypeOK, TokenOut, Holds
<1>8. MutualExclusion'
  BY <1>1 DEF LockInv, LockTypeOK, MutualExclusion, Holds
<1>9. MetricsHaveHolder'
  BY <1>1 DEF LockInv, LockTypeOK, MetricsHaveHolder
<1> QED
  BY <1>3, <1>5, <1>7, <1>8, <1>9 DEF LockInv
-----------------------------------------------------------------------------
(***************************************************************************)
(* The invariant is inductive: whatever the goroutines do with acquireLock,*)
(* Lock, Unlock and release, they keep meeting at one object per session.  *)
(***************************************************************************)
THEOREM LockInvariant == LockSpec => []LockInv
<1>1. LockInv /\ [LockNext]_lockVars => LockInv'
  <2> SUFFICES ASSUME LockInv, [LockNext]_lockVars
               PROVE  LockInv'
    OBVIOUS
  <2>1. CASE LockNext
    <3>1. PICK p \in Procs : LockStep(p)
      BY <2>1 DEF LockNext
    <3>2. acquireLock(p) => LockInv'
      BY FindInv, CreateInv DEF acquireLock
    <3> QED
      BY <3>1, <3>2, LockTakeInv, LockRecordInv, LockFailInv, UnlockRecordInv,
         UnlockSendInv, ReleaseInv DEF LockStep
  <2>2. CASE UNCHANGED lockVars
    BY <2>2 DEF lockVars, LockInv, LockTypeOK, PointersAgree, ObjectsDistinct,
                RefCountExact, Users, TokenOut, MutualExclusion, MetricsHaveHolder, Holds
  <2> QED BY <2>1, <2>2
<1> QED
  BY <1>1, LockInitInv, PTL DEF LockSpec

(***************************************************************************)
(* Types are respected by every step of the locking protocol.              *)
(***************************************************************************)
THEOREM LockTypeCorrect == LockSpec => []LockTypeOK
<1>1. LockInv => LockTypeOK
  BY DEF LockInv
<1> QED BY <1>1, LockInvariant, PTL

(***************************************************************************)
(* At most one goroutine is inside a session's critical section, however   *)
(* many goroutines and sessions there are and however lock objects are     *)
(* created, dropped and reallocated.                                       *)
(***************************************************************************)
THEOREM LockMutualExclusion == LockSpec => []MutualExclusion
<1>1. LockInv => MutualExclusion
  BY DEF LockInv
<1> QED BY <1>1, LockInvariant, PTL

(***************************************************************************)
(* The registry never keeps an entry for a session nobody uses.            *)
(***************************************************************************)
THEOREM LockNoLeak == LockSpec => []NoLeak
<1>1. LockInv => NoLeak
  BY DEF LockInv, NoLeak, RefCountExact, Users
<1> QED BY <1>1, LockInvariant, PTL

(***************************************************************************)
(* Unlock never blocks on its send: the channel is empty when it is made.  *)
(***************************************************************************)
THEOREM LockSendNeverBlocks == LockSpec => []SendNeverBlocks
<1>1. LockInv => SendNeverBlocks
  BY DEF LockInv, TokenOut, SendNeverBlocks, Holds
<1> QED BY <1>1, LockInvariant, PTL
=============================================================================
