----------------------------- MODULE SessionLock -----------------------------
(***************************************************************************)
(* The per-session lock of internal/agent/lock_metrics.go: a global map    *)
(* allLocks from session key to a reference-counted lock object, whose     *)
(* lock is a one-slot channel holding a token while the lock is free.      *)
(*                                                                         *)
(* Every Dispatch and every background compaction is a goroutine that runs *)
(* acquireLock, Lock, (its critical section), Unlock, release; a failed    *)
(* Lock (cancelled context or timeout) goes straight to release.  Each     *)
(* step below is one region the code runs under one mutex, or one channel  *)
(* operation.  Wait counters and durations are left out; IsLocked, which   *)
(* the doctor's stale-lock report reads, is kept.                          *)
(***************************************************************************)
EXTENDS Integers, FiniteSets

CONSTANTS
  Procs,      \* goroutines
  Keys,       \* session keys
  LockIds,    \* identities of lock objects (heap addresses)
  KeyOf,      \* the session each goroutine works on
  NoLock      \* the nil pointer

ASSUME ProcsAssumption == IsFiniteSet(Procs)
ASSUME KeyOfAssumption == KeyOf \in [Procs -> Keys]
ASSUME NoLockAssumption == NoLock \notin LockIds

VARIABLES
  allLocks,   \* key -> lock object registered for it, or NoLock
  refCount,   \* lock object -> sessionLock.refCount
  token,      \* lock object -> is the token in the channel?
  isLocked,   \* lock object -> metrics.IsLocked
  ptr,        \* goroutine -> the lock object it holds a pointer to
  lpc         \* goroutine -> where it is in the locking protocol

lockVars == <<allLocks, refCount, token, isLocked, ptr, lpc>>

LockPcs == {"idle", "waiting", "taken", "locked", "unlocking", "unlocked", "failed"}

\* The goroutine took the token and has not put it back.
Holds(p) == lpc[p] \in {"taken", "locked", "unlocking"}

\* An object nothing points to: what the allocator may hand out next.
Unreferenced(l) == /\ \A p \in Procs : ptr[p] # l
                   /\ \A k \in Keys : allLocks[k] # l

LockInit ==
  /\ allLocks = [k \in Keys |-> NoLock]
  /\ refCount = [l \in LockIds |-> 0]
  /\ token    = [l \in LockIds |-> FALSE]
  /\ isLocked = [l \in LockIds |-> FALSE]
  /\ ptr      = [p \in Procs |-> NoLock]
  /\ lpc      = [p \in Procs |-> "idle"]
-----------------------------------------------------------------------------
(***************************************************************************)
(* acquireLock: find or create the object for the key and count the        *)
(* reference, all under allLocksMu.                                        *)
(***************************************************************************)
FindLock(p) ==
  LET l == allLocks[KeyOf[p]] IN
    /\ l # NoLock
    /\ refCount' = [refCount EXCEPT ![l] = @ + 1]
    /\ ptr' = [ptr EXCEPT ![p] = l]
    /\ UNCHANGED <<allLocks, token, isLocked>>

CreateLock(p) ==
  /\ allLocks[KeyOf[p]] = NoLock
  /\ \E l \in LockIds :
       /\ Unreferenced(l)
       /\ allLocks' = [allLocks EXCEPT ![KeyOf[p]] = l]
       /\ refCount' = [refCount EXCEPT ![l] = 1]
       /\ token'    = [token EXCEPT ![l] = TRUE]
       /\ isLocked' = [isLocked EXCEPT ![l] = FALSE]
       /\ ptr'      = [ptr EXCEPT ![p] = l]

acquireLock(p) ==
  /\ lpc[p] = "idle"
  /\ FindLock(p) \/ CreateLock(p)
  /\ lpc' = [lpc EXCEPT ![p] = "waiting"]

(***************************************************************************)
(* Lock: receive the token, then record the acquisition under metricsMu;   *)
(* or give up when the context is done or the timer fires.                 *)
(***************************************************************************)
\* The lock would be granted without waiting for the token.
MutLockTake(p) ==
  /\ lpc[p] = "waiting"
  /\ token' = [token EXCEPT ![ptr[p]] = FALSE]
  /\ lpc' = [lpc EXCEPT ![p] = "taken"]
  /\ UNCHANGED <<allLocks, refCount, isLocked, ptr>>

LockTake(p) ==
  /\ lpc[p] = "waiting"
  /\ token[ptr[p]]
  /\ token' = [token EXCEPT ![ptr[p]] = FALSE]
  /\ lpc' = [lpc EXCEPT ![p] = "taken"]
  /\ UNCHANGED <<allLocks, refCount, isLocked, ptr>>

LockRecord(p) ==
  /\ lpc[p] = "taken"
  /\ isLocked' = [isLocked EXCEPT ![ptr[p]] = TRUE]
  /\ lpc' = [lpc EXCEPT ![p] = "locked"]
  /\ UNCHANGED <<allLocks, refCount, token, ptr>>

LockFail(p) ==
  /\ lpc[p] = "waiting"
  /\ lpc' = [lpc EXCEPT ![p] = "failed"]
  /\ UNCHANGED <<allLocks, refCount, token, isLocked, ptr>>

(***************************************************************************)
(* Unlock: clear the metric, then send the token back.  The channel has    *)
(* room for one token, so a send into a full channel would block.          *)
(***************************************************************************)
UnlockRecord(p) ==
  /\ lpc[p] = "locked"
  /\ isLocked' = [isLocked EXCEPT ![ptr[p]] = FALSE]
  /\ lpc' = [lpc EXCEPT ![p] = "unlocking"]
  /\ UNCHANGED <<allLocks, refCount, token, ptr>>

\* The send is made non-blocking the wrong way round and the token is dropped.
MutUnlockSend(p) ==
  /\ lpc[p] = "unlocking"
  /\ lpc' = [lpc EXCEPT ![p] = "unlocked"]
  /\ UNCHANGED <<allLocks, refCount, token, isLocked, ptr>>

UnlockSend(p) ==
  /\ lpc[p] = "unlocking"
  /\ ~token[ptr[p]]
  /\ token' = [token EXCEPT ![ptr[p]] = TRUE]
  /\ lpc' = [lpc EXCEPT ![p] = "unlocked"]
  /\ UNCHANGED <<allLocks, refCount, isLocked, ptr>>

(***************************************************************************)
(* release: drop the reference and unregister the object when it was the   *)
(* last one.  delete() removes whatever the key maps to at that moment.    *)
(***************************************************************************)
\* The object is unregistered while a waiter may still refer to it.
MutRelease(p) ==
  LET l == ptr[p]
  IN /\ lpc[p] \in {"unlocked", "failed"}
     /\ refCount' = [refCount EXCEPT ![l] = @ - 1]
     /\ allLocks' = [allLocks EXCEPT ![KeyOf[p]] = NoLock]
     /\ ptr' = [ptr EXCEPT ![p] = NoLock]
     /\ lpc' = [lpc EXCEPT ![p] = "idle"]
     /\ UNCHANGED <<token, isLocked>>

\* The error path of Lock forgets to release its reference.
MutReleaseLeak(p) ==
  LET l == ptr[p]
      n == IF lpc[p] = "failed" THEN refCount[l] ELSE refCount[l] - 1
  IN /\ lpc[p] \in {"unlocked", "failed"}
     /\ refCount' = [refCount EXCEPT ![l] = n]
     /\ allLocks' = IF n <= 0 THEN [allLocks EXCEPT ![KeyOf[p]] = NoLock]
                              ELSE allLocks
     /\ ptr' = [ptr EXCEPT ![p] = NoLock]
     /\ lpc' = [lpc EXCEPT ![p] = "idle"]
     /\ UNCHANGED <<token, isLocked>>

release(p) ==
  LET l == ptr[p]
      n == refCount[l] - 1
  IN /\ lpc[p] \in {"unlocked", "failed"}
     /\ refCount' = [refCount EXCEPT ![l] = n]
     /\ allLocks' = IF n <= 0 THEN [allLocks EXCEPT ![KeyOf[p]] = NoLock]
                              ELSE allLocks
     /\ ptr' = [ptr EXCEPT ![p] = NoLock]
     /\ lpc' = [lpc EXCEPT ![p] = "idle"]
     /\ UNCHANGED <<token, isLocked>>
-----------------------------------------------------------------------------
LockStep(p) ==
  \/ acquireLock(p)
  \/ LockTake(p)
  \/ LockRecord(p)
  \/ LockFail(p)
  \/ UnlockRecord(p)
  \/ UnlockSend(p)
  \/ release(p)

LockNext == \E p \in Procs : LockStep(p)

\* A goroutine that holds or references the lock keeps running; whether a new
\* one starts is up to the outside world, and the timer of Lock is not assumed
\* to fire.  Receivers blocked on a Go channel are queued first in, first out,
\* so a waiter is not passed over forever: strong fairness of the receive.
LockFairness ==
  \A p \in Procs :
    /\ WF_lockVars(LockRecord(p) \/ UnlockRecord(p) \/ UnlockSend(p) \/ release(p))
    /\ SF_lockVars(LockTake(p))

LockSpec == LockInit /\ [][LockNext]_lockVars

FairLockSpec == LockSpec /\ LockFairness
-----------------------------------------------------------------------------
LockTypeOK ==
  /\ allLocks \in [Keys -> LockIds \union {NoLock}]
  /\ refCount \in [LockIds -> Nat]
  /\ token \in [LockIds -> BOOLEAN]
  /\ isLocked \in [LockIds -> BOOLEAN]
  /\ ptr \in [Procs -> LockIds \union {NoLock}]
  /\ lpc \in [Procs -> LockPcs]

(***************************************************************************)
(* Two goroutines are never between Lock and Unlock of the same session:   *)
(* although lock objects come and go, all goroutines of a session always   *)
(* meet at the same object.  This is what SessionManager.Dispatch relies   *)
(* on to serialise the turns of a session.                                 *)
(***************************************************************************)
MutualExclusion ==
  \A p, q \in Procs :
    p # q /\ KeyOf[p] = KeyOf[q] => ~(Holds(p) /\ Holds(q))

(***************************************************************************)
(* The registry does not leak: once no goroutine of a session refers to    *)
(* its lock, on the error path of Lock too, allLocks has no entry for it.  *)
(***************************************************************************)
NoLeak ==
  \A k \in Keys :
    (\A p \in Procs : KeyOf[p] = k => lpc[p] = "idle") => allLocks[k] = NoLock

(***************************************************************************)
(* Unlock's send never blocks: the channel is empty whenever a goroutine   *)
(* is about to put the token back.                                         *)
(***************************************************************************)
SendNeverBlocks == \A p \in Procs : lpc[p] = "unlocking" => ~token[ptr[p]]

(***************************************************************************)
(* The metric the doctor reads never reports a free session as locked: an  *)
(* object whose IsLocked is set has a holder.                              *)
(***************************************************************************)
MetricsHaveHolder ==
  \A l \in LockIds :
    isLocked[l] => \E p \in Procs : ptr[p] = l /\ lpc[p] = "locked"

(***************************************************************************)
(* The inductive invariant behind the three above: every goroutine inside  *)
(* the protocol points to the object registered for its session, no two    *)
(* sessions share an object, reference counts count the goroutines, and    *)
(* the token is out of the channel while somebody holds the lock.          *)
(***************************************************************************)
Users(k) == {p \in Procs : KeyOf[p] = k /\ lpc[p] # "idle"}

PointersAgree ==
  \A p \in Procs :
    IF lpc[p] = "idle" THEN ptr[p] = NoLock
                       ELSE ptr[p] # NoLock /\ allLocks[KeyOf[p]] = ptr[p]

ObjectsDistinct ==
  \A j, k \in Keys : j # k /\ allLocks[j] # NoLock => allLocks[j] # allLocks[k]

RefCountExact ==
  \A k \in Keys : allLocks[k] # NoLock =>
    Users(k) # {} /\ refCount[allLocks[k]] = Cardinality(Users(k))

TokenOut == \A p \in Procs : Holds(p) => ~token[ptr[p]]

LockInv ==
  /\ LockTypeOK
  /\ PointersAgree
  /\ ObjectsDistinct
  /\ RefCountExact
  /\ TokenOut
  /\ MutualExclusion
  /\ MetricsHaveHolder

(***************************************************************************)
(* Every goroutine that asks for the lock gets it, or gives up: none waits *)
(* forever on an object nobody will hand to it.  The timer of Lock is not  *)
(* assumed fair, so this is about the handover itself.                     *)
(***************************************************************************)
WaiterServed == \A p \in Procs : lpc[p] = "waiting" ~> lpc[p] # "waiting"
=============================================================================
