--------------------------- MODULE SessionDispatch ---------------------------
(***************************************************************************)
(* SessionManager.Dispatch (internal/agent/agent.go, session_history.go)   *)
(* over the SQLite checkpoint store (internal/context/manager.go).         *)
(*                                                                         *)
(* Every incoming message is one call of Dispatch: under the session lock  *)
(* it loads the latest snapshot, prepares the history, runs the turn,      *)
(* saves the next snapshot and refreshes the token count; over the budget  *)
(* it spawns a worker that compacts the history under the same lock.  The  *)
(* process may crash at any point, and any call to the store or the model  *)
(* may fail (I/O, cancelled context).  Another process may mark a thread   *)
(* completed (`gobot clear-checkpoint`).                                   *)
(*                                                                         *)
(* A history is a sequence with one element per turn, namely the set of    *)
(* turns it tells about: a summary is one element.  The token estimate of  *)
(* a history is its length.                                                *)
(***************************************************************************)
EXTENDS Integers, Sequences, FiniteSets, SequencesExt

CONSTANTS
  Calls,            \* calls of Dispatch, one per incoming message
  Sessions,         \* session keys
  SessionOf,        \* the session of each call
  Earlier,          \* turns an earlier process may have saved, oldest first
  LockIds, NoLock,  \* lock objects (see SessionLock)
  MemoryWindow,     \* context messages kept before compaction
  SumThreshold,     \* length above which the history is summarised
  SumEnabled,       \* is threshold summarisation configured?
  TTLEnabled,       \* is TTL pruning configured?
  TokenBudget,      \* token budget, 0 when it is not configured
  SummaryTurns,     \* newest messages kept by token-budget compaction
  MaxCheckpoints,   \* maxCheckpointsPerThread
  StatusMayFail,    \* may LoadLatest's status query fail by itself?
  MaxCrashes,       \* bound on crashes
  MaxClears         \* bound on clear-checkpoint commands per session

ASSUME CallsAssumption == IsFiniteSet(Calls)
ASSUME SessionOfAssumption == SessionOf \in [Calls -> Sessions]
ASSUME LockIdsAssumption == NoLock \notin LockIds
ASSUME EarlierAssumption ==
  Earlier \in Seq(ToSet(Earlier)) /\ ToSet(Earlier) \intersect Calls = {}
ASSUME BoundsAssumption ==
  /\ MemoryWindow \in Nat \ {0}
  /\ SumThreshold \in Nat
  /\ TokenBudget \in Nat
  /\ SummaryTurns \in Nat \ {0}
  /\ MaxCheckpoints \in Nat \ {0}
  /\ MaxCrashes \in Nat /\ MaxClears \in Nat
  /\ {SumEnabled, TTLEnabled, StatusMayFail} \subseteq BOOLEAN

VARIABLES
  allLocks, refCount, token, isLocked, ptr, lpc,  \* the session locks
  thread,       \* threads.status, or "none" when there is no row
  rows,         \* session -> its checkpoint rows
  lastId,       \* session -> the last checkpoint_id handed out
  tokens,       \* session -> threads.estimated_tokens
  compactedAt,  \* session -> is threads.last_compacted_at set?
  pc,           \* goroutine -> where it is in Dispatch or compactSessionAsync
  snap,         \* goroutine -> the snapshot it works on
  stateless,    \* calls whose CreateThread failed
  outcome,      \* call -> what Dispatch returned
  dropped,      \* turns deliberately dropped from a saved history (auxiliary)
  published,    \* sessions with a durable compaction since CreateThread (auxiliary)
  cleared,      \* session -> turns known when it was cleared (auxiliary)
  crashes,      \* crashes so far (bound)
  clears        \* session -> clear-checkpoint commands so far (bound)

turn(c) == <<c, "turn">>
worker(c) == <<c, "compact">>
Goroutines == Calls \X {"turn", "compact"}
KeyOf == [p \in Goroutines |-> SessionOf[p[1]]]

L == INSTANCE SessionLock WITH Procs <- Goroutines, Keys <- Sessions

storeVars == <<thread, rows, lastId, tokens, compactedAt>>
ghostVars == <<dropped, published, cleared>>
callVars  == <<pc, snap, stateless, outcome>>
vars == <<allLocks, refCount, token, isLocked, ptr, lpc, storeVars, callVars,
          ghostVars, crashes, clears>>

NoSnap == [iter |-> 0, hist |-> << >>, drop |-> {}]

Told(h) == UNION ToSet(h)
Suffix(h, n) == SubSeq(h, n + 1, Len(h))
LastN(h, n) == IF Len(h) <= n THEN h ELSE Suffix(h, Len(h) - n)
-----------------------------------------------------------------------------
(***************************************************************************)
(* The checkpoint store.                                                   *)
(***************************************************************************)
\* Compaction saves under the iteration it loaded; a tie would be broken
\* the wrong way round.
MutNewer(r, s) == r.iter > s.iter \/ (r.iter = s.iter /\ r.id < s.id)

\* ORDER BY iteration DESC, checkpoint_id DESC
Newer(r, s) == r.iter > s.iter \/ (r.iter = s.iter /\ r.id > s.id)

Latest(R) == CHOOSE r \in R : \A s \in R \ {r} : Newer(r, s)

\* The rows that survive the DELETE of SaveSnapshot.
Retained(R) == {r \in R : Cardinality({s \in R : Newer(s, r)}) < MaxCheckpoints}

CurrentHist(k) == IF rows[k] = {} THEN << >> ELSE Latest(rows[k]).hist

\* SaveSnapshot: insert and prune in one transaction.
SaveSnapshot(k, iter, h) ==
  /\ lastId' = [lastId EXCEPT ![k] = @ + 1]
  /\ rows' = [rows EXCEPT ![k] =
                Retained(@ \union {[id |-> lastId[k] + 1, iter |-> iter, hist |-> h]})]

\* UpdateSessionTokens: an UPDATE, so nothing happens without a thread row.
UpdateSessionTokens(k, n, compacted) ==
  IF thread[k] = "none" THEN UNCHANGED <<tokens, compactedAt>>
  ELSE /\ tokens' = [tokens EXCEPT ![k] = n]
       /\ compactedAt' = [compactedAt EXCEPT ![k] = compacted]

\* LoadLatest: the status query and the row query.  A status query that fails
\* counts as "not completed".
StatusReads == IF StatusMayFail THEN BOOLEAN ELSE {TRUE}

HasSnapshot(k, statusRead) ==
  rows[k] # {} /\ ~(statusRead /\ thread[k] = "completed")
-----------------------------------------------------------------------------
(***************************************************************************)
(* prepareHistory: what a turn may be run on.  TTL pruning drops expired   *)
(* messages, oldest first; a summary may fail, and then the history is     *)
(* left to plain compaction.                                               *)
(***************************************************************************)
DefaultKeep == 20

SummarizationKeepN ==
  IF MemoryWindow >= DefaultKeep * 2 THEN DefaultKeep
  ELSE IF MemoryWindow \div 2 < 1 THEN 1 ELSE MemoryWindow \div 2

CompactionKeepN ==
  IF DefaultKeep < MemoryWindow THEN DefaultKeep
  ELSE IF MemoryWindow - 1 < 1 THEN 1 ELSE MemoryWindow - 1

PruneMessages(h) ==
  IF TTLEnabled THEN {Suffix(h, n) : n \in 0 .. Len(h)} ELSE {h}

summarizeHistoryIfNeeded(h) ==
  IF SumEnabled /\ Len(h) > SumThreshold /\ Len(h) > SummarizationKeepN
  THEN {h, <<Told(SubSeq(h, 1, Len(h) - SummarizationKeepN))>>
             \o LastN(h, SummarizationKeepN)}
  ELSE {h}

CompactMessages(h) ==
  IF Len(h) <= MemoryWindow THEN h ELSE LastN(h, CompactionKeepN)

prepareHistory(h) ==
  {CompactMessages(g) : g \in UNION {summarizeHistoryIfNeeded(f) : f \in PruneMessages(h)}}
-----------------------------------------------------------------------------
Turns == Calls \union ToSet(Earlier)

\* The row of the n-th turn an earlier process saved.
EarlierRow(n) == [id |-> n, iter |-> n, hist |-> [i \in 1 .. n |-> {Earlier[i]}]]

\* The process starts on the database as the last one left it, with the first
\* turns of Earlier saved and none of them compacted yet.
InitStore ==
  \E saved \in [Sessions -> 0 .. Len(Earlier)] :
    /\ thread = [k \in Sessions |-> IF saved[k] = 0 THEN "none" ELSE "active"]
    /\ rows = [k \in Sessions |-> Retained({EarlierRow(n) : n \in 1 .. saved[k]})]
    /\ lastId = saved
    /\ tokens = saved

Init ==
  /\ L!LockInit
  /\ InitStore
  /\ compactedAt = [k \in Sessions |-> FALSE]
  /\ pc = [p \in Goroutines |-> "idle"]
  /\ snap = [p \in Goroutines |-> NoSnap]
  /\ stateless = {}
  /\ outcome = [c \in Calls |-> "none"]
  /\ dropped = {}
  /\ published = {}
  /\ cleared = [k \in Sessions |-> {}]
  /\ crashes = 0
  /\ clears = [k \in Sessions |-> 0]

Goto(p, where) == pc' = [pc EXCEPT ![p] = where]
Return(c, what) == outcome' = [outcome EXCEPT ![c] = what]
LocksUnchanged == UNCHANGED <<allLocks, refCount, token, isLocked, ptr, lpc>>
BoundsUnchanged == UNCHANGED <<crashes, clears>>

\* A step of the locking protocol alone, moving the goroutine to `where`.
LockingOnly(p, where) ==
  /\ Goto(p, where)
  /\ UNCHANGED <<storeVars, ghostVars, snap, stateless, outcome>>
  /\ BoundsUnchanged

(***************************************************************************)
(* Acquiring and leaving the lock, for Dispatch and for the worker.        *)
(***************************************************************************)
Begin(c) ==
  /\ pc[turn(c)] = "idle"
  /\ L!acquireLock(turn(c))
  /\ LockingOnly(turn(c), "locking")

BeginCompaction(c) ==
  /\ pc[worker(c)] = "spawned"
  /\ L!acquireLock(worker(c))
  /\ LockingOnly(worker(c), "locking")

Lock(p) ==
  \/ L!LockTake(p) /\ LockingOnly(p, "locking")
  \/ L!LockRecord(p) /\ LockingOnly(p, "load")

LockFailed(p) ==
  /\ L!LockFail(p)
  /\ Goto(p, "exit")
  /\ IF p[2] = "turn" THEN Return(p[1], "error") ELSE UNCHANGED outcome
  /\ UNCHANGED <<storeVars, ghostVars, snap, stateless>>
  /\ BoundsUnchanged

\* The deferred Unlock and release.  The goroutine's locals go with it.
Unlock(p) ==
  /\ pc[p] = "exit"
  /\ L!UnlockRecord(p) \/ L!UnlockSend(p)
  /\ LockingOnly(p, "exit")

Depart(p) ==
  /\ pc[p] = "exit"
  /\ L!release(p)
  /\ Goto(p, "done")
  /\ snap' = [snap EXCEPT ![p] = NoSnap]
  /\ stateless' = IF p[2] = "turn" THEN stateless \ {p[1]} ELSE stateless
  /\ UNCHANGED <<storeVars, ghostVars, outcome>>
  /\ BoundsUnchanged

Leave(p) == Unlock(p) \/ Depart(p)
-----------------------------------------------------------------------------
(***************************************************************************)
(* One turn.                                                               *)
(***************************************************************************)
loadHistory(c) ==
  LET p == turn(c)
      k == SessionOf[c]
  IN /\ pc[p] = "load"
     /\ \/ Goto(p, "exit") /\ Return(c, "error") /\ UNCHANGED snap
        \/ \E statusRead \in StatusReads :
             IF HasSnapshot(k, statusRead)
             THEN LET r == Latest(rows[k]) IN
                    /\ snap' = [snap EXCEPT ![p] =
                                  [iter |-> r.iter, hist |-> r.hist, drop |-> {}]]
                    /\ Goto(p, "run")
                    /\ UNCHANGED outcome
             ELSE Goto(p, "create") /\ UNCHANGED <<snap, outcome>>
     /\ UNCHANGED <<storeVars, ghostVars, stateless>>
     /\ LocksUnchanged /\ BoundsUnchanged

\* CreateThread is INSERT OR REPLACE: a new active row with default tokens.
\* Checkpoint rows of the thread, if any, stay.
createThread(c) ==
  LET k == SessionOf[c]
  IN /\ pc[turn(c)] = "create"
     /\ Goto(turn(c), "run")
     /\ \/ /\ thread' = [thread EXCEPT ![k] = "active"]
           /\ tokens' = [tokens EXCEPT ![k] = 0]
           /\ compactedAt' = [compactedAt EXCEPT ![k] = FALSE]
           /\ published' = published \ {k}
           /\ UNCHANGED stateless
        \/ /\ stateless' = stateless \union {c}
           /\ UNCHANGED <<thread, tokens, compactedAt, published>>
     /\ UNCHANGED <<rows, lastId, snap, outcome, dropped, cleared>>
     /\ LocksUnchanged /\ BoundsUnchanged

\* prepareHistory, then runner.Run, which appends the turn.
runTurn(c) ==
  LET p == turn(c)
      h == snap[p].hist
  IN /\ pc[p] = "run"
     /\ \/ Goto(p, "exit") /\ Return(c, "error") /\ UNCHANGED snap
        \/ \E g \in prepareHistory(h) :
             /\ snap' = [snap EXCEPT ![p].hist = Append(g, {c}),
                                     ![p].drop = Told(h) \ Told(g)]
             /\ IF c \in stateless
                THEN Goto(p, "exit") /\ Return(c, "warned")
                ELSE Goto(p, "save") /\ UNCHANGED outcome
     /\ UNCHANGED <<storeVars, ghostVars, stateless>>
     /\ LocksUnchanged /\ BoundsUnchanged

\* A save that reuses the iteration it loaded.
MutNextIteration(i) == i - 1

NextIteration(i) == i + 1

persistResult(c) ==
  LET p == turn(c)
      k == SessionOf[c]
  IN /\ pc[p] = "save"
     /\ \/ /\ SaveSnapshot(k, NextIteration(snap[p].iter), snap[p].hist)
           /\ dropped' = dropped \union snap[p].drop
           /\ Return(c, "ok")
           /\ Goto(p, "budget")
        \/ /\ Return(c, "warned")
           /\ Goto(p, "exit")
           /\ UNCHANGED <<rows, lastId, dropped>>
     /\ UNCHANGED <<thread, tokens, compactedAt, published, cleared, snap, stateless>>
     /\ LocksUnchanged /\ BoundsUnchanged

updateTokenBudget(c) ==
  LET p == turn(c)
      k == SessionOf[c]
      n == Len(snap[p].hist)
  IN /\ pc[p] = "budget"
     /\ \/ /\ TokenBudget > 0
           /\ UpdateSessionTokens(k, n, compactedAt[k])
           /\ \/ n > TokenBudget
                 /\ pc' = [pc EXCEPT ![p] = "exit", ![worker(c)] = "spawned"]
              \/ Goto(p, "exit")   \* within the budget, or the context is done
        \/ Goto(p, "exit") /\ UNCHANGED <<tokens, compactedAt>>
     /\ UNCHANGED <<thread, rows, lastId, ghostVars, snap, stateless, outcome>>
     /\ LocksUnchanged /\ BoundsUnchanged
-----------------------------------------------------------------------------
(***************************************************************************)
(* The compaction worker.                                                  *)
(***************************************************************************)
\* loadCompactionSnapshot and refreshCompactionTokens, and the length test of
\* compactSessionLocked.
loadCompactionSnapshot(c) ==
  LET p == worker(c)
      k == SessionOf[c]
      r == Latest(rows[k])
      n == Len(r.hist)
  IN /\ pc[p] = "load"
     /\ \/ /\ Goto(p, "exit")        \* a call failed, or nothing to load
           /\ UNCHANGED <<tokens, compactedAt, snap>>
        \/ \E statusRead \in StatusReads :
             /\ HasSnapshot(k, statusRead)
             /\ UpdateSessionTokens(k, n, compactedAt[k])
             /\ \/ n > TokenBudget /\ n > SummaryTurns
                   /\ snap' = [snap EXCEPT ![p] =
                                 [iter |-> r.iter, hist |-> r.hist, drop |-> {}]]
                   /\ Goto(p, "summarise")
                \/ Goto(p, "exit") /\ UNCHANGED snap
     /\ UNCHANGED <<thread, rows, lastId, ghostVars, stateless, outcome>>
     /\ LocksUnchanged /\ BoundsUnchanged

buildCompactionSummary(c) ==
  LET p == worker(c)
      h == snap[p].hist
  IN /\ pc[p] = "summarise"
     /\ \/ Goto(p, "exit") /\ UNCHANGED snap
        \/ /\ snap' = [snap EXCEPT ![p].hist =
                         <<Told(SubSeq(h, 1, Len(h) - SummaryTurns))>>
                           \o LastN(h, SummaryTurns)]
           /\ Goto(p, "publish")
     /\ UNCHANGED <<storeVars, ghostVars, stateless, outcome>>
     /\ LocksUnchanged /\ BoundsUnchanged

\* The success metadata is published before the snapshot is durable.
MutPublishCompaction(c) ==
  LET p == worker(c)
      k == SessionOf[c]
  IN /\ pc[p] = "publish"
     /\ UpdateSessionTokens(k, Len(snap[p].hist), TRUE)
     /\ \/ /\ SaveSnapshot(k, snap[p].iter, snap[p].hist)
           /\ published' = published \union {k}
        \/ UNCHANGED <<rows, lastId, published>>
     /\ Goto(p, "exit")
     /\ UNCHANGED <<thread, snap, stateless, outcome, dropped, cleared>>
     /\ LocksUnchanged /\ BoundsUnchanged

publishCompaction(c) ==
  LET p == worker(c)
      k == SessionOf[c]
  IN /\ pc[p] = "publish"
     /\ \/ /\ SaveSnapshot(k, snap[p].iter, snap[p].hist)
           /\ published' = published \union {k}
           /\ Goto(p, "meta")
        \/ /\ Goto(p, "exit")
           /\ UNCHANGED <<rows, lastId, published>>
     /\ UNCHANGED <<thread, tokens, compactedAt, snap, stateless, outcome, dropped, cleared>>
     /\ LocksUnchanged /\ BoundsUnchanged

publishMetadata(c) ==
  LET p == worker(c)
      k == SessionOf[c]
  IN /\ pc[p] = "meta"
     /\ \/ UpdateSessionTokens(k, Len(snap[p].hist), TRUE)
        \/ UNCHANGED <<tokens, compactedAt>>
     /\ Goto(p, "exit")
     /\ UNCHANGED <<thread, rows, lastId, ghostVars, snap, stateless, outcome>>
     /\ LocksUnchanged /\ BoundsUnchanged
-----------------------------------------------------------------------------
(***************************************************************************)
(* The environment.                                                        *)
(***************************************************************************)
\* The process dies: goroutines and locks are gone, the database stays.
Crash ==
  /\ crashes < MaxCrashes
  /\ crashes' = crashes + 1
  /\ allLocks' = [k \in Sessions |-> NoLock]
  /\ refCount' = [l \in LockIds |-> 0]
  /\ token'    = [l \in LockIds |-> FALSE]
  /\ isLocked' = [l \in LockIds |-> FALSE]
  /\ ptr'      = [p \in Goroutines |-> NoLock]
  /\ lpc'      = [p \in Goroutines |-> "idle"]
  /\ pc' = [p \in Goroutines |->
              IF pc[p] = "idle" /\ p[2] = "turn" THEN "idle" ELSE "done"]
  /\ snap' = [p \in Goroutines |-> NoSnap]
  /\ stateless' = {}
  /\ UNCHANGED <<storeVars, ghostVars, outcome, clears>>

\* `gobot clear-checkpoint`, run in a process of its own.
CompleteThread(k) ==
  /\ clears[k] < MaxClears
  /\ thread[k] # "none"
  /\ clears' = [clears EXCEPT ![k] = @ + 1]
  /\ thread' = [thread EXCEPT ![k] = "completed"]
  /\ cleared' = [cleared EXCEPT ![k] = Told(CurrentHist(k))]
  /\ UNCHANGED <<rows, lastId, tokens, compactedAt, dropped, published, callVars, crashes>>
  /\ LocksUnchanged

TurnStep(c) ==
  loadHistory(c) \/ createThread(c) \/ runTurn(c) \/ persistResult(c) \/ updateTokenBudget(c)

WorkerStep(c) ==
  BeginCompaction(c) \/ loadCompactionSnapshot(c) \/ buildCompactionSummary(c)
    \/ publishCompaction(c) \/ publishMetadata(c)

Next ==
  \/ \E c \in Calls : Begin(c) \/ TurnStep(c) \/ WorkerStep(c)
  \/ \E p \in Goroutines : Lock(p) \/ LockFailed(p) \/ Leave(p)
  \/ \E k \in Sessions : CompleteThread(k)
  \/ Crash

\* Goroutines that were started keep running, and blocked receivers are served
\* in order.  That the turn itself (model and tools) ends is assumed: what
\* follows is that neither the lock nor the store keeps a call from returning.
Fairness ==
  /\ \A c \in Calls : WF_vars(TurnStep(c)) /\ WF_vars(WorkerStep(c))
  /\ \A p \in Goroutines : /\ WF_vars(Leave(p))
                           /\ WF_vars(L!LockRecord(p) /\ Lock(p))
                           /\ SF_vars(L!LockTake(p) /\ Lock(p))

Spec == Init /\ [][Next]_vars

FairSpec == Spec /\ Fairness
-----------------------------------------------------------------------------
Rows == [id : Nat, iter : Nat, hist : Seq(SUBSET Turns)]

Snapshots == [iter : Nat, hist : Seq(SUBSET Turns), drop : SUBSET Turns]

TypeOK ==
  /\ L!LockTypeOK
  /\ thread \in [Sessions -> {"none", "active", "completed"}]
  /\ rows \in [Sessions -> SUBSET Rows]
  /\ \A k \in Sessions : \A r \in rows[k] : r.id \in 1 .. lastId[k]
  /\ lastId \in [Sessions -> Nat]
  /\ tokens \in [Sessions -> Nat]
  /\ compactedAt \in [Sessions -> BOOLEAN]
  /\ pc \in [Goroutines -> {"idle", "spawned", "locking", "load", "create", "run", "save",
                            "budget", "summarise", "publish", "meta", "exit", "done"}]
  /\ snap \in [Goroutines -> Snapshots]
  /\ stateless \subseteq Calls
  /\ outcome \in [Calls -> {"none", "ok", "warned", "error"}]
  /\ dropped \subseteq Turns
  /\ published \subseteq Sessions
  /\ cleared \in [Sessions -> SUBSET Turns]
  /\ crashes \in 0 .. MaxCrashes
  /\ clears \in [Sessions -> 0 .. MaxClears]

(***************************************************************************)
(* A turn Dispatch answered without the "could not be saved" warning is in *)
(* the history the next turn will load, unless pruning or compaction       *)
(* dropped it on purpose or the operator cleared it: no other turn,        *)
(* compaction, failure or crash undoes it.                                 *)
(***************************************************************************)
AckedDurable ==
  \A c \in Calls :
    outcome[c] = "ok" /\ clears[SessionOf[c]] = 0 =>
      c \in Told(CurrentHist(SessionOf[c])) \union dropped

(***************************************************************************)
(* LoadLatest returns the snapshot that was saved last: the order by       *)
(* iteration and checkpoint_id agrees with the order of the saves, also    *)
(* when compaction saves a second row under the iteration it loaded, and   *)
(* pruning never deletes it.  (CheckpointStore: "LoadLatest retrieves the  *)
(* most recent thread snapshot".)  Clearing a session breaks this, since   *)
(* iterations then start again at 1 beside the old rows.                   *)
(***************************************************************************)
LatestIsNewest ==
  \A k \in Sessions : lastId[k] > 0 /\ clears[k] = 0 => Latest(rows[k]).id = lastId[k]

(***************************************************************************)
(* last_compacted_at is set only after the compacted snapshot is durable   *)
(* (publishCompaction "acknowledges the durable snapshot before publishing *)
(* success metadata"), whatever fails or crashes in between.               *)
(***************************************************************************)
MetadataAfterSnapshot == \A k \in Sessions : compactedAt[k] => k \in published

(***************************************************************************)
(* A cleared conversation is not resumed: loading a session's history      *)
(* never brings back turns it had when clear-checkpoint completed it       *)
(* ("Mark a session as completed so it cannot be resumed").                *)
(***************************************************************************)
ClearedNotResumed ==
  [][\A c \in Calls :
       pc[turn(c)] = "load" /\ pc'[turn(c)] = "run" =>
         Told(snap'[turn(c)].hist) \intersect cleared[SessionOf[c]] = {}]_vars

(***************************************************************************)
(* Every call of Dispatch and every worker comes to an end if the turns    *)
(* and store calls it makes do: no cancelled wait, failed save or crash    *)
(* leaves another call waiting for a lock nobody will release.             *)
(***************************************************************************)
EveryCallReturns ==
  \A p \in Goroutines : pc[p] \notin {"idle", "done"} ~> pc[p] = "done"

(***************************************************************************)
(* The store's current histories implement SessionHistory: each save       *)
(* appends its turn to the history as it is at that moment, less what this *)
(* turn itself pruned, or replaces a prefix by a summary of it.  A save    *)
(* made from a stale snapshot would forget turns it never saw; only a      *)
(* session the operator cleared may start afresh.                          *)
(***************************************************************************)
History == INSTANCE SessionHistory
             WITH hist <- [k \in Sessions |-> CurrentHist(k)],
                  forgotten <- dropped,
                  mayRestart <- {k \in Sessions : clears[k] > 0}

NoLostUpdate == History!HistorySpec
=============================================================================
