-------------------------- MODULE BackgroundProofs --------------------------
(***************************************************************************)
(* Proofs about what runs beside the conversations: the cron scheduler     *)
(* (CronScheduler), the delivery of its runs (CronDelivery), start and     *)
(* stop with the consolidation of memory (Lifecycle, Consolidation), the   *)
(* file of the memory and recall from it (MemoryStore, Recall) and the hub *)
(* of the log (LogHub).  One inductive invariant per component, for any    *)
(* values of its constants, and what the runs check of it.                 *)
(***************************************************************************)
EXTENDS CronScheduler, CronDelivery, Lifecycle, Recall, LogHub,
        FiniteSetTheorems, SequenceTheorems, TLAPS

(***************************************************************************)
(* The scheduler (CronScheduler).                                          *)
(***************************************************************************)
\* The next run of a job is not yet known or after time t.
After(k, t) == k.next = 0 \/ k.next > t

\* The fields of a world.
IsWorld(w) ==
  /\ w = [store |-> w.store, dirty |-> w.dirty, committed |-> w.committed, finger |-> w.finger,
          file |-> w.file, touched |-> w.touched, ran |-> w.ran, done |-> w.done,
          ended |-> w.ended, unowned |-> w.unowned]
  /\ w.file = [jobs |-> w.file.jobs, decodes |-> w.file.decodes]

\* Slots are in the past; the jobs of a store are after the given slots, and
\* after the end of their last dispatch.
PastSlots(S) == \A p \in S : p[2] \in 1 .. now
StoreAfter(st, S) == \A j \in IDs, s \in Nat : st[j] # NoJob /\ <<j, s>> \in S => After(st[j], s)

WorldTyped(w) ==
  /\ IsWorld(w)
  /\ w.store = NoStore \/ w.store \in Stores
  /\ w.file.jobs \in Stores
  /\ w.dirty \in BOOLEAN /\ w.touched \in BOOLEAN
  /\ PastSlots(w.done) /\ PastSlots(w.ran)
  /\ w.ended \in [IDs -> Int] /\ \A j \in IDs : w.ended[j] <= now

\* A saved slot is behind the file, and it and an unsaved one, and the last
\* end of a dispatch, are behind the store.
WorldOrder(w) ==
  /\ StoreAfter(w.file.jobs, w.done)
  /\ w.store # NoStore =>
       /\ StoreAfter(w.store, w.done) /\ StoreAfter(w.store, w.ran)
       /\ \A j \in IDs : w.store[j] # NoJob => After(w.store[j], w.ended[j])

\* Every step of a poll keeps this of the world it is handed.
WorldInv(w) == WorldTyped(w) /\ WorldOrder(w)

\* The world is in order; a scheduler that is down remembers nothing, unsaved
\* changes are changes of a store, and what is dispatched is due and present.
CronInv ==
  /\ now \in Nat \ {0} /\ edits \in Nat /\ items \in Items
  /\ WorldInv(World)
  /\ phase \in {"down", "idle", "run"}
  /\ phase = "down" => ran = {} /\ ended = Never
  /\ phase # "down" /\ dirty => store # NoStore
  /\ due \in [IDs -> Nat] /\ \A j \in IDs : due[j] <= now
  /\ phase = "run" => store # NoStore
  /\ \A j \in IDs : due[j] # 0 => phase = "run" /\ store[j] # NoJob

\* A schedule gives a later time or none (ComputeNextRun).
LEMMA NextRunLater ==
  ASSUME NEW d \in Definitions, NEW t \in Nat
  PROVE  ComputeNextRun(d, t) \in Nat /\ (ComputeNextRun(d, t) = 0 \/ ComputeNextRun(d, t) > t)
<1>1. CASE d.kind = "every"
  BY <1>1, TimesAssumption DEF ComputeNextRun
<1>2. CASE d.kind = "cron"
  <2> DEFINE k == t \div Period
  <2>1. Period \in Nat \ {0}
    BY TimesAssumption
  <2>2. k \in Nat /\ t < k * Period + Period
    BY <2>1, SMTT(30)
  <2>3. (k + 1) * Period = k * Period + Period /\ (k + 1) * Period \in Nat
    BY <2>1, <2>2
  <2> QED BY <1>2, <2>2, <2>3 DEF ComputeNextRun
<1>3. CASE d.kind = "at"
  BY <1>3, TimesAssumption DEF ComputeNextRun
<1> QED BY <1>1, <1>2, <1>3 DEF Definitions

\* What the steps of a poll rely on and keep.
WorldOK(w) == WorldInv(w) /\ (w.dirty => w.store # NoStore)

\* What a job of w was is what it is in v, or the removal is authorized.
Keeps(w, v) ==
  /\ w.done \subseteq v.done
  /\ w.store # NoStore => v.store # NoStore
  /\ w.store # NoStore => \A j \in IDs : w.store[j] # NoJob =>
       \/ v.store[j] # NoJob
       \/ w.store[j].src = "modular" /\ Complete /\ items[j] = NoJob

\* Saving the store makes the file as late as the store.
LEMMA CronWrite ==
  ASSUME now \in Nat, NEW w, WorldInv(w), w.store # NoStore, NEW v \in writeStore(w)
  PROVE  /\ WorldInv(v) /\ v.store = w.store /\ w.done \subseteq v.done
         /\ v.file = w.file \/ ~v.dirty
<1>1. CASE v = w
  BY <1>1, FlagsAssumption DEF writeStore, WorldInv
<1>2. CASE v # w
  <2>1. v = [w EXCEPT !.file = [jobs |-> w.store, decodes |-> TRUE],
                !.dirty = FALSE, !.touched = FALSE,
                !.ran = {}, !.done = w.done \union w.ran]
    BY <1>2 DEF writeStore
  <2>2. IsWorld(w)
    BY DEF WorldInv, WorldTyped
  <2>3. /\ v = [store |-> w.store, dirty |-> FALSE, committed |-> w.committed, finger |-> w.finger,
                file |-> [jobs |-> w.store, decodes |-> TRUE], touched |-> FALSE, ran |-> {},
                done |-> w.done \union w.ran, ended |-> w.ended, unowned |-> w.unowned]
    BY <2>1, <2>2 DEF IsWorld
  <2>4. /\ v.store = w.store /\ v.dirty = FALSE /\ v.file.jobs = w.store /\ v.touched = FALSE
        /\ v.ran = {} /\ v.done = w.done \union w.ran /\ v.ended = w.ended
    BY <2>3
  <2>5. IsWorld(v)
    BY <2>3 DEF IsWorld
  <2>6. WorldTyped(v)
    BY <2>4, <2>5 DEF WorldInv, WorldTyped, PastSlots
  <2>7. WorldOrder(v)
    BY <2>4 DEF WorldInv, WorldOrder, StoreAfter
  <2> QED BY <2>4, <2>6, <2>7 DEF WorldInv
<1> QED BY <1>1, <1>2

LEMMA CronReload ==
  ASSUME now \in Nat, NEW w, WorldOK(w), NEW v \in reloadJobsJSON(w)
  PROVE  /\ WorldOK(v) /\ v.done = w.done
         /\ v.store = w.store \/ (w.touched /\ v.store = w.file.jobs)
<1>1. CASE v = w
  BY <1>1
<1>2. CASE v # w
  <2>1. /\ v = [w EXCEPT !.store = w.file.jobs, !.touched = FALSE, !.committed = FALSE,
                     !.ran = {}, !.ended = Never]
        /\ w.touched /\ ~w.dirty
    BY <1>2 DEF reloadJobsJSON, WorldOK, WorldInv, WorldTyped
  <2>2. IsWorld(w)
    BY DEF WorldOK, WorldInv, WorldTyped
  <2>3. /\ v = [store |-> w.file.jobs, dirty |-> w.dirty, committed |-> FALSE, finger |-> w.finger,
                file |-> w.file, touched |-> FALSE, ran |-> {},
                done |-> w.done, ended |-> Never, unowned |-> w.unowned]
    BY <2>1, <2>2 DEF IsWorld
  <2>4. /\ v.store = w.file.jobs /\ v.dirty = w.dirty /\ v.file = w.file /\ v.touched = FALSE
        /\ v.ran = {} /\ v.done = w.done /\ v.ended = Never
    BY <2>3
  <2>5. IsWorld(v)
    BY <2>2, <2>3 DEF IsWorld
  <2>a. Never \in [IDs -> Int] /\ \A j \in IDs : Never[j] = -1
    BY DEF Never
  <2>6. WorldTyped(v)
    <3>1. PastSlots({}) /\ \A j \in IDs : Never[j] <= now
      BY <2>a DEF PastSlots
    <3>2. /\ w.file.jobs \in Stores /\ w.dirty \in BOOLEAN /\ PastSlots(w.done)
      BY DEF WorldOK, WorldInv, WorldTyped
    <3> QED BY <2>4, <2>5, <2>a, <3>1, <3>2 DEF WorldTyped
  <2>7. WorldOrder(v)
    <3>1. StoreAfter(w.file.jobs, w.done) /\ StoreAfter(w.file.jobs, {})
      BY DEF WorldOK, WorldInv, WorldOrder, StoreAfter
    <3>2. ASSUME NEW j \in IDs, w.file.jobs[j] # NoJob PROVE After(w.file.jobs[j], -1)
      <4>1. w.file.jobs[j] \in Jobs
        BY <3>2 DEF WorldOK, WorldInv, WorldTyped, Stores
      <4> QED BY <4>1 DEF After, Jobs
    <3> QED BY <2>4, <2>a, <3>1, <3>2 DEF WorldOrder
  <2>8. w.file.jobs # NoStore
    BY MarksAssumption DEF WorldOK, WorldInv, WorldTyped
  <2> QED BY <2>1, <2>4, <2>6, <2>7, <2>8 DEF WorldOK, WorldInv
<1> QED BY <1>1, <1>2

\* A snapshot holds some of the valid definitions, and all of them when it is
\* complete.
LEMMA CronSnapshot ==
  ASSUME items \in Items, NEW snap \in Snapshots
  PROVE  /\ \A j \in DOMAIN snap.jobs : snap.jobs[j] \in Definitions
         /\ snap.complete => Complete
         /\ snap.complete => \A j \in IDs : j \in DOMAIN snap.jobs \/ items[j] = NoJob
<1>1. PICK lost \in SUBSET Valid :
        snap = [jobs |-> [j \in Valid \ lost |-> items[j].def], complete |-> lost = {} /\ Complete]
  BY DEF Snapshots
<1>2. snap.jobs = [j \in Valid \ lost |-> items[j].def] /\ snap.complete = (lost = {} /\ Complete)
  BY <1>1
<1>3. ASSUME NEW j \in Valid PROVE items[j].def \in Definitions
  BY MarksAssumption DEF Valid, Items
<1>4. DOMAIN snap.jobs = Valid \ lost /\ \A j \in Valid \ lost : snap.jobs[j] = items[j].def
  BY <1>2
<1>5. snap.complete => \A j \in IDs : j \in DOMAIN snap.jobs \/ items[j] = NoJob
  BY <1>2, <1>4 DEF Valid, Complete
<1> QED BY <1>2, <1>3, <1>4, <1>5

\* What reconciliation does to one job: nothing, removal, a definition of its
\* own, or a new job.
LEMMA CronReconciled ==
  ASSUME items \in Items, NEW snap \in Snapshots, NEW st \in Stores
  PROVE  /\ reconcileModularJobs(st, snap) \in Stores
         /\ \A j \in IDs : LET k == reconcileModularJobs(st, snap)[j] IN
              /\ k # NoJob => k.next = 0 \/ (st[j] # NoJob /\ k.next = st[j].next)
              /\ st[j] # NoJob /\ k = NoJob => st[j].src = "modular" /\ Complete /\ items[j] = NoJob
<1> DEFINE r == reconcileModularJobs(st, snap)
<1>1. ASSUME NEW j \in IDs
      PROVE  /\ r[j] \in Jobs \union {NoJob}
             /\ r[j] # NoJob => r[j].next = 0 \/ (st[j] # NoJob /\ r[j].next = st[j].next)
             /\ st[j] # NoJob /\ r[j] = NoJob => st[j].src = "modular" /\ Complete /\ items[j] = NoJob
  <2>0. st[j] \in Jobs \union {NoJob}
    BY DEF Stores
  <2>1. CASE j \in DOMAIN snap.jobs /\ st[j] = NoJob
    <3>1. r[j] = NewJob(snap.jobs[j], "modular")
      BY <2>1 DEF reconcileModularJobs
    <3>2. snap.jobs[j] \in Definitions
      BY <2>1, CronSnapshot
    <3> QED BY <2>1, <3>1, <3>2 DEF NewJob, Jobs
  <2>2. CASE j \in DOMAIN snap.jobs /\ st[j] # NoJob
    <3>1. r[j] = [st[j] EXCEPT !.def = snap.jobs[j], !.src = "modular"]
      BY <2>2 DEF reconcileModularJobs
    <3>2. snap.jobs[j] \in Definitions
      BY <2>2, CronSnapshot
    <3>3. r[j] \in Jobs /\ r[j].next = st[j].next
      BY <2>0, <2>2, <3>1, <3>2 DEF Jobs
    <3>4. r[j] # NoJob
      BY <3>3, MarksAssumption
    <3> QED BY <2>2, <3>3, <3>4
  <2>3. CASE j \notin DOMAIN snap.jobs
    <3>1. r[j] = (IF snap.complete /\ st[j] # NoJob /\ st[j].src = "modular" THEN NoJob ELSE st[j])
      BY <2>3 DEF reconcileModularJobs
    <3>2. snap.complete => Complete /\ items[j] = NoJob
      BY <2>3, CronSnapshot
    <3> QED BY <2>0, <3>1, <3>2
  <2> QED BY <2>1, <2>2, <2>3
<1>2. r = [j \in IDs |-> r[j]]
  BY DEF reconcileModularJobs
<1> HIDE DEF r
<1>3. r \in Stores
  BY <1>1, <1>2 DEF Stores
<1> QED BY <1>1, <1>3 DEF r

\* Committing a snapshot changes nothing else.
LEMMA CronCommit ==
  ASSUME now \in Nat, NEW w, WorldInv(w), NEW snap
  PROVE  /\ WorldInv(Commit(w, snap)) /\ Commit(w, snap).store = w.store
         /\ Commit(w, snap).done = w.done /\ Commit(w, snap).dirty = w.dirty
<1> DEFINE v == Commit(w, snap)
<1>1. CASE snap.complete
  <2>2. IsWorld(w)
    BY DEF WorldInv, WorldTyped
  <2>3. v = [store |-> w.store, dirty |-> w.dirty, committed |-> TRUE, finger |-> items,
             file |-> w.file, touched |-> w.touched, ran |-> w.ran, done |-> w.done,
             ended |-> w.ended, unowned |-> w.unowned]
    BY <1>1, <2>2 DEF IsWorld, Commit
  <2> HIDE DEF v
  <2>4. /\ v.store = w.store /\ v.dirty = w.dirty /\ v.file = w.file /\ v.touched = w.touched
        /\ v.ran = w.ran /\ v.done = w.done /\ v.ended = w.ended
    BY <2>3
  <2>5. IsWorld(v)
    BY <2>2, <2>3 DEF IsWorld
  <2>6. WorldTyped(v)
    BY <2>4, <2>5 DEF WorldInv, WorldTyped
  <2>7. WorldOrder(v)
    BY <2>4 DEF WorldInv, WorldOrder
  <2> QED BY <2>4, <2>6, <2>7 DEF v, WorldInv
<1>2. CASE ~snap.complete
  BY <1>2 DEF Commit
<1> QED BY <1>1, <1>2

LEMMA CronNewStore ==
  ASSUME NEW w, IsWorld(w), NEW st, NEW d, NEW u,
         NEW v, v = [w EXCEPT !.store = st, !.dirty = d, !.unowned = u]
  PROVE  v =
           [store |-> st, dirty |-> d, committed |-> w.committed, finger |-> w.finger,
            file |-> w.file, touched |-> w.touched, ran |-> w.ran,
            done |-> w.done, ended |-> w.ended, unowned |-> u]
BY DEF IsWorld

LEMMA CronReconcileSnapshot ==
  ASSUME now \in Nat, items \in Items, NEW w, WorldOK(w), NEW snap \in Snapshots,
         NEW v \in reconcileSnapshot(w, snap)
  PROVE  WorldOK(v) /\ Keeps(w, v)
<1> DEFINE st == IF w.store = NoStore THEN [j \in IDs |-> NoJob] ELSE w.store
           r == reconcileModularJobs(st, snap)
           d == w.dirty \/ r # st
           u == w.unowned \ {j \in Present(r) : r[j].src = "modular"}
           w1 == [w EXCEPT !.store = r, !.dirty = d, !.unowned = u]
<1>1. v \in (IF w1.dirty THEN {IF x.dirty THEN x ELSE Commit(x, snap) : x \in writeStore(w1)}
                        ELSE {Commit(w1, snap)})
  BY DEF reconcileSnapshot
<1>0. d \in BOOLEAN
  OBVIOUS
<1> HIDE DEF d, u
<1>2. st \in Stores
  BY DEF WorldOK, WorldInv, WorldTyped, Stores
<1> HIDE DEF st
<1>3. /\ r \in Stores
      /\ \A j \in IDs :
           /\ r[j] # NoJob => r[j].next = 0 \/ (st[j] # NoJob /\ r[j].next = st[j].next)
           /\ st[j] # NoJob /\ r[j] = NoJob => st[j].src = "modular" /\ Complete /\ items[j] = NoJob
  BY <1>2, CronReconciled
<1>4. r # NoStore
  BY <1>3, MarksAssumption
<1> HIDE DEF r
<1>5. IsWorld(w)
  BY DEF WorldOK, WorldInv, WorldTyped
<1>6. w1 = [store |-> r, dirty |-> d, committed |-> w.committed, finger |-> w.finger,
                file |-> w.file, touched |-> w.touched, ran |-> w.ran,
                done |-> w.done, ended |-> w.ended, unowned |-> u]
  BY <1>5, CronNewStore, ZenonT(30)
<1> HIDE DEF w1
<1>7. /\ w1.store = r /\ w1.dirty \in BOOLEAN /\ w1.file = w.file /\ w1.touched = w.touched
      /\ w1.ran = w.ran /\ w1.done = w.done /\ w1.ended = w.ended
  BY <1>0, <1>6
<1>8. IsWorld(w1)
  BY <1>5, <1>6 DEF IsWorld
<1>9. WorldTyped(w1)
  BY <1>3, <1>7, <1>8 DEF WorldOK, WorldInv, WorldTyped
<1>10. WorldOrder(w1)
  <2>1. ASSUME NEW j \in IDs, r[j] # NoJob
        PROVE  r[j].next = 0 \/ (w.store # NoStore /\ w.store[j] # NoJob /\ r[j].next = w.store[j].next)
    BY <1>3, <2>1 DEF st
  <2>2. StoreAfter(r, w.done) /\ StoreAfter(r, w.ran)
    BY <2>1 DEF WorldOK, WorldInv, WorldOrder, StoreAfter, After
  <2>3. \A j \in IDs : r[j] # NoJob => After(r[j], w.ended[j])
    BY <2>1 DEF WorldOK, WorldInv, WorldOrder, After
  <2>4. StoreAfter(w.file.jobs, w.done)
    BY DEF WorldOK, WorldInv, WorldOrder
  <2> QED BY <1>7, <2>2, <2>3, <2>4 DEF WorldOrder
<1>11. WorldInv(w1) /\ w1.store # NoStore
  BY <1>4, <1>7, <1>9, <1>10 DEF WorldInv
<1>12. WorldInv(v) /\ v.store = r /\ w.done \subseteq v.done
  <2>1. CASE w1.dirty
    <3>1. PICK x \in writeStore(w1) : v = IF x.dirty THEN x ELSE Commit(x, snap)
      BY <1>1, <2>1
    <3>2. WorldInv(x) /\ x.store = r /\ w.done \subseteq x.done
      BY <1>7, <1>11, CronWrite
    <3>3. CASE x.dirty
      BY <3>1, <3>2, <3>3
    <3>4. CASE ~x.dirty
      <4>1. v = Commit(x, snap)
        BY <3>1, <3>4
      <4> QED BY <3>2, <4>1, CronCommit
    <3> QED BY <3>3, <3>4
  <2>2. CASE ~w1.dirty
    <3>1. v = Commit(w1, snap)
      BY <1>1, <2>2
    <3> QED BY <1>7, <1>11, <3>1, CronCommit
  <2> QED BY <1>7, <2>1, <2>2
<1>13. Keeps(w, v)
  BY <1>3, <1>4, <1>12 DEF Keeps, st
<1> QED BY <1>4, <1>12, <1>13 DEF WorldOK

LEMMA CronReloadModular ==
  ASSUME now \in Nat, items \in Items, NEW w, WorldOK(w), NEW v \in reloadModularJobs(w)
  PROVE  WorldOK(v) /\ Keeps(w, v)
<1>0. Keeps(w, w)
  BY DEF Keeps
<1>1. CASE v = w
  BY <1>0, <1>1
<1>2. CASE w.dirty /\ v \in writeStore(w)
  <2>1. WorldInv(v) /\ v.store = w.store /\ w.done \subseteq v.done
    BY <1>2, CronWrite DEF WorldOK
  <2> QED BY <1>2, <2>1 DEF WorldOK, Keeps
<1>3. CASE \E snap \in Snapshots : v \in reconcileSnapshot(w, snap)
  BY <1>3, CronReconcileSnapshot
<1>4. v = w \/ (w.dirty /\ v \in writeStore(w)) \/ \E snap \in Snapshots : v \in reconcileSnapshot(w, snap)
  BY DEF reloadModularJobs
<1> QED BY <1>1, <1>2, <1>3, <1>4

\* A job without a slot gets one after now.
LEMMA CronIdentified ==
  ASSUME now \in Nat, NEW st \in Stores
  PROVE  /\ Identified(st) \in Stores
         /\ \A j \in IDs : LET k == Identified(st)[j] IN
              /\ k = NoJob <=> st[j] = NoJob
              /\ k # NoJob => k.next = st[j].next \/ After(k, now)
<1> DEFINE r == Identified(st)
<1>1. ASSUME NEW j \in IDs
      PROVE  /\ r[j] \in Jobs \union {NoJob} /\ (r[j] = NoJob <=> st[j] = NoJob)
             /\ r[j] # NoJob => r[j].next = st[j].next \/ After(r[j], now)
  <2>0. st[j] \in Jobs \union {NoJob} /\ NoJob \notin Jobs
    BY MarksAssumption DEF Stores
  <2>1. CASE st[j] = NoJob
    BY <2>1 DEF Identified
  <2>2. CASE st[j] # NoJob /\ IsNew(st[j])
    <3>1. r[j] = [st[j] EXCEPT !.next = ComputeNextRun(st[j].def, now)]
      BY <2>2 DEF Identified
    <3>2. st[j].def \in Definitions
      BY <2>0, <2>2 DEF Jobs
    <3> DEFINE c == ComputeNextRun(st[j].def, now)
    <3>3. c \in Nat /\ (c = 0 \/ c > now)
      BY <3>2, NextRunLater
    <3> HIDE DEF c
    <3>4. r[j] \in Jobs /\ r[j].next = c
      BY <2>0, <2>2, <3>1, <3>3 DEF Jobs, c
    <3> QED BY <2>0, <2>2, <3>3, <3>4 DEF After
  <2>3. CASE st[j] # NoJob /\ ~IsNew(st[j]) /\ IsDue(st[j], now)
    <3>1. r[j] = [st[j] EXCEPT !.runs = @ + 1]
      BY <2>3 DEF Identified
    <3>2. r[j] \in Jobs /\ r[j].next = st[j].next
      BY <2>0, <2>3, <3>1 DEF Jobs
    <3> QED BY <2>0, <2>3, <3>2
  <2>4. CASE st[j] # NoJob /\ ~IsNew(st[j]) /\ ~IsDue(st[j], now)
    <3>1. r[j] = st[j]
      BY <2>4 DEF Identified
    <3> QED BY <2>0, <2>4, <3>1
  <2> QED BY <2>1, <2>2, <2>3, <2>4
<1>2. r = [j \in IDs |-> r[j]]
  BY DEF Identified
<1> HIDE DEF r
<1>3. r \in Stores
  BY <1>1, <1>2 DEF Stores
<1> QED BY <1>1, <1>3 DEF r

\* Replacing the store by one whose slots are those of the old one or later
\* than every slot so far.
LEMMA CronAdvance ==
  ASSUME now \in Nat, NEW w, WorldInv(w), w.store # NoStore, NEW st \in Stores,
         \A j \in IDs : st[j] # NoJob =>
           w.store[j] # NoJob /\ (st[j].next = w.store[j].next \/ After(st[j], now))
  PROVE  /\ WorldInv([w EXCEPT !.store = st])
         /\ [w EXCEPT !.store = st].store = st /\ [w EXCEPT !.store = st].done = w.done
         /\ [w EXCEPT !.store = st].dirty = w.dirty /\ [w EXCEPT !.store = st].ended = w.ended
<1> DEFINE v == [w EXCEPT !.store = st]
<1>1. IsWorld(w) /\ w.store \in Stores
  BY DEF WorldInv, WorldTyped
<1>2. v = [store |-> st, dirty |-> w.dirty, committed |-> w.committed, finger |-> w.finger,
           file |-> w.file, touched |-> w.touched, ran |-> w.ran, done |-> w.done,
           ended |-> w.ended, unowned |-> w.unowned]
  BY <1>1 DEF IsWorld
<1> HIDE DEF v
<1>3. /\ v.store = st /\ v.dirty = w.dirty /\ v.file = w.file /\ v.touched = w.touched
      /\ v.ran = w.ran /\ v.done = w.done /\ v.ended = w.ended
  BY <1>2
<1>4. IsWorld(v)
  BY <1>1, <1>2 DEF IsWorld
<1>5. WorldTyped(v)
  BY <1>3, <1>4 DEF WorldInv, WorldTyped
<1>6. ASSUME NEW S, PastSlots(S), StoreAfter(w.store, S) PROVE StoreAfter(st, S)
  <2>1. SUFFICES ASSUME NEW j \in IDs, NEW s \in Nat, st[j] # NoJob, <<j, s>> \in S
                 PROVE  After(st[j], s)
    BY DEF StoreAfter
  <2>2. s <= now
    BY <1>6, <2>1 DEF PastSlots
  <2>3. After(w.store[j], s)
    BY <1>6, <2>1 DEF StoreAfter
  <2>4. st[j] \in Jobs
    BY <2>1 DEF Stores
  <2>5. st[j].next \in Nat
    BY <2>4 DEF Jobs
  <2> QED BY <2>1, <2>2, <2>3, <2>5 DEF After
<1>7. ASSUME NEW j \in IDs, st[j] # NoJob PROVE After(st[j], w.ended[j])
  <2>1. w.ended[j] \in Int /\ w.ended[j] <= now /\ After(w.store[j], w.ended[j])
    BY <1>7 DEF WorldInv, WorldTyped, WorldOrder
  <2>2. st[j] \in Jobs
    BY <1>7 DEF Stores
  <2>3. st[j].next \in Nat
    BY <2>2 DEF Jobs
  <2> QED BY <1>7, <2>1, <2>3 DEF After
<1>8. WorldOrder(v)
  <2>1. StoreAfter(st, w.done) /\ StoreAfter(st, w.ran)
    BY <1>6 DEF WorldInv, WorldTyped, WorldOrder
  <2>2. StoreAfter(w.file.jobs, w.done)
    BY DEF WorldInv, WorldOrder
  <2> QED BY <1>3, <1>7, <2>1, <2>2 DEF WorldOrder
<1> QED BY <1>3, <1>5, <1>8 DEF v, WorldInv

LEMMA CronBecomes ==
  ASSUME NEW w, IsWorld(w), Becomes(w) PROVE World' = w
BY DEF IsWorld, Becomes, World

\* A poll ends with a world in order, whether it dispatches or not.
LEMMA CronPollWorld ==
  ASSUME now \in Nat, items \in Items, NEW w, WorldOK(w), PollIdle(w) \/ PollDue(w)
  PROVE  /\ WorldOK(World') /\ w.done \subseteq World'.done
         /\ w.store # NoStore => \A j \in IDs : w.store[j] # NoJob => World'.store[j] # NoJob
         /\ w.store # NoStore => World'.store # NoStore
<1>1. WorldInv(w)
  BY DEF WorldOK
<1>2. w.store # NoStore => w.store \in Stores
  BY <1>1 DEF WorldInv, WorldTyped
<1> DEFINE x == [w EXCEPT !.store = Identified(w.store)]
<1>3. ASSUME w.store # NoStore
      PROVE  /\ WorldOK(x) /\ x.store = Identified(w.store) /\ x.done = w.done
             /\ x.store # NoStore
             /\ \A j \in IDs : w.store[j] # NoJob => x.store[j] # NoJob
  <2>1. /\ Identified(w.store) \in Stores
        /\ \A j \in IDs :
             /\ Identified(w.store)[j] = NoJob <=> w.store[j] = NoJob
             /\ Identified(w.store)[j] # NoJob =>
                  Identified(w.store)[j].next = w.store[j].next \/ After(Identified(w.store)[j], now)
    BY <1>2, <1>3, CronIdentified
  <2>2. WorldInv(x) /\ x.store = Identified(w.store) /\ x.done = w.done
    BY <1>1, <1>3, <2>1, CronAdvance
  <2>3. x.store # NoStore
    BY <2>1, <2>2, MarksAssumption
  <2> HIDE DEF x
  <2> QED BY <2>1, <2>2, <2>3 DEF WorldOK
<1> HIDE DEF x
<1>4. ASSUME NEW v, WorldInv(v), Becomes(v) PROVE World' = v
  BY <1>4, CronBecomes DEF WorldInv, WorldTyped
<1>5. CASE PollIdle(w)
  <2>1. PICK v \in (IF w.store = NoStore \/ ~Changed(w.store) THEN {w} ELSE writeStore(x)) : Becomes(v)
    BY <1>5 DEF PollIdle, x
  <2>2. CASE w.store = NoStore \/ ~Changed(w.store)
    <3>1. World' = w
      BY <1>1, <1>4, <2>1, <2>2
    <3> QED BY <3>1
  <2>3. CASE w.store # NoStore /\ Changed(w.store)
    <3>1. v \in writeStore(x)
      BY <2>1, <2>3
    <3>2. WorldInv(v) /\ v.store = x.store /\ w.done \subseteq v.done
      BY <1>3, <2>3, <3>1, CronWrite DEF WorldOK
    <3>3. World' = v
      BY <1>4, <2>1, <3>2
    <3> QED BY <1>3, <2>3, <3>2, <3>3 DEF WorldOK
  <2> QED BY <2>2, <2>3
<1>6. CASE PollDue(w)
  <2>1. w.store # NoStore /\ Becomes(x)
    BY <1>6 DEF PollDue, x
  <2>2. World' = x
    BY <1>3, <1>4, <2>1 DEF WorldOK
  <2> QED BY <1>3, <2>1, <2>2
<1> QED BY <1>5, <1>6

\* What is in the past stays there.
LEMMA CronLater ==
  ASSUME now \in Nat, now' \in Nat, now <= now', WorldInv(World')
  PROVE  WorldInv(World)'
<1>1. ASSUME NEW S, PastSlots(S) PROVE \A p \in S : p[2] \in 1 .. now'
  BY <1>1 DEF PastSlots
<1>2. WorldOrder(World)'
  BY DEF WorldInv, WorldOrder, StoreAfter, After
<1>3. PastSlots(World.done)' /\ PastSlots(World.ran)'
  BY <1>1 DEF WorldInv, WorldTyped, PastSlots
<1>4. /\ IsWorld(World)'
      /\ World'.store = NoStore \/ World'.store \in Stores
      /\ World'.file.jobs \in Stores
      /\ World'.dirty \in BOOLEAN /\ World'.touched \in BOOLEAN
  BY DEF WorldInv, WorldTyped, IsWorld
<1>5. World'.ended \in [IDs -> Int] /\ \A j \in IDs : World'.ended[j] <= now'
  <2>1. World'.ended \in [IDs -> Int] /\ \A j \in IDs : World'.ended[j] <= now
    BY DEF WorldInv, WorldTyped
  <2> QED BY <2>1
<1>6. WorldTyped(World)'
  BY <1>3, <1>4, <1>5 DEF WorldTyped
<1> QED BY <1>2, <1>6 DEF WorldInv

LEMMA CronFields ==
  /\ World.store = store /\ World.dirty = dirty /\ World.file = file /\ World.touched = touched
  /\ World.ran = ran /\ World.done = done /\ World.ended = ended
BY DEF World

LEMMA CronFieldsNext ==
  /\ World'.store = store' /\ World'.dirty = dirty' /\ World'.file = file'
  /\ World'.touched = touched' /\ World'.ran = ran' /\ World'.done = done'
  /\ World'.ended = ended'
BY DEF World

\* Between polls nothing is dispatched, and the world is fit for one.
LEMMA CronIdle ==
  ASSUME CronInv, phase = "idle"
  PROVE  WorldOK(World) /\ due = [j \in IDs |-> 0]
<1>1. WorldOK(World)
  BY CronFields DEF CronInv, WorldOK
<1>2. due \in [IDs -> Nat] /\ \A j \in IDs : due[j] = 0
  BY DEF CronInv
<1> QED BY <1>1, <1>2

\* The worlds a poll goes through.
LEMMA CronPollPick ==
  ASSUME CronInv, poll
  PROVE  \E w1, w2 :
           /\ w1 \in reloadJobsJSON(World) /\ w2 \in reloadModularJobs(w1)
           /\ WorldOK(w1) /\ WorldOK(w2) /\ Keeps(w1, w2)
           /\ w1.done = done
           /\ w1.store = store \/ (touched /\ w1.store = file.jobs)
           /\ PollIdle(w2) \/ PollDue(w2)
<1>1. PICK w1 \in reloadJobsJSON(World) :
        \E w2 \in reloadModularJobs(w1) : PollIdle(w2) \/ PollDue(w2)
  BY DEF poll
<1>2. PICK w2 \in reloadModularJobs(w1) : PollIdle(w2) \/ PollDue(w2)
  BY <1>1
<1>3. now \in Nat /\ items \in Items /\ WorldOK(World)
  BY CronIdle DEF CronInv, poll
<1>4. WorldOK(w1) /\ w1.done = World.done
      /\ (w1.store = World.store \/ (World.touched /\ w1.store = World.file.jobs))
  BY <1>3, CronReload
<1>5. WorldOK(w2) /\ Keeps(w1, w2)
  BY <1>3, <1>4, CronReloadModular
<1> QED BY <1>2, <1>4, <1>5, CronFields

\* The jobs a poll dispatches are due, and behind every saved slot and the end
\* of their last dispatch.
LEMMA CronDispatched ==
  ASSUME now \in Nat, NEW w, WorldOK(w), PollDue(w), NEW j \in IDs, due'[j] # 0
  PROVE  /\ w.store # NoStore /\ w.store[j] \in Jobs /\ w.store[j] # NoJob
         /\ due'[j] = w.store[j].next /\ due'[j] \in Nat /\ due'[j] <= now
         /\ ended' = w.ended /\ ended'[j] < now
         /\ \A s \in Nat : <<j, s>> \in w.done => s < due'[j]
<1>1. w.store # NoStore
  BY DEF PollDue
<1>2. w.store \in Stores
  BY <1>1 DEF WorldOK, WorldInv, WorldTyped
<1>3. j \in DueIn(w.store) /\ due'[j] = w.store[j].next
  BY DEF PollDue
<1>4. w.store[j] # NoJob /\ IsDue(w.store[j], now)
  BY <1>3 DEF DueIn, Present
<1>5. w.store[j] \in Jobs
  BY <1>2, <1>4 DEF Stores
<1>6. w.store[j].next \in Nat /\ w.store[j].next > 0 /\ w.store[j].next <= now
  BY <1>4, <1>5 DEF IsDue, Jobs
<1>7. Becomes([w EXCEPT !.store = Identified(w.store)])
  BY DEF PollDue
<1>8. ended' = w.ended
  <2>1. IsWorld(w)
    BY DEF WorldOK, WorldInv, WorldTyped
  <2> QED BY <1>7, <2>1 DEF Becomes, IsWorld
<1>9. w.ended[j] \in Int /\ After(w.store[j], w.ended[j])
  BY <1>1, <1>4 DEF WorldOK, WorldInv, WorldTyped, WorldOrder
<1>10. ended'[j] < now
  BY <1>6, <1>8, <1>9 DEF After
<1>11. \A s \in Nat : <<j, s>> \in w.done => s < w.store[j].next
  BY <1>1, <1>4, <1>6 DEF WorldOK, WorldInv, WorldOrder, StoreAfter, After
<1> QED BY <1>1, <1>3, <1>4, <1>5, <1>6, <1>8, <1>10, <1>11

LEMMA CronPollStep == ASSUME CronInv, poll PROVE CronInv'
<1>0. now \in Nat \ {0} /\ edits \in Nat /\ items \in Items /\ phase = "idle"
  BY DEF CronInv, poll
<1>1. PICK w1, w2 : WorldOK(w2) /\ (PollIdle(w2) \/ PollDue(w2))
  BY CronPollPick
<1>2. /\ WorldOK(World')
      /\ w2.store # NoStore => \A j \in IDs : w2.store[j] # NoJob => World'.store[j] # NoJob
      /\ w2.store # NoStore => World'.store # NoStore
  BY <1>0, <1>1, CronPollWorld
<1>3. now' = now /\ items' = items /\ edits' = edits
  BY DEF poll
<1>4. WorldInv(World)'
  BY <1>0, <1>2, <1>3, CronLater DEF WorldOK
<1>5. dirty' => store' # NoStore
  BY <1>2, CronFieldsNext DEF WorldOK
<1>6. CASE PollIdle(w2)
  <2>1. phase' = "idle" /\ due' = due
    BY <1>0, <1>6 DEF PollIdle
  <2> QED BY <1>0, <1>3, <1>4, <1>5, <2>1 DEF CronInv
<1>7. CASE PollDue(w2)
  <2>1. phase' = "run" /\ w2.store # NoStore
    BY <1>7 DEF PollDue
  <2>2. ASSUME NEW j \in IDs, due'[j] # 0
        PROVE  due'[j] \in Nat /\ due'[j] <= now /\ store'[j] # NoJob
    BY <1>0, <1>1, <1>2, <1>7, <2>2, CronDispatched, CronFieldsNext
  <2>3. due' \in [IDs -> Nat]
    <3>1. due' = [j \in IDs |-> due'[j]]
      BY <1>7 DEF PollDue
    <3>2. \A j \in IDs : due'[j] \in Nat
      BY <2>2
    <3> QED BY <3>1, <3>2
  <2>4. \A j \in IDs : due'[j] <= now'
    BY <1>0, <1>3, <2>2
  <2>5. store' # NoStore
    BY <1>2, <2>1, CronFieldsNext
  <2> QED BY <1>0, <1>3, <1>4, <2>1, <2>2, <2>3, <2>4, <2>5 DEF CronInv
<1> QED BY <1>1, <1>6, <1>7

\* A booked job has a slot after now, or none.
LEMMA CronNextStore ==
  ASSUME now \in Nat, store \in Stores, \A j \in IDs : due[j] # 0 => store[j] # NoJob
  PROVE  /\ NextStore \in Stores
         /\ \A j \in IDs :
              /\ due[j] = 0 => NextStore[j] = store[j]
              /\ due[j] # 0 => NextStore[j] # NoJob /\ After(NextStore[j], now)
<1>1. ASSUME NEW j \in IDs
      PROVE  /\ NextStore[j] \in Jobs \union {NoJob}
             /\ due[j] = 0 => NextStore[j] = store[j]
             /\ due[j] # 0 => NextStore[j] # NoJob /\ After(NextStore[j], now)
  <2>1. CASE due[j] = 0
    BY <2>1 DEF NextStore, Stores
  <2>2. CASE due[j] # 0
    <3>1. store[j] \in Jobs
      BY <2>2 DEF Stores
    <3> DEFINE c == ComputeNextRun(store[j].def, now)
               a == store[j].ok + (IF result[j] = "ok" THEN 1 ELSE 0)
               b == store[j].fail + (IF result[j] = "fail" THEN 1 ELSE 0)
    <3>2. store[j].def \in Definitions /\ a \in Nat /\ b \in Nat
      BY <3>1 DEF Jobs
    <3>3. c \in Nat /\ (c = 0 \/ c > now)
      BY <3>2, NextRunLater
    <3>4. NextStore[j] = [store[j] EXCEPT !.ok = a, !.fail = b, !.next = c]
      BY <2>2 DEF NextStore, Booked
    <3> HIDE DEF a, b, c
    <3>5. NextStore[j] \in Jobs /\ NextStore[j].next = c
      BY <3>1, <3>2, <3>3, <3>4 DEF Jobs
    <3>6. NextStore[j] # NoJob
      BY <3>5, MarksAssumption
    <3> QED BY <2>2, <3>3, <3>5, <3>6 DEF After
  <2> QED BY <2>1, <2>2
<1>2. NextStore = [j \in IDs |-> NextStore[j]]
  BY DEF NextStore
<1>3. NextStore \in Stores
  BY <1>1, <1>2 DEF Stores
<1> QED BY <1>1, <1>3

LEMMA CronRecord ==
  ASSUME NEW b, NEW st, NEW r, NEW e, file = [jobs |-> file.jobs, decodes |-> file.decodes],
         b = [store |-> st, dirty |-> dirty, committed |-> committed, finger |-> finger,
              file |-> file, touched |-> touched, ran |-> r, done |-> done, ended |-> e,
              unowned |-> unowned]
  PROVE  /\ IsWorld(b)
         /\ b.store = st /\ b.dirty = dirty /\ b.file = file /\ b.touched = touched
         /\ b.ran = r /\ b.done = done /\ b.ended = e
BY DEF IsWorld

LEMMA CronUpdated ==
  ASSUME NEW st, NEW r, NEW e, NEW b,
         b = [World EXCEPT !.store = st, !.ran = r, !.ended = e]
  PROVE  b = [store |-> st, dirty |-> dirty, committed |-> committed, finger |-> finger,
              file |-> file, touched |-> touched, ran |-> r, done |-> done, ended |-> e,
              unowned |-> unowned]
BY DEF World

LEMMA CronBooked ==
  ASSUME CronInv, phase = "run", NEW r, NEW e, NEW b,
         r = ran \union {<<j, due[j]>> : j \in {i \in IDs : due[i] # 0}},
         e = [j \in IDs |-> IF due[j] # 0 THEN now ELSE ended[j]],
         IsWorld(b), b.store = NextStore, b.dirty = dirty, b.file = file, b.touched = touched,
         b.ran = r, b.done = done, b.ended = e
  PROVE  WorldInv(b) /\ NextStore # NoStore
<1>1. /\ now \in Nat \ {0} /\ due \in [IDs -> Nat] /\ \A j \in IDs : due[j] <= now
      /\ store # NoStore /\ WorldInv(World) /\ \A j \in IDs : due[j] # 0 => store[j] # NoJob
  BY DEF CronInv
<1>2. /\ store \in Stores /\ ended \in [IDs -> Int] /\ \A j \in IDs : ended[j] <= now
      /\ PastSlots(ran) /\ PastSlots(done) /\ file.jobs \in Stores /\ dirty \in BOOLEAN
      /\ touched \in BOOLEAN
  BY <1>1, CronFields DEF WorldInv, WorldTyped
<1>3. /\ NextStore \in Stores
      /\ \A j \in IDs :
           /\ due[j] = 0 => NextStore[j] = store[j]
           /\ due[j] # 0 => NextStore[j] # NoJob /\ After(NextStore[j], now)
  BY <1>1, <1>2, CronNextStore
<1>4. NextStore # NoStore
  BY <1>3, MarksAssumption
<1>8. e \in [IDs -> Int] /\ \A j \in IDs : e[j] <= now
  BY <1>1, <1>2
<1>9. PastSlots(r)
  <2>1. ASSUME NEW p \in r PROVE p[2] \in 1 .. now
    <3>1. CASE p \in ran
      BY <1>2, <3>1 DEF PastSlots
    <3>2. CASE \E j \in IDs : due[j] # 0 /\ p = <<j, due[j]>>
      BY <1>1, <3>2
    <3> QED BY <3>1, <3>2
  <2> QED BY <2>1 DEF PastSlots
<1>10. WorldTyped(b)
  BY <1>2, <1>3, <1>8, <1>9 DEF WorldTyped
<1>11. ASSUME NEW S, PastSlots(S), \A j \in IDs, s \in Nat : due[j] = 0 /\ store[j] # NoJob /\ <<j, s>> \in S => After(store[j], s)
       PROVE  StoreAfter(NextStore, S)
  <2>1. SUFFICES ASSUME NEW j \in IDs, NEW s \in Nat, NextStore[j] # NoJob, <<j, s>> \in S
                 PROVE  After(NextStore[j], s)
    BY DEF StoreAfter
  <2>2. s <= now
    BY <1>11, <2>1 DEF PastSlots
  <2>3. NextStore[j] \in Jobs
    BY <1>3, <2>1 DEF Stores
  <2>4. NextStore[j].next \in Nat
    BY <2>3 DEF Jobs
  <2>5. CASE due[j] = 0
    BY <1>3, <1>11, <2>1, <2>5
  <2>6. CASE due[j] # 0
    BY <1>1, <1>3, <2>2, <2>4, <2>6 DEF After
  <2> QED BY <2>5, <2>6
<1>12. StoreAfter(store, done) /\ StoreAfter(store, ran) /\ StoreAfter(file.jobs, done)
       /\ \A j \in IDs : store[j] # NoJob => After(store[j], ended[j])
  BY <1>1, CronFields DEF WorldInv, WorldOrder
<1>13. StoreAfter(NextStore, done)
  BY <1>2, <1>11, <1>12 DEF StoreAfter
<1>14. StoreAfter(NextStore, r)
  <2>1. \A j \in IDs, s \in Nat : due[j] = 0 /\ <<j, s>> \in r => <<j, s>> \in ran
    OBVIOUS
  <2> QED BY <1>9, <1>11, <1>12, <2>1 DEF StoreAfter
<1>15. ASSUME NEW j \in IDs, NextStore[j] # NoJob PROVE After(NextStore[j], e[j])
  BY <1>3, <1>12, <1>15
<1>16. WorldOrder(b)
  BY <1>12, <1>13, <1>14, <1>15 DEF WorldOrder
<1> QED BY <1>4, <1>10, <1>16 DEF WorldInv

LEMMA CronPollEndStep == ASSUME CronInv, pollEnd PROVE CronInv'
<1>0. /\ now \in Nat \ {0} /\ edits \in Nat /\ items \in Items /\ phase = "run"
      /\ phase' = "idle" /\ now' = now /\ items' = items /\ edits' = edits
      /\ due' = [j \in IDs |-> 0]
  BY DEF CronInv, pollEnd
<1> DEFINE r == ran \union {<<j, due[j]>> : j \in {i \in IDs : due[i] # 0}}
           e == [j \in IDs |-> IF due[j] # 0 THEN now ELSE ended[j]]
           b == [World EXCEPT !.store = NextStore, !.ran = r, !.ended = e]
<1>1. PICK w \in writeStore(b) : Becomes(w)
  BY DEF pollEnd
<1> HIDE DEF r, e
<1>a. b = [store |-> NextStore, dirty |-> dirty, committed |-> committed, finger |-> finger,
           file |-> file, touched |-> touched, ran |-> r, done |-> done, ended |-> e,
           unowned |-> unowned]
  <2>1. PICK x : x = b
    OBVIOUS
  <2> QED BY <2>1, CronUpdated
<1> HIDE DEF b
<1>b. file = [jobs |-> file.jobs, decodes |-> file.decodes]
  BY CronFields DEF CronInv, WorldInv, WorldTyped, IsWorld
<1>c. /\ IsWorld(b)
      /\ b.store = NextStore /\ b.dirty = dirty /\ b.file = file /\ b.touched = touched
      /\ b.ran = r /\ b.done = done /\ b.ended = e
  BY <1>a, <1>b, CronRecord
<1>2. WorldInv(b) /\ b.store = NextStore /\ NextStore # NoStore
  BY <1>0, <1>c, CronBooked DEF r, e
<1>3. WorldInv(w) /\ w.store = NextStore
  BY <1>0, <1>1, <1>2, CronWrite
<1>4. World' = w
  BY <1>1, <1>3, CronBecomes DEF WorldInv, WorldTyped
<1>5. WorldInv(World)'
  BY <1>0, <1>3, <1>4, CronLater
<1>6. store' # NoStore
  BY <1>2, <1>3, <1>4, CronFieldsNext
<1>7. due' \in [IDs -> Nat] /\ \A j \in IDs : due'[j] = 0
  BY <1>0
<1> QED BY <1>0, <1>5, <1>6, <1>7 DEF CronInv

\* The parts of the invariant of the world, and how a step puts them together.
LEMMA CronParts ==
  ASSUME CronInv
  PROVE  /\ now \in Nat \ {0} /\ edits \in Nat /\ items \in Items
         /\ file = [jobs |-> file.jobs, decodes |-> file.decodes]
         /\ store = NoStore \/ store \in Stores
         /\ file.jobs \in Stores /\ dirty \in BOOLEAN /\ touched \in BOOLEAN
         /\ PastSlots(done) /\ PastSlots(ran)
         /\ ended \in [IDs -> Int] /\ \A j \in IDs : ended[j] <= now
         /\ StoreAfter(file.jobs, done)
         /\ store # NoStore =>
              /\ StoreAfter(store, done) /\ StoreAfter(store, ran)
              /\ \A j \in IDs : store[j] # NoJob => After(store[j], ended[j])
BY CronFields DEF CronInv, WorldInv, WorldTyped, WorldOrder, IsWorld

LEMMA CronAssemble ==
  ASSUME now \in Nat, now' \in Nat, now <= now',
         file' = [jobs |-> file'.jobs, decodes |-> file'.decodes],
         store' = NoStore \/ store' \in Stores,
         file'.jobs \in Stores, dirty' \in BOOLEAN, touched' \in BOOLEAN,
         PastSlots(done'), PastSlots(ran'),
         ended' \in [IDs -> Int], \A j \in IDs : ended'[j] <= now,
         StoreAfter(file'.jobs, done'),
         store' # NoStore =>
              /\ StoreAfter(store', done') /\ StoreAfter(store', ran')
              /\ \A j \in IDs : store'[j] # NoJob => After(store'[j], ended'[j])
  PROVE  WorldInv(World)'
<1>1. IsWorld(World')
  BY CronFieldsNext DEF IsWorld, World
<1>2. WorldTyped(World')
  BY <1>1, CronFieldsNext DEF WorldTyped
<1>3. WorldOrder(World')
  BY CronFieldsNext DEF WorldOrder
<1>4. WorldInv(World')
  BY <1>2, <1>3 DEF WorldInv
<1> QED BY <1>4, CronLater

\* A step that changes neither the world nor the dispatched jobs.
LEMMA CronQuiet ==
  ASSUME CronInv, now' \in Nat, now <= now', edits' \in Nat, items' \in Items,
         UNCHANGED <<phase, store, dirty, file, touched, due, ran, done, ended>>
  PROVE  CronInv'
<1>1. WorldInv(World)'
  BY CronParts, CronAssemble
<1>2. \A j \in IDs : due[j] <= now'
  BY CronParts DEF CronInv
<1>3. now' \in Nat \ {0}
  BY CronParts
<1> QED BY <1>1, <1>2, <1>3 DEF CronInv

LEMMA CronExecuteStep == ASSUME CronInv, NEW j \in IDs, executeJob(j) PROVE CronInv'
BY CronParts, CronQuiet DEF executeJob

LEMMA CronAlertStep == ASSUME CronInv, NEW j \in IDs, failureAlert(j) PROVE CronInv'
BY CronParts, CronQuiet DEF failureAlert

LEMMA CronTickStep == ASSUME CronInv, Tick PROVE CronInv'
BY CronParts, CronQuiet DEF Tick

LEMMA CronEditItemStep == ASSUME CronInv, NEW j \in IDs, EditItem(j) PROVE CronInv'
<1>1. items' \in Items
  <2>1. items \in Items /\ edits \in Nat
    BY CronParts
  <2>2. CASE \E d \in Defs \union {Malformed} : items' = [items EXCEPT ![j] = [def |-> d, stamp |-> edits]]
    BY <2>1, <2>2, DefsAssumption DEF Items
  <2>3. CASE items' = [items EXCEPT ![j] = NoJob]
    BY <2>1, <2>3 DEF Items
  <2> QED BY <2>2, <2>3 DEF EditItem
<1> QED BY <1>1, CronParts, CronQuiet DEF EditItem

\* The edited job keeps or gets a slot, and the operator's edit forgets what
\* was saved of it.
LEMMA CronEditJobsStep == ASSUME CronInv, NEW j \in IDs, EditJobs(j) PROVE CronInv'
<1>0. /\ file = [jobs |-> file.jobs, decodes |-> file.decodes] /\ file.jobs \in Stores
      /\ file.jobs[j] \in Jobs \union {NoJob}
  BY CronParts DEF Stores
<1>1. PICK k \in Jobs \union {NoJob}, b \in BOOLEAN :
        file' = [jobs |-> [file.jobs EXCEPT ![j] = k], decodes |-> b]
  <2>1. CASE \E d \in Defs :
          file' = [file EXCEPT !.jobs[j] = IF file.jobs[j] = NoJob THEN NewJob(d, "none")
                                           ELSE [file.jobs[j] EXCEPT !.def = d],
                               !.decodes = TRUE]
    <3>1. PICK d \in Defs :
          file' = [file EXCEPT !.jobs[j] = IF file.jobs[j] = NoJob THEN NewJob(d, "none")
                                           ELSE [file.jobs[j] EXCEPT !.def = d],
                               !.decodes = TRUE]
      BY <2>1
    <3> DEFINE k == IF file.jobs[j] = NoJob THEN NewJob(d, "none")
                                            ELSE [file.jobs[j] EXCEPT !.def = d]
    <3>2. d \in Definitions
      BY DefsAssumption
    <3>3. k \in Jobs \union {NoJob}
      <4>1. NewJob(d, "none") \in Jobs
        BY <3>2 DEF NewJob, Jobs
      <4>2. file.jobs[j] # NoJob => [file.jobs[j] EXCEPT !.def = d] \in Jobs
        BY <1>0, <3>2 DEF Jobs
      <4> QED BY <4>1, <4>2
    <3> HIDE DEF k
    <3>4. file' = [file EXCEPT !.jobs[j] = k, !.decodes = TRUE]
      BY <3>1 DEF k
    <3>5. file' = [jobs |-> [file.jobs EXCEPT ![j] = k], decodes |-> TRUE]
      BY <1>0, <3>4
    <3> QED BY <3>3, <3>5
  <2>2. CASE file' = [file EXCEPT !.jobs[j] = NoJob, !.decodes = TRUE]
    <3>1. file' = [jobs |-> [file.jobs EXCEPT ![j] = NoJob], decodes |-> TRUE]
      BY <1>0, <2>2
    <3> QED BY <3>1
  <2>3. CASE file.jobs[j] # NoJob /\ file' = [file EXCEPT !.jobs[j].next = 1, !.decodes = TRUE]
    <3> DEFINE k == [file.jobs[j] EXCEPT !.next = 1]
    <3>1. k \in Jobs
      BY <1>0, <2>3 DEF Jobs
    <3>2. file' = [file EXCEPT !.jobs[j] = k, !.decodes = TRUE]
      BY <1>0, <2>3
    <3> HIDE DEF k
    <3>3. file' = [jobs |-> [file.jobs EXCEPT ![j] = k], decodes |-> TRUE]
      BY <1>0, <3>2
    <3> QED BY <3>1, <3>3
  <2>4. CASE file' = [file EXCEPT !.decodes = FALSE]
    <3>1. file' = [jobs |-> file.jobs, decodes |-> FALSE]
      BY <1>0, <2>4
    <3>2. file.jobs = [file.jobs EXCEPT ![j] = file.jobs[j]]
      BY <1>0 DEF Stores
    <3> QED BY <1>0, <3>1, <3>2
  <2> QED BY <2>1, <2>2, <2>3, <2>4 DEF EditJobs
<1>2. file' = [jobs |-> file'.jobs, decodes |-> file'.decodes]
  BY <1>1
<1>3. file'.jobs \in Stores /\ \A i \in IDs : i # j => file'.jobs[i] = file.jobs[i]
  <2>1. file'.jobs = [file.jobs EXCEPT ![j] = k]
    BY <1>1
  <2> QED BY <1>0, <2>1 DEF Stores
<1>4. /\ done' = {s \in done : s[1] # j} /\ touched' = TRUE /\ edits' = edits + 1
      /\ UNCHANGED <<now, phase, store, dirty, items, due, ran, ended>>
  BY DEF EditJobs
<1>5. PastSlots(done') /\ done' \subseteq done
  BY <1>4, CronParts DEF PastSlots
<1>6. StoreAfter(file'.jobs, done')
  <2>1. SUFFICES ASSUME NEW i \in IDs, NEW s \in Nat, file'.jobs[i] # NoJob, <<i, s>> \in done'
                 PROVE  After(file'.jobs[i], s)
    BY DEF StoreAfter
  <2>2. i # j /\ <<i, s>> \in done
    BY <1>4, <2>1
  <2> QED BY <1>3, <2>1, <2>2, CronParts DEF StoreAfter
<1>7. store # NoStore => StoreAfter(store, done')
  BY <1>5, CronParts DEF StoreAfter
<1>8. WorldInv(World)'
  <2>1. now \in Nat /\ now' \in Nat /\ now <= now'
    BY <1>4, CronParts
  <2>2. /\ store' = NoStore \/ store' \in Stores
        /\ dirty' \in BOOLEAN /\ touched' \in BOOLEAN
        /\ PastSlots(ran') /\ ended' \in [IDs -> Int] /\ \A i \in IDs : ended'[i] <= now
    BY <1>4, CronParts
  <2>3. store' # NoStore =>
              /\ StoreAfter(store', done') /\ StoreAfter(store', ran')
              /\ \A i \in IDs : store'[i] # NoJob => After(store'[i], ended'[i])
    BY <1>4, <1>7, CronParts
  <2> QED BY <1>2, <1>3, <1>5, <1>6, <2>1, <2>2, <2>3, CronAssemble
<1>9. phase' = "down" => ran' = {} /\ ended' = Never
  BY <1>4 DEF CronInv
<1> QED BY <1>4, <1>8, <1>9 DEF CronInv

LEMMA CronNewSchedulerStep == ASSUME CronInv, NewScheduler PROVE CronInv'
<1>0. /\ file = [jobs |-> file.jobs, decodes |-> file.decodes] /\ file.jobs \in Stores
      /\ ran = {} /\ ended = Never
  BY CronParts DEF CronInv, NewScheduler
<1>1. /\ file' = [jobs |-> file'.jobs, decodes |-> file'.decodes] /\ file'.jobs \in Stores
      /\ \A i \in IDs : file'.jobs[i] = file.jobs[i] \/ file'.jobs[i].next = 0
  <2>1. CASE file' = file
    BY <1>0, <2>1
  <2>2. CASE file' # file
    <3> DEFINE f == [i \in IDs |-> IF i \in Seeds /\ file.jobs[i] = NoJob
                     THEN NewJob([kind |-> "every", enabled |-> TRUE], "none") ELSE file.jobs[i]]
    <3>1. file' = [file EXCEPT !.jobs = f]
      BY <2>2 DEF NewScheduler, Seeded
    <3> DEFINE k == NewJob([kind |-> "every", enabled |-> TRUE], "none")
    <3>2. k \in Jobs /\ k.next = 0
      BY DEF NewJob, Jobs, Definitions
    <3> HIDE DEF k
    <3>3. f \in Stores /\ \A i \in IDs : f[i] = file.jobs[i] \/ f[i] = k
      BY <1>0, <3>2 DEF Stores, k
    <3> HIDE DEF f
    <3>4. file' = [jobs |-> f, decodes |-> file.decodes]
      BY <1>0, <3>1
    <3> QED BY <3>2, <3>3, <3>4
  <2> QED BY <2>1, <2>2
<1>2. /\ store' = file'.jobs \/ store' = NoStore
      /\ phase' = "idle" /\ dirty' = FALSE /\ touched' = FALSE
      /\ UNCHANGED <<now, items, due, edits, ran, done, ended>>
  BY DEF NewScheduler
<1>3. StoreAfter(file'.jobs, done)
  <2>1. SUFFICES ASSUME NEW i \in IDs, NEW s \in Nat, file'.jobs[i] # NoJob, <<i, s>> \in done
                 PROVE  After(file'.jobs[i], s)
    BY DEF StoreAfter
  <2>2. CASE file'.jobs[i] = file.jobs[i]
    BY <2>1, <2>2, CronParts DEF StoreAfter
  <2>3. CASE file'.jobs[i].next = 0
    BY <2>3 DEF After
  <2> QED BY <1>1, <2>2, <2>3
<1>4. StoreAfter(file'.jobs, {})
  BY DEF StoreAfter
<1>5. ASSUME NEW i \in IDs, file'.jobs[i] # NoJob PROVE After(file'.jobs[i], Never[i])
  <2>1. file'.jobs[i] \in Jobs /\ Never[i] = -1
    BY <1>1, <1>5 DEF Stores, Never
  <2> QED BY <2>1 DEF Jobs, After
<1>6. WorldInv(World)'
  <2>1. now \in Nat /\ now' \in Nat /\ now <= now'
    BY <1>2, CronParts
  <2>2. /\ store' = NoStore \/ store' \in Stores
        /\ dirty' \in BOOLEAN /\ touched' \in BOOLEAN
        /\ PastSlots(ran') /\ PastSlots(done')
        /\ ended' \in [IDs -> Int] /\ \A i \in IDs : ended'[i] <= now
    BY <1>1, <1>2, CronParts
  <2>3. store' # NoStore =>
              /\ StoreAfter(store', done') /\ StoreAfter(store', ran')
              /\ \A i \in IDs : store'[i] # NoJob => After(store'[i], ended'[i])
    BY <1>0, <1>2, <1>3, <1>4, <1>5
  <2>4. StoreAfter(file'.jobs, done')
    BY <1>2, <1>3
  <2> QED BY <1>1, <2>1, <2>2, <2>3, <2>4, CronAssemble
<1>7. \A i \in IDs : due'[i] = 0
  BY <1>2 DEF CronInv, NewScheduler
<1> QED BY <1>2, <1>6, <1>7 DEF CronInv

LEMMA CronCrashStep == ASSUME CronInv, Crash PROVE CronInv'
<1>1. /\ store' = NoStore /\ phase' = "down" /\ ran' = {} /\ ended' = Never
      /\ due' = [j \in IDs |-> 0]
      /\ UNCHANGED <<now, items, edits, dirty, file, touched, done>>
  BY DEF Crash
<1>2. Never \in [IDs -> Int] /\ \A j \in IDs : Never[j] = -1
  BY DEF Never
<1>3. PastSlots({})
  BY DEF PastSlots
<1>4. WorldInv(World)'
  <2>1. now \in Nat /\ now' \in Nat /\ now <= now'
    BY <1>1, CronParts
  <2>2. \A j \in IDs : ended'[j] <= now
    BY <1>1, <1>2, <2>1
  <2>3. /\ dirty' \in BOOLEAN /\ touched' \in BOOLEAN
        /\ PastSlots(ran') /\ PastSlots(done') /\ ended' \in [IDs -> Int]
        /\ file' = [jobs |-> file'.jobs, decodes |-> file'.decodes] /\ file'.jobs \in Stores
        /\ StoreAfter(file'.jobs, done')
    BY <1>1, <1>2, <1>3, CronParts
  <2> QED BY <1>1, <2>1, <2>2, <2>3, CronAssemble
<1>5. due' \in [IDs -> Nat] /\ \A j \in IDs : due'[j] = 0
  BY <1>1
<1>6. now' \in Nat \ {0} /\ edits' \in Nat /\ items' \in Items
  BY <1>1, CronParts
<1> QED BY <1>1, <1>4, <1>5, <1>6 DEF CronInv

LEMMA CronInitOK == ASSUME Init PROVE CronInv
<1>1. /\ now = 1 /\ phase = "down" /\ store = NoStore /\ dirty = FALSE /\ touched = FALSE
      /\ file = [jobs |-> InitJobs, decodes |-> TRUE] /\ items = [j \in IDs |-> NoJob]
      /\ due = [j \in IDs |-> 0] /\ edits = 0 /\ ran = {} /\ done = {} /\ ended = Never
  BY DEF Init
<1>2. InitJobs \in Stores
  <2>1. ASSUME NEW j \in IDs PROVE InitJobs[j] \in Jobs \union {NoJob}
    <3>1. InitFile[j] = NoJob \/ InitFile[j] \in Definitions
      BY InitFileAssumption, DefsAssumption
    <3>2. InitFile[j] \in Definitions => NewJob(InitFile[j], "none") \in Jobs
      BY DEF NewJob, Jobs
    <3> QED BY <3>1, <3>2 DEF InitJobs
  <2>2. InitJobs = [j \in IDs |-> InitJobs[j]]
    BY DEF InitJobs
  <2> QED BY <2>1, <2>2 DEF Stores
<1>3. items \in Items /\ due \in [IDs -> Nat] /\ \A j \in IDs : due[j] = 0
  BY <1>1 DEF Items
<1>4. Never \in [IDs -> Int] /\ \A j \in IDs : Never[j] = -1
  BY DEF Never
<1>5. IsWorld(World)
  <2>1. file = [jobs |-> file.jobs, decodes |-> file.decodes]
    BY <1>1
  <2> QED BY <2>1, CronFields DEF IsWorld, World
<1>6. WorldTyped(World)
  <2>1. file.jobs \in Stores /\ ended \in [IDs -> Int] /\ \A j \in IDs : ended[j] <= now
    BY <1>1, <1>2, <1>4
  <2> QED BY <1>1, <1>5, <2>1, CronFields DEF WorldTyped, PastSlots
<1>7. WorldOrder(World)
  BY <1>1, CronFields DEF WorldOrder, StoreAfter
<1> QED BY <1>1, <1>3, <1>6, <1>7 DEF CronInv, WorldInv

LEMMA CronStep == ASSUME CronInv, [Next]_vars PROVE CronInv'
<1>1. CASE vars' = vars
  BY <1>1, CronParts, CronQuiet DEF vars
<1>2. CASE Next
  BY <1>2, CronPollStep, CronPollEndStep, CronNewSchedulerStep, CronCrashStep, CronTickStep,
     CronExecuteStep, CronAlertStep, CronEditItemStep, CronEditJobsStep DEF Next
<1> QED BY <1>1, <1>2

\* CronInv is an invariant of the scheduler, for any set of jobs and
\* definitions, any schedules, and any number of edits and crashes.
THEOREM CronInvariant == Spec => []CronInv
<1>1. Init => CronInv
  BY CronInitOK
<1>2. CronInv /\ [Next]_vars => CronInv'
  BY CronStep
<1> QED BY <1>1, <1>2, PTL DEF Spec

\* Only a poll dispatches.
LEMMA CronDispatchStep ==
  ASSUME CronInv, Next, NEW j \in IDs, due[j] = 0, due'[j] # 0
  PROVE  /\ due'[j] \in Nat /\ ended'[j] < now
         /\ \A s \in Nat : <<j, s>> \in done => s < due'[j]
<1>1. poll
  <2>1. CASE pollEnd \/ Crash
    BY <2>1 DEF pollEnd, Crash
  <2>2. CASE NewScheduler \/ Tick \/ \E i \in IDs : executeJob(i) \/ failureAlert(i) \/ EditItem(i) \/ EditJobs(i)
    BY <2>2 DEF NewScheduler, Tick, executeJob, failureAlert, EditItem, EditJobs
  <2> QED BY <2>1, <2>2 DEF Next
<1>2. PICK w1, w2 : /\ WorldOK(w2) /\ Keeps(w1, w2) /\ w1.done = done
                    /\ PollIdle(w2) \/ PollDue(w2)
  BY <1>1, CronPollPick
<1>3. PollDue(w2)
  BY <1>2 DEF PollIdle
<1>4. now \in Nat
  BY DEF CronInv
<1>5. /\ due'[j] \in Nat /\ ended'[j] < now
      /\ \A s \in Nat : <<j, s>> \in w2.done => s < due'[j]
  BY <1>2, <1>3, <1>4, CronDispatched
<1>6. done \subseteq w2.done
  BY <1>2 DEF Keeps
<1> QED BY <1>5, <1>6

\* A slot whose completion was saved is never dispatched again, whatever is
\* reloaded, reconciled, lost in a crash or not saved (poll, writeStore,
\* reloadJobsJSON, reconcileModularJobs).
THEOREM CronOncePersisted == Spec => OncePersisted
<1>1. ASSUME CronInv, [Next]_vars
      PROVE  [\A j \in IDs : due[j] = 0 => <<j, due'[j]>> \notin done]_vars
  <2>1. SUFFICES ASSUME Next, NEW j \in IDs, due[j] = 0, <<j, due'[j]>> \in done PROVE FALSE
    BY <1>1
  <2>2. CASE due'[j] = 0
    BY <1>1, <2>1, <2>2, CronParts DEF PastSlots
  <2>3. CASE due'[j] # 0
    BY <1>1, <2>1, <2>3, CronDispatchStep
  <2> QED BY <2>2, <2>3
<1> QED BY <1>1, CronInvariant, PTL DEF Spec, OncePersisted

\* A job is not dispatched at the time its last dispatch ended, although it may
\* have run longer than its interval (poll, ComputeNextRun).
THEOREM CronNoRefire == Spec => NoRefire
<1>1. ASSUME CronInv, [Next]_vars
      PROVE  [\A j \in IDs : due[j] = 0 /\ due'[j] # 0 => ended'[j] < now]_vars
  BY <1>1, CronDispatchStep
<1> QED BY <1>1, CronInvariant, PTL DEF Spec, NoRefire

\* What a poll may remove.
LEMMA CronRemoval ==
  ASSUME CronInv, Next, phase = "idle", phase' # "down", store # NoStore, NEW j \in Present(store)
  PROVE  \/ j \in Present(store')
         \/ touched /\ file.jobs[j] = NoJob
         \/ /\ store[j].src = "modular" \/ (touched /\ file.jobs[j].src = "modular")
            /\ Complete
            /\ items[j] = NoJob
<1>0. j \in IDs /\ store[j] # NoJob
  BY DEF Present
<1>1. CASE poll
  <2>1. PICK w1, w2 : /\ WorldOK(w1) /\ WorldOK(w2) /\ Keeps(w1, w2)
                      /\ w1.store = store \/ (touched /\ w1.store = file.jobs)
                      /\ PollIdle(w2) \/ PollDue(w2)
    BY <1>1, CronPollPick
  <2>2. w1.store # NoStore
    BY <2>1, CronParts, MarksAssumption
  <2>3. w2.store # NoStore
    BY <2>1, <2>2 DEF Keeps
  <2>4. now \in Nat /\ items \in Items
    BY DEF CronInv
  <2>5. \A i \in IDs : w2.store[i] # NoJob => store'[i] # NoJob
    BY <2>1, <2>3, <2>4, CronPollWorld, CronFieldsNext
  <2>6. CASE w1.store[j] = NoJob
    BY <1>0, <2>1, <2>6
  <2>7. CASE w1.store[j] # NoJob
    <3>1. w2.store[j] # NoJob \/ (w1.store[j].src = "modular" /\ Complete /\ items[j] = NoJob)
      BY <1>0, <2>1, <2>2, <2>7 DEF Keeps
    <3> QED BY <1>0, <2>1, <2>5, <3>1 DEF Present
  <2> QED BY <2>6, <2>7
<1>2. CASE Tick \/ \E i \in IDs : executeJob(i) \/ failureAlert(i) \/ EditItem(i) \/ EditJobs(i)
  BY <1>2 DEF Tick, executeJob, failureAlert, EditItem, EditJobs
<1>3. CASE pollEnd \/ NewScheduler \/ Crash
  BY <1>3 DEF pollEnd, NewScheduler, Crash
<1> QED BY <1>1, <1>2, <1>3 DEF Next

\* A job leaves the store only when jobs.json has lost it, or when a snapshot of
\* all definitions shows that its own is gone (reconcileModularJobs,
\* loadModularSnapshot).
THEOREM CronRemovalAuthorized == Spec => RemovalAuthorized
<1>1. ASSUME CronInv, [Next]_vars
      PROVE  [phase = "idle" /\ phase' # "down" /\ store # NoStore => \A j \in Present(store) :
       \/ j \in Present(store')
       \/ touched /\ file.jobs[j] = NoJob
       \/ /\ store[j].src = "modular" \/ (touched /\ file.jobs[j].src = "modular")
          /\ Complete
          /\ items[j] = NoJob]_vars
  BY <1>1, CronRemoval
<1> QED BY <1>1, CronInvariant, PTL DEF Spec, RemovalAuthorized
-----------------------------------------------------------------------------
(***************************************************************************)
(* The delivery of a run (CronDelivery).                                   *)
(***************************************************************************)
\* Where a run is that has not ended, and a retry that has not mailed.
UnderWay == {"route", "turn", "respMail", "respChat", "failMail"}
Retrying == {"wait", "check", "retryTurn", "retryMail", "retryFail"}

\* Nothing has been told or mailed of a run that is under way or to come, and
\* it has no retry yet; the alert is for a run that failed and told nobody.
RunsFresh ==
  /\ mpc["job"] # "idle" => n > 0
  /\ mpc["job"] \in {"alert", "alertMail"} => told[n] = <<>> /\ outcome = "fail"
  /\ \A i \in Runs : i > n \/ (i = n /\ mpc["job"] \in UnderWay) =>
       told[i] = <<>> /\ briefings[i] = 0 /\ mpc[Retriers[i]] = "idle"

\* A retry that is still to mail is that of a run that has not.
RetriesOwe == \A i \in Runs : mpc[Retriers[i]] \in Retrying => briefings[i] = 0

\* The alert is given a context that only the shutdown ends.
AlertLives == mpc["job"] = "alertMail" /\ "job" \in dead => shutdown

DeliveryInv ==
  CronTypeOK /\ RunsFresh /\ RetriesOwe /\ AlertLives /\ FailureTold /\ AnswerNotResent
-----------------------------------------------------------------------------
\* Every retry goroutine belongs to one run and is not the dispatcher's.
LEMMA RetrierRun ==
  /\ \A i \in Runs : /\ Retriers[i] \in RetryIds /\ Retriers[i] # "job"
                     /\ RunOf(Retriers[i]) = i
  /\ \A w \in RetryIds : w # "job" /\ RunOf(w) \in Runs /\ Retriers[RunOf(w)] = w
  /\ \A i, j \in Runs : Retriers[i] = Retriers[j] => i = j
  /\ Runs = 1 .. Len(Retriers) /\ Len(Retriers) \in Nat
  /\ "job" \in Deliverers /\ RetryIds \subseteq Deliverers /\ "job" \notin RetryIds
<1>1. Runs = 1 .. Len(Retriers) /\ Len(Retriers) \in Nat
  BY RetriersAssumption DEF Runs
<1>2. \A i \in Runs : Retriers[i] \in Mailers \ {"job"}
  BY <1>1, RetriersAssumption
<1>3. \A i, j \in Runs : Retriers[i] = Retriers[j] => i = j
  BY RetriersAssumption DEF Runs
<1>4. ASSUME NEW i \in Runs PROVE RunOf(Retriers[i]) = i
  <2>1. Retriers[i] # "job"
    BY <1>2
  <2>2. \E k \in Runs : Retriers[k] = Retriers[i]
    OBVIOUS
  <2> QED BY <1>3, <2>1, <2>2 DEF RunOf
<1> QED
  BY <1>1, <1>2, <1>3, <1>4 DEF RetryIds, Deliverers

Told == Seq([by : Givers, fate : Fates])

LEMMA EmptyTold == <<>> \in Told
BY EmptySeq DEF Told

\* Whom an alert reaches depends on the job and the configured address only.
LEMMA ReachableKept ==
  ASSUME UNCHANGED <<job, hasEmail>>
  PROVE  Reachable' = Reachable
BY DEF Reachable, Carrier, Channel, To, MailTo

\* The first notice of a run is its only one.
LEMMA FirstNotice ==
  ASSUME told \in [Runs -> Told], NEW notice \in [by : Givers, fate : Fates],
         n \in Runs, told[n] = <<>>, told' = [told EXCEPT ![n] = Append(@, notice)]
  PROVE  /\ told' \in [Runs -> Told] /\ told'[n] = <<notice>>
         /\ Len(told'[n]) = 1 /\ DOMAIN told'[n] = {1} /\ told'[n][1] = notice
         /\ \A i \in Runs : i # n => told'[i] = told[i]
<1>1. Append(<<>>, notice) = <<notice>> /\ <<notice>> \in Told
  BY DEF Told
<1>2. told'[n] = <<notice>>
  BY <1>1
<1>3. Len(<<notice>>) = 1 /\ DOMAIN <<notice>> = {1} /\ <<notice>>[1] = notice
  OBVIOUS
<1> QED BY <1>1, <1>2, <1>3

LEMMA DeliveryInitInv == CronInit => DeliveryInv
<1> SUFFICES ASSUME CronInit PROVE DeliveryInv
  OBVIOUS
<1>1. /\ n = 0 /\ mpc = [w \in Deliverers |-> "idle"]
      /\ told = [i \in Runs |-> <<>>] /\ briefings = [i \in Runs |-> 0]
  BY DEF CronInit
<1>2. CronTypeOK
  BY RetrierRun, DelaysAssumption, EmptyTold DEF CronInit, CronTypeOK, JobPcs, RetryPcs, Faults, Told
<1>3. mpc["job"] = "idle" /\ \A i \in Runs : mpc[Retriers[i]] = "idle"
  BY <1>1, RetrierRun
<1> QED
  BY <1>1, <1>2, <1>3, RetrierRun
     DEF DeliveryInv, RunsFresh, RetriesOwe, AlertLives, FailureTold, AnswerNotResent, MaxAttempts,
         UnderWay, Retrying
-----------------------------------------------------------------------------
\* A step that leaves the runs, their notices and their mails as they are.
Calm ==
  /\ UNCHANGED <<n, job, mpc, fault, attempt, outcome, told, briefings, hasEmail>>
  /\ shutdown => shutdown'
  /\ mpc["job"] = "alertMail" /\ "job" \in dead' => "job" \in dead \/ shutdown'

LEMMA CalmHolds ==
  ASSUME DeliveryInv, Calm
  PROVE  DeliveryInv'
<1>1. CronTypeOK' /\ RunsFresh' /\ RetriesOwe' /\ AlertLives' /\ AnswerNotResent'
  BY DEF DeliveryInv, Calm, CronTypeOK, RunsFresh, RetriesOwe, AlertLives, AnswerNotResent
<1>2. FailureTold'
  BY ReachableKept DEF DeliveryInv, Calm, FailureTold
<1> QED BY <1>1, <1>2 DEF DeliveryInv

\* The tokens' steps end nobody's context.
LEMMA AuthKeepsDead == AuthNext => dead' = dead
BY DEF AuthNext, NewService, BearerToken, tryLoadTokenFromDPAPI, AuthorizeInteractive, authorize,
   persistToken, writeTokenFile, cliSecrets, setLoad, setSave, refreshToken, readToken, writeBack,
   TokensExpire, Revoke, GoogleSide

\* A step of the dispatcher within its run: it ends the run well, fails it
\* with the alert to come, or goes on with nothing told and nothing mailed.
JobGoes(v) ==
  /\ mpc' = [mpc EXCEPT !["job"] = v]
  /\ \/ v \in UnderWay /\ UNCHANGED outcome
     \/ v = "idle" /\ outcome' = "ok"
     \/ v = "alert" /\ outcome' = "fail"
  /\ UNCHANGED <<n, job, attempt, told, briefings, shutdown, hasEmail>>

LEMMA JobGoesHolds ==
  ASSUME DeliveryInv, mpc["job"] \in UnderWay, NEW v, JobGoes(v),
         fault' \in [Deliverers -> Faults \union {"none"}]
  PROVE  DeliveryInv'
<1> USE DEF DeliveryInv, JobGoes
<1>1. v \in JobPcs
  BY DEF UnderWay, JobPcs
<1>2. mpc'["job"] = v /\ \A i \in Runs : mpc'[Retriers[i]] = mpc[Retriers[i]]
  BY RetrierRun DEF CronTypeOK
<1>3. n \in Runs /\ told[n] = <<>>
  BY RetrierRun DEF RunsFresh, UnderWay, CronTypeOK
<1>4. CronTypeOK'
  BY <1>1, <1>2, RetrierRun DEF CronTypeOK
<1>5. RunsFresh'
  BY <1>2, <1>3 DEF RunsFresh, UnderWay
<1>6. RetriesOwe'
  BY <1>2 DEF RetriesOwe
<1>7. FailureTold' /\ AnswerNotResent' /\ AlertLives'
  BY <1>2, <1>3 DEF FailureTold, AnswerNotResent, AlertLives, UnderWay
<1> QED BY <1>4, <1>5, <1>6, <1>7

LEMMA DispatchHolds == ASSUME DeliveryInv, Dispatch PROVE DeliveryInv'
<1>1. \E v : JobGoes(v)
  BY DEF Dispatch, Succeed, FailPlain, MailerTo, Rest, JobGoes, UnderWay
<1>2. mpc["job"] \in UnderWay /\ fault' = fault
  BY DEF Dispatch, UnderWay
<1>3. fault' \in [Deliverers -> Faults \union {"none"}]
  BY <1>2 DEF DeliveryInv, CronTypeOK
<1> QED BY <1>1, <1>2, <1>3, JobGoesHolds

LEMMA RunTurnHolds == ASSUME DeliveryInv, RunTurn PROVE DeliveryInv'
<1>1. mpc["job"] \in UnderWay /\ Rest
  BY DEF RunTurn, UnderWay
<1>2. /\ fault' \in [Deliverers -> Faults \union {"none"}]
      /\ \E v : JobGoes(v)
  <2>0. fault \in [Deliverers -> Faults \union {"none"}]
    BY DEF DeliveryInv, CronTypeOK
  <2>1. ASSUME NEW a \in Answers, dispatchEmail(a)
        PROVE  fault' = fault \/ fault' = [fault EXCEPT !["job"] = "error"]
    BY <2>1 DEF dispatchEmail
  <2>2. ASSUME NEW a \in Answers, dispatchEmail(a) PROVE \E v : JobGoes(v)
    BY <1>1, <2>2 DEF dispatchEmail, Succeed, MailerTo, Rest, JobGoes, UnderWay
  <2>3. ASSUME NEW a \in Answers, dispatchOther(a) PROVE fault' = fault /\ \E v : JobGoes(v)
    BY <1>1, <2>3 DEF dispatchOther, Succeed, MailerTo, Rest, JobGoes, UnderWay
  <2>4. ASSUME NEW f \in Faults, fault' = [fault EXCEPT !["job"] = f],
               IF Route = "email" THEN MailerTo("job", "failMail") /\ UNCHANGED outcome
               ELSE FailPlain("job")
        PROVE  \E v : JobGoes(v)
    BY <1>1, <2>4 DEF FailPlain, MailerTo, Rest, JobGoes, UnderWay
  <2>5. \/ fault' = fault
        \/ \E f \in Faults : fault' = [fault EXCEPT !["job"] = f]
    BY <2>1, <2>3 DEF RunTurn, Faults
  <2>6. \E v : JobGoes(v)
    BY <2>2, <2>3, <2>4 DEF RunTurn
  <2> QED BY <2>0, <2>5, <2>6
<1> QED BY <1>1, <1>2, JobGoesHolds

LEMMA TelegramHolds == ASSUME DeliveryInv, sendTelegramResponse PROVE DeliveryInv'
<1>1. \E v : JobGoes(v)
  BY DEF sendTelegramResponse, Succeed, FailPlain, MailerTo, Rest, JobGoes, UnderWay
<1>2. mpc["job"] \in UnderWay /\ fault' = fault
  BY DEF sendTelegramResponse, UnderWay
<1>3. fault' \in [Deliverers -> Faults \union {"none"}]
  BY <1>2 DEF DeliveryInv, CronTypeOK
<1> QED BY <1>1, <1>2, <1>3, JobGoesHolds

\* The next run is one nobody has been told of.
LEMMA StartHolds == ASSUME DeliveryInv, executeJobStarts PROVE DeliveryInv'
<1> USE DEF DeliveryInv
<1>0. /\ mpc["job"] = "idle" /\ n < Len(Retriers) /\ n' = n + 1 /\ job' \in Payloads
      /\ mpc' = [mpc EXCEPT !["job"] = "route"] /\ outcome' = "none"
      /\ fault' = [fault EXCEPT !["job"] = "none"]
      /\ UNCHANGED <<attempt, told, briefings, shutdown, hasEmail>>
  BY DEF executeJobStarts, MailerTo
<1>1. mpc'["job"] = "route" /\ \A i \in Runs : mpc'[Retriers[i]] = mpc[Retriers[i]]
  BY <1>0, RetrierRun DEF CronTypeOK
<1>2. CronTypeOK'
  <2>1. /\ n' \in 0 .. Len(Retriers) /\ outcome' = "none"
        /\ fault' \in [Deliverers -> Faults \union {"none"}]
        /\ mpc' \in [Deliverers -> JobPcs \union RetryPcs]
    BY <1>0, RetrierRun DEF CronTypeOK, JobPcs
  <2>2. \A w \in RetryIds : mpc'[w] \in RetryPcs
    BY <1>0, RetrierRun DEF CronTypeOK
  <2> QED BY <1>0, <1>1, <2>1, <2>2 DEF CronTypeOK, JobPcs
<1>3. RunsFresh'
  BY <1>0, <1>1, RetrierRun DEF RunsFresh, UnderWay, CronTypeOK
<1>4. RetriesOwe' /\ FailureTold' /\ AnswerNotResent' /\ AlertLives'
  BY <1>0, <1>1 DEF RetriesOwe, FailureTold, AnswerNotResent, AlertLives
<1> QED BY <1>2, <1>3, <1>4

\* A Send leaves at most MaxAttempts mails behind.
LEMMA CopiesBounded ==
  ASSUME NEW w, NEW o \in MailOutcomes(w)
  PROVE  o.copies \in 0 .. MaxAttempts
<1>0. MaxAttempts = 3
  BY DEF MaxAttempts
<1>1. CASE o = NotSent
  BY <1>0, <1>1 DEF NotSent
<1>2. CASE o \in [ok : {TRUE}, copies : 1 .. MaxAttempts]
  BY <1>0, <1>2
<1>3. CASE o \in [ok : {FALSE}, copies : 0 .. MaxAttempts]
  BY <1>3
<1> QED BY <1>1, <1>2, <1>3 DEF MailOutcomes, SendOutcomes

\* The answer goes out when nothing of the run has; its retry is not started.
LEMMA ResponseHolds == ASSUME DeliveryInv, sendEmailResponse PROVE DeliveryInv'
<1> USE DEF DeliveryInv
<1>0. /\ mpc["job"] = "respMail"
      /\ UNCHANGED <<n, job, fault, attempt, told, shutdown, hasEmail>>
  BY DEF sendEmailResponse
<1>1. PICK v \in {"idle", "alert"} :
        /\ mpc' = [mpc EXCEPT !["job"] = v]
        /\ outcome' = IF v = "idle" THEN "ok" ELSE "fail"
  BY DEF sendEmailResponse, Succeed, FailPlain, MailerTo
<1>2. n \in Runs /\ told[n] = <<>> /\ briefings[n] = 0 /\ mpc[Retriers[n]] = "idle"
  BY <1>0, RetrierRun DEF RunsFresh, UnderWay, CronTypeOK
<1>3. PICK c \in 0 .. MaxAttempts : briefings' = [briefings EXCEPT ![n] = @ + c]
  BY CopiesBounded DEF sendEmailResponse, Took, RunOf
<1>4. /\ briefings' \in [Runs -> Nat] /\ briefings'[n] <= MaxAttempts
      /\ \A i \in Runs : i # n => briefings'[i] = briefings[i]
  BY <1>2, <1>3 DEF CronTypeOK, MaxAttempts
<1>5. mpc'["job"] = v /\ \A i \in Runs : mpc'[Retriers[i]] = mpc[Retriers[i]]
  BY <1>1, RetrierRun DEF CronTypeOK
<1>6. CronTypeOK'
  BY <1>0, <1>1, <1>4, <1>5, RetrierRun DEF CronTypeOK, JobPcs
<1>7. RunsFresh'
  BY <1>0, <1>1, <1>2, <1>4, <1>5, RetrierRun DEF RunsFresh, UnderWay, CronTypeOK
<1>8. RetriesOwe'
  BY <1>2, <1>4, <1>5 DEF RetriesOwe, Retrying
<1>9. FailureTold' /\ AnswerNotResent' /\ AlertLives'
  BY <1>0, <1>1, <1>2, <1>4, <1>5 DEF FailureTold, AnswerNotResent, AlertLives
<1> QED BY <1>6, <1>7, <1>8, <1>9

LEMMA MailFate == MailFates \subseteq {"over", "taken", "failed"} /\ ("over" \in MailFates => "job" \in dead)
BY DEF MailFates, SendFates

\* The failure mail is the notice of the run, and the retry that may start has
\* a run that mailed nothing.
LEMMA FailureMailHolds ==
  ASSUME DeliveryInv, handleMorningBriefingDispatchFailure PROVE DeliveryInv'
<1> USE DEF DeliveryInv
<1>0. /\ mpc["job"] = "failMail" /\ outcome' = "fail"
      /\ UNCHANGED <<n, job, fault, attempt, briefings, shutdown, hasEmail>>
  BY DEF handleMorningBriefingDispatchFailure
<1>1. n \in Runs /\ told[n] = <<>> /\ briefings[n] = 0 /\ mpc[Retriers[n]] = "idle"
  BY <1>0, RetrierRun DEF RunsFresh, UnderWay, CronTypeOK
<1>2. PICK v \in {"idle", "wait"} :
        mpc' = [mpc EXCEPT !["job"] = "idle", ![Retriers[n]] = v]
  BY <1>1, RetrierRun DEF handleMorningBriefingDispatchFailure, AlreadyNotified, CronTypeOK
<1>3. /\ mpc'["job"] = "idle" /\ mpc'[Retriers[n]] = v
      /\ \A i \in Runs : i # n => mpc'[Retriers[i]] = mpc[Retriers[i]]
  BY <1>1, <1>2, RetrierRun DEF CronTypeOK
<1>4. PICK fate \in {"over", "taken", "failed"} :
        told' = [told EXCEPT ![n] = Append(@, Notice("dispatcher", fate))]
  BY MailFate DEF handleMorningBriefingDispatchFailure, Tell
<1> DEFINE notice == Notice("dispatcher", fate)
<1>. notice \in [by : Givers, fate : Fates] /\ notice.by = "dispatcher" /\ notice.fate # "nobody"
  BY DEF Notice, Givers, Fates
<1>9. /\ told' \in [Runs -> Told] /\ Len(told'[n]) = 1 /\ DOMAIN told'[n] = {1}
      /\ told'[n][1] = notice /\ \A i \in Runs : i # n => told'[i] = told[i]
  BY <1>1, <1>4, FirstNotice DEF CronTypeOK, Told
<1> HIDE DEF notice
<1>5. CronTypeOK'
  <2>1. mpc' \in [Deliverers -> JobPcs \union RetryPcs]
    BY <1>1, <1>2, RetrierRun DEF CronTypeOK, JobPcs, RetryPcs
  <2>2. \A w \in RetryIds : mpc'[w] \in RetryPcs
    <3>1. \A i \in Runs : mpc[Retriers[i]] \in RetryPcs
      BY RetrierRun DEF CronTypeOK
    <3>2. \A i \in Runs : mpc'[Retriers[i]] \in RetryPcs
      BY <1>3, <3>1 DEF RetryPcs
    <3> QED BY <3>2, RetrierRun
  <2> QED BY <1>0, <1>3, <1>9, <2>1, <2>2 DEF CronTypeOK, JobPcs, Told
<1>6. RunsFresh'
  BY <1>0, <1>1, <1>3, <1>9, RetrierRun DEF RunsFresh, UnderWay, CronTypeOK
<1>7. RetriesOwe'
  BY <1>0, <1>1, <1>3 DEF RetriesOwe
<1>8. FailureTold' /\ AnswerNotResent' /\ AlertLives'
  BY <1>0, <1>3, <1>9 DEF FailureTold, AnswerNotResent, AlertLives
<1> QED BY <1>5, <1>6, <1>7, <1>8

\* The alert is the notice of a run that failed without telling anybody.
LEMMA AlertHolds ==
  ASSUME DeliveryInv, sendFailureAlert \/ alertMailDone PROVE DeliveryInv'
<1> USE DEF DeliveryInv
<1>0. /\ mpc["job"] \in {"alert", "alertMail"}
      /\ UNCHANGED <<n, job, fault, attempt, outcome, briefings, shutdown, hasEmail>>
  BY DEF sendFailureAlert, alertMailDone
<1>1. n \in Runs /\ told[n] = <<>> /\ outcome = "fail"
  BY <1>0, RetrierRun DEF RunsFresh, UnderWay, CronTypeOK
<1>2. CASE /\ mpc' = [mpc EXCEPT !["job"] = "alertMail"] /\ told' = told
           /\ dead' = IF shutdown THEN dead ELSE dead \ {"job"}
  <2>1. mpc'["job"] = "alertMail" /\ \A i \in Runs : mpc'[Retriers[i]] = mpc[Retriers[i]]
    BY <1>2, RetrierRun DEF CronTypeOK
  <2>2. CronTypeOK'
    BY <1>0, <1>2, <2>1, RetrierRun DEF CronTypeOK, JobPcs
  <2>3. RunsFresh' /\ RetriesOwe' /\ AlertLives'
    BY <1>0, <1>1, <1>2, <2>1, RetrierRun DEF RunsFresh, RetriesOwe, AlertLives, UnderWay, CronTypeOK
  <2>4. FailureTold' /\ AnswerNotResent'
    BY <1>0, <2>1 DEF FailureTold, AnswerNotResent
  <2> QED BY <2>2, <2>3, <2>4
<1>3. CASE mpc' = [mpc EXCEPT !["job"] = "idle"] /\ \E fate \in Fates :
             /\ told' = [told EXCEPT ![n] = Append(@, Notice("scheduler", fate))]
             /\ fate = "nobody" => ~Reachable
             /\ fate = "over" => shutdown
  <2>1. mpc'["job"] = "idle" /\ \A i \in Runs : mpc'[Retriers[i]] = mpc[Retriers[i]]
    BY <1>3, RetrierRun DEF CronTypeOK
  <2>2. PICK fate \in Fates :
          /\ told' = [told EXCEPT ![n] = Append(@, Notice("scheduler", fate))]
          /\ fate = "nobody" => ~Reachable
          /\ fate = "over" => shutdown
    BY <1>3
  <2> DEFINE notice == Notice("scheduler", fate)
  <2>3. notice \in [by : Givers, fate : Fates] /\ notice.by = "scheduler" /\ notice.fate = fate
    BY DEF Notice, Givers
  <2>4. /\ told' \in [Runs -> Told] /\ Len(told'[n]) = 1 /\ DOMAIN told'[n] = {1}
        /\ told'[n][1] = notice /\ \A i \in Runs : i # n => told'[i] = told[i]
    BY <1>1, <2>2, <2>3, FirstNotice DEF CronTypeOK, Told
  <2> HIDE DEF notice
  <2>5. CronTypeOK'
    BY <1>0, <1>3, <2>1, <2>4, RetrierRun DEF CronTypeOK, JobPcs, Told
  <2>6. RunsFresh' /\ RetriesOwe' /\ AlertLives' /\ AnswerNotResent'
    BY <1>0, <1>1, <2>1, <2>4, RetrierRun
       DEF RunsFresh, RetriesOwe, AlertLives, AnswerNotResent, UnderWay, CronTypeOK
  <2>7. FailureTold'
    <3>1. Reachable' = Reachable
      BY <1>0, ReachableKept
    <3> QED BY <1>0, <1>1, <2>1, <2>2, <2>3, <2>4, <3>1 DEF FailureTold
  <2> QED BY <2>5, <2>6, <2>7
<1>4. CASE sendFailureAlert
  <2>1. ChatFates \subseteq Fates /\ ("nobody" \in ChatFates => ~Reachable) /\ ("over" \in ChatFates => shutdown)
    BY DEF ChatFates, Fates
  <2> QED BY <1>2, <1>3, <1>4, <2>1 DEF sendFailureAlert, MailerTo, Tell
<1>5. CASE alertMailDone
  <2>1. MailFates \subseteq Fates /\ "nobody" \notin MailFates /\ ("over" \in MailFates => shutdown)
    BY <1>5, MailFate DEF AlertLives, alertMailDone, Fates
  <2> QED BY <1>3, <1>5, <2>1 DEF alertMailDone, MailerTo, Tell
<1> QED
  BY <1>4, <1>5

\* A step of a retry: it stays owing the mail of its run, or sends it, or has
\* sent it and ends.
RetryGoes(w, v) ==
  /\ mpc[w] # "idle" /\ mpc' = [mpc EXCEPT ![w] = v]
  /\ v \in RetryPcs \ {"idle"}
  /\ v \in Retrying => mpc[w] \in Retrying
  /\ \/ UNCHANGED briefings
     \/ /\ mpc[w] \in Retrying /\ v \notin Retrying
        /\ \E c \in 0 .. MaxAttempts : briefings' = [briefings EXCEPT ![RunOf(w)] = @ + c]
  /\ UNCHANGED <<n, job, fault, outcome, told, shutdown, hasEmail>>
  /\ UNCHANGED dead

LEMMA RetryGoesHolds ==
  ASSUME DeliveryInv, NEW w \in RetryIds, NEW v, RetryGoes(w, v),
         attempt' \in [RetryIds -> 0 .. Delays]
  PROVE  DeliveryInv'
<1> USE DEF DeliveryInv, RetryGoes
<1> DEFINE r == RunOf(w)
<1>0. r \in Runs /\ Retriers[r] = w /\ w # "job" /\ w \in Deliverers
  BY RetrierRun
<1>1. r <= n /\ ~(r = n /\ mpc["job"] \in UnderWay)
  BY <1>0, RetrierRun DEF RunsFresh, CronTypeOK
<1> HIDE DEF r
<1>2. /\ mpc'["job"] = mpc["job"] /\ mpc'[Retriers[r]] = v
      /\ \A i \in Runs : i # r => mpc'[Retriers[i]] = mpc[Retriers[i]]
  BY <1>0, RetrierRun DEF CronTypeOK
<1>3. /\ briefings' \in [Runs -> Nat] /\ briefings'[r] <= MaxAttempts
      /\ v \in Retrying => briefings'[r] = 0
      /\ \A i \in Runs : i # r => briefings'[i] = briefings[i]
  <2>1. mpc[w] \in Retrying => briefings[r] = 0
    BY <1>0 DEF RetriesOwe
  <2>2. briefings[r] <= MaxAttempts
    BY <1>0 DEF AnswerNotResent
  <2>3. CASE briefings' = briefings
    BY <1>0, <2>1, <2>2, <2>3 DEF CronTypeOK
  <2>4. ASSUME mpc[w] \in Retrying, v \notin Retrying,
               NEW c \in 0 .. MaxAttempts, briefings' = [briefings EXCEPT ![r] = @ + c]
        PROVE  <1>3!:
    BY <1>0, <2>1, <2>4 DEF CronTypeOK, MaxAttempts
  <2> QED BY <2>3, <2>4 DEF r
<1>4. CronTypeOK'
  <2>1. mpc' \in [Deliverers -> JobPcs \union RetryPcs]
    BY <1>0 DEF CronTypeOK
  <2>2. \A x \in RetryIds : mpc'[x] \in RetryPcs
    BY <1>0 DEF CronTypeOK
  <2> QED BY <1>2, <1>3, <2>1, <2>2 DEF CronTypeOK
<1>5. RunsFresh'
  <2>1. \A i \in Runs : i > n \/ (i = n /\ mpc["job"] \in UnderWay) => i # r
    BY <1>0, <1>1, RetrierRun DEF CronTypeOK
  <2> QED BY <1>2, <1>3, <2>1 DEF RunsFresh
<1>6. RetriesOwe'
  BY <1>2, <1>3 DEF RetriesOwe
<1>7. FailureTold' /\ AnswerNotResent' /\ AlertLives'
  BY <1>2, <1>3, ReachableKept DEF FailureTold, AnswerNotResent, AlertLives
<1> QED BY <1>4, <1>5, <1>6, <1>7

LEMMA RetryHolds ==
  ASSUME DeliveryInv, NEW w \in RetryIds, retryMorningBriefing(w)
  PROVE  DeliveryInv'
<1>0. attempt \in [RetryIds -> 0 .. Delays]
  BY DEF DeliveryInv, CronTypeOK
<1>1. CASE waitUntilRetryDelay(w) \/ beforeAttempt(w) \/ retryDispatch(w)
  <2>1. attempt' = attempt
    BY <1>1 DEF waitUntilRetryDelay, beforeAttempt, retryDispatch
  <2>2. \E v : RetryGoes(w, v)
    BY <1>1 DEF waitUntilRetryDelay, beforeAttempt, retryDispatch, MailerTo, RetryGoes,
       RetryPcs, Retrying, authVars
  <2> QED BY <1>0, <2>1, <2>2, RetryGoesHolds
<1>2. CASE retryDelivery(w)
  <2>1. PICK o \in MailOutcomes(w) :
          Took(w, o) /\ MailerTo(w, IF o.ok THEN "done" ELSE "retryFailLast")
    BY <1>2 DEF retryDelivery
  <2>2. /\ mpc[w] = "retryMail" /\ attempt' = attempt
        /\ UNCHANGED <<n, job, fault, outcome, told, shutdown, hasEmail, dead>>
    BY <1>2 DEF retryDelivery, MailReturns
  <2>3. \E c \in 0 .. MaxAttempts : briefings' = [briefings EXCEPT ![RunOf(w)] = @ + c]
    BY <2>1, CopiesBounded DEF Took
  <2>4. RetryGoes(w, IF o.ok THEN "done" ELSE "retryFailLast")
    <3>1. mpc' = [mpc EXCEPT ![w] = IF o.ok THEN "done" ELSE "retryFailLast"]
      BY <2>1 DEF MailerTo
    <3>2. /\ mpc[w] # "idle" /\ mpc[w] \in Retrying
          /\ (IF o.ok THEN "done" ELSE "retryFailLast") \in RetryPcs \ {"idle"}
          /\ (IF o.ok THEN "done" ELSE "retryFailLast") \notin Retrying
      BY <2>2 DEF RetryPcs, Retrying
    <3> QED BY <2>2, <2>3, <3>1, <3>2 DEF RetryGoes
  <2> QED BY <1>0, <2>2, <2>4, RetryGoesHolds
<1>3. CASE sendRetryFailureEmail(w)
  <2>1. attempt' \in [RetryIds -> 0 .. Delays]
    BY <1>0, <1>3, DelaysAssumption DEF sendRetryFailureEmail
  <2>2. \E v : RetryGoes(w, v)
    BY <1>3 DEF sendRetryFailureEmail, MailReturns, MailerTo, RetryGoes, RetryPcs, Retrying
  <2> QED BY <2>1, <2>2, RetryGoesHolds
<1> QED BY <1>1, <1>2, <1>3 DEF retryMorningBriefing

LEMMA DeliveryStep ==
  ASSUME DeliveryInv, [DeliveryNext]_deliveryVars
  PROVE  DeliveryInv'
<1>1. CASE (AuthNext /\ UNCHANGED cronVars) \/ UNCHANGED deliveryVars
  BY <1>1, CalmHolds, AuthKeepsDead DEF Calm, cronVars, authVars, deliveryVars
<1>2. CASE JobTimeout \/ Shutdown \/ \E w \in Deliverers : newEmailService(w)
  BY <1>2, CalmHolds DEF JobTimeout, Shutdown, newEmailService, Calm, cronVars
<1>3. CASE \E w \in RetryIds : retryMorningBriefing(w)
  BY <1>3, RetryHolds
<1> QED
  BY <1>1, <1>2, <1>3, StartHolds, DispatchHolds, RunTurnHolds, ResponseHolds, TelegramHolds,
     FailureMailHolds, AlertHolds DEF DeliveryNext, CronNext

\* DeliveryInv is an invariant of the deliveries: for any jobs, any number of
\* runs and of delays, and whatever becomes of the tokens.
THEOREM DeliveryInvariant == DeliverySpec => []DeliveryInv
BY DeliveryInitInv, DeliveryStep, PTL DEF DeliverySpec

\* Exactly one notice of a run that failed, none of one that succeeded, and
\* before the shutdown only the dispatcher's can find its context over
\* (AlreadyNotifiedError, sendFailureAlert).
THEOREM DeliveryFailureTold == DeliverySpec => []FailureTold
<1>1. DeliveryInv => FailureTold
  BY DEF DeliveryInv
<1> QED BY <1>1, DeliveryInvariant, PTL

\* No more mails with the answer of a run than one Send may leave behind
\* (retryMorningBriefing, Send).
THEOREM DeliveryAnswerNotResent == DeliverySpec => []AnswerNotResent
<1>1. DeliveryInv => AnswerNotResent
  BY DEF DeliveryInv
<1> QED BY <1>1, DeliveryInvariant, PTL

\* No retry begins a turn after the shutdown (waitUntilRetryDelay,
\* retryMorningBriefing).
THEOREM DeliveryNoTurnAfterShutdown == DeliverySpec => NoTurnAfterShutdown
<1> DEFINE A == \A w \in RetryIds : shutdown /\ mpc'[w] = "retryTurn" => mpc[w] = "retryTurn"
<1>1. ASSUME DeliveryInv, [DeliveryNext]_deliveryVars, ~UNCHANGED mpc PROVE A
  <2>0. mpc \in [Deliverers -> JobPcs \union RetryPcs]
    BY <1>1 DEF DeliveryInv, CronTypeOK
  <2>1. CASE \E v \in JobPcs : mpc' = [mpc EXCEPT !["job"] = v]
    BY <2>0, <2>1, RetrierRun
  <2>2. CASE handleMorningBriefingDispatchFailure
    <3>1. n \in Runs
      BY <1>1, <2>2, RetrierRun
         DEF handleMorningBriefingDispatchFailure, DeliveryInv, RunsFresh, CronTypeOK
    <3> QED BY <2>0, <2>2, <3>1, RetrierRun
               DEF handleMorningBriefingDispatchFailure, AlreadyNotified
  <2>3. ASSUME NEW w \in RetryIds, retryMorningBriefing(w) PROVE A
    <3>1. \E v : mpc' = [mpc EXCEPT ![w] = v] /\ (shutdown => v # "retryTurn")
      BY <2>3 DEF retryMorningBriefing, waitUntilRetryDelay, beforeAttempt, retryDispatch,
         retryDelivery, sendRetryFailureEmail, MailerTo
    <3> QED BY <2>0, <3>1, RetrierRun
  <2>4. CASE \/ executeJobStarts \/ Dispatch \/ RunTurn \/ sendEmailResponse
             \/ sendTelegramResponse \/ sendFailureAlert \/ alertMailDone
    <3>1. \E v \in JobPcs : mpc' = [mpc EXCEPT !["job"] = v]
      BY <2>4 DEF executeJobStarts, Dispatch, RunTurn, sendEmailResponse, sendTelegramResponse,
         sendFailureAlert, alertMailDone, dispatchEmail, dispatchOther, Succeed, FailPlain,
         MailerTo, JobPcs
    <3> QED BY <2>1, <3>1
  <2> QED
    BY <1>1, <2>2, <2>3, <2>4 DEF DeliveryNext, CronNext, JobTimeout, Shutdown, newEmailService,
       cronVars, deliveryVars
<1>2. ASSUME DeliveryInv, [DeliveryNext]_deliveryVars PROVE [A]_deliveryVars
  BY <1>1, <1>2
<1> QED
  BY <1>2, DeliveryInvariant, PTL DEF DeliverySpec, NoTurnAfterShutdown
-----------------------------------------------------------------------------
(***************************************************************************)
(* Start and stop (Lifecycle, Consolidation).                              *)
(***************************************************************************)
\* A worker that compares, inserts or embeds has a fact in hand.
FactInHand == \A w \in Workers : wpc[w] \in {"compare", "insert", "vector"} => fact[w] \in Facts

\* The counter counts the workers, and done is closed when it has come to
\* zero after Shutdown.
WorkersCounted ==
  /\ active = Cardinality(Running)
  /\ closes = IF closed /\ active = 0 THEN 1 ELSE 0

\* Workers run, and Shutdown is called, only for a consolidator that is
\* bound; cleanup comes after Shutdown, and either the workers are gone or
\* the join timed out, and only in the first case it goes on to the servers
\* and stores; the store is closed after that.
JoinOrder ==
  /\ ~owned => active = 0 /\ ~closed
  /\ pc \in {"boot", "telegram", "hooks", "idempotency", "consolidator"} => ~owned
  /\ pc = "joining" => closed
  /\ pc = "cleanup" /\ owned => closed /\ (drainTimedOut \/ active = 0)
  /\ pc = "mcpCleanup" /\ owned => closed /\ active = 0
  /\ memStore = "closed" => active = 0 /\ (owned => closed)

LifeInv == ConsTypeOK /\ FactInHand /\ WorkersCounted /\ JoinOrder

LEMMA RunningCounts ==
  ASSUME WorkersCounted
  PROVE  /\ IsFiniteSet(Running) /\ active \in 0 .. Cardinality(Workers)
         /\ active = 0 <=> Running = {}
<1>1. Running \subseteq Workers
  BY DEF Running
<1> QED BY <1>1, WorkersAssumption, FS_Subset, FS_EmptySet, FS_CardinalityType DEF WorkersCounted

LEMMA LifeInitInv ==
  ASSUME ConsInit, LifeInit
  PROVE  LifeInv
<1>1. Running = {}
  BY DEF ConsInit, Running
<1>2. Cardinality(Running) = 0 /\ Cardinality(Workers) \in Nat
  BY <1>1, WorkersAssumption, FS_EmptySet, FS_CardinalityType
<1>3. ConsTypeOK
  <2>1. rows \in [Facts -> 0 .. MaxRows] /\ active \in 0 .. Cardinality(Workers) /\ closes \in Nat
    BY <1>2, MaxRowsAssumption DEF ConsInit
  <2>2. {vector, stopped, replies, closed} \subseteq BOOLEAN
    BY DEF ConsInit
  <2> QED BY <2>1, <2>2 DEF ConsInit, ConsTypeOK
<1> QED
  BY <1>2, <1>3 DEF ConsInit, LifeInit, LifeInv, FactInHand, WorkersCounted, JoinOrder

\* Steps that leave the workers and the join alone.
LEMMA QuietHolds ==
  ASSUME LifeInv, UNCHANGED <<workVars, joinVars, owned>>,
         ConsTypeOK',
         memStore' = "closed" => memStore = "closed",
         \/ pc' = pc /\ drainTimedOut' = drainTimedOut
         \/ /\ pc' \in {"boot", "telegram", "hooks", "idempotency", "consolidator"} => ~owned
            /\ pc' # "joining"
            /\ pc' \in {"cleanup", "mcpCleanup"} => ~owned
  PROVE  LifeInv'
BY DEF LifeInv, FactInHand, WorkersCounted, JoinOrder, workVars, joinVars, Running

\* Steps of a worker that go on.
LEMMA WorkerGoesHolds ==
  ASSUME LifeInv, NEW w \in Workers, wpc[w] # "off",
         NEW v \in {"extract", "index", "compare", "insert", "vector", "save", "cleanup", "exit"},
         wpc' = [wpc EXCEPT ![w] = v],
         UNCHANGED <<joinVars, lifeVars, memStore>>,
         ConsTypeOK', FactInHand'
  PROVE  LifeInv'
<1>1. Running' = Running
  BY DEF Running, LifeInv, ConsTypeOK
<1> QED
  BY <1>1 DEF LifeInv, WorkersCounted, JoinOrder, joinVars, lifeVars

LEMMA WorkerStepHolds ==
  ASSUME LifeInv, NEW w \in Workers, UNCHANGED lifeVars,
         \/ extractFacts(w) \/ nextFact(w) \/ indexFacts(w) \/ IndexWithImportance(w)
         \/ indexVectorFact(w) \/ saveVectors(w) \/ cleanupNamespaces(w)
  PROVE  LifeInv'
<1> USE DEF LifeInv, FactInHand, ConsTypeOK, WAt, WGoto, Forget, storeVars
<1>1. CASE extractFacts(w)
  <2>1. PICK v \in {"index", "exit"} : wpc' = [wpc EXCEPT ![w] = v]
    BY <1>1 DEF extractFacts
  <2>2. todo' \in [Workers -> SUBSET Facts]
    BY <1>1 DEF extractFacts, parseScoredFacts
  <2>3. ConsTypeOK' /\ FactInHand'
    BY <1>1, <2>1, <2>2 DEF extractFacts, joinVars
  <2> QED BY <1>1, <2>1, <2>3, WorkerGoesHolds DEF extractFacts
<1>2. CASE nextFact(w)
  <2>1. CASE WGoto(w, "save") /\ UNCHANGED <<todo, fact>>
    <3>1. ConsTypeOK' /\ FactInHand'
      BY <1>2, <2>1 DEF nextFact, joinVars
    <3> QED BY <1>2, <2>1, <3>1, WorkerGoesHolds DEF nextFact
  <2>2. CASE WGoto(w, "compare") /\ \E f \in todo[w] :
               todo' = [todo EXCEPT ![w] = @ \ {f}] /\ fact' = [fact EXCEPT ![w] = f]
    <3>1. ConsTypeOK' /\ FactInHand'
      BY <1>2, <2>2 DEF nextFact, joinVars
    <3> QED BY <1>2, <2>2, <3>1, WorkerGoesHolds DEF nextFact
  <2> QED BY <1>2, <2>1, <2>2 DEF nextFact
<1>3. CASE indexFacts(w)
  <2>1. PICK v \in {"index", "save", "insert"} :
          wpc' = [wpc EXCEPT ![w] = v] /\ IF v = "insert" THEN UNCHANGED fact ELSE Forget(w)
    BY <1>3 DEF indexFacts
  <2>2. ConsTypeOK' /\ FactInHand'
    BY <1>3, <2>1 DEF indexFacts, joinVars
  <2> QED BY <1>3, <2>1, <2>2, WorkerGoesHolds DEF indexFacts
<1>4. CASE IndexWithImportance(w)
  <2>1. CASE fact[w] \in Inserts /\ rows' = [rows EXCEPT ![fact[w]] = @ + 1]
             /\ WGoto(w, "vector") /\ UNCHANGED fact
    <3>1. rows' \in [Facts -> 0 .. MaxRows]
      BY <2>1, MaxRowsAssumption DEF Inserts
    <3>2. ConsTypeOK' /\ FactInHand'
      BY <1>4, <2>1, <3>1 DEF IndexWithImportance, joinVars
    <3> QED BY <1>4, <2>1, <3>2, WorkerGoesHolds DEF IndexWithImportance
  <2>2. CASE WGoto(w, "index") /\ Forget(w) /\ UNCHANGED rows
    <3>1. ConsTypeOK' /\ FactInHand'
      BY <1>4, <2>2 DEF IndexWithImportance, joinVars
    <3> QED BY <1>4, <2>2, <3>1, WorkerGoesHolds DEF IndexWithImportance
  <2> QED BY <1>4, <2>1, <2>2 DEF IndexWithImportance
<1>5. CASE indexVectorFact(w)
  <2>1. docs' \subseteq Facts /\ saved' \subseteq docs'
    BY <1>5 DEF indexVectorFact
  <2>2. ConsTypeOK' /\ FactInHand'
    BY <1>5, <2>1 DEF indexVectorFact, joinVars
  <2> QED BY <1>5, <2>2, WorkerGoesHolds DEF indexVectorFact
<1>6. CASE saveVectors(w)
  <2>1. PICK v \in {"exit", "cleanup"} : wpc' = [wpc EXCEPT ![w] = v]
    BY <1>6 DEF saveVectors
  <2>2. ConsTypeOK' /\ FactInHand'
    BY <1>6, <2>1 DEF saveVectors, joinVars
  <2> QED BY <1>6, <2>1, <2>2, WorkerGoesHolds DEF saveVectors
<1>7. CASE cleanupNamespaces(w)
  <2>1. rows' \in [Facts -> 0 .. MaxRows]
    BY <1>7, MaxRowsAssumption DEF cleanupNamespaces
  <2>2. ConsTypeOK' /\ FactInHand'
    BY <1>7, <2>1 DEF cleanupNamespaces, joinVars
  <2> QED BY <1>7, <2>2, WorkerGoesHolds DEF cleanupNamespaces
<1> QED BY <1>1, <1>2, <1>3, <1>4, <1>5, <1>6, <1>7

LEMMA WorkerDoneHolds ==
  ASSUME LifeInv, NEW w \in Workers, UNCHANGED lifeVars, workerDone(w)
  PROVE  LifeInv'
<1> USE DEF WAt, WGoto
<1>1. Running' = Running \ {w} /\ w \in Running
  BY DEF workerDone, Running, LifeInv, ConsTypeOK
<1>2. Cardinality(Running') = Cardinality(Running) - 1
  BY <1>1, RunningCounts, FS_RemoveElement DEF LifeInv
<1>3. active' = Cardinality(Running') /\ active \in Nat /\ active # 0
  BY <1>1, <1>2, RunningCounts DEF workerDone, LifeInv, WorkersCounted, ConsTypeOK
<1>4. WorkersCounted'
  BY <1>3 DEF workerDone, LifeInv, WorkersCounted, CloseDone
<1>5. ConsTypeOK'
  <2>1. active' \in 0 .. Cardinality(Workers)
    BY <1>3, WorkersAssumption, FS_CardinalityType DEF workerDone, LifeInv, ConsTypeOK
  <2>2. closes' \in Nat
    BY DEF workerDone, LifeInv, ConsTypeOK
  <2> QED BY <2>1, <2>2 DEF workerDone, LifeInv, ConsTypeOK, storeVars
<1>6. FactInHand'
  BY DEF workerDone, LifeInv, FactInHand, ConsTypeOK
<1>7. JoinOrder'
  BY <1>3 DEF workerDone, LifeInv, JoinOrder, lifeVars
<1> QED BY <1>4, <1>5, <1>6, <1>7 DEF LifeInv

LEMMA ExpireHolds ==
  ASSUME LifeInv, NEW w \in Workers, UNCHANGED lifeVars, Expire(w)
  PROVE  LifeInv'
BY DEF Expire, LifeInv, ConsTypeOK, FactInHand, WorkersCounted, JoinOrder, Running, lifeVars,
   storeVars, joinVars

\* A worker is admitted while the consolidator is bound and not shut down.
LEMMA AdmitHolds ==
  ASSUME LifeInv, NEW w \in Workers, owned, ConsolidateAsync(w),
         UNCHANGED <<pc, owned, drainTimedOut>>
  PROVE  LifeInv'
<1> USE DEF WAt, WGoto
<1>1. Running' = Running \union {w} /\ w \notin Running
  BY DEF ConsolidateAsync, Running, LifeInv, ConsTypeOK
<1>2. Cardinality(Running') = Cardinality(Running) + 1 /\ IsFiniteSet(Running')
  BY <1>1, RunningCounts, FS_AddElement DEF LifeInv
<1>3. ~closed /\ active \in Nat
  BY DEF ConsolidateAsync, Admitted, LifeInv, ConsTypeOK
<1>4. WorkersCounted'
  BY <1>2, <1>3 DEF ConsolidateAsync, LifeInv, WorkersCounted
<1>5. active' \in 0 .. Cardinality(Workers)
  <2>1. Running' \subseteq Workers
    BY DEF Running
  <2> QED BY <1>4, <2>1, WorkersAssumption, FS_Subset, FS_CardinalityType DEF WorkersCounted
<1>6. ConsTypeOK'
  BY <1>5 DEF ConsolidateAsync, LifeInv, ConsTypeOK, storeVars
<1>7. FactInHand'
  BY DEF ConsolidateAsync, LifeInv, FactInHand, ConsTypeOK
<1>8. JoinOrder'
  BY <1>3 DEF ConsolidateAsync, LifeInv, JoinOrder
<1> QED BY <1>4, <1>6, <1>7, <1>8 DEF LifeInv

LEMMA MainHolds ==
  ASSUME LifeInv, MainNext
  PROVE  LifeInv'
<1> USE DEF Goto, bootVars
<1>0. ConsTypeOK /\ JoinOrder
  BY DEF LifeInv
<1>1. CASE \/ initializeStartupTelegram \/ InitIdempotency \/ StartGateway \/ StartDashboard
           \/ StartTelegramBot \/ publishStartupReady \/ StartCron \/ StartHeartbeat
           \/ DrainGoroutines \/ RunAgentReturns
  <2>1. UNCHANGED consVars /\ owned' = owned
    BY <1>1 DEF initializeStartupTelegram, InitIdempotency, StartGateway, StartDashboard,
       StartTelegramBot, publishStartupReady, StartCron, StartHeartbeat, DrainGoroutines,
       RunAgentReturns, StartPart
  <2>2. /\ pc' \in {"hooks", "consolidator"} \/ pc' = "cleanup" => pc \in {"telegram", "idempotency"}
        /\ pc' \notin {"boot", "telegram", "idempotency", "joining", "mcpCleanup"}
    BY <1>1 DEF initializeStartupTelegram, InitIdempotency, StartGateway, StartDashboard,
       StartTelegramBot, publishStartupReady, StartCron, StartHeartbeat, DrainGoroutines,
       RunAgentReturns, StartPart
  <2>3. ConsTypeOK'
    BY <1>0, <2>1 DEF ConsTypeOK, consVars, storeVars, joinVars, workVars
  <2> QED BY <1>0, <2>1, <2>2, <2>3, QuietHolds DEF JoinOrder, consVars
<1>2. CASE BuildAgentStack
  <2>1. ConsTypeOK'
    BY <1>0, <1>2 DEF BuildAgentStack, InitMemory, InitVectorStore, ConsTypeOK, storeVars,
       joinVars, workVars
  <2> QED BY <1>0, <1>2, <2>1, QuietHolds DEF BuildAgentStack, InitMemory, JoinOrder
<1>3. CASE SetupHooks \/ waitForShutdownTrigger
  <2>1. ConsTypeOK'
    BY <1>0, <1>3 DEF SetupHooks, waitForShutdownTrigger, ConsTypeOK, storeVars, joinVars, workVars
  <2> QED BY <1>0, <1>3, <2>1, QuietHolds DEF SetupHooks, waitForShutdownTrigger, JoinOrder
<1>4. CASE SetupConsolidator
  <2>1. ConsTypeOK' /\ FactInHand' /\ WorkersCounted'
    BY <1>4 DEF SetupConsolidator, LifeInv, ConsTypeOK, FactInHand, WorkersCounted, Running,
       consVars, storeVars, joinVars, workVars
  <2>2. JoinOrder'
    BY <1>0, <1>4 DEF SetupConsolidator, JoinOrder, consVars, joinVars
  <2> QED BY <2>1, <2>2 DEF LifeInv
<1>5. CASE shutdownConsolidation
  <2>1. CASE ~owned
    <3>1. ConsTypeOK'
      BY <1>0, <1>5, <2>1 DEF shutdownConsolidation, ConsTypeOK, storeVars, joinVars, workVars
    <3> QED BY <1>5, <2>1, <3>1, QuietHolds DEF shutdownConsolidation
  <2>2. CASE owned
    <3>1. closed' = TRUE /\ active' = active /\ pc' = "joining"
          /\ closes' = IF ~closed /\ active = 0 THEN closes + 1 ELSE closes
      BY <1>5, <2>2 DEF shutdownConsolidation, ShutdownCloses
    <3>2. WorkersCounted'
      BY <1>5, <3>1 DEF shutdownConsolidation, LifeInv, WorkersCounted, Running, workVars
    <3>3. ConsTypeOK' /\ FactInHand'
      BY <1>5, <3>1, <3>2 DEF shutdownConsolidation, LifeInv, ConsTypeOK, FactInHand,
         WorkersCounted, storeVars, workVars
    <3>4. JoinOrder'
      BY <1>0, <1>5, <2>2, <3>1 DEF shutdownConsolidation, JoinOrder
    <3> QED BY <3>2, <3>3, <3>4 DEF LifeInv
  <2> QED BY <2>1, <2>2
<1>6. CASE joinConsolidation
  <2>1. ConsTypeOK' /\ FactInHand' /\ WorkersCounted'
    BY <1>6 DEF joinConsolidation, LifeInv, ConsTypeOK, FactInHand, WorkersCounted, Running,
       consVars, storeVars, joinVars, workVars
  <2>2. JoinOrder'
    BY <1>6, <1>0 DEF joinConsolidation, LifeInv, JoinOrder, WorkersCounted, consVars, joinVars
  <2> QED BY <2>1, <2>2 DEF LifeInv
<1>7. CASE runWithStackCleanup
  <2>1. ConsTypeOK' /\ FactInHand' /\ WorkersCounted'
    BY <1>7 DEF runWithStackCleanup, LifeInv, ConsTypeOK, FactInHand, WorkersCounted, Running,
       consVars, storeVars, joinVars, workVars
  <2>2. JoinOrder'
    BY <1>7, <1>0 DEF runWithStackCleanup, Retained, JoinOrder, consVars, joinVars
  <2> QED BY <2>1, <2>2 DEF LifeInv
<1>8. CASE mcpCleanup
  <2>1. ConsTypeOK' /\ FactInHand' /\ WorkersCounted'
    BY <1>8 DEF mcpCleanup, LifeInv, ConsTypeOK, FactInHand, WorkersCounted, Running,
       storeVars, joinVars, workVars
  <2>2. JoinOrder'
    BY <1>8, <1>0 DEF mcpCleanup, JoinOrder, joinVars
  <2> QED BY <2>1, <2>2 DEF LifeInv
<1>9. CASE vecCleanup
  <2>1. ConsTypeOK'
    BY <1>0, <1>9 DEF vecCleanup, ConsTypeOK, joinVars, workVars
  <2> QED BY <1>9, <2>1, QuietHolds DEF vecCleanup
<1> QED BY <1>1, <1>2, <1>3, <1>4, <1>5, <1>6, <1>7, <1>8, <1>9 DEF MainNext, UnblockedMain

LEMMA LifeStep ==
  ASSUME LifeInv, [LifeNext]_<<consVars, lifeVars>>
  PROVE  LifeInv'
<1>0. ConsTypeOK
  BY DEF LifeInv
<1>1. CASE GoroutineNext \/ Signal \/ UNCHANGED <<consVars, lifeVars>>
  <2>1. UNCHANGED <<consVars, owned, pc, drainTimedOut>>
    BY <1>1 DEF GoroutineNext, Signal, lifeVars, bootVars
  <2>2. ConsTypeOK'
    BY <1>0, <2>1 DEF ConsTypeOK, consVars, storeVars, joinVars, workVars
  <2> QED BY <2>1, <2>2, QuietHolds DEF consVars
<1>2. CASE CallerCancels
  <2>1. ConsTypeOK'
    BY <1>0, <1>2 DEF CallerCancels, ConsTypeOK, storeVars, joinVars, workVars
  <2> QED BY <1>2, <2>1, QuietHolds DEF CallerCancels, bootVars
<1>3. CASE TurnNext
  <2>1. PICK t \in Turns : StartTurn(t) \/ consolidateDropped(t) \/ Handle(t) \/ Consolidate(t)
    BY <1>3 DEF TurnNext
  <2>2. UNCHANGED <<owned, pc, drainTimedOut>>
    BY <2>1 DEF StartTurn, consolidateDropped, Handle, Consolidate, TurnFrame
  <2>3. CASE UNCHANGED consVars
    <3>1. ConsTypeOK'
      BY <1>0, <2>3 DEF ConsTypeOK, consVars, storeVars, joinVars, workVars
    <3> QED BY <2>2, <2>3, <3>1, QuietHolds DEF consVars
  <2>4. CASE Handle(t)
    <3>1. ConsTypeOK'
      BY <1>0, <2>4 DEF Handle, indexMemory, ConsTypeOK, joinVars, workVars
    <3> QED BY <2>2, <2>4, <3>1, QuietHolds DEF Handle
  <2>5. CASE owned /\ \E w \in Workers : ConsolidateAsync(w)
    BY <2>2, <2>5, AdmitHolds
  <2> QED BY <2>1, <2>3, <2>4, <2>5 DEF StartTurn, consolidateDropped, Consolidate
<1>4. CASE WorkerNext /\ UNCHANGED lifeVars
  BY <1>4, WorkerStepHolds, WorkerDoneHolds, ExpireHolds DEF WorkerNext
<1> QED BY <1>1, <1>2, <1>3, <1>4, MainHolds DEF LifeNext

\* LifeInv is an invariant of start and stop, for any number of workers and
\* of turns and any facts.
THEOREM LifeInvariant == LifeSpec => []LifeInv
BY LifeInitInv, LifeStep, PTL DEF LifeSpec

\* The stores are closed only after the last worker, and done only once
\* (Shutdown, workerDone, runWithStackCleanup).
THEOREM LifeStoresOutliveWorkers == LifeSpec => []StoresOutliveWorkers
<1>1. LifeInv => StoresOutliveWorkers
  BY RunningCounts DEF LifeInv, StoresOutliveWorkers, JoinOrder, WorkersCounted
<1> QED BY <1>1, LifeInvariant, PTL
-----------------------------------------------------------------------------
(***************************************************************************)
(* The file of the memory (MemoryStore).                                   *)
(***************************************************************************)
Statements ==
  {Rename(fts, old), Create("v1"), Copy(old, {"v0"}, {"v1", "v2"}), Drop(old), SetVersion(1),
   Rename(fts, v1), Create("v2"), Copy(v1, {"v1", "v2"}, {"v2"}), Drop(v1), SetVersion(2),
   CreateIfNone("v2")}

Left(o) == Len(stmts[o])
Fresh(o) == stmts[o] = migrateFresh

\* Every opener is at a suffix of the longest migration, of which the shorter
\* one is a suffix itself, or creates a fresh table.
AtSuffix(o) ==
  \/ Fresh(o)
  \/ Left(o) <= 10 /\ \A i \in 1 .. Left(o) : stmts[o][i] = migrateLegacy[10 - Left(o) + i]

\* o has renamed memory_fts to t and has still to drop t; it has copied it.
Owns(o, t) == \/ t = old /\ Left(o) \in 7 .. 9
              \/ t = v1 /\ Left(o) \in 2 .. 4 /\ ~Fresh(o)
Copied(o, t) == \/ t = old /\ Left(o) = 7
                \/ t = v1 /\ Left(o) = 2 /\ ~Fresh(o)

\* A renamed table has at most one owner, and is there as long as it has one.
OneOwner ==
  \A t \in Tables : \A o \in Openers : Owns(o, t) =>
    Exists(t) /\ \A q \in Openers : Owns(q, t) => q = o

\* A row that counts is in a table that nobody is about to drop.
RowsSafe ==
  \A r \in acked : \E t \in Tables : r \in table[t].rows /\ \A o \in Openers : ~Copied(o, t)

FileInv ==
  /\ \A t \in Tables : ~Exists(t) => table[t].rows = {}
  /\ OneOwner
  /\ RowsSafe

\* Who opens a user's file holds the mutex.
MutexHeld ==
  perUser => \A o \in Openers : opc[o] \in {"version", "legacy", "migrate"} => msMu = o

MemInv ==
  /\ MemTypeOK
  /\ stmts \in [Openers -> Seq(Statements)] /\ \A o \in Openers : AtSuffix(o)
  /\ FileInv
  /\ MutexHeld

LEMMA PlanStatements ==
  /\ migrateLegacy \in Seq(Statements) /\ Len(migrateLegacy) = 10
  /\ migrateLegacy[1] = Rename(fts, old) /\ migrateLegacy[2] = Create("v1")
  /\ migrateLegacy[3] = Copy(old, {"v0"}, {"v1", "v2"}) /\ migrateLegacy[4] = Drop(old)
  /\ migrateLegacy[5] = SetVersion(1) /\ migrateLegacy[6] = Rename(fts, v1)
  /\ migrateLegacy[7] = Create("v2") /\ migrateLegacy[8] = Copy(v1, {"v1", "v2"}, {"v2"})
  /\ migrateLegacy[9] = Drop(v1) /\ migrateLegacy[10] = SetVersion(2)
BY DEF migrateLegacy, migrateV1toV2, Statements

LEMMA ShortPlan ==
  /\ migrateV1toV2 \in Seq(Statements) /\ Len(migrateV1toV2) = 5
  /\ \A i \in 1 .. 5 : migrateV1toV2[i] = migrateLegacy[5 + i]
<1>1. /\ migrateV1toV2 \in Seq(Statements) /\ Len(migrateV1toV2) = 5
      /\ migrateV1toV2[1] = Rename(fts, v1) /\ migrateV1toV2[2] = Create("v2")
      /\ migrateV1toV2[3] = Copy(v1, {"v1", "v2"}, {"v2"}) /\ migrateV1toV2[4] = Drop(v1)
      /\ migrateV1toV2[5] = SetVersion(2)
  BY DEF migrateV1toV2, Statements
<1> QED BY <1>1, PlanStatements

LEMMA FreshPlan ==
  /\ migrateFresh \in Seq(Statements) /\ Len(migrateFresh) = 2
  /\ migrateFresh[1] = CreateIfNone("v2") /\ migrateFresh[2] = SetVersion(2)
BY DEF migrateFresh, Statements

LEMMA TablesDiffer == fts # old /\ fts # v1 /\ old # v1 /\ Tables = {fts, old, v1}
BY DEF fts, old, v1, Tables

(***************************************************************************)
(* What the statements do to FileInv, given what becomes of ownership.     *)
(***************************************************************************)
LEMMA CalmFiles ==
  ASSUME FileInv, UNCHANGED <<table, acked>>,
         \A q \in Openers, u \in Tables : Owns(q, u)' => Owns(q, u),
         \A q \in Openers, u \in Tables : Copied(q, u)' => Copied(q, u)
  PROVE  FileInv'
BY DEF FileInv, OneOwner, RowsSafe, Exists

LEMMA RenameFiles ==
  ASSUME FileInv, table \in [Tables -> [cols : {"none", "v0", "v1", "v2"}, rows : SUBSET Rows]],
         NEW o \in Openers, NEW t \in {old, v1}, Exists(fts), ~Exists(t),
         table' = [table EXCEPT ![fts] = NoTable, ![t] = table[fts]], acked' = acked,
         \A q \in Openers, u \in Tables : Owns(q, u)' => Owns(q, u) \/ (q = o /\ u = t),
         \A q \in Openers, u \in Tables : Copied(q, u)' => Copied(q, u) /\ Owns(q, u)
  PROVE  FileInv'
<1>1. /\ table'[fts] = NoTable /\ table'[t] = table[fts] /\ t \in Tables /\ fts \in Tables
      /\ \A u \in Tables \ {fts, t} : table'[u] = table[u]
  BY TablesDiffer
<1>2. \A q \in Openers : ~Owns(q, t) /\ ~Owns(q, fts) /\ ~Owns(q, fts)'
  BY <1>1, TablesDiffer DEF FileInv, OneOwner, Owns
<1>3. (\A u \in Tables : ~Exists(u) => table[u].rows = {})'
  BY <1>1 DEF FileInv, Exists, NoTable
<1>4. OneOwner'
  BY <1>1, <1>2 DEF FileInv, OneOwner, Exists
<1>5. RowsSafe'
  <2> SUFFICES ASSUME NEW r \in acked
               PROVE  \E u \in Tables : r \in table'[u].rows /\ \A q \in Openers : ~Copied(q, u)'
    BY DEF RowsSafe
  <2>1. PICK u \in Tables : r \in table[u].rows /\ \A q \in Openers : ~Copied(q, u)
    BY DEF FileInv, RowsSafe
  <2>2. u # t
    BY <1>1, <2>1 DEF FileInv
  <2>3. CASE u = fts
    BY <1>1, <1>2, <2>1, <2>3
  <2>4. CASE u # fts
    BY <1>1, <2>1, <2>2, <2>4
  <2> QED BY <2>3, <2>4
<1> QED BY <1>3, <1>4, <1>5 DEF FileInv

LEMMA CreateFiles ==
  ASSUME FileInv, table \in [Tables -> [cols : {"none", "v0", "v1", "v2"}, rows : SUBSET Rows]],
         NEW c \in {"v1", "v2"}, ~Exists(fts),
         table' = [table EXCEPT ![fts] = [cols |-> c, rows |-> {}]], acked' = acked,
         \A q \in Openers, u \in Tables : Owns(q, u)' => Owns(q, u),
         \A q \in Openers, u \in Tables : Copied(q, u)' => Copied(q, u)
  PROVE  FileInv'
<1>1. /\ table'[fts].cols = c /\ table'[fts].rows = {} /\ fts \in Tables
      /\ \A u \in Tables \ {fts} : table'[u] = table[u]
  BY TablesDiffer
<1>2. table[fts].rows = {}
  BY <1>1 DEF FileInv
<1>3. (\A u \in Tables : ~Exists(u) => table[u].rows = {})' /\ OneOwner'
  BY <1>1 DEF FileInv, OneOwner, Exists
<1>4. RowsSafe'
  BY <1>1, <1>2 DEF FileInv, RowsSafe
<1> QED BY <1>3, <1>4 DEF FileInv

LEMMA CopyFiles ==
  ASSUME FileInv, table \in [Tables -> [cols : {"none", "v0", "v1", "v2"}, rows : SUBSET Rows]],
         NEW t \in {old, v1}, Exists(fts),
         table' = [table EXCEPT ![fts].rows = @ \union table[t].rows], acked' = acked,
         \A q \in Openers, u \in Tables : Owns(q, u)' => Owns(q, u),
         \A q \in Openers, u \in Tables : Copied(q, u)' => Copied(q, u) \/ u = t
  PROVE  FileInv'
<1>1. /\ table'[fts].rows = table[fts].rows \union table[t].rows
      /\ table'[fts].cols = table[fts].cols /\ fts \in Tables
      /\ \A u \in Tables \ {fts} : table'[u] = table[u]
  BY TablesDiffer
<1>2. \A q \in Openers : ~Copied(q, fts)'
  BY TablesDiffer DEF Copied
<1>3. (\A u \in Tables : ~Exists(u) => table[u].rows = {})' /\ OneOwner'
  BY <1>1 DEF FileInv, OneOwner, Exists
<1>4. RowsSafe'
  <2> SUFFICES ASSUME NEW r \in acked
               PROVE  \E u \in Tables : r \in table'[u].rows /\ \A q \in Openers : ~Copied(q, u)'
    BY DEF RowsSafe
  <2>1. PICK u \in Tables : r \in table[u].rows /\ \A q \in Openers : ~Copied(q, u)
    BY DEF FileInv, RowsSafe
  <2>2. CASE u \in {fts, t}
    BY <1>1, <1>2, <2>1, <2>2
  <2>3. CASE u \notin {fts, t}
    BY <1>1, <2>1, <2>3
  <2> QED BY <2>2, <2>3
<1> QED BY <1>3, <1>4 DEF FileInv

LEMMA DropFiles ==
  ASSUME FileInv, table \in [Tables -> [cols : {"none", "v0", "v1", "v2"}, rows : SUBSET Rows]],
         NEW o \in Openers, NEW t \in {old, v1}, Copied(o, t), Owns(o, t),
         table' = [table EXCEPT ![t] = NoTable], acked' = acked,
         \A q \in Openers, u \in Tables : Owns(q, u)' => Owns(q, u) /\ ~(q = o /\ u = t),
         \A q \in Openers, u \in Tables : Copied(q, u)' => Copied(q, u)
  PROVE  FileInv'
<1>1. /\ table'[t] = NoTable /\ t \in Tables
      /\ \A u \in Tables \ {t} : table'[u] = table[u]
  BY TablesDiffer
<1>2. (\A u \in Tables : ~Exists(u) => table[u].rows = {})'
  BY <1>1 DEF FileInv, Exists, NoTable
<1>3. \A q \in Openers : ~Owns(q, t)'
  BY <1>1 DEF FileInv, OneOwner
<1>4. OneOwner'
  BY <1>1, <1>3 DEF FileInv, OneOwner, Exists
<1>5. RowsSafe'
  <2> SUFFICES ASSUME NEW r \in acked
               PROVE  \E u \in Tables : r \in table'[u].rows /\ \A q \in Openers : ~Copied(q, u)'
    BY DEF RowsSafe
  <2>1. PICK u \in Tables : r \in table[u].rows /\ \A q \in Openers : ~Copied(q, u)
    BY DEF FileInv, RowsSafe
  <2> QED BY <1>1, <2>1
<1> QED BY <1>2, <1>4, <1>5 DEF FileInv

(***************************************************************************)
(* The steps of the openers.                                               *)
(***************************************************************************)
\* What an opener executes next, and where that takes it.
LEMMA NextStatement ==
  ASSUME MemInv, NEW o \in Openers, stmts[o] # <<>>
  PROVE  /\ Left(o) \in 1 .. 10 /\ Tail(stmts[o]) \in Seq(Statements)
         /\ Len(Tail(stmts[o])) = Left(o) - 1
         /\ \A i \in 1 .. Left(o) - 1 : Tail(stmts[o])[i] = migrateLegacy[10 - (Left(o) - 1) + i]
         /\ IF Fresh(o) THEN Left(o) = 2 /\ Head(stmts[o]) = CreateIfNone("v2")
            ELSE Head(stmts[o]) = migrateLegacy[11 - Left(o)]
<1>1. stmts[o] \in Seq(Statements) /\ AtSuffix(o)
  BY DEF MemInv
<1>2. /\ Left(o) \in Nat \ {0} /\ Tail(stmts[o]) \in Seq(Statements)
      /\ Len(Tail(stmts[o])) = Left(o) - 1 /\ Head(stmts[o]) = stmts[o][1]
      /\ \A i \in 1 .. Left(o) - 1 : Tail(stmts[o])[i] = stmts[o][i + 1]
  BY <1>1 DEF Left
<1>3. CASE Fresh(o)
  <2>1. Left(o) = 2 /\ stmts[o][1] = CreateIfNone("v2") /\ stmts[o][2] = migrateLegacy[10]
    BY <1>3, FreshPlan, PlanStatements DEF Fresh, Left
  <2> QED BY <1>2, <1>3, <2>1
<1>4. CASE ~Fresh(o)
  <2>1. Left(o) <= 10 /\ \A i \in 1 .. Left(o) : stmts[o][i] = migrateLegacy[10 - Left(o) + i]
    BY <1>1, <1>4 DEF AtSuffix
  <2>2. stmts[o][1] = migrateLegacy[11 - Left(o)]
    BY <1>2, <2>1
  <2>3. \A i \in 1 .. Left(o) - 1 : stmts[o][i + 1] = migrateLegacy[10 - (Left(o) - 1) + i]
    BY <1>2, <2>1
  <2>4. \A i \in 1 .. Left(o) - 1 : Tail(stmts[o])[i] = migrateLegacy[10 - (Left(o) - 1) + i]
    BY <1>2, <2>3
  <2>5. Left(o) \in 1 .. 10
    BY <1>2, <2>1
  <2>6. Head(stmts[o]) = migrateLegacy[11 - Left(o)]
    BY <1>2, <2>2
  <2> QED BY <1>2, <1>4, <2>4, <2>5, <2>6
<1> QED BY <1>3, <1>4

LEMMA ExecuteOneHolds ==
  ASSUME MemInv, NEW o \in Openers, stmts[o] # <<>>, Succeeds(Head(stmts[o])),
         table' = Effect(Head(stmts[o])), acked' = acked,
         version' = IF Head(stmts[o]).op = "version" THEN Head(stmts[o]).n ELSE version,
         stmts' = [stmts EXCEPT ![o] = Tail(@)],
         UNCHANGED <<opc, msMu, cached, perUser, memCrashes>>
  PROVE  MemInv'
<1> DEFINE s == Head(stmts[o])
<1> DEFINE typed == [Tables -> [cols : {"none", "v0", "v1", "v2"}, rows : SUBSET Rows]]
<1>0. table \in typed /\ FileInv /\ version \in 0 .. 2
  BY DEF MemInv, MemTypeOK
<1>1. /\ stmts' \in [Openers -> Seq(Statements)] /\ stmts'[o] = Tail(stmts[o])
      /\ Left(o)' = Left(o) - 1 /\ Left(o) \in 1 .. 10
      /\ \A q \in Openers \ {o} : stmts'[q] = stmts[q]
  BY NextStatement DEF MemInv, Left
<1>2. ~Fresh(o)' \/ ~(Left(o)' = 2)
  <2> SUFFICES ASSUME Left(o)' = 2 PROVE stmts'[o] # migrateFresh
    BY DEF Fresh
  <2>1. Tail(stmts[o])[1] = migrateLegacy[9]
    BY <1>1, NextStatement
  <2>2. migrateLegacy[9] # migrateFresh[1]
    BY PlanStatements, FreshPlan DEF Drop, CreateIfNone
  <2> QED BY <1>1, <2>1, <2>2
<1>3. \A q \in Openers : AtSuffix(q)'
  <2>1. \A q \in Openers \ {o} : AtSuffix(q)'
    BY <1>1 DEF MemInv, AtSuffix, Fresh, Left
  <2>2. Left(o)' <= 10 /\ \A i \in 1 .. Left(o)' : stmts'[o][i] = migrateLegacy[10 - Left(o)' + i]
    BY <1>1, NextStatement
  <2> QED BY <2>1, <2>2 DEF AtSuffix
<1>4. \A q \in Openers \ {o}, u \in Tables :
        (Owns(q, u)' <=> Owns(q, u)) /\ (Copied(q, u)' <=> Copied(q, u))
  BY <1>1 DEF Owns, Copied, Fresh, Left
<1>5. \A u \in Tables : Copied(o, u) => Owns(o, u)
  BY DEF Owns, Copied
<1>6. /\ \A u \in Tables :
           Owns(o, u)' <=> (u = old /\ Left(o) \in 8 .. 10) \/ (u = v1 /\ Left(o) \in 3 .. 5)
      /\ \A u \in Tables :
           Copied(o, u)' <=> (u = old /\ Left(o) = 8) \/ (u = v1 /\ Left(o) = 3)
  <2>1. ~Fresh(o)' \/ ~(Left(o)' \in 2 .. 4)
    BY <1>2, FreshPlan DEF Fresh, Left
  <2> QED BY <1>1, <2>1 DEF Owns, Copied
<1>7. ASSUME ~Fresh(o), NEW m \in 1 .. 10, Left(o) = m PROVE s = migrateLegacy[11 - m]
  BY <1>7, NextStatement
<1>8. table' \in typed /\ FileInv' /\ version' \in 0 .. 2
  <2> USE TablesDiffer
  <2>1. CASE Fresh(o)
    <3>1. s = CreateIfNone("v2") /\ Left(o) = 2
      BY <2>1, NextStatement
    <3>2. s.op = "ensure" /\ s.cols = "v2"
      BY <3>1 DEF CreateIfNone
    <3>3. /\ \A q \in Openers, u \in Tables : Owns(q, u)' => Owns(q, u)
          /\ \A q \in Openers, u \in Tables : Copied(q, u)' => Copied(q, u)
      BY <1>4, <1>6, <3>1
    <3>4. CASE Exists(fts)
      <4>1. table' = table
        BY <3>2, <3>4 DEF Effect
      <4> QED BY <1>0, <3>2, <3>3, <4>1, CalmFiles
    <3>5. CASE ~Exists(fts)
      <4>1. table' = [table EXCEPT ![fts] = [cols |-> "v2", rows |-> {}]]
        BY <3>2, <3>5 DEF Effect
      <4>2. FileInv'
        BY <1>0, <3>3, <3>5, <4>1, CreateFiles
      <4> QED BY <1>0, <3>2, <4>1, <4>2
    <3> QED BY <3>4, <3>5
  <2>2. CASE ~Fresh(o) /\ Left(o) \in {1, 6}
    <3>1. s \in {SetVersion(1), SetVersion(2)}
      BY <1>7, <2>2, PlanStatements
    <3>2. s.op = "version" /\ s.n \in 1 .. 2
      BY <3>1 DEF SetVersion
    <3>3. table' = table /\ version' = s.n
      BY <3>2 DEF Effect
    <3> QED BY <1>0, <1>4, <1>6, <2>2, <3>2, <3>3, CalmFiles
  <2>3. CASE ~Fresh(o) /\ Left(o) \in {5, 10}
    <3> DEFINE t == IF Left(o) = 10 THEN old ELSE v1
    <3>1. s = Rename(fts, t)
      BY <1>7, <2>3, PlanStatements
    <3>2. s.op = "rename" /\ s.from = fts /\ s.to = t
      BY <3>1 DEF Rename
    <3>3. Exists(fts) /\ ~Exists(t) /\ table' = [table EXCEPT ![fts] = NoTable, ![t] = table[fts]]
      BY <3>2 DEF Succeeds, Effect
    <3>4. /\ \A q \in Openers, u \in Tables : Owns(q, u)' => Owns(q, u) \/ (q = o /\ u = t)
          /\ \A q \in Openers, u \in Tables : Copied(q, u)' => Copied(q, u) /\ Owns(q, u)
      BY <1>4, <1>6, <2>3 DEF Copied, Owns
    <3>5. t \in {old, v1}
      OBVIOUS
    <3>6. FileInv'
      <4> HIDE DEF t
      <4>1. FileInv /\ table \in typed
        BY <1>0
      <4>2. table' = [table EXCEPT ![fts] = NoTable, ![t] = table[fts]]
        BY <3>3
      <4> QED BY <3>3, <3>4, <3>5, <4>1, <4>2, RenameFiles, ZenonT(60)
    <3> HIDE DEF t
    <3>7. table' \in typed
      <4>1. NoTable \in [cols : {"none", "v0", "v1", "v2"}, rows : SUBSET Rows]
        BY DEF NoTable
      <4>2. t \in Tables /\ fts \in Tables
        BY <3>5 DEF Tables
      <4> QED BY <1>0, <3>3, <4>1, <4>2
    <3>8. version' = version
      BY <3>2 DEF Effect
    <3> QED BY <1>0, <3>6, <3>7, <3>8
  <2>4. CASE ~Fresh(o) /\ Left(o) \in {4, 9}
    <3>1. PICK c \in {"v1", "v2"} : s = Create(c)
      BY <1>7, <2>4, PlanStatements
    <3>2. s.op = "create" /\ s.cols = c
      BY <3>1 DEF Create
    <3>3. ~Exists(fts) /\ table' = [table EXCEPT ![fts] = [cols |-> c, rows |-> {}]]
      BY <3>2 DEF Succeeds, Effect
    <3>4. /\ \A q \in Openers, u \in Tables : Owns(q, u)' => Owns(q, u)
          /\ \A q \in Openers, u \in Tables : Copied(q, u)' => Copied(q, u)
      BY <1>4, <1>6, <2>4 DEF Owns
    <3>5. FileInv'
      BY <1>0, <3>3, <3>4, CreateFiles
    <3> QED BY <1>0, <3>2, <3>3, <3>5
  <2>5. CASE ~Fresh(o) /\ Left(o) \in {3, 8}
    <3> DEFINE t == IF Left(o) = 8 THEN old ELSE v1
    <3>1. s \in {Copy(old, {"v0"}, {"v1", "v2"}), Copy(v1, {"v1", "v2"}, {"v2"})}
          /\ s.from = t
      BY <1>7, <2>5, PlanStatements DEF Copy
    <3>2. s.op = "copy" /\ s.into \subseteq {"v1", "v2"}
      BY <3>1 DEF Copy
    <3>3. Exists(fts) /\ table' = [table EXCEPT ![fts].rows = @ \union table[t].rows]
      BY <3>1, <3>2 DEF Succeeds, Effect, Exists
    <3>4. /\ \A q \in Openers, u \in Tables : Owns(q, u)' => Owns(q, u)
          /\ \A q \in Openers, u \in Tables : Copied(q, u)' => Copied(q, u) \/ u = t
      BY <1>4, <1>6, <2>5 DEF Owns
    <3>5. t \in {old, v1}
      OBVIOUS
    <3>6. FileInv'
      BY <1>0, <3>3, <3>4, <3>5, CopyFiles
    <3> QED BY <1>0, <3>2, <3>3, <3>5, <3>6
  <2>6. CASE ~Fresh(o) /\ Left(o) \in {2, 7}
    <3> DEFINE t == IF Left(o) = 7 THEN old ELSE v1
    <3>1. s = Drop(t)
      BY <1>7, <2>6, PlanStatements
    <3>2. s.op = "drop" /\ s.from = t
      BY <3>1 DEF Drop
    <3>3. table' = [table EXCEPT ![t] = NoTable]
      BY <3>2 DEF Effect
    <3>4. /\ \A q \in Openers, u \in Tables : Owns(q, u)' => Owns(q, u) /\ ~(q = o /\ u = t)
          /\ \A q \in Openers, u \in Tables : Copied(q, u)' => Copied(q, u)
      BY <1>4, <1>6, <2>6 DEF Owns
    <3>5. t \in {old, v1} /\ Copied(o, t) /\ Owns(o, t)
      BY <2>6 DEF Copied, Owns
    <3> HIDE DEF t
    <3>6. FileInv'
      BY <1>0, <3>3, <3>4, <3>5, DropFiles
    <3> QED BY <1>0, <3>2, <3>3, <3>5, <3>6 DEF NoTable
  <2> QED BY <1>1, <2>1, <2>2, <2>3, <2>4, <2>5, <2>6
<1> QED BY <1>1, <1>3, <1>8 DEF MemInv, MemTypeOK, MutexHeld

\* Steps that do not touch the file.
LEMMA OpenerGoesHolds ==
  ASSUME MemInv, NEW o \in Openers, UNCHANGED <<fileVars, perUser>>,
         opc' \in [Openers -> {"off", "mutex", "version", "legacy", "migrate", "open", "without"}],
         msMu' \in Openers \union {Nobody}, cached' \in BOOLEAN, memCrashes' \in 0 .. MaxMemCrashes,
         MutexHeld',
         stmts' \in [Openers -> Seq(Statements)],
         \A q \in Openers :
           \/ stmts'[q] = stmts[q]
           \/ stmts'[q] \in {<<>>, migrateV1toV2, migrateLegacy, migrateFresh}
  PROVE  MemInv'
<1>1. MemTypeOK'
  BY DEF MemInv, MemTypeOK, fileVars
<1>2. \A q \in Openers : AtSuffix(q)'
  <2> SUFFICES ASSUME NEW q \in Openers PROVE AtSuffix(q)'
    OBVIOUS
  <2>1. CASE stmts'[q] = stmts[q]
    BY <2>1 DEF MemInv, AtSuffix, Left, Fresh
  <2>2. CASE stmts'[q] = <<>>
    BY <2>2 DEF AtSuffix, Left
  <2>3. CASE stmts'[q] = migrateV1toV2
    BY <2>3, ShortPlan DEF AtSuffix, Left
  <2>4. CASE stmts'[q] = migrateLegacy
    BY <2>4, PlanStatements DEF AtSuffix, Left
  <2>5. CASE stmts'[q] = migrateFresh
    BY <2>5 DEF AtSuffix, Fresh
  <2> QED BY <2>1, <2>2, <2>3, <2>4, <2>5
<1>3. \A q \in Openers, u \in Tables : (Owns(q, u)' => Owns(q, u)) /\ (Copied(q, u)' => Copied(q, u))
  <2> SUFFICES ASSUME NEW q \in Openers, NEW u \in Tables
               PROVE  (Owns(q, u)' => Owns(q, u)) /\ (Copied(q, u)' => Copied(q, u))
    OBVIOUS
  <2>1. CASE stmts'[q] = stmts[q]
    BY <2>1 DEF Owns, Copied, Fresh, Left
  <2>2. CASE stmts'[q] \in {<<>>, migrateV1toV2, migrateLegacy, migrateFresh}
    <3>1. Left(q)' \in {0, 5, 10} \/ (Fresh(q)' /\ Left(q)' = 2)
      BY <2>2, PlanStatements, ShortPlan, FreshPlan DEF Left, Fresh
    <3> QED BY <3>1 DEF Owns, Copied
  <2> QED BY <2>1, <2>2
<1>4. FileInv'
  BY <1>3, CalmFiles DEF MemInv, fileVars
<1> QED BY <1>1, <1>2, <1>4 DEF MemInv

LEMMA OpenersHold ==
  ASSUME MemInv, NEW o \in Openers,
         \/ GetMemoryStore(o) \/ NewMemoryStore(o) \/ initMemorySchema(o) \/ migrateV0(o)
         \/ CloseStore(o) \/ CrashMemory(o)
  PROVE  MemInv'
<1> USE DEF OpenerAt, OpenerTo
<1>0. /\ opc \in [Openers -> {"off", "mutex", "version", "legacy", "migrate", "open", "without"}]
      /\ msMu \in Openers \union {Nobody} /\ cached \in BOOLEAN /\ memCrashes \in 0 .. MaxMemCrashes
      /\ stmts \in [Openers -> Seq(Statements)] /\ MutexHeld
  BY DEF MemInv, MemTypeOK
<1>1. CASE GetMemoryStore(o)
  <2>1. /\ UNCHANGED <<fileVars, perUser, stmts, cached, memCrashes>>
        /\ opc' \in [Openers -> {"off", "mutex", "version", "legacy", "migrate", "open", "without"}]
        /\ msMu' \in Openers \union {Nobody}
    BY <1>0, <1>1 DEF GetMemoryStore
  <2>2. MutexHeld'
    BY <1>0, <1>1, NobodyAssumption DEF GetMemoryStore, MutexHeld
  <2> QED BY <1>0, <2>1, <2>2, OpenerGoesHolds
<1>2. CASE NewMemoryStore(o) \/ CloseStore(o)
  <2>1. /\ UNCHANGED <<fileVars, perUser, stmts, msMu, cached, memCrashes>> /\ ~perUser
        /\ opc' \in [Openers -> {"off", "mutex", "version", "legacy", "migrate", "open", "without"}]
    BY <1>0, <1>2 DEF NewMemoryStore, CloseStore
  <2>2. MutexHeld'
    BY <2>1 DEF MutexHeld
  <2> QED BY <1>0, <2>1, <2>2, OpenerGoesHolds
<1>3. CASE initMemorySchema(o) \/ migrateV0(o)
  <2>1. /\ UNCHANGED <<fileVars, perUser, msMu, cached, memCrashes>>
        /\ opc[o] \in {"version", "legacy"}
        /\ \E v \in {"legacy", "migrate"} : opc' = [opc EXCEPT ![o] = v]
    BY <1>3 DEF initMemorySchema, migrateV0, Begin
  <2>2. \/ stmts' = stmts
        \/ \E S \in {<<>>, migrateV1toV2, migrateLegacy, migrateFresh} : stmts' = [stmts EXCEPT ![o] = S]
    BY <1>3 DEF initMemorySchema, migrateV0, Begin
  <2>3. /\ stmts' \in [Openers -> Seq(Statements)]
        /\ \A q \in Openers : \/ stmts'[q] = stmts[q]
                             \/ stmts'[q] \in {<<>>, migrateV1toV2, migrateLegacy, migrateFresh}
    <3>1. {<<>>, migrateV1toV2, migrateLegacy, migrateFresh} \subseteq Seq(Statements)
      BY PlanStatements, ShortPlan, FreshPlan
    <3> QED BY <1>0, <2>2, <3>1
  <2>4. MutexHeld'
    BY <1>0, <2>1 DEF MutexHeld
  <2>5. opc' \in [Openers -> {"off", "mutex", "version", "legacy", "migrate", "open", "without"}]
    BY <1>0, <2>1
  <2> QED BY <1>0, <2>1, <2>3, <2>4, <2>5, OpenerGoesHolds
<1>4. CASE CrashMemory(o)
  <2> DEFINE gone == IF perUser THEN Openers ELSE {o}
  <2>1. /\ UNCHANGED <<fileVars, perUser>> /\ cached' \in BOOLEAN /\ msMu' = Nobody
        /\ opc' = [q \in Openers |-> IF q \in gone THEN "off" ELSE opc[q]]
        /\ stmts' = [q \in Openers |-> IF q \in gone THEN <<>> ELSE stmts[q]]
    BY <1>4 DEF CrashMemory
  <2>2. memCrashes' \in 0 .. MaxMemCrashes
    BY <1>0, <1>4, MaxMemCrashesAssumption DEF CrashMemory
  <2>3. opc' \in [Openers -> {"off", "mutex", "version", "legacy", "migrate", "open", "without"}]
    BY <1>0, <2>1
  <2>4. stmts' \in [Openers -> Seq(Statements)]
    BY <1>0, <2>1
  <2>5. MutexHeld'
    BY <2>1 DEF MutexHeld
  <2>6. \A q \in Openers : stmts'[q] \in {<<>>, stmts[q]}
    BY <2>1
  <2> QED BY <2>1, <2>2, <2>3, <2>4, <2>5, <2>6, OpenerGoesHolds
<1> QED BY <1>1, <1>2, <1>3, <1>4

LEMMA ExecuteHolds ==
  ASSUME MemInv, NEW o \in Openers, Execute(o)
  PROVE  MemInv'
<1> USE DEF OpenerAt, OpenerTo
<1>0. /\ opc \in [Openers -> {"off", "mutex", "version", "legacy", "migrate", "open", "without"}]
      /\ msMu \in Openers \union {Nobody} /\ memCrashes \in 0 .. MaxMemCrashes
      /\ {perUser, cached} \subseteq BOOLEAN
      /\ stmts \in [Openers -> Seq(Statements)] /\ MutexHeld /\ opc[o] = "migrate"
  BY DEF MemInv, MemTypeOK, Execute
<1>1. CASE stmts[o] # <<>> /\ GiveUp(o)
  <2>1. /\ UNCHANGED <<fileVars, perUser, cached, memCrashes>> /\ msMu' = Nobody
        /\ stmts' = [stmts EXCEPT ![o] = <<>>]
        /\ opc' = [opc EXCEPT ![o] = IF perUser THEN "off" ELSE "without"]
    BY <1>1 DEF Execute, GiveUp, fileVars
  <2>2. MutexHeld'
    BY <1>0, <2>1 DEF MutexHeld
  <2>3. stmts' \in [Openers -> Seq(Statements)] /\ \A q \in Openers : stmts'[q] \in {<<>>, stmts[q]}
    BY <1>0, <2>1
  <2>4. opc' \in [Openers -> {"off", "mutex", "version", "legacy", "migrate", "open", "without"}]
    BY <1>0, <2>1
  <2> QED BY <1>0, <2>1, <2>2, <2>3, <2>4, OpenerGoesHolds
<1>2. CASE stmts[o] = <<>>
  <2>1. /\ UNCHANGED <<fileVars, perUser, stmts, memCrashes>> /\ msMu' = Nobody
        /\ cached' = perUser /\ opc' = [opc EXCEPT ![o] = "open"]
    BY <1>2 DEF Execute, fileVars
  <2>2. MutexHeld'
    BY <1>0, <2>1 DEF MutexHeld
  <2>3. opc' \in [Openers -> {"off", "mutex", "version", "legacy", "migrate", "open", "without"}]
    BY <1>0, <2>1
  <2> QED BY <1>0, <2>1, <2>2, <2>3, OpenerGoesHolds
<1>3. CASE /\ stmts[o] # <<>> /\ Succeeds(Head(stmts[o]))
           /\ table' = Effect(Head(stmts[o]))
           /\ version' = IF Head(stmts[o]).op = "version" THEN Head(stmts[o]).n ELSE version
           /\ stmts' = [stmts EXCEPT ![o] = Tail(@)]
           /\ UNCHANGED <<opc, msMu, cached>>
  BY <1>3, ExecuteOneHolds DEF Execute
<1> QED BY <1>1, <1>2, <1>3 DEF Execute

LEMMA StoreUseHolds ==
  ASSUME MemInv, NEW o \in Openers, Usable(o), UNCHANGED <<perUser, version, openVars, memCrashes>>,
         NEW R \in SUBSET Rows, table' = [table EXCEPT ![fts].rows = R],
         acked' \subseteq Rows,
         \A r \in acked' : r \in R \/ (r \in acked /\ r \notin table[fts].rows)
  PROVE  MemInv'
<1>1. /\ table'[fts].rows = R /\ table'[fts].cols = table[fts].cols /\ fts \in Tables
      /\ \A u \in Tables \ {fts} : table'[u] = table[u]
      /\ table' \in [Tables -> [cols : {"none", "v0", "v1", "v2"}, rows : SUBSET Rows]]
  BY TablesDiffer DEF MemInv, MemTypeOK
<1>2. \A q \in Openers, u \in Tables : (Owns(q, u)' <=> Owns(q, u)) /\ (Copied(q, u)' <=> Copied(q, u))
  BY DEF Owns, Copied, Left, Fresh, openVars
<1>3. \A q \in Openers : ~Copied(q, fts)'
  BY TablesDiffer DEF Copied
<1>4. (\A u \in Tables : ~Exists(u) => table[u].rows = {})' /\ OneOwner'
  BY <1>1, <1>2 DEF MemInv, FileInv, OneOwner, Exists, Usable
<1>5. RowsSafe'
  BY <1>1, <1>2, <1>3 DEF MemInv, FileInv, RowsSafe
<1>6. MemTypeOK' /\ MutexHeld'
  BY <1>1 DEF MemInv, MemTypeOK, MutexHeld, openVars
<1>7. stmts' \in [Openers -> Seq(Statements)] /\ \A q \in Openers : AtSuffix(q)'
  BY DEF MemInv, AtSuffix, Left, Fresh, openVars
<1> QED BY <1>4, <1>5, <1>6, <1>7 DEF MemInv, FileInv

LEMMA IndexHolds ==
  ASSUME MemInv, NEW o \in Openers, NEW r \in Rows, IndexRow(o, r)
  PROVE  MemInv'
<1>1. table[fts].rows \union {r} \in SUBSET Rows /\ acked \union {r} \subseteq Rows
  BY TablesDiffer DEF MemInv, MemTypeOK
<1>2. table' = [table EXCEPT ![fts].rows = table[fts].rows \union {r}]
  BY DEF IndexRow
<1> QED BY <1>1, <1>2, StoreUseHolds DEF IndexRow

LEMMA CleanupHolds ==
  ASSUME MemInv, NEW o \in Openers, NEW ns, CleanupNamespace(o, ns)
  PROVE  MemInv'
<1>1. PICK gone \in SUBSET table[fts].rows :
        table' = [table EXCEPT ![fts].rows = @ \ gone] /\ acked' = acked \ gone
  BY DEF CleanupNamespace
<1>2. table' = [table EXCEPT ![fts].rows = table[fts].rows \ gone]
  BY <1>1
<1>3. table[fts].rows \ gone \in SUBSET Rows /\ acked' \subseteq Rows
  BY <1>1, TablesDiffer DEF MemInv, MemTypeOK
<1>4. \A r \in acked' : r \in table[fts].rows \ gone \/ (r \in acked /\ r \notin table[fts].rows)
  BY <1>1
<1> QED BY <1>2, <1>3, <1>4, StoreUseHolds DEF CleanupNamespace

LEMMA MemStep ==
  ASSUME MemInv, [MemNext]_memVars
  PROVE  MemInv'
<1>1. CASE UNCHANGED memVars
  BY <1>1 DEF memVars, fileVars, openVars, MemInv, MemTypeOK, AtSuffix, Left, Fresh, FileInv,
     OneOwner, RowsSafe, Owns, Copied, Exists, MutexHeld
<1>2. CASE MemNext
  <2>1. PICK o \in Openers :
          \/ GetMemoryStore(o) \/ NewMemoryStore(o) \/ initMemorySchema(o) \/ migrateV0(o)
          \/ Execute(o) \/ CloseStore(o) \/ CrashMemory(o) \/ Rebuild(o)
          \/ \E r \in Rows : IndexRow(o, r)
          \/ \E ns \in Namespaces : CleanupNamespace(o, ns)
    BY <1>2 DEF MemNext
  <2> QED BY <2>1, OpenersHold, ExecuteHolds, IndexHolds, CleanupHolds DEF Rebuild
<1> QED BY <1>1, <1>2

LEMMA MemInitInv ==
  ASSUME MemInit
  PROVE  MemInv
<1>1. PICK from \in {"none", "v0", "v1", "v2"}, R \in SUBSET Rows :
        /\ from = "none" => R = {}
        /\ table = [[t \in Tables |-> NoTable] EXCEPT ![fts] = [cols |-> from, rows |-> R]]
        /\ acked = R
        /\ version = CASE from = "v1" -> 1 [] from = "v2" -> 2 [] OTHER -> 0
  BY DEF MemInit
<1>2. /\ table \in [Tables -> [cols : {"none", "v0", "v1", "v2"}, rows : SUBSET Rows]]
      /\ table[fts].rows = R /\ table[fts].cols = from /\ fts \in Tables
      /\ \A u \in Tables \ {fts} : table[u] = NoTable
  BY <1>1, TablesDiffer DEF NoTable
<1>3. version \in 0 .. 2
  BY <1>1
<1>4. MemTypeOK
  <2>1. memCrashes \in 0 .. MaxMemCrashes
    BY MaxMemCrashesAssumption DEF MemInit
  <2>2. acked \subseteq Rows /\ {perUser, cached} \subseteq BOOLEAN
    BY <1>1 DEF MemInit
  <2>3. opc \in [Openers -> {"off", "mutex", "version", "legacy", "migrate", "open", "without"}]
    BY DEF MemInit
  <2> QED BY <1>2, <1>3, <2>1, <2>2, <2>3 DEF MemInit, MemTypeOK
<1>5. \A o \in Openers : stmts[o] = <<>> /\ Left(o) = 0 /\ ~Fresh(o)
  <2>1. \A o \in Openers : stmts[o] = <<>>
    BY DEF MemInit
  <2>2. Len(<<>>) = 0 /\ <<>> # migrateFresh
    BY FreshPlan
  <2> QED BY <2>1, <2>2 DEF Left, Fresh
<1>6. stmts \in [Openers -> Seq(Statements)] /\ \A o \in Openers : AtSuffix(o)
  BY <1>5 DEF MemInit, AtSuffix
<1>7. \A o \in Openers, u \in Tables : ~Owns(o, u) /\ ~Copied(o, u)
  BY <1>5 DEF Owns, Copied
<1>8. FileInv
  BY <1>1, <1>2, <1>7 DEF FileInv, OneOwner, RowsSafe, Exists, NoTable
<1>9. MutexHeld
  BY DEF MemInit, MutexHeld
<1> QED BY <1>4, <1>6, <1>8, <1>9 DEF MemInv

(***************************************************************************)
(* What turns are shown (Recall).                                          *)
(***************************************************************************)
LEMMA SearchesIsolated ==
  ASSUME NEW s
  PROVE  /\ \A N, limit : \A R \in Search(N, limit) \ {Failed} : \A r \in R : r.ns \in N
         /\ \A R \in getRagBlock(s) : \A r \in R : r.ns \in {s, "global"}
<1>1. \A N, limit : \A R \in Search(N, limit) \ {Failed} : \A r \in R : r.ns \in N
  BY DEF Search
<1>2. \A S, k : \A T \in BestOf(S, k) : T \subseteq S
  BY DEF BestOf
<1>3. \A R \in ftsSearch(s) : \A r \in R : r.ns \in {s, "global"}
  <2> SUFFICES ASSUME NEW R \in Search({s, "global"}, 2 * RagLimit)
               PROVE  \A r \in IF R = Failed THEN {} ELSE FilterRAGResults(R) : r.ns \in {s, "global"}
    BY DEF ftsSearch
  <2> QED BY <1>1 DEF FilterRAGResults
<1>4. \A R \in HybridSearch(s, RagLimit) \ {Failed} : \A r \in R : r.ns \in {s, "global"}
  <2> SUFFICES ASSUME NEW F \in Search({s, "global"}, 2 * RagLimit) \ {Failed},
                      NEW V \in VecSearch(vecDocs, 4 * RagLimit) \ {Failed},
                      NEW D \in applyMMR(OfSession(V, s), 2 * RagLimit),
                      NEW R \in BestOf(MergeResults(F, D), RagLimit), NEW r \in R
               PROVE  r.ns \in {s, "global"}
    <3> SUFFICES ASSUME NEW R \in HybridSearch(s, RagLimit) \ {Failed}, NEW r \in R
                 PROVE  r.ns \in {s, "global"}
      OBVIOUS
    <3>1. PICK F \in Search({s, "global"}, 2 * RagLimit) \ {Failed} :
            R \in UNION {BestOf(MergeResults(F, D), RagLimit) :
                          D \in UNION {applyMMR(OfSession(V, s), 2 * RagLimit) :
                                         V \in VecSearch(vecDocs, 4 * RagLimit) \ {Failed}}}
      BY ZenonT(30) DEF HybridSearch
    <3>2. PICK D \in UNION {applyMMR(OfSession(V, s), 2 * RagLimit) :
                              V \in VecSearch(vecDocs, 4 * RagLimit) \ {Failed}} :
            R \in BestOf(MergeResults(F, D), RagLimit)
      BY <3>1
    <3>3. PICK V \in VecSearch(vecDocs, 4 * RagLimit) \ {Failed} :
            D \in applyMMR(OfSession(V, s), 2 * RagLimit)
      BY <3>2
    <3> QED BY <3>2, <3>3
  <2>1. r \in F \/ r \in OfSession(V, s)
    BY <1>2 DEF MergeResults, applyMMR
  <2> QED BY <1>1, <2>1 DEF OfSession
<1>5. \A R \in getRagBlock(s) : \A r \in R : r.ns \in {s, "global"}
  BY <1>3, <1>4 DEF getRagBlock, hybridRagSearch
<1> QED BY <1>1, <1>5

LEMMA RecallStep ==
  ASSUME MemInv, RecallIsolated, [(MemNext /\ UNCHANGED recallVars) \/ RecallNext]_<<memVars, recallVars>>
  PROVE  MemInv' /\ RecallIsolated'
<1>1. CASE UNCHANGED recallVars /\ [MemNext]_memVars
  BY <1>1, MemStep DEF RecallIsolated, recallVars
<1>2. CASE RecallNext
  <2>1. UNCHANGED memVars
    BY <1>2 DEF RecallNext, buildSystemPrompt, MemoryTool, SearchDocsTool, AddDocument,
       EditWorkspace, IndexWorkspaceMarkdown
  <2>2. CASE UNCHANGED shown
    BY <2>1, <2>2, MemStep DEF RecallIsolated
  <2>3. ASSUME NEW o \in Openers, NEW s \in SessionNs,
               buildSystemPrompt(o, s) \/ MemoryTool(o, s) \/ SearchDocsTool(o, s)
        PROVE  RecallIsolated'
    <3>1. \E R, C : shown' = [session |-> s, rows |-> R, chunks |-> C]
                   /\ \A r \in R : r.ns \in {s, "global"}
      <4>1. CASE buildSystemPrompt(o, s)
        <5>1. PICK R \in getRagBlock(s) \union {{}} : Shows(s, R, {})
          BY <4>1 DEF buildSystemPrompt
        <5>2. \A r \in R : r.ns \in {s, "global"}
          BY <5>1, SearchesIsolated
        <5> QED BY <5>1, <5>2 DEF Shows
      <4>2. CASE MemoryTool(o, s)
        <5>1. PICK R \in Search({s, "global"}, RagLimit) : R # Failed /\ Shows(s, R, {})
          BY <4>2 DEF MemoryTool
        <5>2. \A r \in R : r.ns \in {s, "global"}
          BY <5>1, SearchesIsolated
        <5> QED BY <5>1, <5>2 DEF Shows
      <4>3. CASE SearchDocsTool(o, s)
        <5>1. PICK R \in Search({"global"}, 2 * RagLimit) \ {Failed},
                   C \in VecSearch(wsDocs, 2 * RagLimit) \ {Failed} :
                \E F \in BestOf(R, 1) : Shows(s, F, C)
          BY <4>3 DEF SearchDocsTool
        <5>2. PICK F : F \subseteq R /\ Shows(s, F, C)
          BY <5>1 DEF BestOf
        <5>3. \A r \in F : r.ns \in {s, "global"}
          BY <5>2, SearchesIsolated
        <5> QED BY <5>2, <5>3 DEF Shows
      <4> QED BY <2>3, <4>1, <4>2, <4>3
    <3> QED BY <3>1 DEF RecallIsolated
  <2> QED BY <1>2, <2>1, <2>2, <2>3, MemStep DEF RecallNext, AddDocument, EditWorkspace,
             IndexWorkspaceMarkdown
<1> QED BY <1>1, <1>2

\* MemInv is an invariant of the memory and its users: for any number of
\* processes and turns that open the file, and of crashes.
THEOREM MemInvariant == RecallSpec => [](MemInv /\ RecallIsolated)
<1>1. RecallInit => RecallIsolated
  BY DEF RecallInit, RecallIsolated, NothingShown
<1> QED BY <1>1, MemInitInv, RecallStep, PTL DEF RecallSpec

\* No row is lost, and one turn at a time opens a user's file (migrateV0,
\* migrateV1toV2, GetMemoryStore).
THEOREM MemMemoryKept == RecallSpec => []MemoryKept
<1>1. ASSUME MemInv PROVE MemoryKept
  <2>1. \A r \in acked : \E t \in Tables : r \in table[t].rows
    BY <1>1 DEF MemInv, FileInv, RowsSafe
  <2>2. ASSUME perUser
        PROVE  Cardinality({o \in Openers : opc[o] \in {"version", "legacy", "migrate"}}) <= 1
    <3> DEFINE P == {o \in Openers : opc[o] \in {"version", "legacy", "migrate"}}
    <3>1. P \subseteq {msMu}
      BY <1>1, <2>2 DEF MemInv, MutexHeld
    <3>2. IsFiniteSet({msMu}) /\ Cardinality({msMu}) = 1
      BY FS_Singleton
    <3>3. IsFiniteSet(P) /\ Cardinality(P) <= 1
      BY <3>1, <3>2, FS_Subset
    <3> QED BY <3>3
  <2> QED BY <2>1, <2>2 DEF MemoryKept
<1> QED BY <1>1, MemInvariant, PTL

\* A turn is shown no row of another session (HybridSearch, MemoryTool).
THEOREM RecallIsIsolated == RecallSpec => []RecallIsolated
BY MemInvariant, PTL
-----------------------------------------------------------------------------
(***************************************************************************)
(* The hub of the log (LogHub).                                            *)
(***************************************************************************)
Entries == [n : Nat, level : Levels]
Streaming == {"backlog", "live"}

Numbers(b) == [i \in 1 .. Len(b) |-> b[i].n]

\* Between neighbours of s, and from its last one to e, all is in K.
Dense(s, K) ==
  \A i \in 1 .. Len(s) - 1 : s[i] < s[i + 1] /\ \A k \in s[i] + 1 .. s[i + 1] - 1 : k \in K
Reaches(s, K, e) ==
  s # <<>> => s[Len(s)] <= e /\ \A k \in s[Len(s)] + 1 .. e : k \in K

HubTyped ==
  /\ emitted \in Nat /\ buffer \in Seq(Entries) /\ Len(buffer) <= BufSize
  /\ subscribers \subseteq Viewers /\ isClosed \subseteq Viewers
  /\ channel \in [Viewers -> Seq(Entries)] /\ backlog \in [Viewers -> Seq(Entries)]
  /\ \A c \in Viewers : Len(channel[c]) <= ChanCap
  /\ sent = [c \in Viewers |-> sent[c]] /\ skipped \in [Viewers -> SUBSET Nat]
  /\ cpc \in [Viewers -> {"off", "backlog", "live", "stale", "leave", "page", "file"}]

\* The buffer holds the last records; a closed hub has neither records nor
\* subscribers; an open channel is that of a subscriber.
HubOrder ==
  /\ \A i \in 1 .. Len(buffer) : buffer[i].n = emitted - Len(buffer) + i
  /\ hubClosed => buffer = <<>> /\ subscribers = {}
  /\ subscribers \intersect isClosed = {}
  /\ ~panicked

ClientInv(c) ==
  cpc[c] \in Streaming =>
    /\ sent[c] \in Seq(Nat)
    /\ cpc[c] = "live" => backlog[c] = <<>>
    /\ Dense(Stream(c), skipped[c])
    /\ c \in subscribers => Reaches(Stream(c), skipped[c], emitted)

LogInv == HubTyped /\ HubOrder /\ \A c \in Viewers : ClientInv(c)

(***************************************************************************)
(* Streams.                                                                *)
(***************************************************************************)
Strung(a, b, k) == a \o Numbers(b) \o Numbers(k)

LEMMA StreamStrung == \A c : Stream(c) = Strung(sent[c], backlog[c], channel[c])
BY DEF Stream, Strung, Numbers

LEMMA NumbersSeq ==
  ASSUME NEW b \in Seq(Entries)
  PROVE  /\ Numbers(b) \in Seq(Nat) /\ Len(Numbers(b)) = Len(b)
         /\ \A i \in 1 .. Len(b) : Numbers(b)[i] = b[i].n
<1>1. \A i \in 1 .. Len(b) : b[i].n \in Nat
  <2> TAKE i \in 1 .. Len(b)
  <2>1. b[i] \in Entries
    BY ElementOfSeq
  <2> QED BY <2>1 DEF Entries
<1> QED BY <1>1 DEF Numbers

LEMMA NumbersAppend ==
  ASSUME NEW k \in Seq(Entries), NEW e \in Entries
  PROVE  Numbers(Append(k, e)) = Append(Numbers(k), e.n)
<1>1. e.n \in Nat
  BY DEF Entries
<1>2. /\ Append(k, e) \in Seq(Entries) /\ Len(Append(k, e)) = Len(k) + 1
      /\ Append(k, e)[Len(k) + 1] = e /\ \A i \in 1 .. Len(k) : Append(k, e)[i] = k[i]
  BY AppendProperties
<1>3. /\ Numbers(Append(k, e)) \in Seq(Nat) /\ Len(Numbers(Append(k, e))) = Len(k) + 1
      /\ \A i \in 1 .. Len(k) + 1 : Numbers(Append(k, e))[i] = Append(k, e)[i].n
  BY <1>2, NumbersSeq
<1>4. /\ Numbers(k) \in Seq(Nat) /\ Len(Numbers(k)) = Len(k)
      /\ \A i \in 1 .. Len(k) : Numbers(k)[i] = k[i].n
  BY NumbersSeq
<1>5. /\ Append(Numbers(k), e.n) \in Seq(Nat) /\ Len(Append(Numbers(k), e.n)) = Len(k) + 1
      /\ Append(Numbers(k), e.n)[Len(k) + 1] = e.n
      /\ \A i \in 1 .. Len(k) : Append(Numbers(k), e.n)[i] = Numbers(k)[i]
  BY <1>1, <1>4, AppendProperties
<1>6. ASSUME NEW i \in 1 .. Len(k) + 1 PROVE Numbers(Append(k, e))[i] = Append(Numbers(k), e.n)[i]
  <2>1. CASE i = Len(k) + 1
    BY <1>2, <1>3, <1>5, <2>1
  <2>2. CASE i \in 1 .. Len(k)
    BY <1>2, <1>3, <1>4, <1>5, <2>2
  <2>3. Len(k) \in Nat
    BY LenProperties
  <2>4. i = Len(k) + 1 \/ i \in 1 .. Len(k)
    BY <2>3
  <2> QED BY <2>1, <2>2, <2>4
<1> QED BY <1>3, <1>5, <1>6, SeqEqual

LEMMA NumbersHead ==
  ASSUME NEW b \in Seq(Entries), b # <<>>
  PROVE  /\ Head(b) \in Entries /\ Head(b).n \in Nat /\ Tail(b) \in Seq(Entries)
         /\ Numbers(b) = <<Head(b).n>> \o Numbers(Tail(b))
<1> DEFINE h == <<Head(b).n>>  y == Numbers(Tail(b))
<1>1. /\ Head(b) \in Entries /\ Head(b) = b[1] /\ Tail(b) \in Seq(Entries)
      /\ Len(Tail(b)) = Len(b) - 1 /\ \A i \in 1 .. Len(Tail(b)) : Tail(b)[i] = b[i + 1]
      /\ Len(b) \in Nat \ {0}
  BY HeadTailProperties, EmptySeq
<1>2. h \in Seq(Nat) /\ Len(h) = 1 /\ h[1] = b[1].n /\ Head(b).n \in Nat
  BY <1>1 DEF Entries
<1>3. /\ Numbers(b) \in Seq(Nat) /\ Len(Numbers(b)) = Len(b)
      /\ \A i \in 1 .. Len(b) : Numbers(b)[i] = b[i].n
      /\ y \in Seq(Nat) /\ Len(y) = Len(b) - 1
      /\ \A i \in 1 .. Len(b) - 1 : y[i] = Tail(b)[i].n
  BY <1>1, NumbersSeq
<1> HIDE DEF h, y
<1>4. /\ h \o y \in Seq(Nat) /\ Len(h \o y) = Len(b)
      /\ \A i \in 1 .. Len(b) : (h \o y)[i] = IF i <= 1 THEN h[i] ELSE y[i - 1]
  <2>1. Len(h) + Len(y) = Len(b)
    BY <1>1, <1>2, <1>3
  <2>2. /\ h \o y \in Seq(Nat) /\ Len(h \o y) = Len(h) + Len(y)
        /\ \A i \in 1 .. Len(h) + Len(y) :
             (h \o y)[i] = IF i <= Len(h) THEN h[i] ELSE y[i - Len(h)]
    <3>1. h \in Seq(Nat) /\ y \in Seq(Nat)
      BY <1>2, <1>3
    <3> QED BY <3>1, ConcatProperties
  <2> QED BY <1>2, <2>1, <2>2
<1>5. ASSUME NEW i \in 1 .. Len(b) PROVE Numbers(b)[i] = (h \o y)[i]
  <2>1. CASE i = 1
    BY <1>1, <1>2, <1>3, <1>4, <2>1
  <2>2. CASE i # 1
    <3>1. i - 1 \in 1 .. Len(b) - 1 /\ (i - 1) + 1 = i /\ ~(i <= 1)
      BY <1>1, <2>2
    <3>2. (h \o y)[i] = y[i - 1]
      BY <1>4, <3>1
    <3>3. y[i - 1] = b[i].n
      BY <1>1, <1>3, <3>1
    <3> QED BY <1>3, <3>2, <3>3
  <2> QED BY <2>1, <2>2
<1>6. Numbers(b) = h \o y
  BY <1>3, <1>4, <1>5, SeqEqual
<1> QED BY <1>1, <1>2, <1>6 DEF h, y

LEMMA Regroup ==
  ASSUME NEW r \in Seq(Nat), NEW s \in Seq(Nat), NEW t \in Seq(Nat)
  PROVE  (r \o s) \o t = r \o (s \o t)
<1> DEFINE a == (r \o s) \o t
           b == r \o (s \o t)
<1>1. /\ r \o s \in Seq(Nat) /\ Len(r \o s) = Len(r) + Len(s)
      /\ \A i \in 1 .. Len(r) + Len(s) : (r \o s)[i] = IF i <= Len(r) THEN r[i] ELSE s[i - Len(r)]
  BY ConcatProperties
<1>2. /\ s \o t \in Seq(Nat) /\ Len(s \o t) = Len(s) + Len(t)
      /\ \A i \in 1 .. Len(s) + Len(t) : (s \o t)[i] = IF i <= Len(s) THEN s[i] ELSE t[i - Len(s)]
  BY ConcatProperties
<1> DEFINE rs == r \o s
           st == s \o t
<1> HIDE DEF rs, st
<1>3. /\ rs \o t \in Seq(Nat) /\ Len(rs \o t) = Len(rs) + Len(t)
      /\ \A i \in 1 .. Len(rs) + Len(t) : (rs \o t)[i] = IF i <= Len(rs) THEN rs[i] ELSE t[i - Len(rs)]
  BY <1>1, ConcatProperties DEF rs
<1>4. /\ r \o st \in Seq(Nat) /\ Len(r \o st) = Len(r) + Len(st)
      /\ \A i \in 1 .. Len(r) + Len(st) : (r \o st)[i] = IF i <= Len(r) THEN r[i] ELSE st[i - Len(r)]
  BY <1>2, ConcatProperties DEF st
<1>5. /\ a \in Seq(Nat) /\ b \in Seq(Nat) /\ a = rs \o t /\ b = r \o st
  BY <1>3, <1>4 DEF rs, st
<1> HIDE DEF a, b
<1>6. Len(r) \in Nat /\ Len(s) \in Nat /\ Len(t) \in Nat
  BY LenProperties
<1>7. Len(a) = Len(b) /\ Len(a) = Len(r) + Len(s) + Len(t)
  BY <1>1, <1>2, <1>3, <1>4, <1>5, <1>6 DEF rs, st
<1>8. ASSUME NEW i \in 1 .. Len(a) PROVE a[i] = b[i]
  BY <1>1, <1>2, <1>3, <1>4, <1>5, <1>6, <1>7 DEF rs, st
<1> QED BY <1>5, <1>7, <1>8, SeqEqual DEF a, b

LEMMA StrungSeq ==
  ASSUME NEW a \in Seq(Nat), NEW b \in Seq(Entries), NEW k \in Seq(Entries)
  PROVE  /\ Strung(a, b, k) \in Seq(Nat)
         /\ Strung(a, b, k) = a \o (Numbers(b) \o Numbers(k))
<1>1. Numbers(b) \in Seq(Nat) /\ Numbers(k) \in Seq(Nat)
  BY NumbersSeq
<1> DEFINE x == Numbers(b)
           y == Numbers(k)
<1>2. Strung(a, b, k) = (a \o x) \o y
  BY DEF Strung
<1> HIDE DEF x, y
<1>3. x \in Seq(Nat) /\ y \in Seq(Nat)
  BY <1>1 DEF x, y
<1>4. (a \o x) \o y = a \o (x \o y)
  BY <1>3, Regroup
<1>5. a \o x \in Seq(Nat)
  BY <1>3, ConcatProperties
<1>6. (a \o x) \o y \in Seq(Nat)
  BY <1>3, <1>5, ConcatProperties
<1> QED BY <1>2, <1>4, <1>6 DEF x, y

\* What is sent leaves the stream as it is.
LEMMA StrungMoves ==
  ASSUME NEW a \in Seq(Nat), NEW b \in Seq(Entries), NEW k \in Seq(Entries)
  PROVE  /\ b # <<>> => /\ Append(a, Head(b).n) \in Seq(Nat)
                        /\ Strung(Append(a, Head(b).n), Tail(b), k) = Strung(a, b, k)
         /\ k # <<>> => /\ Append(a, Head(k).n) \in Seq(Nat)
                        /\ Strung(Append(a, Head(k).n), <<>>, Tail(k)) = Strung(a, <<>>, k)
<1>1. \A c \in Seq(Entries) : c # <<>> =>
        /\ Append(a, Head(c).n) \in Seq(Nat)
        /\ Append(a, Head(c).n) \o Numbers(Tail(c)) = a \o Numbers(c)
  <2> SUFFICES ASSUME NEW c \in Seq(Entries), c # <<>>
               PROVE  /\ Append(a, Head(c).n) \in Seq(Nat)
                      /\ Append(a, Head(c).n) \o Numbers(Tail(c)) = a \o Numbers(c)
    OBVIOUS
  <2> DEFINE h == Head(c).n  y == Numbers(Tail(c))
  <2>1. h \in Nat /\ Numbers(c) = <<h>> \o y /\ y \in Seq(Nat)
    BY NumbersHead, NumbersSeq
  <2> HIDE DEF h, y
  <2>2. Append(a, h) \in Seq(Nat) /\ Append(a, h) = a \o <<h>>
    BY <2>1, AppendProperties, AppendIsConcat
  <2>3. <<h>> \in Seq(Nat)
    BY <2>1
  <2>4. (a \o <<h>>) \o y = a \o (<<h>> \o y)
    BY <2>1, <2>3, Regroup
  <2>5. Append(a, h) \o y = a \o Numbers(c)
    BY <2>1, <2>2, <2>4
  <2> QED BY <2>2, <2>5 DEF h, y
<1>2. <<>> \in Seq(Entries) /\ Numbers(<<>>) = <<>>
  BY EmptySeq, NumbersSeq DEF Numbers
<1>3. \A c \in Seq(Nat) : c \o <<>> = c
  BY ConcatEmptySeq
<1>4. b # <<>> => /\ Append(a, Head(b).n) \in Seq(Nat)
                  /\ Strung(Append(a, Head(b).n), Tail(b), k) = Strung(a, b, k)
  BY <1>1 DEF Strung
<1>5. k # <<>> => /\ Append(a, Head(k).n) \in Seq(Nat)
                  /\ Strung(Append(a, Head(k).n), <<>>, Tail(k)) = Strung(a, <<>>, k)
  BY <1>1, <1>2, <1>3 DEF Strung
<1> QED BY <1>4, <1>5

LEMMA StrungGrows ==
  ASSUME NEW a \in Seq(Nat), NEW b \in Seq(Entries), NEW k \in Seq(Entries), NEW e \in Entries
  PROVE  Strung(a, b, Append(k, e)) = Append(Strung(a, b, k), e.n)
<1> DEFINE ab == a \o Numbers(b)  y == Numbers(k)
<1>1. ab \in Seq(Nat) /\ y \in Seq(Nat) /\ e.n \in Nat /\ ab \o y \in Seq(Nat)
  BY NumbersSeq, ConcatProperties DEF Entries
<1>2. Numbers(Append(k, e)) = Append(y, e.n)
  BY NumbersAppend
<1>3. Strung(a, b, k) = ab \o y /\ Strung(a, b, Append(k, e)) = ab \o Append(y, e.n)
  BY <1>2 DEF Strung
<1> HIDE DEF ab, y
<1>4. Append(y, e.n) = y \o <<e.n>> /\ Append(ab \o y, e.n) = (ab \o y) \o <<e.n>>
  BY <1>1, AppendIsConcat
<1>5. <<e.n>> \in Seq(Nat)
  BY <1>1
<1>6. (ab \o y) \o <<e.n>> = ab \o (y \o <<e.n>>)
  <2>1. \A z \in Seq(Nat) : (ab \o y) \o z = ab \o (y \o z)
    BY <1>1, Regroup
  <2> QED BY <1>5, <2>1
<1> QED BY <1>3, <1>4, <1>6

\* A record that follows the last one, or is skipped, keeps a stream dense.
LEMMA DenseGrows ==
  ASSUME NEW s \in Seq(Nat), NEW K, NEW e \in Nat, Dense(s, K), Reaches(s, K, e)
  PROVE  /\ Dense(Append(s, e + 1), K) /\ Reaches(Append(s, e + 1), K, e + 1)
         /\ Dense(s, K \union {e + 1}) /\ Reaches(s, K \union {e + 1}, e + 1)
<1> DEFINE z == Append(s, e + 1)
<1>1. /\ z \in Seq(Nat) /\ z # <<>> /\ Len(z) = Len(s) + 1 /\ z[Len(s) + 1] = e + 1
      /\ \A i \in 1 .. Len(s) : z[i] = s[i]
      /\ Len(s) \in Nat
  BY AppendProperties, LenProperties
<1>0. \A i \in 1 .. Len(s) : s[i] \in Nat
  BY ElementOfSeq
<1> HIDE DEF z
<1>2. Dense(z, K)
  <2> SUFFICES ASSUME NEW i \in 1 .. Len(s)
               PROVE  z[i] < z[i + 1] /\ \A k \in z[i] + 1 .. z[i + 1] - 1 : k \in K
    BY <1>1 DEF Dense
  <2>1. CASE i = Len(s)
    <3>1. s # <<>> /\ z[i] = s[Len(s)] /\ z[i + 1] = e + 1 /\ s[Len(s)] \in Nat
      BY <1>0, <1>1, <2>1
    <3>2. s[Len(s)] <= e /\ \A k \in s[Len(s)] + 1 .. e : k \in K
      BY <3>1 DEF Reaches
    <3>3. (e + 1) - 1 = e
      OBVIOUS
    <3> QED BY <3>1, <3>2, <3>3
  <2>2. CASE i # Len(s)
    <3>1. i \in 1 .. Len(s) - 1 /\ i + 1 \in 1 .. Len(s)
      BY <1>1, <2>2
    <3> QED BY <1>1, <3>1 DEF Dense
  <2> QED BY <2>1, <2>2
<1>3. Reaches(z, K, e + 1)
  BY <1>1 DEF Reaches
<1>4. Dense(s, K \union {e + 1})
  BY DEF Dense
<1>5. Reaches(s, K \union {e + 1}, e + 1)
  <2> SUFFICES ASSUME s # <<>>
               PROVE  s[Len(s)] <= e + 1 /\ \A k \in s[Len(s)] + 1 .. e + 1 : k \in K \union {e + 1}
    BY DEF Reaches
  <2>1. s[Len(s)] \in Nat
    BY <1>0, <1>1, EmptySeq
  <2>2. s[Len(s)] <= e /\ \A k \in s[Len(s)] + 1 .. e : k \in K
    BY DEF Reaches
  <2> QED BY <2>1, <2>2
<1> QED BY <1>2, <1>3, <1>4, <1>5 DEF z

(***************************************************************************)
(* The steps of the hub and of its clients.                                *)
(***************************************************************************)
\* A client that a step does not concern.
LEMMA OtherClient ==
  ASSUME NEW d, ClientInv(d), cpc'[d] = cpc[d], sent'[d] = sent[d], backlog'[d] = backlog[d],
         channel'[d] = channel[d], skipped'[d] = skipped[d],
         d \in subscribers' => d \in subscribers /\ emitted' = emitted
  PROVE  ClientInv(d)'
<1>1. Stream(d)' = Stream(d)
  BY DEF Stream
<1> QED BY <1>1 DEF ClientInv

\* The buffer after a record.
LEMMA BufferKeeps ==
  ASSUME NEW b \in Seq(Entries), NEW e \in Entries, NEW m \in Nat, e.n = m + 1,
         Len(b) <= BufSize, \A i \in 1 .. Len(b) : b[i].n = m - Len(b) + i
  PROVE  LET b2 == LastOf(Append(b, e), BufSize)
         IN  /\ b2 \in Seq(Entries) /\ Len(b2) <= BufSize
             /\ \A i \in 1 .. Len(b2) : b2[i].n = m + 1 - Len(b2) + i
<1> DEFINE z == Append(b, e)
<1>1. /\ z \in Seq(Entries) /\ Len(z) = Len(b) + 1 /\ z[Len(b) + 1] = e
      /\ \A i \in 1 .. Len(b) : z[i] = b[i]
      /\ Len(b) \in Nat
  BY AppendProperties, LenProperties
<1>2. BufSize \in Nat \ {0}
  BY SizesAssumption
<1>3. \A i \in 1 .. Len(z) : z[i] \in Entries
  BY <1>1, ElementOfSeq
<1>4. \A i \in 1 .. Len(b) + 1 : z[i].n = m + 1 - (Len(b) + 1) + i
  <2> SUFFICES ASSUME NEW i \in 1 .. Len(b) + 1 PROVE z[i].n = m + 1 - (Len(b) + 1) + i
    OBVIOUS
  <2>1. CASE i = Len(b) + 1
    BY <1>1, <2>1
  <2>2. CASE i \in 1 .. Len(b)
    <3>1. z[i].n = m - Len(b) + i
      BY <1>1, <2>2
    <3> QED BY <1>1, <3>1
  <2>3. i = Len(b) + 1 \/ i \in 1 .. Len(b)
    BY <1>1
  <2> QED BY <2>1, <2>2, <2>3
<1> HIDE DEF z
<1> DEFINE from == IF Len(z) > BufSize THEN Len(z) - BufSize + 1 ELSE 1
           b2 == SubSeq(z, from, Len(z))
<1>5. from \in 1 .. 2 /\ from <= Len(z) /\ Len(z) - from + 1 \in Nat /\ Len(z) - from + 1 <= BufSize
  BY <1>1, <1>2
<1> HIDE DEF from
<1>6. /\ b2 \in Seq(Entries) /\ Len(b2) = Len(z) - from + 1
      /\ \A i \in 1 .. Len(z) - from + 1 : b2[i] = z[from + i - 1]
  <2>1. from \in Int /\ Len(z) \in Int /\ \A i \in from .. Len(z) : z[i] \in Entries
    BY <1>1, <1>3, <1>5
  <2>2. /\ b2 \in Seq(Entries) /\ Len(b2) = IF from <= Len(z) THEN Len(z) - from + 1 ELSE 0
        /\ \A i \in 1 .. Len(z) - from + 1 : b2[i] = z[from + i - 1]
    BY <2>1, SubSeqProperties
  <2> QED BY <1>5, <2>2
<1> HIDE DEF b2
<1>7. \A i \in 1 .. Len(b2) : b2[i].n = m + 1 - Len(b2) + i
  <2> SUFFICES ASSUME NEW i \in 1 .. Len(b2) PROVE b2[i].n = m + 1 - Len(b2) + i
    OBVIOUS
  <2>1. i \in 1 .. Len(z) - from + 1 /\ from + i - 1 \in 1 .. Len(b) + 1
    BY <1>1, <1>5, <1>6
  <2>2. b2[i].n = m + 1 - (Len(b) + 1) + (from + i - 1)
    BY <1>4, <1>6, <2>1
  <2> QED BY <1>1, <1>5, <1>6, <2>2
<1>8. Len(b2) <= BufSize
  BY <1>5, <1>6
<1>9. LastOf(Append(b, e), BufSize) = b2
  BY DEF LastOf, b2, from, z
<1> QED BY <1>6, <1>7, <1>8, <1>9

LEMMA RecordHolds ==
  ASSUME LogInv, NEW l \in Levels, HandleRecord(l)
  PROVE  LogInv'
<1> DEFINE e == [n |-> emitted + 1, level |-> l]
<1>0. HubTyped /\ HubOrder /\ Emit(e) /\ UNCHANGED <<subscribers, hubClosed, isClosed, cpc, backlog, sent>>
  BY DEF LogInv, HandleRecord, clientVars
<1>1. e \in Entries /\ e.n = emitted + 1 /\ emitted \in Nat /\ emitted' = emitted + 1
  BY <1>0 DEF HubTyped, Entries, Emit
<1> HIDE DEF e
<1>2. CASE hubClosed
  <2>1. UNCHANGED <<buffer, channel, skipped, panicked>> /\ subscribers' = {} /\ buffer = <<>>
    BY <1>0, <1>2 DEF Emit, HubOrder
  <2>2. HubTyped'
    BY <1>0, <1>1, <2>1 DEF HubTyped
  <2>3. HubOrder'
    BY <1>0, <2>1, EmptySeq DEF HubOrder
  <2>4. ASSUME NEW d \in Viewers PROVE ClientInv(d)'
    BY <1>0, <2>1, OtherClient DEF LogInv
  <2> QED BY <2>2, <2>3, <2>4 DEF LogInv
<1>3. CASE ~hubClosed
  <2>1. /\ buffer' = LastOf(Append(buffer, e), BufSize)
        /\ channel' = [c \in Viewers |->
             IF c \in subscribers /\ HasRoom(c) THEN Append(channel[c], e) ELSE channel[c]]
        /\ skipped' = [c \in Viewers |->
             IF c \in subscribers /\ Len(channel[c]) >= ChanCap
             THEN skipped[c] \union {e.n} ELSE skipped[c]]
        /\ panicked' = (panicked \/ subscribers \intersect isClosed # {})
    BY <1>0, <1>3 DEF Emit
  <2>2. ~panicked'
    BY <1>0, <2>1 DEF HubOrder
  <2>3. /\ buffer' \in Seq(Entries) /\ Len(buffer') <= BufSize
        /\ \A i \in 1 .. Len(buffer') : buffer'[i].n = emitted' - Len(buffer') + i
    <3>1. /\ buffer \in Seq(Entries) /\ Len(buffer) <= BufSize
          /\ \A i \in 1 .. Len(buffer) : buffer[i].n = emitted - Len(buffer) + i
      BY <1>0 DEF HubTyped, HubOrder
    <3> DEFINE b2 == LastOf(Append(buffer, e), BufSize)
    <3>2. /\ b2 \in Seq(Entries) /\ Len(b2) <= BufSize
          /\ \A i \in 1 .. Len(b2) : b2[i].n = emitted + 1 - Len(b2) + i
      BY <1>1, <3>1, BufferKeeps
    <3> HIDE DEF b2
    <3>3. buffer' = b2
      BY <2>1 DEF b2
    <3> QED BY <1>1, <3>2, <3>3
  <2>4. /\ channel' \in [Viewers -> Seq(Entries)] /\ skipped' \in [Viewers -> SUBSET Nat]
        /\ \A c \in Viewers : Len(channel'[c]) <= ChanCap
    <3>1. ASSUME NEW c \in Viewers
          PROVE  /\ channel'[c] \in Seq(Entries) /\ Len(channel'[c]) <= ChanCap
                 /\ skipped'[c] \in SUBSET Nat
      <4>1. channel[c] \in Seq(Entries) /\ Len(channel[c]) <= ChanCap /\ skipped[c] \in SUBSET Nat
        BY <1>0 DEF HubTyped
      <4>2. /\ Append(channel[c], e) \in Seq(Entries)
            /\ Len(Append(channel[c], e)) = Len(channel[c]) + 1 /\ Len(channel[c]) \in Nat
        BY <1>1, <4>1, AppendProperties, LenProperties
      <4>3. ChanCap \in Nat
        BY SizesAssumption
      <4> QED BY <1>1, <2>1, <4>1, <4>2, <4>3 DEF HasRoom
    <3> QED BY <2>1, <3>1
  <2>5. HubTyped'
    BY <1>0, <1>1, <2>3, <2>4 DEF HubTyped
  <2>6. HubOrder'
    BY <1>0, <1>3, <2>2, <2>3 DEF HubOrder
  <2>7. ASSUME NEW d \in Viewers PROVE ClientInv(d)'
    <3>0. ClientInv(d) /\ channel[d] \in Seq(Entries) /\ backlog[d] \in Seq(Entries)
      BY <1>0 DEF LogInv, HubTyped
    <3>1. CASE d \notin subscribers
      BY <1>0, <2>1, <3>0, <3>1, OtherClient
    <3>2. CASE d \in subscribers /\ cpc[d] \in Streaming
      <4> DEFINE st == Strung(sent[d], backlog[d], channel[d])
      <4>1. /\ sent[d] \in Seq(Nat) /\ (cpc[d] = "live" => backlog[d] = <<>>)
            /\ Dense(st, skipped[d]) /\ Reaches(st, skipped[d], emitted)
        BY <3>0, <3>2, StreamStrung DEF ClientInv
      <4>2. st \in Seq(Nat)
        BY <3>0, <4>1, StrungSeq
      <4>3. Stream(d)' = Strung(sent[d], backlog[d], channel'[d])
        BY <1>0 DEF Stream, Strung, Numbers
      <4>4. CASE HasRoom(d)
        <5>1. channel'[d] = Append(channel[d], e) /\ skipped'[d] = skipped[d]
          <6>1. Len(channel[d]) \in Nat /\ ChanCap \in Nat
            BY <3>0, SizesAssumption, LenProperties
          <6> QED BY <2>1, <3>2, <4>4, <6>1 DEF HasRoom
        <5>2. Stream(d)' = Append(st, emitted + 1)
          BY <1>1, <3>0, <4>1, <4>3, <5>1, StrungGrows
        <5> HIDE DEF st
        <5>3. /\ Dense(Append(st, emitted + 1), skipped[d])
              /\ Reaches(Append(st, emitted + 1), skipped[d], emitted + 1)
          BY <1>1, <4>1, <4>2, DenseGrows
        <5>4. Dense(Stream(d)', skipped'[d]) /\ Reaches(Stream(d)', skipped'[d], emitted')
          BY <1>1, <5>1, <5>2, <5>3
        <5> QED BY <1>0, <4>1, <5>4 DEF ClientInv
      <4>5. CASE ~HasRoom(d)
        <5>1. channel'[d] = channel[d] /\ skipped'[d] = skipped[d] \union {emitted + 1}
          <6>1. Len(channel[d]) \in Nat /\ ChanCap \in Nat
            BY <3>0, SizesAssumption, LenProperties
          <6>2. Len(channel[d]) >= ChanCap
            BY <4>5, <6>1 DEF HasRoom
          <6> QED BY <1>1, <2>1, <3>2, <4>5, <6>2
        <5>2. Stream(d)' = st
          BY <4>3, <5>1
        <5> HIDE DEF st
        <5>3. /\ Dense(st, skipped[d] \union {emitted + 1})
              /\ Reaches(st, skipped[d] \union {emitted + 1}, emitted + 1)
          BY <1>1, <4>1, <4>2, DenseGrows
        <5>4. Dense(Stream(d)', skipped'[d]) /\ Reaches(Stream(d)', skipped'[d], emitted')
          BY <1>1, <5>1, <5>2, <5>3
        <5> QED BY <1>0, <4>1, <5>4 DEF ClientInv
      <4> QED BY <4>4, <4>5
    <3>3. CASE cpc[d] \notin Streaming
      BY <1>0, <3>3 DEF ClientInv
    <3> QED BY <3>1, <3>2, <3>3
  <2> QED BY <2>5, <2>6, <2>7 DEF LogInv
<1> QED BY <1>2, <1>3

LEMMA CloseHubHolds ==
  ASSUME LogInv, CloseHub
  PROVE  LogInv'
<1>1. /\ hubClosed' = TRUE /\ subscribers' = {} /\ buffer' = <<>>
      /\ isClosed' = isClosed \union subscribers
      /\ panicked' = (panicked \/ subscribers \intersect isClosed # {})
      /\ UNCHANGED <<channel, emitted, skipped, cpc, backlog, sent>>
  BY DEF CloseHub, CloseChannels, clientVars
<1>2. buffer' \in Seq(Entries) /\ Len(buffer') = 0
  BY <1>1, EmptySeq
<1>3. HubTyped'
  <2>1. Len(buffer') <= BufSize
    BY <1>2, SizesAssumption
  <2> QED BY <1>1, <1>2, <2>1 DEF LogInv, HubTyped
<1>4. HubOrder'
  <2>1. ~panicked'
    BY <1>1 DEF LogInv, HubOrder
  <2>2. \A i \in 1 .. Len(buffer') : FALSE
    BY <1>2
  <2> QED BY <1>1, <2>1, <2>2 DEF HubOrder
<1>5. ASSUME NEW d \in Viewers PROVE ClientInv(d)'
  BY <1>1, OtherClient DEF LogInv
<1> QED BY <1>3, <1>4, <1>5 DEF LogInv

\* Steps of a client that leave the hub alone, or only leave it.
LEMMA ClientStepHolds ==
  ASSUME LogInv, NEW c \in Viewers, UNCHANGED <<emitted, buffer, hubClosed, skipped>>,
         subscribers' \subseteq subscribers, isClosed' \subseteq Viewers,
         subscribers' \intersect isClosed' = {}, ~panicked',
         NEW v \in {"off", "backlog", "live", "stale", "leave", "page", "file"},
         cpc' = [cpc EXCEPT ![c] = v],
         NEW a, sent' = [sent EXCEPT ![c] = a],
         NEW b \in Seq(Entries), backlog' = [backlog EXCEPT ![c] = b],
         NEW k \in Seq(Entries), channel' = [channel EXCEPT ![c] = k], Len(k) <= ChanCap,
         v \in Streaming =>
           /\ cpc[c] \in Streaming /\ a \in Seq(Nat) /\ (v = "live" => b = <<>>)
           /\ Strung(a, b, k) = Strung(sent[c], backlog[c], channel[c])
  PROVE  LogInv'
<1>0. HubTyped /\ HubOrder
  BY DEF LogInv
<1>1. /\ cpc'[c] = v /\ sent'[c] = a /\ backlog'[c] = b /\ channel'[c] = k
      /\ \A d \in Viewers \ {c} : cpc'[d] = cpc[d] /\ sent'[d] = sent[d]
                                 /\ backlog'[d] = backlog[d] /\ channel'[d] = channel[d]
      /\ sent' = [d \in Viewers |-> sent'[d]]
  BY <1>0 DEF HubTyped
<1>2. HubTyped'
  <2>1. \A d \in Viewers : Len(channel'[d]) <= ChanCap
    BY <1>0, <1>1 DEF HubTyped
  <2>2. channel' \in [Viewers -> Seq(Entries)] /\ backlog' \in [Viewers -> Seq(Entries)]
    BY <1>0 DEF HubTyped
  <2>3. cpc' \in [Viewers -> {"off", "backlog", "live", "stale", "leave", "page", "file"}]
    BY <1>0 DEF HubTyped
  <2> QED BY <1>0, <1>1, <2>1, <2>2, <2>3 DEF HubTyped
<1>3. HubOrder'
  BY <1>0 DEF HubOrder
<1>4. ASSUME NEW d \in Viewers PROVE ClientInv(d)'
  <2>1. CASE d # c
    BY <1>1, <2>1, OtherClient DEF LogInv
  <2>2. CASE d = c /\ v \in Streaming
    <3>1. Stream(c)' = Strung(a, b, k)
      <4>1. Stream(c)' = Strung(sent'[c], backlog'[c], channel'[c])
        BY DEF Stream, Strung, Numbers
      <4> QED BY <1>1, <4>1
    <3>2. Stream(c)' = Stream(c) /\ cpc[c] \in Streaming
      BY <2>2, <3>1, StreamStrung
    <3>3. ClientInv(c)
      BY DEF LogInv
    <3> QED BY <1>1, <2>2, <3>2, <3>3 DEF ClientInv
  <2>3. CASE d = c /\ v \notin Streaming
    BY <1>1, <2>3 DEF ClientInv
  <2> QED BY <2>1, <2>2, <2>3
<1> QED BY <1>2, <1>3, <1>4 DEF LogInv

\* A stream that begins with the buffer.
LEMMA SubscribeHolds ==
  ASSUME LogInv, NEW c \in Viewers, Subscribe(c), UNCHANGED <<emitted, buffer, hubClosed, panicked>>,
         NEW v \in {"stale", "backlog", "page", "file"}, cpc' = [cpc EXCEPT ![c] = v],
         NEW a, sent' = [sent EXCEPT ![c] = a],
         v = "backlog" => a = <<>> /\ ~hubClosed
  PROVE  LogInv'
<1>0. HubTyped /\ HubOrder
  BY DEF LogInv
<1>1. <<>> \in Seq(Entries) /\ <<>> \in Seq(Nat) /\ Len(<<>>) = 0 /\ ChanCap \in Nat
  BY EmptySeq, SizesAssumption
<1>2. CASE hubClosed
  <2>1. backlog' = [backlog EXCEPT ![c] = <<>>] /\ UNCHANGED <<subscribers, channel, isClosed, skipped>>
    BY <1>2 DEF Subscribe
  <2>2. /\ channel' = [channel EXCEPT ![c] = channel[c]] /\ channel[c] \in Seq(Entries)
        /\ Len(channel[c]) <= ChanCap
    BY <1>0, <2>1 DEF HubTyped
  <2>3. v \notin Streaming
    BY <1>2 DEF Streaming
  <2>4. /\ subscribers' \subseteq subscribers /\ isClosed' \subseteq Viewers
        /\ subscribers' \intersect isClosed' = {} /\ ~panicked'
    BY <1>0, <2>1 DEF HubTyped, HubOrder
  <2>5. v \in {"off", "backlog", "live", "stale", "leave", "page", "file"}
    OBVIOUS
  <2>6. UNCHANGED <<emitted, buffer, hubClosed, skipped>>
    BY <2>1
  <2>7. backlog' = [backlog EXCEPT ![c] = <<>>]
    BY <2>1
  <2>8. v \in Streaming =>
          /\ cpc[c] \in Streaming /\ a \in Seq(Nat) /\ (v = "live" => <<>> = <<>>)
          /\ Strung(a, <<>>, channel[c]) = Strung(sent[c], backlog[c], channel[c])
    BY <2>3
  <2> QED BY <1>1, <2>2, <2>4, <2>5, <2>6, <2>7, <2>8, ClientStepHolds
<1>3. CASE ~hubClosed
  <2>1. /\ subscribers' = subscribers \union {c} /\ backlog' = [backlog EXCEPT ![c] = buffer]
        /\ channel' = [channel EXCEPT ![c] = <<>>] /\ isClosed' = isClosed \ {c}
        /\ skipped' = [skipped EXCEPT ![c] = {}]
    BY <1>3 DEF Subscribe
  <2>2. /\ cpc'[c] = v /\ sent'[c] = a /\ backlog'[c] = buffer /\ channel'[c] = <<>> /\ skipped'[c] = {}
        /\ \A d \in Viewers \ {c} :
             /\ cpc'[d] = cpc[d] /\ sent'[d] = sent[d] /\ backlog'[d] = backlog[d]
             /\ channel'[d] = channel[d] /\ skipped'[d] = skipped[d]
        /\ sent' = [d \in Viewers |-> sent'[d]]
    BY <1>0, <2>1 DEF HubTyped
  <2>3. HubTyped'
    <3>1. ASSUME NEW d \in Viewers PROVE Len(channel'[d]) <= ChanCap
      <4>1. CASE d = c
        <5>1. channel'[d] = <<>>
          BY <2>2, <4>1
        <5> QED BY <1>1, <5>1
      <4>2. CASE d # c
        <5>1. channel'[d] = channel[d]
          BY <2>2, <4>2
        <5> QED BY <1>0, <5>1 DEF HubTyped
      <4> QED BY <4>1, <4>2
    <3>2. channel' \in [Viewers -> Seq(Entries)] /\ backlog' \in [Viewers -> Seq(Entries)]
      BY <1>0, <1>1, <2>1 DEF HubTyped
    <3>3. /\ skipped' \in [Viewers -> SUBSET Nat]
          /\ cpc' \in [Viewers -> {"off", "backlog", "live", "stale", "leave", "page", "file"}]
      BY <1>0, <2>1 DEF HubTyped
    <3>4. subscribers' \subseteq Viewers /\ isClosed' \subseteq Viewers
      BY <1>0, <2>1 DEF HubTyped
    <3> QED BY <1>0, <2>2, <3>1, <3>2, <3>3, <3>4 DEF HubTyped
  <2>4. HubOrder'
    BY <1>0, <1>3, <2>1 DEF HubOrder
  <2>5. ASSUME NEW d \in Viewers PROVE ClientInv(d)'
    <3>1. CASE d # c
      BY <2>1, <2>2, <3>1, OtherClient DEF LogInv
    <3>2. CASE d = c /\ v = "backlog"
      <4> DEFINE y == Numbers(buffer)
      <4>1. Stream(c)' = y
        <5>1. Stream(c)' = Strung(sent'[c], backlog'[c], channel'[c])
          BY DEF Stream, Strung, Numbers
        <5>2. Stream(c)' = Strung(<<>>, buffer, <<>>)
          BY <2>2, <3>2, <5>1
        <5>3. Numbers(<<>>) = <<>> /\ y \in Seq(Nat)
          BY <1>0, <1>1, NumbersSeq DEF Numbers, HubTyped
        <5>4. <<>> \o y = y /\ y \o <<>> = y
          BY <5>3, ConcatEmptySeq
        <5> QED BY <5>2, <5>3, <5>4 DEF Strung
      <4>2. /\ y \in Seq(Nat) /\ Len(y) = Len(buffer) /\ Len(buffer) \in Nat /\ emitted \in Nat
            /\ \A i \in 1 .. Len(buffer) : y[i] = emitted - Len(buffer) + i
        BY <1>0, NumbersSeq, LenProperties DEF HubTyped, HubOrder
      <4> HIDE DEF y
      <4>3. Dense(y, {})
        <5> SUFFICES ASSUME NEW i \in 1 .. Len(y) - 1
                     PROVE  y[i] < y[i + 1] /\ \A m \in y[i] + 1 .. y[i + 1] - 1 : m \in {}
          BY DEF Dense
        <5>1. i \in 1 .. Len(buffer) /\ i + 1 \in 1 .. Len(buffer)
          BY <4>2
        <5>2. y[i] = emitted - Len(buffer) + i /\ y[i + 1] = emitted - Len(buffer) + (i + 1)
          BY <4>2, <5>1
        <5> QED BY <4>2, <5>2
      <4>4. Reaches(y, {}, emitted)
        <5> SUFFICES ASSUME y # <<>>
                     PROVE  y[Len(y)] <= emitted /\ \A m \in y[Len(y)] + 1 .. emitted : m \in {}
          BY DEF Reaches
        <5>1. Len(y) \in 1 .. Len(buffer)
          BY <4>2, EmptySeq
        <5>2. y[Len(y)] = emitted
          BY <4>2, <5>1
        <5> QED BY <4>2, <5>2
      <4> QED BY <1>1, <2>2, <3>2, <4>1, <4>3, <4>4 DEF ClientInv
    <3>3. CASE d = c /\ v # "backlog"
      BY <2>2, <3>3 DEF ClientInv, Streaming
    <3> QED BY <3>1, <3>2, <3>3
  <2> QED BY <2>3, <2>4, <2>5 DEF LogInv
<1> QED BY <1>2, <1>3

LEMMA StreamingHolds ==
  ASSUME LogInv, NEW c \in Viewers, sendBacklog(c) \/ streamLive(c) \/ Disconnect(c)
  PROVE  LogInv'
<1> USE DEF ClientAt, ClientTo
<1>0. /\ HubTyped /\ HubOrder /\ channel[c] \in Seq(Entries) /\ Len(channel[c]) <= ChanCap
      /\ backlog[c] \in Seq(Entries) /\ ClientInv(c)
  BY DEF LogInv, HubTyped
<1>1. /\ sent = [sent EXCEPT ![c] = sent[c]] /\ channel = [channel EXCEPT ![c] = channel[c]]
      /\ backlog = [backlog EXCEPT ![c] = backlog[c]]
      /\ subscribers \subseteq subscribers /\ isClosed \subseteq Viewers
      /\ subscribers \intersect isClosed = {} /\ ~panicked
  BY <1>0 DEF HubTyped, HubOrder
<1>2. /\ UNCHANGED <<emitted, buffer, hubClosed, skipped, subscribers, isClosed, panicked>>
  BY DEF sendBacklog, streamLive, Disconnect, hubVars
<1>3. CASE \/ cpc' = [cpc EXCEPT ![c] = "leave"] /\ UNCHANGED <<sent, channel, backlog>>
           \/ Disconnect(c)
  <2>1. cpc' = [cpc EXCEPT ![c] = "leave"] /\ UNCHANGED <<sent, channel, backlog>>
    BY <1>3 DEF Disconnect, hubVars
  <2>2. "leave" \notin Streaming
    BY DEF Streaming
  <2> QED BY <1>0, <1>1, <1>2, <2>1, <2>2, ClientStepHolds
<1>4. CASE sendBacklog(c)
  <2>1. sent[c] \in Seq(Nat) /\ cpc[c] \in Streaming /\ channel' = channel
    BY <1>0, <1>4 DEF sendBacklog, ClientInv, Streaming, hubVars
  <2>2. CASE backlog[c] = <<>>
    <3>1. cpc' = [cpc EXCEPT ![c] = "live"] /\ UNCHANGED <<sent, backlog>>
      BY <1>4, <2>2 DEF sendBacklog
    <3> QED BY <1>0, <1>1, <1>2, <2>1, <2>2, <3>1, ClientStepHolds
  <2>3. CASE backlog[c] # <<>>
    <3>1. /\ backlog' = [backlog EXCEPT ![c] = Tail(backlog[c])] /\ Tail(backlog[c]) \in Seq(Entries)
          /\ sendSSE(c, Head(backlog[c]), "backlog")
      BY <1>0, <1>4, <2>3, HeadTailProperties DEF sendBacklog
    <3>2. CASE UNCHANGED sent /\ cpc' = [cpc EXCEPT ![c] = "leave"]
      <4>1. "leave" \notin Streaming
        BY DEF Streaming
      <4> QED BY <1>0, <1>1, <1>2, <2>1, <3>1, <3>2, <4>1, ClientStepHolds
    <3>3. CASE /\ sent' = [sent EXCEPT ![c] = Append(sent[c], Head(backlog[c]).n)]
               /\ cpc' = [cpc EXCEPT ![c] = "backlog"]
      <4>1. /\ Append(sent[c], Head(backlog[c]).n) \in Seq(Nat)
            /\ Strung(Append(sent[c], Head(backlog[c]).n), Tail(backlog[c]), channel[c])
                 = Strung(sent[c], backlog[c], channel[c])
        BY <1>0, <2>1, <2>3, StrungMoves
      <4> QED BY <1>0, <1>1, <1>2, <2>1, <3>1, <3>3, <4>1, ClientStepHolds
    <3> QED BY <3>1, <3>2, <3>3 DEF sendSSE
  <2> QED BY <2>2, <2>3
<1>5. CASE streamLive(c) /\ channel[c] # <<>>
  <2>1. sent[c] \in Seq(Nat) /\ cpc[c] \in Streaming /\ backlog[c] = <<>> /\ backlog' = backlog
    BY <1>0, <1>5 DEF streamLive, ClientInv, Streaming
  <2>2. /\ channel' = [channel EXCEPT ![c] = Tail(channel[c])] /\ Tail(channel[c]) \in Seq(Entries)
        /\ Len(Tail(channel[c])) <= ChanCap
        /\ sendSSE(c, Head(channel[c]), "live")
    <3>1. Tail(channel[c]) \in Seq(Entries) /\ Len(Tail(channel[c])) = Len(channel[c]) - 1
      BY <1>0, <1>5, HeadTailProperties
    <3>2. Len(channel[c]) \in Nat /\ ChanCap \in Nat
      BY <1>0, LenProperties, SizesAssumption
    <3> QED BY <1>0, <1>5, <3>1, <3>2 DEF streamLive
  <2>3. CASE UNCHANGED sent /\ cpc' = [cpc EXCEPT ![c] = "leave"]
    <3>1. "leave" \notin Streaming
      BY DEF Streaming
    <3> QED BY <1>0, <1>1, <1>2, <2>1, <2>2, <2>3, <3>1, ClientStepHolds
  <2>4. CASE /\ sent' = [sent EXCEPT ![c] = Append(sent[c], Head(channel[c]).n)]
             /\ cpc' = [cpc EXCEPT ![c] = "live"]
    <3>1. /\ Append(sent[c], Head(channel[c]).n) \in Seq(Nat)
          /\ Strung(Append(sent[c], Head(channel[c]).n), backlog[c], Tail(channel[c]))
               = Strung(sent[c], backlog[c], channel[c])
      BY <1>0, <1>5, <2>1, StrungMoves
    <3>2. backlog' = [backlog EXCEPT ![c] = backlog[c]]
      BY <1>1, <2>1
    <3>3. /\ UNCHANGED <<emitted, buffer, hubClosed, skipped>>
          /\ subscribers' \subseteq subscribers /\ isClosed' \subseteq Viewers
          /\ subscribers' \intersect isClosed' = {} /\ ~panicked'
      BY <1>1, <1>2
    <3> DEFINE a == Append(sent[c], Head(channel[c]).n)
               b == backlog[c]
               k == Tail(channel[c])
    <3>4. /\ k \in Seq(Entries) /\ channel' = [channel EXCEPT ![c] = k] /\ Len(k) <= ChanCap
          /\ sent' = [sent EXCEPT ![c] = a] /\ backlog' = [backlog EXCEPT ![c] = b]
          /\ cpc' = [cpc EXCEPT ![c] = "live"]
      BY <2>2, <2>4, <3>2
    <3>5. b \in Seq(Entries) /\ b = <<>>
      BY <1>0, <2>1
    <3>6. a \in Seq(Nat) /\ Strung(a, b, k) = Strung(sent[c], backlog[c], channel[c])
      BY <3>1
    <3> HIDE DEF a, b, k
    <3> QED BY <1>0, <2>1, <3>3, <3>4, <3>5, <3>6, ClientStepHolds
  <2> QED BY <2>2, <2>3, <2>4 DEF sendSSE
<1> QED BY <1>3, <1>4, <1>5 DEF streamLive

LEMMA LeavingHolds ==
  ASSUME LogInv, NEW c \in Viewers, leaveEvents(c) \/ handleLogs(c)
  PROVE  LogInv'
<1>0. HubTyped /\ HubOrder
  BY DEF LogInv
<1>1. /\ UNCHANGED <<emitted, buffer, hubClosed, skipped, channel>>
      /\ cpc' = [cpc EXCEPT ![c] = "off"] /\ backlog' = [backlog EXCEPT ![c] = <<>>]
      /\ \E a : sent' = [sent EXCEPT ![c] = a]
  BY DEF leaveEvents, handleLogs, ClientTo
<1>2. Unsubscribe(c) \/ UNCHANGED <<subscribers, isClosed, panicked>>
  BY DEF leaveEvents, handleLogs
<1>3. /\ subscribers' \subseteq subscribers /\ isClosed' \subseteq Viewers
      /\ subscribers' \intersect isClosed' = {} /\ ~panicked'
  <2>1. CASE UNCHANGED <<subscribers, isClosed, panicked>>
    BY <1>0, <2>1 DEF HubTyped, HubOrder
  <2>2. CASE Unsubscribe(c)
    <3>1. /\ subscribers' = subscribers \ {c} /\ isClosed' = isClosed \union ({c} \intersect subscribers)
          /\ panicked' = (panicked \/ ({c} \intersect subscribers) \intersect isClosed # {})
      BY <2>2 DEF Unsubscribe, CloseChannels
    <3>2. ({c} \intersect subscribers) \intersect isClosed = {}
      BY <1>0 DEF HubOrder
    <3>3. ~panicked'
      BY <1>0, <3>1, <3>2 DEF HubOrder
    <3> QED BY <1>0, <3>1, <3>3 DEF HubTyped, HubOrder
  <2> QED BY <1>2, <2>1, <2>2
<1>4. /\ channel' = [channel EXCEPT ![c] = channel[c]] /\ channel[c] \in Seq(Entries)
      /\ Len(channel[c]) <= ChanCap /\ <<>> \in Seq(Entries) /\ "off" \notin Streaming
  BY <1>0, <1>1, EmptySeq DEF HubTyped, Streaming
<1> QED BY <1>1, <1>3, <1>4, ClientStepHolds

LEMMA LogStep ==
  ASSUME LogInv, [LogNext]_logVars
  PROVE  LogInv'
<1>1. CASE UNCHANGED logVars
  <2>1. /\ UNCHANGED <<buffer, subscribers, hubClosed, channel, isClosed, panicked, emitted>>
        /\ UNCHANGED <<skipped, cpc, backlog, sent>>
    BY <1>1 DEF logVars, hubVars, clientVars
  <2>2. HubTyped' /\ HubOrder'
    BY <2>1 DEF LogInv, HubTyped, HubOrder
  <2>3. ASSUME NEW d \in Viewers PROVE ClientInv(d)'
    BY <2>1, OtherClient DEF LogInv
  <2> QED BY <2>2, <2>3 DEF LogInv
<1>2. ASSUME NEW c \in Viewers, handleEvents(c) PROVE LogInv'
  <2>1. PICK v \in {"stale", "backlog"} :
          cpc' = [cpc EXCEPT ![c] = v] /\ (v = "backlog" => ~hubClosed)
    BY <1>2 DEF handleEvents, ClientTo
  <2> QED BY <1>2, <2>1, SubscribeHolds DEF handleEvents
<1>3. ASSUME NEW c \in Viewers, hubLogTail(c) PROVE LogInv'
  <2>1. PICK v \in {"file", "page"} : cpc' = [cpc EXCEPT ![c] = v]
    BY <1>3 DEF hubLogTail, ClientTo
  <2>2. sent' = [sent EXCEPT ![c] = sent[c]]
    BY <1>3 DEF hubLogTail, LogInv, HubTyped
  <2> QED BY <1>3, <2>1, <2>2, SubscribeHolds DEF hubLogTail
<1> QED
  BY <1>1, <1>2, <1>3, RecordHolds, CloseHubHolds, StreamingHolds, LeavingHolds DEF LogNext

LEMMA LogInitInv ==
  ASSUME LogInit
  PROVE  LogInv
<1>1. <<>> \in Seq(Entries) /\ Len(<<>>) = 0 /\ BufSize \in Nat /\ ChanCap \in Nat
  BY EmptySeq, SizesAssumption
<1>2. HubTyped
  BY <1>1 DEF LogInit, HubTyped
<1>3. HubOrder
  BY <1>1 DEF LogInit, HubOrder
<1>4. \A c \in Viewers : ClientInv(c)
  BY DEF LogInit, ClientInv, Streaming
<1> QED BY <1>2, <1>3, <1>4 DEF LogInv

\* LogInv is an invariant of the hub, for any number of clients and records
\* and any sizes of the buffer and the channels.
THEOREM LogInvariant == LogSpec => []LogInv
BY LogInitInv, LogStep, PTL DEF LogSpec

\* What a client is sent misses only records its own channel had no room
\* for, and no closed channel is sent to or closed (Emit, Subscribe,
\* Unsubscribe, Close).
THEOREM LogStreamComplete == LogSpec => []StreamComplete
<1>1. ASSUME LogInv PROVE StreamComplete
  BY <1>1 DEF LogInv, HubOrder, ClientInv, Streaming, Dense, Reaches, StreamComplete
<1> QED BY <1>1, LogInvariant, PTL
=============================================================================
