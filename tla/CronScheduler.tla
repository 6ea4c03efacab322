---------------------------- MODULE CronScheduler ----------------------------
(***************************************************************************)
(* The cron scheduler (internal/cron/scheduler.go, cron.go, batch.go,      *)
(* seed.go): a job store in memory, the file jobs.json it is saved to, and *)
(* a directory of job definitions that is merged into the store.           *)
(*                                                                         *)
(* A poll reloads both sources, marks the due jobs, runs them concurrently *)
(* without holding the mutex, then books the results and saves.  While the *)
(* jobs run, time passes, files are edited and the process may die.  Every *)
(* read of a file and every write may fail.                                *)
(*                                                                         *)
(* A job definition is its schedule kind and its enabled flag; name and    *)
(* payload play no part here.  A definition file carries the edit that     *)
(* wrote it, so that the fingerprint of the directory (names, sizes and    *)
(* modification times) is the directory itself.                            *)
(***************************************************************************)
EXTENDS Integers, FiniteSets

CONSTANTS
  IDs,          \* job ids
  Seeds,        \* ids that start-up adds to jobs.json when they are missing
  Defs,         \* definitions that files may have
  InitFile,     \* id -> definition in jobs.json at the beginning, or NoJob
  NoJob, NoStore, Malformed,
  Every,        \* interval of an "every" schedule
  Period,       \* a "cron" schedule fires at the multiples of Period
  AtTime,       \* the time of an "at" schedule
  EditLive,     \* may jobs.json be edited while the scheduler runs?
  WritesFail,   \* may saving jobs.json fail?
  FileBreaks,   \* may jobs.json be undecodable after an edit, or unreadable at start-up?
  MaxTime, MaxEdits, MaxCrashes   \* bounds

Definitions == [kind : {"every", "cron", "at"}, enabled : BOOLEAN]

ASSUME DefsAssumption == Defs \subseteq Definitions
ASSUME InitFileAssumption == InitFile \in [IDs -> Defs \union {NoJob}]
ASSUME TimesAssumption ==
  {Every, Period, AtTime} \subseteq Nat \ {0} /\ {MaxTime, MaxEdits, MaxCrashes} \subseteq Nat
ASSUME FlagsAssumption == {EditLive, FileBreaks, WritesFail} \subseteq BOOLEAN

Jobs == [src : {"none", "modular"}, def : Definitions, next : Nat, runs : Nat, ok : Nat, fail : Nat]
Stores == [IDs -> Jobs \union {NoJob}]
Items == [IDs -> [def : Definitions \union {Malformed}, stamp : Nat] \union {NoJob}]

\* The marks of absence are no jobs, stores or definitions.
ASSUME MarksAssumption ==
  /\ NoJob \notin Jobs /\ NoJob \notin [def : Definitions \union {Malformed}, stamp : Nat]
  /\ NoJob \notin Definitions /\ Malformed \notin Definitions
  /\ NoStore \notin Stores

\* A job that has never been scheduled.
NewJob(d, s) == [src |-> s, def |-> d, next |-> 0, runs |-> 0, ok |-> 0, fail |-> 0]

VARIABLES
  now,        \* the clock
  phase,      \* "down", "idle" (between polls) or "run" (jobs under way)
  store,      \* Scheduler.store: id -> job or NoJob; NoStore when it is nil
  dirty,      \* modularDirty
  committed,  \* modularCommitted
  finger,     \* modularFingerprint
  file,       \* jobs.json: its jobs, and can it be decoded?
  touched,    \* does a stat of jobs.json differ from the one recorded last?
  items,      \* the definition files: id -> [def, stamp], or NoJob
  due,        \* id -> the slot (nextRunAtMs) it was dispatched for, or 0
  result,     \* id -> "none", "alert" (failed, the alert under way), "ok" or "fail"
  edits, crashes,
  ran,        \* slots finished but not saved (auxiliary)
  done,       \* slots whose completion was saved (auxiliary)
  ended,      \* id -> when its last dispatch ended, or -1 (auxiliary)
  unowned     \* jobs of jobs.json that belong to the operator (auxiliary)

vars == <<now, phase, store, dirty, committed, finger, file, touched, items, due, result,
          edits, crashes, ran, done, ended, unowned>>

\* The scheduler and its file, as one value that the steps of a poll transform.
World == [store |-> store, dirty |-> dirty, committed |-> committed, finger |-> finger,
          file |-> file, touched |-> touched, ran |-> ran, done |-> done, ended |-> ended,
          unowned |-> unowned]

Becomes(w) ==
  /\ store' = w.store /\ dirty' = w.dirty /\ committed' = w.committed
  /\ finger' = w.finger /\ file' = w.file /\ touched' = w.touched
  /\ ran' = w.ran /\ done' = w.done /\ ended' = w.ended /\ unowned' = w.unowned

Never == [j \in IDs |-> -1]
Present(st) == {j \in IDs : st[j] # NoJob}
Unowned(st) == {j \in Present(st) : st[j].src = "none"}

InitJobs == [j \in IDs |-> IF InitFile[j] = NoJob THEN NoJob ELSE NewJob(InitFile[j], "none")]

Init ==
  /\ now = 1
  /\ phase = "down"
  /\ store = NoStore
  /\ dirty = FALSE /\ committed = FALSE /\ finger = NoStore
  /\ file = [jobs |-> InitJobs, decodes |-> TRUE]
  /\ touched = FALSE
  /\ items = [j \in IDs |-> NoJob]
  /\ due = [j \in IDs |-> 0]
  /\ result = [j \in IDs |-> "none"]
  /\ edits = 0 /\ crashes = 0
  /\ ran = {} /\ done = {}
  /\ ended = Never
  /\ unowned = Unowned(InitJobs)
-----------------------------------------------------------------------------
(***************************************************************************)
(* Schedules.                                                              *)
(***************************************************************************)
ComputeNextRun(d, t) ==
  CASE d.kind = "every" -> t + Every
    [] d.kind = "cron" -> ((t \div Period) + 1) * Period
    [] d.kind = "at" -> IF AtTime > t THEN AtTime ELSE 0

IsDue(j, t) == j.def.enabled /\ j.next > 0 /\ t >= j.next
IsNew(j) == j.def.enabled /\ j.next = 0
-----------------------------------------------------------------------------
(***************************************************************************)
(* Reading and writing jobs.json.                                          *)
(***************************************************************************)
\* The possible outcomes of writeStore.
writeStore(w) ==
  (IF WritesFail THEN {w} ELSE {}) \union
  {[w EXCEPT !.file = [jobs |-> w.store, decodes |-> TRUE],
                !.dirty = FALSE, !.touched = FALSE,
                !.ran = {}, !.done = w.done \union w.ran]}

\* The possible outcomes of reloadJobsJSON; a file that cannot be read or
\* decoded is tried again by the next poll.
reloadJobsJSON(w) ==
  IF w.dirty \/ ~w.touched \/ ~w.file.decodes THEN {w}
  ELSE {w, [w EXCEPT !.store = w.file.jobs, !.touched = FALSE, !.committed = FALSE,
                     !.ran = {}, !.ended = Never]}
-----------------------------------------------------------------------------
(***************************************************************************)
(* The definition files.                                                   *)
(***************************************************************************)
Complete == \A j \in IDs : items[j] = NoJob \/ items[j].def # Malformed
Valid == {j \in IDs : items[j] # NoJob /\ items[j].def # Malformed}

\* loadModularSnapshot: a file may be malformed or unreadable just now.
Snapshots ==
  {[jobs |-> [j \in Valid \ lost |-> items[j].def],
    complete |-> lost = {} /\ Complete]
   : lost \in SUBSET Valid}

\* A complete snapshot prunes whatever it does not name.
MutPrune(st, snap) ==
  [j \in IDs |->
     IF j \in DOMAIN snap.jobs
     THEN IF st[j] = NoJob THEN NewJob(snap.jobs[j], "modular")
                           ELSE [st[j] EXCEPT !.def = snap.jobs[j], !.src = "modular"]
     ELSE IF snap.complete THEN NoJob ELSE st[j]]

\* reconcileModularJobs: prune what is owned and gone, adopt or add the rest.
reconcileModularJobs(st, snap) ==
  [j \in IDs |->
     IF j \in DOMAIN snap.jobs
     THEN IF st[j] = NoJob THEN NewJob(snap.jobs[j], "modular")
                           ELSE [st[j] EXCEPT !.def = snap.jobs[j], !.src = "modular"]
     ELSE IF snap.complete /\ st[j] # NoJob /\ st[j].src = "modular" THEN NoJob ELSE st[j]]

Commit(w, snap) ==
  IF snap.complete THEN [w EXCEPT !.finger = items, !.committed = TRUE] ELSE w

reconcileSnapshot(w, snap) ==
  LET old == IF w.store = NoStore THEN [j \in IDs |-> NoJob] ELSE w.store
      new == reconcileModularJobs(old, snap)
      w1 == [w EXCEPT !.store = new, !.dirty = w.dirty \/ new # old,
                      !.unowned = @ \ {j \in Present(new) : new[j].src = "modular"}]
  IN  IF w1.dirty THEN {IF v.dirty THEN v ELSE Commit(v, snap) : v \in writeStore(w1)}
                  ELSE {Commit(w1, snap)}

\* The possible outcomes of reloadModularJobs.
reloadModularJobs(w) ==
  (IF w.dirty THEN writeStore(w) ELSE {w})
  \union UNION {IF snap.complete /\ w.committed /\ ~w.dirty /\ w.finger = items
                THEN {w} ELSE reconcileSnapshot(w, snap) : snap \in Snapshots}
-----------------------------------------------------------------------------
(***************************************************************************)
(* poll.                                                                   *)
(***************************************************************************)
DueIn(st) == {j \in Present(st) : IsDue(st[j], now)}

\* identifyDueJobs: schedule new jobs, count the due ones.
Identified(st) ==
  [j \in IDs |->
     IF st[j] = NoJob THEN NoJob
     ELSE IF IsNew(st[j]) THEN [st[j] EXCEPT !.next = ComputeNextRun(st[j].def, now)]
     ELSE IF IsDue(st[j], now) THEN [st[j] EXCEPT !.runs = @ + 1]
     ELSE st[j]]

Changed(st) == \E j \in Present(st) : IsNew(st[j]) \/ IsDue(st[j], now)

PollIdle(w) ==
  /\ w.store # NoStore => DueIn(w.store) = {}
  /\ \E v \in (IF w.store = NoStore \/ ~Changed(w.store) THEN {w}
               ELSE writeStore([w EXCEPT !.store = Identified(w.store)])) :
       Becomes(v)
  /\ UNCHANGED <<phase, due, result>>

PollDue(w) ==
  /\ w.store # NoStore /\ DueIn(w.store) # {}
  /\ Becomes([w EXCEPT !.store = Identified(w.store)])
  /\ due' = [j \in IDs |-> IF j \in DueIn(w.store) THEN w.store[j].next ELSE 0]
  /\ phase' = "run"
  /\ UNCHANGED result

\* A poll that schedules a new job saves it and leaves the due ones to the next.
MutNewFirst ==
  /\ phase = "idle"
  /\ \E w1 \in reloadJobsJSON(World) : \E w2 \in reloadModularJobs(w1) :
       IF w2.store # NoStore /\ \E j \in Present(w2.store) : IsNew(w2.store[j])
       THEN /\ \E w3 \in writeStore([w2 EXCEPT !.store = [j \in IDs |->
                     IF w2.store[j] # NoJob /\ IsDue(w2.store[j], now)
                     THEN w2.store[j] ELSE Identified(w2.store)[j]]]) : Becomes(w3)
            /\ UNCHANGED <<phase, due, result>>
       ELSE PollIdle(w2) \/ PollDue(w2)
  /\ UNCHANGED <<now, items, edits, crashes>>

\* The polled scheduler always has a dispatcher; only the dashboard's view of
\* jobs.json, which never polls, is made without one.
poll ==
  /\ phase = "idle"
  /\ \E w1 \in reloadJobsJSON(World) :
       \E w2 \in reloadModularJobs(w1) : PollIdle(w2) \/ PollDue(w2)
  /\ UNCHANGED <<now, items, edits, crashes>>

\* Dispatch returns.  The job's context ends after the job timeout, which the
\* dispatcher may or may not heed.
executeJob(j) ==
  /\ phase = "run" /\ due[j] # 0 /\ result[j] = "none"
  /\ \E r \in {"ok", "alert"} : result' = [result EXCEPT ![j] = r]
  /\ UNCHANGED <<now, phase, store, dirty, committed, finger, file, touched, items, due,
                 edits, crashes, ran, done, ended, unowned>>

\* The alert of a failed job returns (at once if the dispatcher has notified
\* already).  It has the context of the scheduler, which has no deadline.
failureAlert(j) ==
  /\ phase = "run" /\ result[j] = "alert"
  /\ result' = [result EXCEPT ![j] = "fail"]
  /\ UNCHANGED <<now, phase, store, dirty, committed, finger, file, touched, items, due,
                 edits, crashes, ran, done, ended, unowned>>

\* Has runJobsConcurrently a goroutine of j to wait for?
Waiting(j) == due[j] # 0 /\ result[j] \in {"none", "alert"}

Booked(j, t) ==
  [store[j] EXCEPT !.ok = @ + (IF result[j] = "ok" THEN 1 ELSE 0),
                   !.fail = @ + (IF result[j] = "fail" THEN 1 ELSE 0),
                   !.next = ComputeNextRun(store[j].def, t)]

\* The next run is computed from the time the poll began.
MutNextStore ==
  [j \in IDs |-> IF due[j] # 0 THEN Booked(j, due[j]) ELSE store[j]]

\* The next run is computed from the time the jobs ended.
NextStore ==
  [j \in IDs |-> IF due[j] # 0 THEN Booked(j, now) ELSE store[j]]

\* The store is saved before the next runs are computed.
MutPollEnd ==
  /\ phase = "run"
  /\ \A j \in IDs : ~Waiting(j)
  /\ LET slots == {<<j, due[j]>> : j \in {i \in IDs : due[i] # 0}}
         counted == [j \in IDs |-> IF due[j] # 0 THEN [NextStore[j] EXCEPT !.next = store[j].next]
                                                ELSE store[j]]
         booked == [World EXCEPT
                      !.store = counted, !.ran = ran \union slots,
                      !.ended = [j \in IDs |-> IF due[j] # 0 THEN now ELSE ended[j]]]
     IN  \E w \in writeStore(booked) : Becomes([w EXCEPT !.store = NextStore])
  /\ phase' = "idle"
  /\ due' = [j \in IDs |-> 0]
  /\ result' = [j \in IDs |-> "none"]
  /\ UNCHANGED <<now, items, edits, crashes>>

\* All jobs have returned: book the results and save.
pollEnd ==
  /\ phase = "run"
  /\ \A j \in IDs : ~Waiting(j)
  /\ LET slots == {<<j, due[j]>> : j \in {i \in IDs : due[i] # 0}}
         booked == [World EXCEPT
                      !.store = NextStore, !.ran = ran \union slots,
                      !.ended = [j \in IDs |-> IF due[j] # 0 THEN now ELSE ended[j]]]
     IN  \E w \in writeStore(booked) : Becomes(w)
  /\ phase' = "idle"
  /\ due' = [j \in IDs |-> 0]
  /\ result' = [j \in IDs |-> "none"]
  /\ UNCHANGED <<now, items, edits, crashes>>
-----------------------------------------------------------------------------
(***************************************************************************)
(* Start-up, death, time, and the operator.                                *)
(***************************************************************************)
\* SeedJob on a file that decodes; writing may fail.
Seeded(f) ==
  IF ~f.decodes THEN {f}
  ELSE {f, [f EXCEPT !.jobs = [j \in IDs |->
              IF j \in Seeds /\ f.jobs[j] = NoJob
              THEN NewJob([kind |-> "every", enabled |-> TRUE], "none") ELSE f.jobs[j]]]}

\* SeedDefaultCronJobs, then NewScheduler.  The file's stat is recorded even
\* if its contents cannot be loaded.
NewScheduler ==
  /\ phase = "down"
  /\ file' \in Seeded(file)
  /\ \/ file'.decodes /\ store' = file'.jobs
     \/ (FileBreaks \/ ~file'.decodes) /\ store' = NoStore
  /\ phase' = "idle"
  /\ dirty' = FALSE /\ committed' = FALSE /\ finger' = NoStore /\ touched' = FALSE
  /\ unowned' = Unowned(file'.jobs)
  /\ UNCHANGED <<now, items, due, result, edits, crashes, ran, done, ended>>

Crash ==
  /\ phase # "down" /\ crashes < MaxCrashes
  /\ crashes' = crashes + 1
  /\ phase' = "down"
  /\ store' = NoStore
  /\ due' = [j \in IDs |-> 0] /\ result' = [j \in IDs |-> "none"]
  /\ ran' = {} /\ ended' = Never
  /\ UNCHANGED <<now, dirty, committed, finger, file, touched, items, edits, done, unowned>>

Tick ==
  /\ now < MaxTime
  /\ now' = now + 1
  /\ UNCHANGED <<phase, store, dirty, committed, finger, file, touched, items, due, result,
                 edits, crashes, ran, done, ended, unowned>>

\* A definition file is written, removed, or saved in a malformed state.
EditItem(j) ==
  /\ edits < MaxEdits
  /\ edits' = edits + 1
  /\ \/ \E d \in Defs \union {Malformed} :
          items' = [items EXCEPT ![j] = [def |-> d, stamp |-> edits]]
     \/ items[j] # NoJob /\ items' = [items EXCEPT ![j] = NoJob]
  /\ UNCHANGED <<now, phase, store, dirty, committed, finger, file, touched, due, result,
                 crashes, ran, done, ended, unowned>>

\* The operator edits a job of jobs.json: adds it, removes it, changes its
\* definition or makes it due, or leaves the file undecodable.
EditJobs(j) ==
  /\ edits < MaxEdits
  /\ EditLive \/ phase = "down"
  /\ edits' = edits + 1
  /\ \/ \E d \in Defs :
          file' = [file EXCEPT !.jobs[j] = IF file.jobs[j] = NoJob THEN NewJob(d, "none")
                                           ELSE [file.jobs[j] EXCEPT !.def = d],
                               !.decodes = TRUE]
     \/ file' = [file EXCEPT !.jobs[j] = NoJob, !.decodes = TRUE]
     \/ /\ file.jobs[j] # NoJob
        /\ file' = [file EXCEPT !.jobs[j].next = 1, !.decodes = TRUE]
     \/ FileBreaks /\ file' = [file EXCEPT !.decodes = FALSE]
  /\ file' # file
  /\ touched' = TRUE
  /\ done' = {s \in done : s[1] # j}
  /\ unowned' = Unowned(file'.jobs)
  /\ UNCHANGED <<now, phase, store, dirty, committed, finger, items, due, result,
                 crashes, ran, ended>>
-----------------------------------------------------------------------------
Next ==
  \/ poll \/ pollEnd \/ NewScheduler \/ Crash \/ Tick
  \/ \E j \in IDs : executeJob(j) \/ failureAlert(j) \/ EditItem(j) \/ EditJobs(j)

Spec == Init /\ [][Next]_vars

\* The polling loop goes on; nothing makes a dispatch or an alert return, and
\* nothing restarts a dead scheduler.
FairSpec == Spec /\ WF_vars(poll) /\ WF_vars(pollEnd)
-----------------------------------------------------------------------------
TypeOK ==
  /\ now \in Nat \ {0}
  /\ phase \in {"down", "idle", "run"}
  /\ store = NoStore \/ store \in Stores
  /\ {dirty, committed, touched} \subseteq BOOLEAN
  /\ file.jobs \in Stores /\ file.decodes \in BOOLEAN
  /\ items \in Items
  /\ finger = NoStore \/ finger \in Items
  /\ due \in [IDs -> Nat] /\ result \in [IDs -> {"none", "alert", "ok", "fail"}]
  /\ phase = "run" <=> \E j \in IDs : due[j] # 0
  /\ \A j \in IDs : due[j] # 0 => store[j] # NoJob
  /\ {edits, crashes} \subseteq Nat
  /\ ran \union done \subseteq IDs \X Nat
  /\ ended \in [IDs -> Nat \union {-1}]
  /\ unowned \subseteq IDs

(***************************************************************************)
(* A run whose completion was saved to jobs.json is never dispatched       *)
(* again: not after a crash, a failed save, a reload or a re-import of its *)
(* definition; only an edit of the job by the operator allows it.          *)
(***************************************************************************)
OncePersisted == [][\A j \in IDs : due[j] = 0 => <<j, due'[j]>> \notin done]_vars

(***************************************************************************)
(* A job is not dispatched again at the very time its last dispatch ended, *)
(* even when it ran longer than its interval.                              *)
(***************************************************************************)
NoRefire == [][\A j \in IDs : due[j] = 0 /\ due'[j] # 0 => ended'[j] < now]_vars

(***************************************************************************)
(* A job leaves the store only if jobs.json no longer has it or if it is   *)
(* owned and no definition, not even a malformed one, may stand for it.    *)
(***************************************************************************)
RemovalAuthorized ==
  [][phase = "idle" /\ phase' # "down" /\ store # NoStore => \A j \in Present(store) :
       \/ j \in Present(store')
       \/ touched /\ file.jobs[j] = NoJob
       \/ /\ store[j].src = "modular" \/ (touched /\ file.jobs[j].src = "modular")
          /\ Complete
          /\ items[j] = NoJob]_vars

(***************************************************************************)
(* Jobs of the operator stay in jobs.json until the operator removes them  *)
(* or a definition with the same id adopts them.                           *)
(***************************************************************************)
UnownedSurvive == \A j \in unowned : file.jobs[j] # NoJob

(***************************************************************************)
(* The counters of a job are all updated after the dispatched jobs have    *)
(* returned: a reader of Jobs() never sees a run without its result.       *)
(***************************************************************************)
CountsAfterWait ==
  store # NoStore => \A j \in Present(store) : store[j].runs = store[j].ok + store[j].fail

(***************************************************************************)
(* If every dispatch and every alert returns (poll waits for all of them), *)
(* the slot of a due job of a polling scheduler is dispatched and booked,  *)
(* however often reads and saves fail meanwhile, unless the scheduler dies *)
(* or an edit the scheduler has not read yet changes or removes the job.   *)
(***************************************************************************)
Overdue(j) == store # NoStore /\ store[j] # NoJob /\ IsDue(store[j], now)

Settled(j) ==
  /\ ~(touched /\ file.decodes)
  /\ store # NoStore /\ store[j] # NoJob =>
       IF items[j] = NoJob THEN store[j].src = "none"
                           ELSE items[j].def \in {store[j].def, Malformed}

DueRuns ==
  (\A i \in IDs : []<>~Waiting(i)) =>
    \A j \in IDs, s \in 1 .. MaxTime :
      (phase = "idle" /\ Overdue(j) /\ Settled(j) /\ store[j].next = s)
        ~> (phase = "down" \/ <<j, s>> \in ran \union done \/ ~Settled(j))
=============================================================================
