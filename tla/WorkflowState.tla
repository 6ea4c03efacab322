---------------------------- MODULE WorkflowState ----------------------------
(***************************************************************************)
(* The files of one workflow (internal/state) and the operations on them:  *)
(* the hooks of internal/agent/state_hooks.go and the commands of          *)
(* cmd/gobot/state.go.  A workflow is a checkpoint file, a journal of      *)
(* status changes since the checkpoint, an archive file and a lock file.   *)
(*                                                                         *)
(* Every step is one file-system operation; between two of them another    *)
(* process may act, and the process may die, which leaves its lock file    *)
(* and possibly half a journal record behind.                              *)
(***************************************************************************)
EXTENDS Integers, Sequences

CONSTANTS
  Procs,          \* goroutines or processes that work on the workflow
  Data,           \* contents of a workflow's data
  NoFile,         \* a file that does not exist
  LiveStale,      \* may a lock outlive the timeout while its holder lives?
  Profiles        \* the circumstances to consider, one of which holds throughout:
                  \*   procs, data  the members of Procs and Data that take part
                  \*   overlap      may an operation start while another is under way?
                  \*   removeFails  may removing an existing journal fail?
                  \*   maxOps, maxCrashes   bounds on operations and on crashes

ASSUME LiveStaleAssumption == LiveStale \in BOOLEAN
ASSUME ProfilesAssumption ==
  Profiles \subseteq [procs : SUBSET Procs, data : SUBSET Data, overlap : BOOLEAN,
                      removeFails : BOOLEAN, maxOps : Nat, maxCrashes : Nat]

Statuses == {"pending", "running", "paused", "completed", "failed"}
Ops == {"start", "step", "complete", "recover", "archive", "cleanup"}
States == [status : Statuses, version : Nat, data : Data]

\* What a journal is made of: status changes and half-written records.
Records == Statuses \union {"torn"}

ASSUME NoFileAssumption == NoFile \notin States \union Seq(Records)

VARIABLES
  profile,  \* the member of Profiles that this behaviour is under
  chk,      \* workflows/{id}/checkpoint.json
  jrn,      \* workflows/{id}.journal: sequence of status records, or NoFile
  arch,     \* archived/{id}.json
  lock,     \* locks/{id}.lock: "none", "fresh" or "stale" (older than the timeout)
  pc, op,   \* process -> where it is in which operation
  wf,       \* process -> the WorkflowState it has in memory, or NoFile
  target,   \* process -> the status it is to journal
  handle,   \* processes whose open journal is the file at the journal's path
  begun,    \* operations started
  crashes,
  created,  \* has the first checkpoint been written?  (auxiliary)
  may       \* what loading the workflow may yield (auxiliary)

files == <<chk, jrn, arch, lock>>
vars == <<profile, files, pc, op, wf, target, handle, begun, crashes, created, may>>

Value(s) == [status |-> s.status, data |-> s.data]

Init ==
  /\ profile \in Profiles
  /\ chk = NoFile /\ jrn = NoFile /\ arch = NoFile /\ lock = "none"
  /\ pc = [p \in Procs |-> "idle"]
  /\ op = [p \in Procs |-> "start"]
  /\ wf = [p \in Procs |-> NoFile]
  /\ target = [p \in Procs |-> "running"]
  /\ handle = {}
  /\ begun = 0 /\ crashes = 0
  /\ created = FALSE
  /\ may = {}

Goto(p, where) == pc' = [pc EXCEPT ![p] = where]
Bounded == UNCHANGED <<begun, crashes>>
Aux == UNCHANGED <<created, may>>
Memory == UNCHANGED <<op, wf, target, handle>>

\* Between AcquireLock and Release.
Holds(p) == pc[p] \in {"write", "truncate", "readArch", "replayArch", "publish",
                       "rmJournal", "rmDir", "release", "releaseErr"}
-----------------------------------------------------------------------------
(***************************************************************************)
(* An operation starts.  A workflow id is used for one workflow, so it is  *)
(* created once.                                                           *)
(***************************************************************************)
Begin(p, o) ==
  /\ p \in profile.procs
  /\ pc[p] = "idle"
  /\ begun < profile.maxOps
  /\ profile.overlap \/ \A q \in Procs : pc[q] = "idle"
  /\ begun' = begun + 1
  /\ op' = [op EXCEPT ![p] = o]
  /\ UNCHANGED <<files, handle, crashes, created>>

OnWorkflowStart(p) ==
  /\ begun = 0
  /\ \E d \in profile.data :
       /\ wf' = [wf EXCEPT ![p] = [status |-> "pending", version |-> 1, data |-> d]]
       /\ may' = {[status |-> s, data |-> d] : s \in {"pending", "running"}}
  /\ target' = [target EXCEPT ![p] = "running"]
  /\ Goto(p, "create")
  /\ Begin(p, "start")

OnStepComplete(p) ==
  /\ begun > 0
  /\ Goto(p, "read")
  /\ Begin(p, "step")
  /\ UNCHANGED <<wf, target, may>>

OnWorkflowComplete(p) ==
  /\ begun > 0
  /\ \E s \in {"completed", "failed"} :
       /\ target' = [target EXCEPT ![p] = s]
       /\ may' = may \union {[status |-> s, data |-> v.data] : v \in may}
  /\ Goto(p, "open")
  /\ Begin(p, "complete")
  /\ UNCHANGED wf

StateRecover(p) ==
  /\ begun > 0
  /\ Goto(p, "read")
  /\ Begin(p, "recover")
  /\ UNCHANGED <<wf, target, may>>

StateArchive(p) ==
  /\ begun > 0
  /\ Goto(p, "create")
  /\ Begin(p, "archive")
  /\ UNCHANGED <<wf, target, may>>

CleanupStaleLocks(p) ==
  /\ begun > 0
  /\ Goto(p, "stat")
  /\ Begin(p, "cleanup")
  /\ UNCHANGED <<wf, target, may>>

\* The operation returns nil.
Return(p) ==
  /\ Goto(p, "idle")
  /\ wf' = [wf EXCEPT ![p] = NoFile]
  /\ handle' = handle \ {p}

\* The operation returns an error.
Fail(p) == Return(p) /\ Aux
-----------------------------------------------------------------------------
(***************************************************************************)
(* AcquireLock: create the file exclusively, else look at its age.         *)
(***************************************************************************)
\* The lock file is opened without O_EXCL.
MutOpenFileExcl(p) ==
  /\ pc[p] = "create"
  /\ lock' = "fresh"
  /\ Goto(p, IF op[p] \in {"complete", "archive"} THEN "readArch" ELSE "write")
  /\ UNCHANGED <<chk, jrn, arch>> /\ Memory /\ Bounded /\ Aux

OpenFileExcl(p) ==
  /\ pc[p] = "create"
  /\ IF lock = "none"
     THEN /\ lock' = "fresh"
          /\ Goto(p, IF op[p] \in {"complete", "archive"} THEN "readArch" ELSE "write")
     ELSE Goto(p, "stat") /\ UNCHANGED lock
  /\ UNCHANGED <<chk, jrn, arch>> /\ Memory /\ Bounded /\ Aux

\* os.Stat; a lock that is not stale is waited for, by the cleanup left alone.
StatLock(p) ==
  /\ pc[p] = "stat"
  /\ \/ lock = "stale" /\ Goto(p, "unlink") /\ Memory
     \/ lock # "stale" /\ op[p] # "cleanup" /\ Goto(p, "create") /\ Memory
     \/ lock # "stale" /\ op[p] = "cleanup" /\ Return(p) /\ UNCHANGED <<op, target>>
  /\ UNCHANGED files /\ Bounded /\ Aux

\* os.Remove(lockPath): whatever file has that name by now.
RemoveStale(p) ==
  /\ pc[p] = "unlink"
  /\ lock' = "none"
  /\ \/ op[p] # "cleanup" /\ Goto(p, "create") /\ Memory
     \/ op[p] = "cleanup" /\ Return(p) /\ UNCHANGED <<op, target>>
  /\ UNCHANGED <<chk, jrn, arch>> /\ Bounded /\ Aux

LockTimeout(p) ==
  /\ pc[p] = "create"
  /\ Fail(p)
  /\ UNCHANGED <<files, op, target>> /\ Bounded

\* Release removes the file by its name and its error is ignored.
Release(p) ==
  /\ pc[p] \in {"release", "releaseErr"}
  /\ lock' = "none"
  /\ \/ pc[p] = "releaseErr" /\ Fail(p)
     \/ pc[p] = "release" /\ op[p] = "start" /\ Goto(p, "open") /\ UNCHANGED <<wf, handle>> /\ Aux
     \/ /\ pc[p] = "release" /\ op[p] # "start"
        /\ Return(p)
        /\ may' = may \intersect {Value(wf[p])}
        /\ UNCHANGED created
  /\ UNCHANGED <<chk, jrn, arch, op, target>> /\ Bounded

\* The lock file grows older than the timeout.
LockAges ==
  /\ lock = "fresh"
  /\ LiveStale \/ \A p \in Procs : ~Holds(p)
  /\ lock' = "stale"
  /\ UNCHANGED <<chk, jrn, arch, pc>> /\ Memory /\ Bounded /\ Aux
-----------------------------------------------------------------------------
WriteCheckpoint(p) ==
  /\ pc[p] = "write"
  /\ \/ /\ wf' = [wf EXCEPT ![p].version = @ + 1]
        /\ chk' = wf'[p]
        /\ created' = TRUE
        /\ Goto(p, "truncate")
     \/ Goto(p, "releaseErr") /\ UNCHANGED <<wf, chk, created>>
  /\ UNCHANGED <<jrn, arch, lock, op, target, handle, may>> /\ Bounded

\* The journal's name is gone; handles opened before still write to the old file.
RemoveJournalFile == jrn' = NoFile /\ handle' = {}
JournalStays == profile.removeFails /\ jrn # NoFile /\ UNCHANGED <<jrn, handle>>

Truncate(p) ==
  /\ pc[p] = "truncate"
  /\ RemoveJournalFile \/ JournalStays
  /\ Goto(p, "release")
  /\ UNCHANGED <<chk, arch, lock, op, wf, target>> /\ Bounded /\ Aux
-----------------------------------------------------------------------------
(***************************************************************************)
(* UpdateStatus: open the journal, append, sync.  No lock is taken.        *)
(***************************************************************************)
OpenJournal(p) ==
  /\ pc[p] = "open"
  /\ \/ /\ jrn' = IF jrn = NoFile THEN <<>> ELSE jrn
        /\ handle' = handle \union {p}
        /\ Goto(p, "append")
        /\ UNCHANGED wf /\ Aux
     \/ Fail(p) /\ UNCHANGED jrn
  /\ UNCHANGED <<chk, arch, lock, op, target>> /\ Bounded

Torn(j) == j # NoFile /\ j # <<>> /\ j[Len(j)] = "torn"

\* The journal after some of a record was written; a record that follows half
\* a line is part of that malformed line.
Written(j, r) == IF Torn(j) THEN j ELSE Append(j, r)

\* Whole record, half of it, or nothing.
PartOf(p) ==
  IF p \in handle THEN {jrn, Written(jrn, "torn"), Written(jrn, target[p])} ELSE {jrn}

AppendRecord(p) ==
  /\ pc[p] = "append"
  /\ \/ /\ jrn' = IF p \in handle THEN Written(jrn, target[p]) ELSE jrn
        /\ \/ op[p] = "complete" /\ Goto(p, "create") /\ Aux
              /\ UNCHANGED wf /\ handle' = handle \ {p}
           \/ /\ op[p] = "start" /\ Return(p)
              /\ may' = {v \in may : v.status = "running"}
              /\ UNCHANGED created
     \/ jrn' \in PartOf(p) /\ Fail(p)
  /\ UNCHANGED <<chk, arch, lock, op, target>> /\ Bounded
-----------------------------------------------------------------------------
(***************************************************************************)
(* LoadWithRecovery: read the checkpoint, then replay the journal.  The    *)
(* hooks do it before taking the lock, Archive under it.                   *)
(***************************************************************************)
LoadWorkflow(p) ==
  /\ pc[p] \in {"read", "readArch"}
  /\ \/ /\ chk # NoFile
        /\ wf' = [wf EXCEPT ![p] = chk]
        /\ Goto(p, IF pc[p] = "read" THEN "replay" ELSE "replayArch")
        /\ UNCHANGED handle
     \/ pc[p] = "read" /\ Return(p)
     \/ pc[p] = "readArch" /\ Goto(p, "releaseErr") /\ UNCHANGED <<wf, handle>>
  /\ UNCHANGED <<files, op, target>> /\ Bounded /\ Aux

\* The status records applied to a checkpoint.
Replayed(s, j) ==
  IF j \in {NoFile, <<>>} THEN s ELSE [s EXCEPT !.status = j[Len(j)]]

\* What an operation does with the workflow it loaded.
Continue(p, s) ==
  LET seen == may \intersect {Value(s)} IN
  \/ /\ op[p] = "step"
     /\ \E d \in profile.data : /\ wf' = [wf EXCEPT ![p] = [s EXCEPT !.data = d]]
                        /\ may' = seen \union {[v EXCEPT !.data = d] : v \in seen}
     /\ Goto(p, "create") /\ UNCHANGED handle
  \/ /\ op[p] = "recover" /\ s.status = "running"
     /\ wf' = [wf EXCEPT ![p] = [s EXCEPT !.status = "failed"]]
     /\ may' = seen \union {[v EXCEPT !.status = "failed"] : v \in seen}
     /\ Goto(p, "create") /\ UNCHANGED handle
  \/ /\ op[p] = "recover" /\ s.status # "running"
     /\ may' = seen
     /\ Return(p)
  \/ /\ op[p] \in {"complete", "archive"}
     /\ wf' = [wf EXCEPT ![p] = s]
     /\ may' = seen
     /\ Goto(p, "publish") /\ UNCHANGED handle

\* The journal is not replayed.
MutRecoverWorkflow(p) ==
  /\ pc[p] \in {"replay", "replayArch"}
  /\ Continue(p, wf[p]) /\ UNCHANGED created
  /\ UNCHANGED <<files, op, target>> /\ Bounded

RecoverWorkflow(p) ==
  /\ pc[p] \in {"replay", "replayArch"}
  /\ \/ ~Torn(jrn) /\ Continue(p, Replayed(wf[p], jrn)) /\ UNCHANGED created
     \/ pc[p] = "replay" /\ Fail(p)
     \/ pc[p] = "replayArch" /\ Goto(p, "releaseErr") /\ UNCHANGED <<wf, handle>> /\ Aux
  /\ UNCHANGED <<files, op, target>> /\ Bounded
-----------------------------------------------------------------------------
(***************************************************************************)
(* Archive, after the load: publish the final state, remove the sources.   *)
(***************************************************************************)
\* A failed write of the archive does not stop the clean-up.
MutWriteArchive(p) ==
  /\ pc[p] = "publish"
  /\ arch' \in {arch, wf[p]}
  /\ Goto(p, "rmJournal")
  /\ UNCHANGED <<chk, jrn, lock>> /\ Memory /\ Bounded /\ Aux

WriteArchive(p) ==
  /\ pc[p] = "publish"
  /\ \/ arch' = wf[p] /\ Goto(p, "rmJournal")
     \/ Goto(p, "releaseErr") /\ UNCHANGED arch
  /\ UNCHANGED <<chk, jrn, lock>> /\ Memory /\ Bounded /\ Aux

RemoveJournal(p) ==
  /\ pc[p] = "rmJournal"
  /\ RemoveJournalFile \/ JournalStays
  /\ Goto(p, "rmDir")
  /\ UNCHANGED <<chk, arch, lock, op, wf, target>> /\ Bounded /\ Aux

RemoveDir(p) ==
  /\ pc[p] = "rmDir"
  /\ chk' = NoFile
  /\ Goto(p, "release")
  /\ UNCHANGED <<jrn, arch, lock>> /\ Memory /\ Bounded /\ Aux

\* The process dies; an append under way may leave part of its record.
Crash(p) ==
  /\ crashes < profile.maxCrashes
  /\ pc[p] # "idle"
  /\ crashes' = crashes + 1
  /\ jrn' \in IF pc[p] = "append" THEN PartOf(p) ELSE {jrn}
  /\ Fail(p)
  /\ UNCHANGED <<chk, arch, lock, op, target, begun>>
-----------------------------------------------------------------------------
Next ==
  /\ \/ \E p \in Procs :
          \/ OnWorkflowStart(p) \/ OnStepComplete(p) \/ OnWorkflowComplete(p)
          \/ StateRecover(p) \/ StateArchive(p) \/ CleanupStaleLocks(p)
          \/ OpenFileExcl(p) \/ StatLock(p) \/ RemoveStale(p) \/ LockTimeout(p) \/ Release(p)
          \/ WriteCheckpoint(p) \/ Truncate(p)
          \/ OpenJournal(p) \/ AppendRecord(p)
          \/ LoadWorkflow(p) \/ RecoverWorkflow(p)
          \/ WriteArchive(p) \/ RemoveJournal(p) \/ RemoveDir(p)
          \/ Crash(p)
     \/ LockAges
  /\ UNCHANGED profile

Spec == Init /\ [][Next]_vars
-----------------------------------------------------------------------------
Pcs == {"idle", "create", "stat", "unlink", "open", "append", "read", "replay"}
       \union {"write", "truncate", "readArch", "replayArch", "publish",
               "rmJournal", "rmDir", "release", "releaseErr"}

(***************************************************************************)
(* Types.  SaveCheckpoint advances the version before it writes, so a      *)
(* checkpoint on disk has at least version 2.                              *)
(***************************************************************************)
TypeOK ==
  /\ profile \in Profiles
  /\ chk \in States \union {NoFile} /\ arch \in States \union {NoFile}
  /\ chk # NoFile => chk.version > 1
  /\ jrn = NoFile \/ jrn \in Seq(Records)
  /\ lock \in {"none", "fresh", "stale"}
  /\ pc \in [Procs -> Pcs]
  /\ op \in [Procs -> Ops]
  /\ wf \in [Procs -> States \union {NoFile}]
  /\ target \in [Procs -> Statuses]
  /\ handle \subseteq Procs
  /\ begun \in Nat /\ crashes \in Nat
  /\ created \in BOOLEAN
  /\ may \subseteq [status : Statuses, data : Data]

\* What the files say the workflow is.
Stored == IF chk # NoFile THEN Replayed(chk, jrn) ELSE arch

Idle == \A p \in Procs : pc[p] = "idle"

(***************************************************************************)
(* With operations one after the other: whatever crashes and failed writes *)
(* there were, loading a workflow that is not archived yields the status   *)
(* and data of the last operation that returned nil or was read back, or   *)
(* of one that was interrupted since, and that is what Archive publishes.  *)
(* A torn journal is refused, never half applied.                          *)
(***************************************************************************)
AckedSurvives == ~profile.overlap =>
  /\ created /\ ~Torn(jrn) /\ arch = NoFile => chk # NoFile /\ Value(Stored) \in may
  /\ \A p \in Procs : pc[p] = "publish" /\ arch = NoFile => Value(wf[p]) \in may

(***************************************************************************)
(* The same for an archived workflow: an interrupted Archive leaves        *)
(* sources that load as the state it published.                            *)
(***************************************************************************)
ArchiveMaterialized == created /\ Idle /\ ~Torn(jrn) => Value(Stored) \in may

(***************************************************************************)
(* From the first checkpoint on the workflow is in the checkpoint or in    *)
(* the archive: Archive removes its sources only after publishing.         *)
(***************************************************************************)
EvidenceKept == created => chk # NoFile \/ arch # NoFile

(***************************************************************************)
(* At most one process is between AcquireLock and Release.                 *)
(***************************************************************************)
LockMutex == \A p, q \in Procs : Holds(p) /\ Holds(q) => p = q

(***************************************************************************)
(* A workflow that has been archived and is not being worked on is not     *)
(* among the active ones that ListActive returns.                          *)
(***************************************************************************)
ListActiveNotArchived == Idle => chk = NoFile \/ arch = NoFile

(***************************************************************************)
(* A workflow found running that `state recover` has marked failed is      *)
(* loaded as failed by the next operation.                                 *)
(***************************************************************************)
RecoverMarksFailed ==
  /\ Idle /\ created /\ ~Torn(jrn) /\ arch = NoFile
  /\ may # {} /\ \A v \in may : v.status = "failed"
  => Stored.status = "failed"
=============================================================================
