------------------------- MODULE WorkflowStateProofs -------------------------
(***************************************************************************)
(* Proofs about WorkflowState for any processes, data and circumstances.   *)
(***************************************************************************)
EXTENDS WorkflowState, SequenceTheorems, TLAPS

(***************************************************************************)
(* What holds in every circumstance.                                       *)
(***************************************************************************)
\* Which operation is where, and that it has a workflow in memory there.
LoadedOf(p) ==
  /\ pc[p] \in {"write", "truncate"} => op[p] \in {"start", "step", "recover"}
  /\ pc[p] \in {"read", "replay"} => op[p] \in {"step", "recover"}
  /\ pc[p] \in {"open", "append"} => op[p] \in {"start", "complete"}
  /\ pc[p] \in {"readArch", "replayArch", "publish", "rmJournal", "rmDir"} =>
       op[p] \in {"complete", "archive"}
  /\ pc[p] \in {"create", "stat", "unlink"} /\ op[p] \in {"start", "step", "recover"} =>
       wf[p] # NoFile
  /\ pc[p] \in {"create", "release"} => op[p] # "cleanup"
  /\ pc[p] \in {"write", "truncate", "replay", "replayArch", "publish", "rmJournal", "rmDir",
                "release"} => wf[p] # NoFile
  /\ wf[p] # NoFile => wf[p].version > 0

\* The same for all, and an open journal is there.
Loaded ==
  /\ \A p \in Procs : LoadedOf(p)
  /\ handle # {} => jrn # NoFile

\* Archive has published before it removes, and nothing removes an archive.
Published ==
  \A p \in Procs :
    pc[p] \in {"rmJournal", "rmDir"} \/ (pc[p] = "release" /\ op[p] \in {"complete", "archive"})
      => arch # NoFile

\* Without overlap one process at a time is at work.
OneAtATime ==
  ~profile.overlap => \A p, q \in Procs : pc[p] # "idle" /\ pc[q] # "idle" => p = q

WorkflowInv == TypeOK /\ Loaded /\ Published /\ EvidenceKept /\ OneAtATime

(***************************************************************************)
(* Mutual exclusion: when no process dies beside another, a lock file is   *)
(* there exactly while somebody holds it.                                  *)
(***************************************************************************)
NoCrashBeside == ~LiveStale /\ \A P \in Profiles : P.overlap => P.maxCrashes = 0

LockFileHeld ==
  profile.overlap =>
    /\ LockMutex
    /\ lock = "none" => \A p \in Procs : ~Holds(p)
    /\ lock = "fresh" => \E p \in Procs : Holds(p)
    /\ lock # "stale" /\ \A p \in Procs : pc[p] # "unlink"

(***************************************************************************)
(* Durability of operations one after the other.                           *)
(***************************************************************************)
RemovesWork == \A P \in Profiles : ~P.overlap => ~P.removeFails

Live == created /\ arch = NoFile /\ ~Torn(jrn)

Untouched ==
  begun = 0 =>
    chk = NoFile /\ jrn = NoFile /\ ~created /\ \A p \in Procs : pc[p] = "idle"

StoredAcked == (chk # NoFile => created) /\ (Live => chk # NoFile /\ Value(Stored) \in may)

Both(d) == {[status |-> s, data |-> d] : s \in {"pending", "running"}}

\* Creating: pending until the status record is in the journal.
Starting(p) ==
  op[p] = "start" /\ pc[p] # "idle" =>
    /\ target[p] = "running"
    /\ pc[p] \in {"create", "stat", "unlink", "write"} =>
         jrn = NoFile /\ ~created /\ wf[p].status = "pending" /\ may = Both(wf[p].data)
    /\ pc[p] \in {"truncate", "release", "open", "append"} =>
         /\ jrn \in {NoFile, <<>>} /\ chk # NoFile /\ chk.status = "pending" /\ may = Both(chk.data)
    /\ pc[p] = "append" => jrn = <<>> /\ p \in handle

\* Saving: what is to be written may be read, with and without the journal.
Saving(p) ==
  op[p] \in {"step", "recover"} =>
    /\ pc[p] = "replay" => wf[p] = chk
    /\ pc[p] \in {"create", "stat", "unlink", "write"} =>
         /\ chk # NoFile /\ ~Torn(jrn)
         /\ arch = NoFile => Value(wf[p]) \in may /\ Value(Replayed(wf[p], jrn)) \in may
    /\ pc[p] \in {"truncate", "release"} =>
         chk = wf[p] /\ ~Torn(jrn) /\ (arch = NoFile => Value(wf[p]) \in may)
    /\ pc[p] = "release" => jrn = NoFile

\* Completing and archiving.
Closing(p) ==
  /\ op[p] = "complete" /\ pc[p] \in {"open", "append"} /\ Live =>
       [status |-> target[p], data |-> chk.data] \in may
  /\ pc[p] = "append" => jrn # NoFile
  /\ pc[p] = "replayArch" => wf[p] = chk
  /\ pc[p] = "publish" /\ arch = NoFile => Value(wf[p]) \in may

AckedOf(p) == Untouched /\ StoredAcked /\ Starting(p) /\ Saving(p) /\ Closing(p)

AckedInv == ~profile.overlap => Untouched /\ StoredAcked /\ \A p \in Procs : AckedOf(p)
-----------------------------------------------------------------------------
(***************************************************************************)
(* The journal.                                                            *)
(***************************************************************************)
\* A record appended to a journal is its last, and that is what replay applies.
LEMMA WrittenLast ==
  ASSUME NEW j \in Seq(Records), NEW r \in Records
  PROVE  /\ Written(j, r) \in Seq(Records)
         /\ ~Torn(j) => /\ Written(j, r) # <<>>
                        /\ Written(j, r)[Len(Written(j, r))] = r
<1>1. /\ Append(j, r) \in Seq(Records) /\ Append(j, r) # <<>>
      /\ Len(Append(j, r)) = Len(j) + 1 /\ Append(j, r)[Len(j) + 1] = r
  BY AppendProperties
<1> QED
  BY <1>1 DEF Written

LEMMA ReplayedType ==
  ASSUME NEW s \in States, NEW j, j = NoFile \/ j \in Seq(Records), ~Torn(j)
  PROVE  /\ Replayed(s, j) \in States
         /\ Replayed(s, j).version = s.version
         /\ Replayed(s, j).data = s.data
<1>1. CASE j \in {NoFile, <<>>}
  BY <1>1 DEF Replayed
<1>2. CASE j \notin {NoFile, <<>>}
  <2>1. Len(j) \in Nat \ {0}
    BY <1>2, EmptySeq
  <2>2. j[Len(j)] \in Records
    BY <1>2, <2>1, ElementOfSeq
  <2>3. j[Len(j)] \in Statuses
    BY <1>2, <2>2 DEF Torn, Records
  <2> QED
    BY <1>2, <2>3 DEF Replayed, States
<1> QED
  BY <1>1, <1>2
-----------------------------------------------------------------------------
(***************************************************************************)
(* Every circumstance.                                                     *)
(***************************************************************************)
\* A step of one process.
Act(p) ==
  \/ OnWorkflowStart(p) \/ OnStepComplete(p) \/ OnWorkflowComplete(p)
  \/ StateRecover(p) \/ StateArchive(p) \/ CleanupStaleLocks(p)
  \/ OpenFileExcl(p) \/ StatLock(p) \/ RemoveStale(p) \/ LockTimeout(p) \/ Release(p)
  \/ WriteCheckpoint(p) \/ Truncate(p)
  \/ OpenJournal(p) \/ AppendRecord(p)
  \/ LoadWorkflow(p) \/ RecoverWorkflow(p)
  \/ WriteArchive(p) \/ RemoveJournal(p) \/ RemoveDir(p)
  \/ Crash(p)

LEMMA TypeStep ==
  ASSUME TypeOK, Loaded, Next
  PROVE  TypeOK'
<1>0. UNCHANGED profile
  BY DEF Next
<1>00. profile.data \subseteq Data
  BY ProfilesAssumption DEF TypeOK
<1> USE <1>0, NoFileAssumption
    DEF TypeOK, Ops, Pcs, files, Goto, Bounded, Aux, Memory
<1>1. ASSUME NEW p \in Procs, OnWorkflowStart(p) PROVE TypeOK'
  <2>1. PICK d \in Data :
          /\ wf' = [wf EXCEPT ![p] = [status |-> "pending", version |-> 1, data |-> d]]
          /\ may' = {[status |-> s, data |-> d] : s \in {"pending", "running"}}
    BY <1>00, <1>1 DEF OnWorkflowStart
  <2>2. [status |-> "pending", version |-> 1, data |-> d] \in States
    BY DEF States, Statuses
  <2>3. may' \subseteq [status : Statuses, data : Data]
    BY <2>1 DEF Statuses
  <2> QED
    BY <1>1, <2>1, <2>2, <2>3 DEF OnWorkflowStart, Begin, Statuses
<1>2. ASSUME NEW p \in Procs, OnStepComplete(p) PROVE TypeOK'
  BY <1>2 DEF OnStepComplete, Begin
<1>3. ASSUME NEW p \in Procs, OnWorkflowComplete(p) PROVE TypeOK'
  <2>1. PICK s \in {"completed", "failed"} :
          /\ target' = [target EXCEPT ![p] = s]
          /\ may' = may \union {[status |-> s, data |-> v.data] : v \in may}
    BY <1>3 DEF OnWorkflowComplete
  <2>2. may' \subseteq [status : Statuses, data : Data]
    BY <2>1 DEF Statuses
  <2> QED
    BY <1>3, <2>1, <2>2 DEF OnWorkflowComplete, Begin, Statuses
<1>4. ASSUME NEW p \in Procs, StateRecover(p) PROVE TypeOK'
  BY <1>4 DEF StateRecover, Begin
<1>5. ASSUME NEW p \in Procs, StateArchive(p) PROVE TypeOK'
  BY <1>5 DEF StateArchive, Begin
<1>6. ASSUME NEW p \in Procs, CleanupStaleLocks(p) PROVE TypeOK'
  BY <1>6 DEF CleanupStaleLocks, Begin
<1>7. ASSUME NEW p \in Procs, OpenFileExcl(p) PROVE TypeOK'
  BY <1>7 DEF OpenFileExcl
<1>8. ASSUME NEW p \in Procs, StatLock(p) PROVE TypeOK'
  BY <1>8 DEF StatLock, Return
<1>9. ASSUME NEW p \in Procs, RemoveStale(p) PROVE TypeOK'
  BY <1>9 DEF RemoveStale, Return
<1>10. ASSUME NEW p \in Procs, LockTimeout(p) PROVE TypeOK'
  BY <1>10 DEF LockTimeout, Fail, Return
<1>11. ASSUME NEW p \in Procs, Release(p) PROVE TypeOK'
  BY <1>11 DEF Release, Fail, Return
<1>12. ASSUME NEW p \in Procs, WriteCheckpoint(p) PROVE TypeOK'
  <2>1. CASE wf' = [wf EXCEPT ![p].version = @ + 1] /\ chk' = wf'[p]
    <3>1. wf[p] \in States /\ wf[p].version > 0
      BY <1>12 DEF WriteCheckpoint, Loaded, LoadedOf
    <3>2. chk' = [wf[p] EXCEPT !.version = @ + 1]
      BY <2>1
    <3>3. chk' \in States /\ chk'.version > 1
      BY <3>1, <3>2 DEF States
    <3> QED
      BY <1>12, <2>1, <3>3 DEF WriteCheckpoint
  <2>2. CASE UNCHANGED <<wf, chk, created>>
    BY <1>12, <2>2 DEF WriteCheckpoint
  <2> QED
    BY <1>12, <2>1, <2>2 DEF WriteCheckpoint
<1>13. ASSUME NEW p \in Procs, Truncate(p) PROVE TypeOK'
  BY <1>13 DEF Truncate, RemoveJournalFile, JournalStays
<1>14. ASSUME NEW p \in Procs, OpenJournal(p) PROVE TypeOK'
  <2>1. jrn' = NoFile \/ jrn' \in Seq(Records)
    BY ZenonT(60), <1>14, EmptySeq DEF OpenJournal, Records
  <2> QED
    BY <1>14, <2>1 DEF OpenJournal, Fail, Return
<1>15. ASSUME NEW p \in Procs, AppendRecord(p) PROVE TypeOK'
  <2>1. target[p] \in Records /\ "torn" \in Records
    BY DEF Records
  <2>2. p \in handle => jrn \in Seq(Records)
    BY DEF Loaded
  <2>3. p \in handle => /\ Written(jrn, target[p]) \in Seq(Records)
                      /\ Written(jrn, "torn") \in Seq(Records)
    BY <2>1, <2>2, WrittenLast
  <2>4. jrn' = NoFile \/ jrn' \in Seq(Records)
    BY <1>15, <2>3 DEF AppendRecord, PartOf
  <2> QED
    BY <1>15, <2>4 DEF AppendRecord, Fail, Return
<1>16. ASSUME NEW p \in Procs, LoadWorkflow(p) PROVE TypeOK'
  BY <1>16 DEF LoadWorkflow, Return
<1>17. ASSUME NEW p \in Procs, RecoverWorkflow(p) PROVE TypeOK'
  <2>1. CASE ~Torn(jrn) /\ Continue(p, Replayed(wf[p], jrn)) /\ UNCHANGED created
    <3>1. PICK s : s = Replayed(wf[p], jrn)
      OBVIOUS
    <3>2. s \in States
      BY <1>17, <2>1, <3>1, ReplayedType DEF RecoverWorkflow, Loaded, LoadedOf
    <3>3. \A d \in Data : [s EXCEPT !.data = d] \in States
      BY <3>2 DEF States
    <3>4. [s EXCEPT !.status = "failed"] \in States
      BY <3>2 DEF States, Statuses
    <3>5. wf' \in [Procs -> States \union {NoFile}]
      <4>1. ASSUME NEW x \in States \union {NoFile}, wf' = [wf EXCEPT ![p] = x]
            PROVE  wf' \in [Procs -> States \union {NoFile}]
        BY <4>1
      <4> QED
        BY <1>00, <2>1, <3>1, <3>2, <3>3, <3>4, <4>1 DEF Continue, Return
    <3>6. may \intersect {Value(s)} \subseteq [status : Statuses, data : Data]
      OBVIOUS
    <3>7. may' \subseteq [status : Statuses, data : Data]
      BY <1>00, <2>1, <3>1, <3>6 DEF Continue, Statuses
    <3> QED
      BY <1>17, <2>1, <3>5, <3>7 DEF RecoverWorkflow, Continue, Return
  <2>2. CASE Fail(p)
    BY <1>17, <2>2 DEF RecoverWorkflow, Fail, Return
  <2>3. CASE Goto(p, "releaseErr") /\ UNCHANGED <<wf, handle>> /\ Aux
    BY <1>17, <2>3 DEF RecoverWorkflow
  <2> QED
    BY <1>17, <2>1, <2>2, <2>3 DEF RecoverWorkflow
<1>18. ASSUME NEW p \in Procs, WriteArchive(p) PROVE TypeOK'
  BY <1>18 DEF WriteArchive
<1>19. ASSUME NEW p \in Procs, RemoveJournal(p) PROVE TypeOK'
  BY <1>19 DEF RemoveJournal, RemoveJournalFile, JournalStays
<1>20. ASSUME NEW p \in Procs, RemoveDir(p) PROVE TypeOK'
  BY <1>20 DEF RemoveDir
<1>21. ASSUME NEW p \in Procs, Crash(p) PROVE TypeOK'
  <2>1. target[p] \in Records /\ "torn" \in Records
    BY DEF Records
  <2>2. p \in handle => jrn \in Seq(Records)
    BY DEF Loaded
  <2>3. p \in handle => /\ Written(jrn, target[p]) \in Seq(Records)
                      /\ Written(jrn, "torn") \in Seq(Records)
    BY <2>1, <2>2, WrittenLast
  <2>4. jrn' = NoFile \/ jrn' \in Seq(Records)
    BY <1>21, <2>3 DEF Crash, PartOf
  <2> QED
    BY <1>21, <2>4 DEF Crash, Fail, Return
<1>22. ASSUME LockAges PROVE TypeOK'
  BY <1>22 DEF LockAges
<1> QED
  BY <1>1, <1>2, <1>3, <1>4, <1>5, <1>6, <1>7, <1>8, <1>9, <1>10, <1>11, <1>12, <1>13,
     <1>14, <1>15, <1>16, <1>17, <1>18, <1>19, <1>20, <1>21, <1>22 DEF Next

\* A process leaves the memory of the others alone, but may remove the journal
\* they have open.
LEMMA OthersStay ==
  ASSUME TypeOK, NEW p \in Procs, NEW q \in Procs, q # p, Act(p)
  PROVE  /\ pc'[q] = pc[q] /\ op'[q] = op[q] /\ wf'[q] = wf[q] /\ target'[q] = target[q]
         /\ q \in handle' => q \in handle
<1> USE DEF TypeOK, Goto, Bounded, Aux, Memory, Return, Fail
<1>1. CASE \/ OnWorkflowStart(p) \/ OnStepComplete(p) \/ OnWorkflowComplete(p)
           \/ StateRecover(p) \/ StateArchive(p) \/ CleanupStaleLocks(p)
  BY <1>1 DEF OnWorkflowStart, OnStepComplete, OnWorkflowComplete, StateRecover, StateArchive,
     CleanupStaleLocks, Begin
<1>2. CASE \/ OpenFileExcl(p) \/ StatLock(p) \/ RemoveStale(p) \/ LockTimeout(p)
           \/ Release(p)
  BY <1>2 DEF OpenFileExcl, StatLock, RemoveStale, LockTimeout, Release
<1>3. CASE \/ WriteCheckpoint(p) \/ Truncate(p) \/ OpenJournal(p) \/ AppendRecord(p)
           \/ Crash(p)
  BY <1>3 DEF WriteCheckpoint, Truncate, OpenJournal, AppendRecord, Crash, RemoveJournalFile,
     JournalStays
<1>4. CASE LoadWorkflow(p) \/ RecoverWorkflow(p)
  BY <1>4 DEF LoadWorkflow, RecoverWorkflow, Continue
<1>5. CASE WriteArchive(p) \/ RemoveJournal(p) \/ RemoveDir(p)
  BY <1>5 DEF WriteArchive, RemoveJournal, RemoveDir, RemoveJournalFile, JournalStays
<1> QED
  BY <1>1, <1>2, <1>3, <1>4, <1>5 DEF Act

LEMMA HandleStep ==
  ASSUME TypeOK, NEW p \in Procs, Act(p), handle # {} => jrn # NoFile
  PROVE  handle' # {} => jrn' # NoFile
<1> USE NoFileAssumption DEF TypeOK, files, Memory, Return, Fail
<1>1. CASE AppendRecord(p) \/ Crash(p)
  <2>1. p \in handle => jrn \in Seq(Records)
    OBVIOUS
  <2>2. p \in handle => /\ Written(jrn, target[p]) \in Seq(Records)
                      /\ Written(jrn, "torn") \in Seq(Records)
    BY <2>1, WrittenLast DEF Records
  <2>3. jrn' = jrn \/ jrn' # NoFile
    BY <1>1, <2>2 DEF AppendRecord, Crash, PartOf
  <2>4. handle' \subseteq handle
    BY <1>1 DEF AppendRecord, Crash
  <2> QED
    BY <2>3, <2>4
<1>2. CASE Truncate(p) \/ RemoveJournal(p)
  BY <1>2 DEF Truncate, RemoveJournal, RemoveJournalFile, JournalStays
<1>3. CASE OpenJournal(p)
  BY ZenonT(60), <1>3, EmptySeq DEF OpenJournal
<1>4. CASE ~(\/ AppendRecord(p) \/ Crash(p) \/ Truncate(p) \/ RemoveJournal(p)
            \/ OpenJournal(p))
  BY <1>4 DEF Act, OnWorkflowStart, OnStepComplete, OnWorkflowComplete, StateRecover,
     StateArchive, CleanupStaleLocks, Begin, OpenFileExcl, StatLock, RemoveStale, LockTimeout,
     Release, WriteCheckpoint, LoadWorkflow, RecoverWorkflow, Continue, WriteArchive, RemoveDir
<1> QED
  BY <1>1, <1>2, <1>3, <1>4

LEMMA LoadedStep ==
  ASSUME TypeOK, Loaded, NEW p \in Procs, Act(p)
  PROVE  LoadedOf(p)'
<1>0. LoadedOf(p)
  BY DEF Loaded
<1> USE NoFileAssumption DEF TypeOK, LoadedOf, Goto, Memory, Return, Fail
<1>1. CASE OnWorkflowStart(p)
  <2>1. PICK d \in profile.data :
          wf' = [wf EXCEPT ![p] = [status |-> "pending", version |-> 1, data |-> d]]
    BY <1>1 DEF OnWorkflowStart
  <2>2. d \in Data
    BY ProfilesAssumption
  <2>3. [status |-> "pending", version |-> 1, data |-> d] \in States
    BY <2>2 DEF States, Statuses
  <2>4. wf'[p] # NoFile /\ wf'[p].version > 0
    BY <2>1, <2>3
  <2> QED
    BY <1>1, <2>4 DEF OnWorkflowStart, Begin
<1>2. CASE \/ OnStepComplete(p) \/ OnWorkflowComplete(p) \/ StateRecover(p) \/ StateArchive(p)
           \/ CleanupStaleLocks(p)
  BY <1>0, <1>2 DEF OnStepComplete, OnWorkflowComplete, StateRecover, StateArchive,
     CleanupStaleLocks, Begin
<1>3. CASE OpenFileExcl(p) \/ StatLock(p)
  <2>1. CASE OpenFileExcl(p)
    BY <1>0, <2>1 DEF OpenFileExcl, Ops
  <2>2. CASE StatLock(p)
    BY <1>0, <2>2 DEF StatLock
  <2> QED BY <1>3, <2>1, <2>2
<1>4. CASE RemoveStale(p) \/ LockTimeout(p) \/ Release(p)
  BY <1>0, <1>4 DEF RemoveStale, LockTimeout, Release
<1>5. CASE WriteCheckpoint(p)
  <2>1. wf[p] \in States /\ wf[p].version > 0
    BY <1>0, <1>5 DEF WriteCheckpoint
  <2>2. CASE wf' = [wf EXCEPT ![p].version = @ + 1]
    <3>1. wf'[p] = [wf[p] EXCEPT !.version = @ + 1]
      BY <2>2
    <3>2. wf'[p] \in States /\ wf'[p].version > 0
      BY <2>1, <3>1 DEF States
    <3> QED
      BY <1>0, <1>5, <3>2 DEF WriteCheckpoint
  <2>3. CASE UNCHANGED wf
    BY <1>0, <1>5, <2>3 DEF WriteCheckpoint
  <2> QED
    BY <1>5, <2>2, <2>3 DEF WriteCheckpoint
<1>6. CASE Truncate(p) \/ RemoveJournal(p)
  BY <1>0, <1>6 DEF Truncate, RemoveJournal
<1>7. CASE OpenJournal(p) \/ AppendRecord(p) \/ Crash(p)
  <2>1. CASE OpenJournal(p)
    BY <1>0, <2>1 DEF OpenJournal
  <2>2. CASE AppendRecord(p)
    BY <1>0, <2>2 DEF AppendRecord
  <2>3. CASE Crash(p)
    BY <1>0, <2>3 DEF Crash
  <2> QED BY <1>7, <2>1, <2>2, <2>3
<1>8. CASE LoadWorkflow(p)
  <2>1. CASE chk # NoFile /\ wf' = [wf EXCEPT ![p] = chk]
    <3>1. chk \in States /\ chk.version > 0 /\ wf'[p] = chk
      BY <2>1 DEF States
    <3> QED
      BY <1>0, <1>8, <2>1, <3>1 DEF LoadWorkflow
  <2>2. CASE Return(p)
    BY <1>0, <1>8, <2>2 DEF LoadWorkflow
  <2>3. CASE pc[p] = "readArch" /\ Goto(p, "releaseErr") /\ UNCHANGED <<wf, handle>>
    BY <1>0, <1>8, <2>3 DEF LoadWorkflow
  <2> QED
    BY <1>8, <2>1, <2>2, <2>3 DEF LoadWorkflow
<1>9. CASE RecoverWorkflow(p)
  <2>1. CASE ~Torn(jrn) /\ Continue(p, Replayed(wf[p], jrn))
    <3>1. PICK s : s = Replayed(wf[p], jrn)
      OBVIOUS
    <3>2. wf[p] \in States /\ wf[p].version > 0
      BY <1>0, <1>9 DEF RecoverWorkflow
    <3>3. s \in States /\ s.version > 0
      BY <2>1, <3>1, <3>2, ReplayedType
    <3>4. \A d \in Data : /\ [s EXCEPT !.data = d] \in States
                          /\ [s EXCEPT !.data = d].version = s.version
      BY <3>3 DEF States
    <3>5. /\ [s EXCEPT !.status = "failed"] \in States
          /\ [s EXCEPT !.status = "failed"].version = s.version
      BY <3>3 DEF States, Statuses
    <3>6. profile.data \subseteq Data
      BY ProfilesAssumption
    <3>7. \/ Return(p)
          \/ /\ op[p] \in {"step", "recover"} /\ pc' = [pc EXCEPT ![p] = "create"]
             /\ \E x \in States : x.version > 0 /\ wf' = [wf EXCEPT ![p] = x]
          \/ /\ op[p] \in {"complete", "archive"} /\ pc' = [pc EXCEPT ![p] = "publish"]
             /\ \E x \in States : x.version > 0 /\ wf' = [wf EXCEPT ![p] = x]
      BY <2>1, <3>1, <3>3, <3>4, <3>5, <3>6 DEF Continue
    <3>8. op' = op
      BY <1>9 DEF RecoverWorkflow
    <3> QED
      BY <3>7, <3>8
  <2>2. CASE Fail(p)
    BY <1>9, <2>2 DEF RecoverWorkflow
  <2>3. CASE Goto(p, "releaseErr") /\ UNCHANGED <<wf, handle>> /\ Aux
    BY <1>0, <1>9, <2>3 DEF RecoverWorkflow
  <2> QED
    BY <1>9, <2>1, <2>2, <2>3 DEF RecoverWorkflow
<1>10. CASE WriteArchive(p) \/ RemoveDir(p)
  BY <1>0, <1>10 DEF WriteArchive, RemoveDir
<1> QED
  BY <1>1, <1>2, <1>3, <1>4, <1>5, <1>6, <1>7, <1>8, <1>9, <1>10 DEF Act

\* Nothing removes an archive; the sources go only after it is there.
LEMMA EvidenceStep ==
  ASSUME TypeOK, Loaded, Published, EvidenceKept, NEW p \in Procs, Act(p)
  PROVE  EvidenceKept' /\ Published'
<1> USE NoFileAssumption DEF TypeOK, files, Goto, Memory, Return, Fail
<1>1. arch # NoFile => arch' # NoFile
  <2>1. CASE WriteArchive(p)
    <3>1. wf[p] # NoFile
      BY <2>1 DEF WriteArchive, Loaded, LoadedOf
    <3> QED
      BY <2>1, <3>1 DEF WriteArchive
  <2>2. CASE ~WriteArchive(p)
    BY <2>2 DEF Act, OnWorkflowStart, OnStepComplete, OnWorkflowComplete, StateRecover,
       StateArchive, CleanupStaleLocks, Begin, OpenFileExcl, StatLock, RemoveStale, LockTimeout,
       Release, WriteCheckpoint, Truncate, OpenJournal, AppendRecord, LoadWorkflow,
       RecoverWorkflow, RemoveJournal, RemoveDir, Crash
  <2> QED BY <2>1, <2>2
<1>2. EvidenceKept'
  <2>1. CASE WriteCheckpoint(p)
    <3>1. wf[p] \in States
      BY <2>1 DEF WriteCheckpoint, Loaded, LoadedOf
    <3>2. CASE wf' = [wf EXCEPT ![p].version = @ + 1] /\ chk' = wf'[p]
      <4>1. chk' = [wf[p] EXCEPT !.version = @ + 1]
        BY <3>2
      <4>2. chk' \in States
        BY <3>1, <4>1 DEF States
      <4> QED
        BY <4>2 DEF EvidenceKept
    <3>3. CASE UNCHANGED <<wf, chk, created>>
      BY <2>1, <3>3 DEF WriteCheckpoint, EvidenceKept
    <3> QED
      BY <2>1, <3>2, <3>3 DEF WriteCheckpoint
  <2>2. CASE RemoveDir(p)
    BY <1>1, <2>2 DEF RemoveDir, Published, EvidenceKept
  <2>3. CASE ~WriteCheckpoint(p) /\ ~RemoveDir(p)
    <3>1. UNCHANGED <<chk, created>>
      BY <2>3 DEF Act, OnWorkflowStart, OnStepComplete, OnWorkflowComplete, StateRecover,
         StateArchive, CleanupStaleLocks, Begin, OpenFileExcl, StatLock, RemoveStale,
         LockTimeout, Release, Truncate, OpenJournal, AppendRecord, LoadWorkflow,
         RecoverWorkflow, RemoveJournal, WriteArchive, Crash, Aux, Continue
    <3> QED
      BY <1>1, <3>1 DEF EvidenceKept
  <2> QED BY <2>1, <2>2, <2>3
<1>3. pc'[p] \in {"rmJournal", "rmDir"}
        \/ (pc'[p] = "release" /\ op'[p] \in {"complete", "archive"}) => arch' # NoFile
  <2>1. CASE WriteArchive(p)
    BY <2>1 DEF WriteArchive, Loaded, LoadedOf
  <2>2. CASE RemoveJournal(p) \/ RemoveDir(p)
    BY <1>1, <2>2 DEF RemoveJournal, RemoveDir, Published
  <2>3. CASE WriteCheckpoint(p) \/ Truncate(p)
    BY <2>3 DEF WriteCheckpoint, Truncate, Loaded, LoadedOf
  <2>4. CASE ~(WriteArchive(p) \/ RemoveJournal(p) \/ RemoveDir(p) \/ WriteCheckpoint(p)
              \/ Truncate(p))
    BY <2>4 DEF Act, OnWorkflowStart, OnStepComplete, OnWorkflowComplete, StateRecover,
       StateArchive, CleanupStaleLocks, Begin, OpenFileExcl, StatLock, RemoveStale, LockTimeout,
       Release, OpenJournal, AppendRecord, LoadWorkflow, RecoverWorkflow, Continue, Crash
  <2> QED BY <2>1, <2>2, <2>3, <2>4
<1>4. Published'
  <2> SUFFICES ASSUME NEW q \in Procs
               PROVE  pc'[q] \in {"rmJournal", "rmDir"}
                        \/ (pc'[q] = "release" /\ op'[q] \in {"complete", "archive"})
                          => arch' # NoFile
    BY DEF Published
  <2>1. CASE q = p
    BY <1>3, <2>1
  <2>2. CASE q # p
    BY <1>1, <2>2, OthersStay DEF Published
  <2> QED BY <2>1, <2>2
<1> QED
  BY <1>2, <1>4

\* An operation starts when no other is under way, or is the one under way.
LEMMA ActsAlone ==
  ASSUME TypeOK, OneAtATime, ~profile.overlap, NEW p \in Procs, Act(p)
  PROVE  \A q \in Procs : q # p => pc[q] = "idle" /\ pc'[q] = "idle"
<1>1. pc[p] = "idle" => \A q \in Procs : pc[q] = "idle"
  BY DEF Act, OnWorkflowStart, OnStepComplete, OnWorkflowComplete, StateRecover, StateArchive,
     CleanupStaleLocks, Begin, OpenFileExcl, StatLock, RemoveStale, LockTimeout, Release,
     WriteCheckpoint, Truncate, OpenJournal, AppendRecord, LoadWorkflow, RecoverWorkflow,
     WriteArchive, RemoveJournal, RemoveDir, Crash
<1>2. \A q \in Procs : q # p => pc[q] = "idle"
  BY <1>1 DEF OneAtATime
<1> QED
  BY <1>2, OthersStay

LEMMA WorkflowInitInv == Init => WorkflowInv
<1> SUFFICES ASSUME Init PROVE WorkflowInv
  OBVIOUS
<1>1. TypeOK
  BY DEF Init, TypeOK, Pcs, Ops, Statuses
<1>2. Loaded
  BY DEF Init, Loaded, LoadedOf
<1> QED
  BY <1>1, <1>2 DEF Init, WorkflowInv, Published, EvidenceKept, OneAtATime

LEMMA WorkflowStepInv ==
  ASSUME WorkflowInv, [Next]_vars
  PROVE  WorkflowInv'
<1> USE DEF WorkflowInv
<1>1. ASSUME Next PROVE TypeOK'
  BY <1>1, TypeStep
<1>2. ASSUME NEW p \in Procs, Act(p), UNCHANGED profile
      PROVE  Loaded' /\ Published' /\ EvidenceKept' /\ OneAtATime'
  <2>1. ASSUME NEW q \in Procs PROVE LoadedOf(q)'
    <3>1. CASE q = p
      BY <1>2, <3>1, LoadedStep
    <3>2. CASE q # p
      BY <1>2, <3>2, OthersStay DEF Loaded, LoadedOf
    <3> QED BY <3>1, <3>2
  <2>2. Loaded'
    BY <1>2, <2>1, HandleStep DEF Loaded
  <2>3. OneAtATime'
    BY <1>2, ActsAlone DEF OneAtATime
  <2> QED
    BY <1>2, <2>2, <2>3, EvidenceStep
<1>3. ASSUME LockAges, UNCHANGED profile
      PROVE  Loaded' /\ Published' /\ EvidenceKept' /\ OneAtATime'
  BY <1>3 DEF LockAges, Memory, Aux, Loaded, LoadedOf, Published, EvidenceKept, OneAtATime
<1>4. CASE UNCHANGED vars
  BY <1>4 DEF vars, files, TypeOK, Loaded, LoadedOf, Published, EvidenceKept, OneAtATime
<1>5. Next => UNCHANGED profile /\ (LockAges \/ \E p \in Procs : Act(p))
  BY DEF Next, Act
<1> QED
  BY <1>1, <1>2, <1>3, <1>4, <1>5
-----------------------------------------------------------------------------
(***************************************************************************)
(* The lock.                                                               *)
(***************************************************************************)
LEMMA LockFileStep ==
  ASSUME NoCrashBeside, TypeOK, Loaded, LockFileHeld, UNCHANGED profile,
         NEW p \in Procs, Act(p)
  PROVE  LockFileHeld'
<1> SUFFICES ASSUME profile.overlap
             PROVE  /\ LockMutex'
                    /\ lock' = "none" => \A q \in Procs : ~Holds(q)'
                    /\ lock' = "fresh" => \E q \in Procs : Holds(q)'
                    /\ lock' # "stale" /\ \A q \in Procs : pc'[q] # "unlink"
  BY DEF LockFileHeld
<1> USE DEF TypeOK, files, Goto, Memory, Return, Fail, Holds, LockMutex
<1>1. /\ LockMutex
      /\ lock = "none" => \A q \in Procs : ~Holds(q)
      /\ lock = "fresh" => \E q \in Procs : Holds(q)
      /\ lock \in {"none", "fresh"} /\ \A q \in Procs : pc[q] # "unlink"
  BY DEF LockFileHeld
<1>2. \A q \in Procs : q # p => pc'[q] = pc[q]
  BY OthersStay
<1>3. ASSUME lock' = lock, Holds(p)' <=> Holds(p), pc'[p] # "unlink"
      PROVE  /\ LockMutex'
             /\ lock' = "none" => \A q \in Procs : ~Holds(q)'
             /\ lock' = "fresh" => \E q \in Procs : Holds(q)'
             /\ lock' # "stale" /\ \A q \in Procs : pc'[q] # "unlink"
  <2>1. \A q \in Procs : Holds(q)' <=> Holds(q)
    BY <1>2, <1>3
  <2> HIDE DEF Holds
  <2> QED BY <1>1, <1>2, <1>3, <2>1
<1>4. CASE OpenFileExcl(p)
  <2>1. CASE lock = "none"
    <3>1. lock' = "fresh" /\ Holds(p)' /\ pc'[p] # "unlink"
      BY <1>4, <2>1 DEF OpenFileExcl
    <3>2. \A q \in Procs : q # p => ~Holds(q)'
      BY <1>1, <1>2, <2>1
    <3> HIDE DEF Holds
    <3> QED BY <1>1, <1>2, <3>1, <3>2
  <2>2. CASE lock # "none"
    BY <1>3, <1>4, <2>2 DEF OpenFileExcl
  <2> QED BY <2>1, <2>2
<1>5. CASE Release(p)
  <2>1. lock' = "none" /\ ~Holds(p)' /\ pc'[p] # "unlink"
    BY <1>5 DEF Release
  <2>2. \A q \in Procs : q # p => ~Holds(q)'
    BY <1>1, <1>2, <1>5 DEF Release
  <2> HIDE DEF Holds
  <2> QED BY <1>1, <1>2, <2>1, <2>2
<1>6. ~Crash(p)
  BY DEF Crash, NoCrashBeside
<1>7. ~RemoveStale(p)
  BY <1>1 DEF RemoveStale
<1>8. CASE \/ OnWorkflowStart(p) \/ OnStepComplete(p) \/ OnWorkflowComplete(p)
           \/ StateRecover(p) \/ StateArchive(p) \/ CleanupStaleLocks(p)
  BY <1>3, <1>8 DEF OnWorkflowStart, OnStepComplete, OnWorkflowComplete, StateRecover,
     StateArchive, CleanupStaleLocks, Begin
<1>9. CASE StatLock(p) \/ LockTimeout(p)
  BY <1>1, <1>3, <1>9 DEF StatLock, LockTimeout
<1>10. CASE WriteCheckpoint(p) \/ Truncate(p) \/ OpenJournal(p) \/ AppendRecord(p)
  BY <1>3, <1>10 DEF WriteCheckpoint, Truncate, OpenJournal, AppendRecord
<1>11. CASE LoadWorkflow(p)
  BY <1>3, <1>11 DEF LoadWorkflow
<1>12. CASE RecoverWorkflow(p)
  <2>1. /\ pc[p] = "replayArch" => pc'[p] \in {"publish", "releaseErr"}
        /\ pc[p] = "replay" => pc'[p] \in {"create", "idle"}
        /\ pc[p] \in {"replay", "replayArch"} /\ lock' = lock
    <3>1. /\ pc[p] = "replay" => op[p] \in {"step", "recover"}
          /\ pc[p] = "replayArch" => op[p] \in {"complete", "archive"}
      BY DEF Loaded, LoadedOf
    <3> QED
      BY <1>12, <3>1 DEF RecoverWorkflow, Continue
  <2> QED
    BY <1>3, <2>1
<1>13. CASE WriteArchive(p) \/ RemoveJournal(p) \/ RemoveDir(p)
  BY <1>3, <1>13 DEF WriteArchive, RemoveJournal, RemoveDir
<1> QED
  BY <1>4, <1>5, <1>6, <1>7, <1>8, <1>9, <1>10, <1>11, <1>12, <1>13 DEF Act

LEMMA LockAgesStep ==
  ASSUME NoCrashBeside, LockFileHeld, UNCHANGED profile, LockAges
  PROVE  LockFileHeld'
BY DEF NoCrashBeside, LockFileHeld, LockAges, Holds
-----------------------------------------------------------------------------
(***************************************************************************)
(* The files and the memory of every process stay consistent, whatever     *)
(* overlaps, fails or dies.                                                *)
(***************************************************************************)
THEOREM WorkflowInvariant == Spec => []WorkflowInv
<1>1. WorkflowInv /\ [Next]_vars => WorkflowInv'
  BY WorkflowStepInv
<1> QED
  BY <1>1, WorkflowInitInv, PTL DEF Spec

(***************************************************************************)
(* From its first checkpoint on, a workflow is in the checkpoint or in the *)
(* archive, for any processes at work at once, locks that go stale under   *)
(* them, failed writes and deaths (Archive, SaveCheckpoint).               *)
(***************************************************************************)
THEOREM WorkflowEvidenceKept == Spec => []EvidenceKept
<1>1. WorkflowInv => EvidenceKept
  BY DEF WorkflowInv
<1> QED
  BY <1>1, WorkflowInvariant, PTL

(***************************************************************************)
(* The lock file excludes: at most one process is between AcquireLock and  *)
(* Release, provided no lock goes stale under a living holder and no       *)
(* process dies beside another.  Both are needed: AcquireLock removes a    *)
(* stale file by its name and two processes may do so at once.             *)
(***************************************************************************)
THEOREM WorkflowLockMutex == NoCrashBeside => (Spec => []LockMutex)
<1> SUFFICES ASSUME NoCrashBeside PROVE Spec => []LockMutex
  OBVIOUS
<1>1. Init => LockFileHeld
  BY DEF Init, LockFileHeld, LockMutex, Holds
<1>2. WorkflowInv /\ LockFileHeld /\ [Next]_vars => LockFileHeld'
  <2> SUFFICES ASSUME WorkflowInv, LockFileHeld, [Next]_vars PROVE LockFileHeld'
    OBVIOUS
  <2>1. CASE UNCHANGED vars
    BY <2>1 DEF vars, files, LockFileHeld, LockMutex, Holds
  <2>2. CASE Next
    <3>1. UNCHANGED profile /\ (LockAges \/ \E p \in Procs : Act(p))
      BY <2>2 DEF Next, Act
    <3> QED
      BY <3>1, LockFileStep, LockAgesStep DEF WorkflowInv
  <2> QED BY <2>1, <2>2
<1>3. WorkflowInv /\ LockFileHeld => LockMutex
  BY DEF WorkflowInv, OneAtATime, LockFileHeld, LockMutex, Holds
<1> QED
  BY <1>1, <1>2, <1>3, WorkflowInvariant, PTL DEF Spec
-----------------------------------------------------------------------------
(***************************************************************************)
(* Operations one after the other.                                         *)
(***************************************************************************)
Empty(j) == j \in {NoFile, <<>>}

LEMMA ReplayedValue ==
  ASSUME NEW s \in States, NEW j
  PROVE  Value(Replayed(s, j)) =
           [status |-> IF Empty(j) THEN s.status ELSE j[Len(j)], data |-> s.data]
BY DEF Value, Replayed, States, Empty

\* What is loaded and changed replays, over the same journal, to the change of
\* its data; a change of its status is hidden by a journal that is not empty.
LEMMA ReplayedAgain ==
  ASSUME NEW s \in States, NEW t \in States, NEW j
  PROVE  /\ t.status = Replayed(s, j).status => Value(Replayed(t, j)) = Value(t)
         /\ t.data = s.data /\ ~Empty(j) => Value(Replayed(t, j)) = Value(Replayed(s, j))
         /\ Empty(j) => Value(Replayed(t, j)) = Value(t)
<1>1. /\ Value(Replayed(t, j)) =
           [status |-> IF Empty(j) THEN t.status ELSE j[Len(j)], data |-> t.data]
      /\ Value(Replayed(s, j)) =
           [status |-> IF Empty(j) THEN s.status ELSE j[Len(j)], data |-> s.data]
  BY ReplayedValue
<1>2. Replayed(s, j).status = IF Empty(j) THEN s.status ELSE j[Len(j)]
  BY DEF Replayed, States, Empty
<1> QED
  BY <1>1, <1>2 DEF Value

LEMMA TornOrNot ==
  ASSUME NEW j \in Seq(Records), NEW r \in Records
  PROVE  /\ Torn(j) => Written(j, r) = j
         /\ ~Torn(j) => /\ ~Empty(Written(j, r))
                        /\ Written(j, r)[Len(Written(j, r))] = r
                        /\ Torn(Written(j, r)) <=> r = "torn"
<1>1. Torn(j) => Written(j, r) = j
  BY DEF Written
<1>2. ASSUME ~Torn(j)
      PROVE  /\ ~Empty(Written(j, r))
             /\ Written(j, r)[Len(Written(j, r))] = r
             /\ Torn(Written(j, r)) <=> r = "torn"
  BY <1>2, WrittenLast, NoFileAssumption DEF Empty, Torn
<1> QED
  BY <1>1, <1>2

\* An append, whole or not, leaves the stored status or makes it the target.
LEMMA AppendAcked ==
  ASSUME TypeOK, Loaded, StoredAcked, NEW p \in Procs, chk' = chk, arch' = arch,
         created' = created, jrn' \in PartOf(p),
         Live => [status |-> target[p], data |-> chk.data] \in may,
         NEW M, may \subseteq M
  PROVE  Live' => chk' # NoFile /\ Value(Stored)' \in M
<1> SUFFICES ASSUME Live' PROVE chk' # NoFile /\ Value(Stored)' \in M
  OBVIOUS
<1> USE DEF TypeOK
<1>1. CASE jrn' = jrn
  BY <1>1 DEF StoredAcked, Live, Stored, Value, Torn, Replayed
<1>2. CASE jrn' # jrn
  <2>1. p \in handle /\ jrn' \in {Written(jrn, "torn"), Written(jrn, target[p])}
    BY <1>2 DEF PartOf
  <2>2. jrn \in Seq(Records) /\ target[p] \in Statuses /\ target[p] # "torn"
    BY <2>1 DEF Loaded, Statuses
  <2>3. ~Torn(jrn) /\ jrn' = Written(jrn, target[p])
    BY <1>2, <2>1, <2>2, TornOrNot DEF Live, Records
  <2>4. Live /\ chk \in States
    BY <2>3 DEF Live, StoredAcked
  <2>5. Value(Replayed(chk, jrn')) = [status |-> target[p], data |-> chk.data]
    <3>1. target[p] \in Records
      BY <2>2 DEF Records
    <3>2. ~Empty(jrn') /\ jrn'[Len(jrn')] = target[p]
      BY <2>2, <2>3, <3>1, TornOrNot
    <3> HIDE DEF TypeOK
    <3> QED BY <2>4, <3>2, ReplayedValue
  <2>6. Value(Stored)' = Value(Replayed(chk, jrn'))
    BY <2>4 DEF Stored, Value, Replayed, Live, StoredAcked
  <2> QED
    BY <2>4, <2>5, <2>6 DEF Live, StoredAcked
<1> QED
  BY <1>1, <1>2

LEMMA StoredSame ==
  ASSUME StoredAcked, UNCHANGED <<chk, jrn, arch, created>>, may \subseteq may'
  PROVE  StoredAcked'
BY DEF StoredAcked, Live, Torn, Stored, Value, Replayed

\* The start of an operation.
LEMMA BeginAcked ==
  ASSUME TypeOK, NEW p \in Procs, AckedOf(p),
         \/ OnWorkflowStart(p) \/ OnStepComplete(p) \/ OnWorkflowComplete(p)
         \/ StateRecover(p) \/ StateArchive(p) \/ CleanupStaleLocks(p)
  PROVE  AckedOf(p)'
<1> USE DEF TypeOK, AckedOf, files, Goto, Begin
<1>1. Untouched'
  BY DEF Untouched, OnWorkflowStart, OnStepComplete, OnWorkflowComplete, StateRecover,
     StateArchive, CleanupStaleLocks
<1>2. CASE OnWorkflowStart(p)
  <2>1. PICK d \in profile.data :
          /\ wf' = [wf EXCEPT ![p] = [status |-> "pending", version |-> 1, data |-> d]]
          /\ may' = {[status |-> s, data |-> d] : s \in {"pending", "running"}}
    BY <1>2 DEF OnWorkflowStart
  <2>2. jrn' = NoFile /\ chk' = NoFile /\ ~created'
    BY <1>2 DEF OnWorkflowStart, Untouched
  <2>3. wf'[p].status = "pending" /\ may' = Both(wf'[p].data)
    BY <2>1 DEF Both
  <2>4. Starting(p)' /\ Saving(p)' /\ Closing(p)' /\ StoredAcked'
    BY <1>2, <2>2, <2>3 DEF OnWorkflowStart, Starting, Saving, Closing, StoredAcked, Live
  <2> QED BY <1>1, <2>4
<1>3. CASE OnWorkflowComplete(p)
  <2>1. PICK s \in {"completed", "failed"} :
          /\ target' = [target EXCEPT ![p] = s]
          /\ may' = may \union {[status |-> s, data |-> v.data] : v \in may}
    BY <1>3 DEF OnWorkflowComplete
  <2>2. UNCHANGED <<chk, jrn, arch, created>> /\ may \subseteq may'
    BY <1>3, <2>1 DEF OnWorkflowComplete
  <2>3. StoredAcked'
    BY <2>2, StoredSame
  <2>4. Live' => [status |-> target'[p], data |-> chk'.data] \in may'
    <3> SUFFICES ASSUME Live PROVE [status |-> target'[p], data |-> chk.data] \in may'
      BY <2>2 DEF Live, Torn
    <3>1. chk # NoFile /\ Value(Stored) \in may
      BY DEF StoredAcked
    <3>2. Value(Stored).data = chk.data
      BY SMTT(30), <3>1, ReplayedValue DEF Stored
    <3> QED BY <2>1, <3>1, <3>2
  <2>5. Closing(p)'
    BY <1>3, <2>4 DEF OnWorkflowComplete, Closing
  <2>6. Starting(p)' /\ Saving(p)'
    BY <1>3 DEF OnWorkflowComplete, Starting, Saving
  <2> QED BY <1>1, <2>3, <2>5, <2>6
<1>4. CASE OnStepComplete(p) \/ StateRecover(p) \/ StateArchive(p) \/ CleanupStaleLocks(p)
  <2>1. StoredAcked'
    BY <1>4, StoredSame DEF OnStepComplete, StateRecover, StateArchive, CleanupStaleLocks
  <2>2. Starting(p)' /\ Saving(p)' /\ Closing(p)'
    BY <1>4 DEF OnStepComplete, StateRecover, StateArchive, CleanupStaleLocks, Starting, Saving,
       Closing
  <2> QED BY <1>1, <2>1, <2>2
<1> QED
  BY <1>2, <1>3, <1>4

\* The lock is waited for, taken or given up.
LEMMA LockAcked ==
  ASSUME TypeOK, Loaded, Published, NEW p \in Procs, AckedOf(p),
         \/ OpenFileExcl(p) \/ StatLock(p) \/ RemoveStale(p) \/ LockTimeout(p) \/ Release(p)
  PROVE  AckedOf(p)'
<1> USE DEF TypeOK, AckedOf, files, Goto, Memory, Bounded, Aux, Return, Fail
<1>1. Untouched'
  BY DEF Untouched, OpenFileExcl, StatLock, RemoveStale, LockTimeout, Release
<1>2. CASE OpenFileExcl(p) \/ StatLock(p) \/ RemoveStale(p) \/ LockTimeout(p)
  <2>1. StoredAcked'
    BY <1>2, StoredSame DEF OpenFileExcl, StatLock, RemoveStale, LockTimeout
  <2>2. CASE OpenFileExcl(p)
    BY <1>1, <2>1, <2>2 DEF OpenFileExcl, Starting, Saving, Closing
  <2>3. CASE StatLock(p)
    BY <1>1, <2>1, <2>3 DEF StatLock, Starting, Saving, Closing
  <2>4. CASE RemoveStale(p)
    BY <1>1, <2>1, <2>4 DEF RemoveStale, Starting, Saving, Closing
  <2>5. CASE LockTimeout(p)
    BY <1>1, <2>1, <2>5 DEF LockTimeout, Starting, Saving, Closing
  <2> QED BY <1>2, <2>2, <2>3, <2>4, <2>5
<1>3. CASE Release(p)
  <2>1. CASE pc[p] = "release" /\ op[p] # "start"
    <3>1. /\ UNCHANGED <<chk, jrn, arch, created, op, target>>
          /\ may' = may \intersect {Value(wf[p])} /\ pc'[p] = "idle"
      BY <1>3, <2>1 DEF Release
    <3>2. ASSUME Live PROVE chk # NoFile /\ Value(Stored) \in may'
      <4>1. op[p] \in {"step", "recover"}
        BY <2>1, <3>2 DEF Published, Live, Loaded, LoadedOf, Ops
      <4>2. chk = wf[p] /\ jrn = NoFile /\ Value(wf[p]) \in may /\ chk # NoFile
        BY <2>1, <3>2, <4>1 DEF Saving, Live, StoredAcked
      <4>3. Stored = wf[p]
        BY <4>2 DEF Stored, Replayed
      <4> QED BY <3>1, <4>2, <4>3
    <3>3. StoredAcked'
      <4>1. Live' <=> Live
        BY <3>1 DEF Live, Torn
      <4>2. Value(Stored)' = Value(Stored)
        BY <3>1 DEF Stored, Value, Replayed
      <4> QED BY <3>1, <3>2, <4>1, <4>2 DEF StoredAcked
    <3>4. Starting(p)' /\ Saving(p)' /\ Closing(p)'
      BY <3>1 DEF Starting, Saving, Closing
    <3> QED BY <1>1, <3>3, <3>4
  <2>2. CASE pc[p] = "releaseErr" \/ op[p] = "start"
    <3>1. StoredAcked'
      BY <1>3, <2>2, StoredSame DEF Release
    <3> QED
      BY <1>1, <1>3, <2>2, <3>1 DEF Release, Starting, Saving, Closing
  <2> QED BY <1>3, <2>1, <2>2 DEF Release
<1> QED
  BY <1>2, <1>3

\* Past its start an operation has begun.
LEMMA UnderWay ==
  ASSUME TypeOK, NEW p \in Procs, Untouched, pc[p] # "idle", begun' = begun
  PROVE  Untouched'
BY DEF Untouched

LEMMA StoredPrimed ==
  ASSUME chk' # NoFile
  PROVE  Value(Stored)' = Value(Replayed(chk', jrn'))
BY DEF Stored, Value, Replayed

\* SaveCheckpoint: the write, then the journal's removal.
LEMMA WriteAcked ==
  ASSUME TypeOK, Loaded, NEW p \in Procs, AckedOf(p), WriteCheckpoint(p)
  PROVE  AckedOf(p)'
<1> USE DEF TypeOK, AckedOf, files, Goto, Bounded
<1>0. pc[p] = "write" /\ op[p] \in {"start", "step", "recover"} /\ wf[p] \in States
  BY DEF WriteCheckpoint, Loaded, LoadedOf
<1>1. Untouched'
  BY <1>0, UnderWay DEF WriteCheckpoint
<1>2. CASE Goto(p, "releaseErr") /\ UNCHANGED <<wf, chk, created>>
  <2>1. StoredAcked'
    BY <1>2, StoredSame DEF WriteCheckpoint
  <2> QED
    BY <1>1, <1>2, <2>1 DEF WriteCheckpoint, Starting, Saving, Closing
<1>3. CASE /\ wf' = [wf EXCEPT ![p].version = @ + 1]
           /\ chk' = wf'[p] /\ created' = TRUE /\ Goto(p, "truncate")
  <2>1. chk' = [wf[p] EXCEPT !.version = @ + 1] /\ wf'[p] = chk'
    BY <1>3
  <2>2. chk' \in States /\ chk'.status = wf[p].status /\ chk'.data = wf[p].data
    BY <1>0, <2>1 DEF States
  <2>3. /\ chk' # NoFile /\ pc'[p] = "truncate" /\ created'
        /\ UNCHANGED <<jrn, arch, op, target, handle, may>>
    BY <1>3, <2>2, NoFileAssumption DEF WriteCheckpoint
  <2>4. /\ Value(chk') = Value(wf[p])
        /\ Value(Replayed(chk', jrn)) = Value(Replayed(wf[p], jrn))
    <3> HIDE DEF TypeOK
    <3>1. Value(chk') = Value(wf[p])
      BY <2>2 DEF Value
    <3>2. /\ Value(Replayed(chk', jrn)) =
               [status |-> IF Empty(jrn) THEN chk'.status ELSE jrn[Len(jrn)], data |-> chk'.data]
          /\ Value(Replayed(wf[p], jrn)) =
               [status |-> IF Empty(jrn) THEN wf[p].status ELSE jrn[Len(jrn)], data |-> wf[p].data]
      BY <1>0, <2>2, ReplayedValue
    <3> QED BY <2>2, <3>1, <3>2
  <2>5. Value(Stored)' = Value(Replayed(wf[p], jrn))
    BY <2>3, <2>4, StoredPrimed
  <2>6. CASE op[p] = "start"
    <3>1. jrn = NoFile /\ wf[p].status = "pending" /\ may = Both(wf[p].data)
      BY <1>0, <2>6 DEF Starting
    <3>2. Value(Replayed(wf[p], jrn)) \in may
      BY <3>1 DEF Replayed, Value, Both
    <3>3. StoredAcked'
      BY <2>3, <2>5, <3>2 DEF StoredAcked
    <3>4. Starting(p)'
      BY <1>0, <2>2, <2>3, <2>6, <3>1 DEF Starting, Both
    <3> QED
      BY <1>1, <2>3, <2>6, <3>3, <3>4 DEF Saving, Closing
  <2>7. CASE op[p] # "start"
    <3>1. ~Torn(jrn) /\ (arch = NoFile => Value(wf[p]) \in may /\ Value(Replayed(wf[p], jrn)) \in may)
      BY <1>0, <2>7 DEF Saving
    <3>2. StoredAcked'
      BY <2>3, <2>5, <3>1 DEF StoredAcked, Live
    <3>3. ~Torn(jrn)' /\ (arch' = NoFile => Value(wf[p])' \in may')
      BY <2>1, <2>3, <2>4, <3>1 DEF Torn, Value
    <3>4. Saving(p)'
      BY <2>1, <2>3, <3>3 DEF Saving
    <3> QED
      BY <1>1, <2>3, <2>7, <3>2, <3>4 DEF Starting, Closing
  <2> QED BY <2>6, <2>7
<1> QED
  BY <1>2, <1>3 DEF WriteCheckpoint

LEMMA TruncateAcked ==
  ASSUME RemovesWork, ~profile.overlap,
         TypeOK, Loaded, NEW p \in Procs, AckedOf(p), Truncate(p)
  PROVE  AckedOf(p)'
<1> USE DEF TypeOK, AckedOf, Goto, Bounded, Aux
<1>0. pc[p] = "truncate" /\ op[p] \in {"start", "step", "recover"}
  BY DEF Truncate, Loaded, LoadedOf
<1>1. Untouched'
  BY <1>0, UnderWay DEF Truncate
<1>2. /\ jrn' = NoFile /\ pc'[p] = "release"
      /\ UNCHANGED <<chk, arch, op, wf, target, created, may>>
  BY DEF Truncate, RemoveJournalFile, JournalStays, RemovesWork
<1>3. ~Torn(jrn)'
  BY <1>2 DEF Torn
<1>4. ASSUME chk # NoFile, arch = NoFile => Value(chk) \in may
      PROVE  StoredAcked'
  <2>1. Value(Stored)' = Value(chk)
    BY <1>2, <1>4, StoredPrimed DEF Replayed
  <2> QED
    BY <1>2, <1>4, <2>1 DEF StoredAcked, Live
<1>5. CASE op[p] = "start"
  <2>1. chk # NoFile /\ chk.status = "pending" /\ may = Both(chk.data)
    BY <1>0, <1>5 DEF Starting
  <2>2. Value(chk) \in may
    BY <2>1 DEF Value, Both
  <2>3. Starting(p)'
    BY <1>0, <1>2, <1>5, <2>1 DEF Starting, Both
  <2> QED
    BY <1>1, <1>2, <1>4, <1>5, <2>1, <2>2, <2>3 DEF Saving, Closing
<1>6. CASE op[p] # "start"
  <2>1. chk = wf[p] /\ (arch = NoFile => Value(wf[p]) \in may) /\ wf[p] # NoFile
    BY <1>0, <1>6 DEF Saving, Loaded, LoadedOf
  <2>2. StoredAcked'
    BY <1>4, <2>1
  <2>3. Saving(p)'
    BY <1>2, <1>3, <2>1 DEF Saving, Value
  <2> QED
    BY <1>1, <1>2, <1>6, <2>2, <2>3 DEF Starting, Closing
<1> QED
  BY <1>5, <1>6

\* UpdateStatus: the journal is opened, the record appended, or part of it.
LEMMA OpenAcked ==
  ASSUME TypeOK, Loaded, NEW p \in Procs, AckedOf(p), OpenJournal(p)
  PROVE  AckedOf(p)'
<1> USE DEF TypeOK, AckedOf, Goto, Bounded, Aux, Return, Fail
<1>0. pc[p] = "open" /\ op[p] \in {"start", "complete"}
  BY DEF OpenJournal, Loaded, LoadedOf
<1>1. Untouched'
  BY <1>0, UnderWay DEF OpenJournal
<1>2. CASE Fail(p) /\ UNCHANGED jrn
  <2>1. StoredAcked'
    BY <1>2, StoredSame DEF OpenJournal
  <2> QED
    BY <1>1, <1>2, <2>1 DEF OpenJournal, Starting, Saving, Closing
<1>3. CASE /\ jrn' = IF jrn = NoFile THEN <<>> ELSE jrn
           /\ handle' = handle \union {p} /\ pc' = [pc EXCEPT ![p] = "append"]
           /\ UNCHANGED <<wf, created, may>>
  <2>1. UNCHANGED <<chk, arch, op, target>> /\ pc'[p] = "append"
    BY <1>3 DEF OpenJournal
  <2>2. (Torn(jrn)' <=> Torn(jrn)) /\ jrn' # NoFile
    <3>1. <<>> # NoFile
      BY NoFileAssumption, EmptySeq
    <3> QED BY <1>3, <3>1 DEF Torn
  <2>3. Live' <=> Live
    BY <1>3, <2>1, <2>2 DEF Live
  <2>4. chk # NoFile => Value(Stored)' = Value(Stored)
    BY <1>3, <2>1, StoredPrimed DEF Stored, Replayed
  <2>5. StoredAcked'
    BY <1>3, <2>1, <2>3, <2>4 DEF StoredAcked
  <2>6. Starting(p)'
    BY <1>0, <1>3, <2>1 DEF Starting, Both
  <2>7. Closing(p)'
    BY <1>0, <1>3, <2>1, <2>2, <2>3 DEF Closing
  <2> QED
    BY <1>0, <1>1, <2>1, <2>5, <2>6, <2>7 DEF Saving
<1> QED
  BY <1>2, <1>3 DEF OpenJournal

LEMMA AppendRecordAcked ==
  ASSUME TypeOK, Loaded, NEW p \in Procs, AckedOf(p),
         AppendRecord(p) \/ Crash(p)
  PROVE  AckedOf(p)'
<1> USE DEF TypeOK, AckedOf, Goto, Bounded, Aux, Return, Fail
<1>0. /\ AppendRecord(p) => pc[p] = "append" /\ op[p] \in {"start", "complete"}
      /\ pc[p] = "append" => op[p] \in {"start", "complete"}
      /\ pc[p] # "idle" /\ UNCHANGED <<chk, arch, created, op, target, begun>>
  BY DEF AppendRecord, Crash, Loaded, LoadedOf
<1>1. Untouched'
  BY <1>0, UnderWay
<1>2. pc[p] = "append" /\ Live => [status |-> target[p], data |-> chk.data] \in may
  BY <1>0 DEF Starting, Closing, Both
<1>3. ASSUME pc'[p] = "idle" \/ (pc'[p] = "create" /\ op[p] = "complete"), StoredAcked'
      PROVE  AckedOf(p)'
  BY <1>0, <1>1, <1>3 DEF Starting, Saving, Closing
<1>4. CASE pc[p] = "append" /\ jrn' \in PartOf(p) /\ may' = may
  <2>1. StoredAcked'
    BY <1>0, <1>2, <1>4, AppendAcked DEF StoredAcked
  <2>2. pc'[p] = "idle" \/ (pc'[p] = "create" /\ op[p] = "complete")
    BY <1>0, <1>4 DEF AppendRecord, Crash
  <2> QED BY <1>3, <2>1, <2>2
<1>5. CASE Crash(p) /\ pc[p] # "append"
  <2>1. StoredAcked'
    BY <1>0, <1>5, StoredSame DEF Crash
  <2> QED BY <1>3, <1>5, <2>1 DEF Crash
<1>6. CASE /\ AppendRecord(p) /\ op[p] = "start" /\ pc'[p] = "idle"
           /\ may' = {v \in may : v.status = "running"}
           /\ jrn' = IF p \in handle THEN Written(jrn, target[p]) ELSE jrn
  <2>1. /\ target[p] = "running" /\ jrn = <<>> /\ p \in handle
        /\ chk # NoFile /\ may = Both(chk.data)
    BY <1>0, <1>6 DEF Starting
  <2>2. jrn \in Seq(Records) /\ ~Torn(jrn) /\ "running" \in Records
    BY <2>1, EmptySeq DEF Torn, Records, Statuses
  <2>3. ~Empty(jrn') /\ jrn'[Len(jrn')] = "running"
    <3>1. jrn' = Written(jrn, "running")
      BY <1>6, <2>1
    <3> HIDE DEF TypeOK
    <3> QED BY <2>2, <3>1, TornOrNot
  <2>4. Value(Replayed(chk, jrn')) = [status |-> "running", data |-> chk.data]
    <3>1. chk \in States
      BY <2>1
    <3> HIDE DEF TypeOK
    <3> QED BY <2>3, <3>1, ReplayedValue
  <2>5. Value(Stored)' = [status |-> "running", data |-> chk.data]
    BY <1>0, <2>1, <2>4, StoredPrimed
  <2>6. [status |-> "running", data |-> chk.data] \in may'
    BY <1>6, <2>1 DEF Both
  <2>7. StoredAcked'
    BY <1>0, <2>1, <2>5, <2>6 DEF StoredAcked
  <2> QED BY <1>3, <1>6, <2>7
<1>7. CASE AppendRecord(p)
  <2>1. ASSUME op[p] = "complete" PROVE jrn' \in PartOf(p) /\ may' = may
    BY <1>7, <2>1 DEF AppendRecord, PartOf
  <2>2. CASE op[p] = "complete"
    BY <1>0, <1>4, <1>7, <2>1, <2>2
  <2>3. CASE op[p] = "start"
    BY <1>0, <1>4, <1>6, <1>7, <2>3 DEF AppendRecord
  <2> QED BY <1>0, <1>7, <2>2, <2>3
<1>8. CASE Crash(p) /\ pc[p] = "append"
  BY <1>4, <1>8 DEF Crash
<1> QED
  BY <1>5, <1>7, <1>8

\* LoadWithRecovery.
LEMMA LoadAcked ==
  ASSUME TypeOK, Loaded, NEW p \in Procs, AckedOf(p), LoadWorkflow(p)
  PROVE  AckedOf(p)'
<1> USE DEF TypeOK, AckedOf, files, Goto, Bounded, Aux, Return
<1>0. /\ pc[p] \in {"read", "readArch"} /\ op[p] # "start"
      /\ pc[p] = "readArch" => op[p] \in {"complete", "archive"}
  BY DEF LoadWorkflow, Loaded, LoadedOf
<1>1. Untouched'
  BY <1>0, UnderWay DEF LoadWorkflow
<1>2. StoredAcked'
  BY StoredSame DEF LoadWorkflow
<1> QED
  BY <1>0, <1>1, <1>2 DEF LoadWorkflow, Starting, Saving, Closing

\* What is loaded is what is stored.
LEMMA ReplayAcked ==
  ASSUME TypeOK, Loaded, NEW p \in Procs, AckedOf(p), RecoverWorkflow(p)
  PROVE  AckedOf(p)'
<1> USE DEF TypeOK, AckedOf, files, Goto, Bounded, Aux, Return, Fail
<1>0. /\ pc[p] \in {"replay", "replayArch"} /\ wf[p] = chk /\ chk # NoFile /\ op[p] # "start"
      /\ pc[p] = "replay" => op[p] \in {"step", "recover"}
      /\ pc[p] = "replayArch" => op[p] \in {"complete", "archive"}
      /\ UNCHANGED <<chk, jrn, arch, created, op, target, begun>>
  BY DEF RecoverWorkflow, Loaded, LoadedOf, Saving, Closing
<1>1. Untouched'
  BY <1>0, UnderWay
<1>2. CASE may' = may /\ pc'[p] \in {"idle", "releaseErr"}
  <2>1. StoredAcked'
    BY <1>0, <1>2, StoredSame
  <2> QED
    BY <1>0, <1>1, <1>2, <2>1 DEF Starting, Saving, Closing
<1>3. CASE ~Torn(jrn) /\ Continue(p, Replayed(chk, jrn))
  <2> DEFINE s == Replayed(chk, jrn)
             seen == may \intersect {Value(s)}
  <2>1. s \in States /\ s.data = chk.data
    BY <1>0, <1>3, ReplayedType
  <2>2. Value(Stored) = Value(s) /\ Value(Stored)' = Value(s)
    BY <1>0, StoredPrimed DEF Stored
  <2>3. Live' <=> Live
    BY <1>0 DEF Live, Torn
  <2>4. arch = NoFile => Value(s) \in seen
    BY <1>0, <1>3, <2>2 DEF StoredAcked, Live
  <2>5. seen \subseteq may' => StoredAcked'
    <3> HIDE DEF s
    <3> QED BY <1>0, <2>2, <2>3, <2>4 DEF StoredAcked, Live
  <2>6. ~Torn(jrn)'
    BY <1>0, <1>3 DEF Torn
  <2>7. ASSUME pc'[p] = "create", op[p] \in {"step", "recover"},
               arch = NoFile => Value(wf'[p]) \in may' /\ Value(Replayed(wf'[p], jrn)) \in may',
               seen \subseteq may'
        PROVE  AckedOf(p)'
    <3>1. arch' = NoFile => Value(wf[p])' \in may' /\ Value(Replayed(wf[p], jrn))' \in may'
      BY <1>0, <2>7 DEF Value, Replayed
    <3> HIDE DEF s, seen
    <3>2. Saving(p)'
      BY <1>0, <2>6, <2>7, <3>1 DEF Saving
    <3> QED
      BY <1>0, <1>1, <2>5, <2>7, <3>2 DEF Starting, Closing
  <2>8. CASE /\ op[p] = "step" /\ Goto(p, "create")
             /\ \E d \in profile.data :
                  /\ wf' = [wf EXCEPT ![p] = [s EXCEPT !.data = d]]
                  /\ may' = seen \union {[v EXCEPT !.data = d] : v \in seen}
    <3>1. PICK d \in profile.data :
                  /\ wf' = [wf EXCEPT ![p] = [s EXCEPT !.data = d]]
                  /\ may' = seen \union {[v EXCEPT !.data = d] : v \in seen}
      BY <2>8
    <3>2. wf'[p] = [s EXCEPT !.data = d] /\ d \in Data
      BY <3>1, ProfilesAssumption
    <3>3. wf'[p] \in States /\ wf'[p].status = s.status /\ wf'[p].data = d
      <4> HIDE DEF s
      <4> QED BY <2>1, <3>2 DEF States
    <3>4. Value(wf'[p]) = [Value(s) EXCEPT !.data = d]
      <4> HIDE DEF s
      <4> QED BY <3>3 DEF Value
    <3>5. Value(Replayed(wf'[p], jrn)) = Value(wf'[p])
      BY <1>0, <3>3, ReplayedAgain
    <3>6. Value(s) \in seen => Value(wf'[p]) \in may'
      <4> HIDE DEF s, seen
      <4> QED BY <3>1, <3>4
    <3> HIDE DEF s, seen
    <3> QED BY <2>4, <2>7, <2>8, <3>1, <3>5, <3>6
  <2>9. CASE /\ op[p] = "recover" /\ Goto(p, "create")
             /\ wf' = [wf EXCEPT ![p] = [s EXCEPT !.status = "failed"]]
             /\ may' = seen \union {[v EXCEPT !.status = "failed"] : v \in seen}
    <3>2. wf'[p] = [s EXCEPT !.status = "failed"]
      BY <2>9
    <3>3. wf'[p] \in States /\ wf'[p].status = "failed" /\ wf'[p].data = chk.data
      <4> HIDE DEF s
      <4> QED BY <2>1, <3>2 DEF States, Statuses
    <3>4. Value(wf'[p]) = [Value(s) EXCEPT !.status = "failed"]
      <4> HIDE DEF s
      <4> QED BY <2>1, <3>3 DEF Value
    <3>5. Value(Replayed(wf'[p], jrn)) \in {Value(wf'[p]), Value(s)}
      BY <1>0, <3>3, ReplayedAgain
    <3>6. Value(s) \in seen => Value(wf'[p]) \in may' /\ Value(s) \in may'
      <4> HIDE DEF s, seen
      <4> QED BY <2>9, <3>4
    <3> HIDE DEF s, seen
    <3> QED BY <2>4, <2>7, <2>9, <3>5, <3>6
  <2>10. CASE op[p] = "recover" /\ may' = seen /\ pc'[p] = "idle"
    <3> HIDE DEF s, seen
    <3> QED BY <1>0, <1>1, <2>5, <2>10 DEF Starting, Saving, Closing
  <2>11. CASE /\ op[p] \in {"complete", "archive"} /\ wf' = [wf EXCEPT ![p] = s]
              /\ may' = seen /\ Goto(p, "publish")
    <3>1. wf'[p] = s /\ pc'[p] = "publish"
      BY <2>11
    <3>2. arch' = NoFile => Value(wf[p])' \in may'
      BY <1>0, <2>4, <2>11, <3>1 DEF Value
    <3> HIDE DEF s, seen
    <3> QED BY <1>0, <1>1, <2>5, <2>11, <3>1, <3>2 DEF Starting, Saving, Closing
  <2> QED
    BY <1>3, <2>8, <2>9, <2>10, <2>11 DEF Continue
<1> QED
  BY <1>0, <1>2, <1>3 DEF RecoverWorkflow

\* Archive: once it has published, nothing loads the sources as the workflow.
LEMMA ArchiveAcked ==
  ASSUME TypeOK, Loaded, Published, NEW p \in Procs, AckedOf(p),
         WriteArchive(p) \/ RemoveJournal(p) \/ RemoveDir(p)
  PROVE  AckedOf(p)'
<1> USE DEF TypeOK, AckedOf, files, Goto, Bounded, Aux, Memory
<1>0. pc[p] \in {"publish", "rmJournal", "rmDir"} /\ op[p] \in {"complete", "archive"}
  BY DEF WriteArchive, RemoveJournal, RemoveDir, Loaded, LoadedOf
<1>1. Untouched'
  BY <1>0, UnderWay DEF WriteArchive, RemoveJournal, RemoveDir
<1>2. StoredAcked'
  <2>1. CASE WriteArchive(p) /\ arch' = arch
    BY <2>1, StoredSame DEF WriteArchive
  <2>2. CASE WriteArchive(p) /\ arch' # arch
    BY <2>2 DEF WriteArchive, StoredAcked, Live, Loaded, LoadedOf
  <2>3. CASE RemoveJournal(p) \/ RemoveDir(p)
    BY <2>3 DEF RemoveJournal, RemoveDir, StoredAcked, Live, Published
  <2> QED BY <2>1, <2>2, <2>3
<1> QED
  BY <1>0, <1>1, <1>2
     DEF WriteArchive, RemoveJournal, RemoveDir, Starting, Saving, Closing

LEMMA AckedStep ==
  ASSUME RemovesWork, WorkflowInv, AckedInv, Next
  PROVE  AckedInv'
<1> SUFFICES ASSUME ~profile.overlap
             PROVE  Untouched' /\ StoredAcked' /\ \A q \in Procs : AckedOf(q)'
  BY DEF AckedInv, Next
<1> USE DEF WorkflowInv
<1>0. Untouched /\ StoredAcked /\ (\A p \in Procs : AckedOf(p)) /\ UNCHANGED profile
  BY DEF AckedInv, Next
<1>1. CASE LockAges
  <2>1. StoredAcked' /\ Untouched'
    BY <1>0, <1>1, StoredSame DEF LockAges, Aux, Bounded, Untouched
  <2> QED
    BY <1>0, <1>1, <2>1 DEF LockAges, Memory, Bounded, Aux, AckedOf, Starting, Saving,
       Closing, Torn, Live, Value, Replayed, Both
<1>2. ASSUME NEW p \in Procs, Act(p)
      PROVE  Untouched' /\ StoredAcked' /\ \A q \in Procs : AckedOf(q)'
  <2>1. AckedOf(p)'
    BY <1>0, <1>2, BeginAcked, LockAcked, WriteAcked, TruncateAcked, OpenAcked, AppendRecordAcked,
       LoadAcked, ReplayAcked, ArchiveAcked DEF Act
  <2>2. \A q \in Procs : q # p => pc'[q] = "idle"
    BY <1>2, ActsAlone
  <2>3. Untouched' /\ StoredAcked'
    BY <2>1 DEF AckedOf
  <2>4. ASSUME NEW q \in Procs, q # p PROVE AckedOf(q)'
    BY <2>2, <2>3, <2>4 DEF AckedOf, Starting, Saving, Closing
  <2> QED BY <2>1, <2>3, <2>4
<1> QED
  BY <1>1, <1>2 DEF Next, Act

(***************************************************************************)
(* Durability: with operations one after the other and a journal that can  *)
(* be removed, the files load as what the last operation that returned nil *)
(* left, or an interrupted one since, and Archive publishes that, whatever *)
(* crashes and failed writes come between (SaveCheckpoint, UpdateStatus,   *)
(* RecoverWorkflow, Archive).                                              *)
(***************************************************************************)
THEOREM WorkflowAckedSurvives == RemovesWork => (Spec => []AckedSurvives)
<1> SUFFICES ASSUME RemovesWork PROVE Spec => []AckedSurvives
  OBVIOUS
<1>1. Init => AckedInv
  BY DEF Init, AckedInv, AckedOf, Untouched, StoredAcked, Live, Starting, Saving, Closing
<1>2. WorkflowInv /\ AckedInv /\ [Next]_vars => AckedInv'
  <2> SUFFICES ASSUME WorkflowInv, AckedInv, UNCHANGED vars PROVE AckedInv'
    BY AckedStep
  <2> QED
    BY DEF vars, files, AckedInv, AckedOf, Untouched, StoredAcked, Live, Torn, Stored, Value,
       Replayed, Starting, Saving, Closing, Both
<1>3. WorkflowInv /\ AckedInv => AckedSurvives
  BY DEF WorkflowInv, AckedInv, AckedOf, StoredAcked, Live, Closing, AckedSurvives, Untouched
<1> QED
  BY <1>1, <1>2, <1>3, WorkflowInvariant, PTL DEF Spec
=============================================================================
