----------------------------- MODULE MemoryStore -----------------------------
(***************************************************************************)
(* internal/memory/sqlite_store.go: the file of the long-term memory, its  *)
(* schema migrations and the statements of its users.                      *)
(*                                                                         *)
(* A migration is a list of statements, each committed on its own, and the *)
(* process may end between any two of them; nothing keeps a second process *)
(* (`gobot memory`, `gobot simulate`) from opening the same file at the    *)
(* same time.  A per-user file is opened by the turns of one process       *)
(* through the cache of GetMemoryStore.  Rows are told apart by namespace  *)
(* and text only: equal rows are one row.                                  *)
(***************************************************************************)
EXTENDS Integers, Sequences, FiniteSets

CONSTANTS
  Openers,     \* who opens the file: processes, or the turns of one process
  Nobody,
  Namespaces,  \* "global" and those of the sessions
  Texts,
  MaxMemCrashes \* bound on the crashes of one behaviour

ASSUME NobodyAssumption == Nobody \notin Openers
ASSUME MaxMemCrashesAssumption == MaxMemCrashes \in Nat

VARIABLES
  perUser,     \* the file is a user's: Openers are turns of one process
  version,     \* PRAGMA user_version
  table,       \* name -> columns and rows of the table
  acked,       \* rows that are in the index as far as their writer knows
  opc,         \* opener -> where it is
  stmts,       \* opener -> statements it has still to execute
  msMu,        \* the opener that holds the mutex of GetMemoryStore
  cached,      \* msInstances has the store
  memCrashes

fileVars == <<version, table, acked>>
openVars == <<opc, stmts, msMu, cached>>
memVars == <<perUser, fileVars, openVars, memCrashes>>

Rows == [ns : Namespaces, text : Texts]
fts == "memory_fts"
old == "memory_fts_old"
v1 == "memory_fts_v1"
Tables == {fts, old, v1}
NoTable == [cols |-> "none", rows |-> {}]
Exists(t) == table[t].cols # "none"
-----------------------------------------------------------------------------
(***************************************************************************)
(* Statements, as SQLite executes them.                                    *)
(***************************************************************************)
Rename(from, to) == [op |-> "rename", from |-> from, to |-> to]
Create(cols) == [op |-> "create", cols |-> cols]
CreateIfNone(cols) == [op |-> "ensure", cols |-> cols]
Copy(from, needs, into) == [op |-> "copy", from |-> from, needs |-> needs, into |-> into]
Drop(t) == [op |-> "drop", from |-> t]
SetVersion(n) == [op |-> "version", n |-> n]

\* Copying needs the columns of the source that it selects, and of the table
\* it inserts into.
Succeeds(s) ==
  CASE s.op = "rename" -> Exists(s.from) /\ ~Exists(s.to)
    [] s.op = "create" -> ~Exists(fts)
    [] s.op = "copy" -> table[fts].cols \in s.into /\ table[s.from].cols \in s.needs
    [] s.op = "drop" -> Exists(s.from)
    [] OTHER -> TRUE

Effect(s) ==
  CASE s.op = "rename" -> [table EXCEPT ![s.from] = NoTable, ![s.to] = table[s.from]]
    [] s.op = "create" -> [table EXCEPT ![fts] = [cols |-> s.cols, rows |-> {}]]
    [] s.op = "ensure" /\ ~Exists(fts) -> [table EXCEPT ![fts] = [cols |-> s.cols, rows |-> {}]]
    [] s.op = "copy" -> [table EXCEPT ![fts].rows = @ \union table[s.from].rows]
    [] s.op = "drop" -> [table EXCEPT ![s.from] = NoTable]
    [] OTHER -> table

migrateFresh == <<CreateIfNone("v2"), SetVersion(2)>>

MutMigrateV1toV2 ==
  <<Rename(fts, v1), Create("v2"), Drop(v1), Copy(v1, {"v1", "v2"}, {"v2"}), SetVersion(2)>>
migrateV1toV2 ==
  <<Rename(fts, v1), Create("v2"), Copy(v1, {"v1", "v2"}, {"v2"}), Drop(v1), SetVersion(2)>>

migrateLegacy ==
  <<Rename(fts, old), Create("v1"), Copy(old, {"v0"}, {"v1", "v2"}), Drop(old), SetVersion(1)>>
    \o migrateV1toV2
-----------------------------------------------------------------------------
\* The file of an older release, with its rows, or none.
MemInit ==
  /\ perUser \in BOOLEAN
  /\ \E from \in {"none", "v0", "v1", "v2"} : \E R \in SUBSET Rows :
       /\ from = "none" => R = {}
       /\ from = "v0" => \A r \in R : r.ns # "global"
       /\ table = [[t \in Tables |-> NoTable] EXCEPT ![fts] = [cols |-> from, rows |-> R]]
       /\ acked = R
       /\ version = CASE from = "v1" -> 1 [] from = "v2" -> 2 [] OTHER -> 0
  /\ opc = [o \in Openers |-> "off"]
  /\ stmts = [o \in Openers |-> <<>>]
  /\ msMu = Nobody
  /\ cached = FALSE
  /\ memCrashes = 0

OpenerAt(o, where) == opc[o] = where
OpenerTo(o, where) == opc' = [opc EXCEPT ![o] = where]

\* The cache is asked, then the mutex taken, then the cache asked again.
GetMemoryStore(o) ==
  /\ perUser /\ UNCHANGED <<perUser, fileVars, stmts, cached, memCrashes>>
  /\ \/ /\ OpenerAt(o, "off")
        /\ OpenerTo(o, IF cached THEN "open" ELSE "mutex")
        /\ UNCHANGED msMu
     \/ /\ OpenerAt(o, "mutex") /\ msMu = Nobody
        /\ IF cached THEN OpenerTo(o, "open") /\ UNCHANGED msMu
           ELSE OpenerTo(o, "version") /\ msMu' = o

\* A process opens the shared file once, when it starts.
NewMemoryStore(o) ==
  /\ ~perUser /\ OpenerAt(o, "off")
  /\ OpenerTo(o, "version")
  /\ UNCHANGED <<perUser, fileVars, stmts, msMu, cached, memCrashes>>

Begin(o, todo) ==
  /\ stmts' = [stmts EXCEPT ![o] = todo]
  /\ OpenerTo(o, "migrate")

initMemorySchema(o) ==
  /\ OpenerAt(o, "version")
  /\ CASE version = 0 -> OpenerTo(o, "legacy") /\ UNCHANGED stmts
       [] version = 1 -> Begin(o, migrateV1toV2)
       [] OTHER -> Begin(o, <<>>)
  /\ UNCHANGED <<perUser, fileVars, msMu, cached, memCrashes>>

migrateV0(o) ==
  /\ OpenerAt(o, "legacy")
  /\ Begin(o, IF Exists(fts) THEN migrateLegacy ELSE migrateFresh)
  /\ UNCHANGED <<perUser, fileVars, msMu, cached, memCrashes>>

\* A store that cannot be opened is done without; a later turn tries again,
\* the process for the shared file does not.
GiveUp(o) ==
  /\ OpenerTo(o, IF perUser THEN "off" ELSE "without")
  /\ stmts' = [stmts EXCEPT ![o] = <<>>]
  /\ msMu' = Nobody
  /\ UNCHANGED <<table, version, cached>>

Execute(o) ==
  /\ OpenerAt(o, "migrate")
  /\ \/ /\ stmts[o] # <<>>
        /\ LET s == Head(stmts[o])
           IN \/ /\ Succeeds(s)
                 /\ table' = Effect(s)
                 /\ version' = IF s.op = "version" THEN s.n ELSE version
                 /\ stmts' = [stmts EXCEPT ![o] = Tail(@)]
                 /\ UNCHANGED <<opc, msMu, cached>>
              \/ GiveUp(o)
     \/ /\ stmts[o] = <<>>
        /\ OpenerTo(o, "open")
        /\ msMu' = Nobody
        /\ cached' = perUser
        /\ UNCHANGED <<table, version, stmts>>
  /\ UNCHANGED <<perUser, acked, memCrashes>>
-----------------------------------------------------------------------------
(***************************************************************************)
(* The open store.  A statement for other columns than the table's is an   *)
(* error that its caller logs.                                             *)
(***************************************************************************)
Usable(o) == OpenerAt(o, "open") /\ table[fts].cols = "v2"

\* A turn or a consolidation worker.
IndexRow(o, r) ==
  /\ Usable(o)
  /\ table' = [table EXCEPT ![fts].rows = @ \union {r}]
  /\ acked' = acked \union {r}
  /\ UNCHANGED <<perUser, version, openVars, memCrashes>>

\* `gobot memory rebuild`: a row per log of the sessions directory, in the
\* namespace of its name; a log that cannot be read or indexed is skipped,
\* and rows that are there stay.
Rebuild(o) ==
  /\ ~perUser
  /\ \E r \in Rows : r.ns # "global" /\ IndexRow(o, r)

CleanupNamespace(o, ns) ==
  /\ Usable(o)
  /\ \E expired \in SUBSET {r \in table[fts].rows : r.ns = ns} :
       /\ table' = [table EXCEPT ![fts].rows = @ \ expired]
       /\ acked' = acked \ expired
  /\ UNCHANGED <<perUser, version, openVars, memCrashes>>

CloseStore(o) ==
  /\ ~perUser /\ opc[o] \in {"open", "without"}
  /\ OpenerTo(o, "off")
  /\ UNCHANGED <<perUser, fileVars, stmts, msMu, cached, memCrashes>>

\* The process ends between two statements.
CrashMemory(o) ==
  /\ opc[o] # "off" /\ memCrashes < MaxMemCrashes
  /\ memCrashes' = memCrashes + 1
  /\ LET gone == IF perUser THEN Openers ELSE {o}
     IN /\ opc' = [x \in Openers |-> IF x \in gone THEN "off" ELSE opc[x]]
        /\ stmts' = [x \in Openers |-> IF x \in gone THEN <<>> ELSE stmts[x]]
  /\ msMu' = Nobody
  /\ cached' = FALSE
  /\ UNCHANGED <<perUser, fileVars>>

MemNext ==
  \E o \in Openers :
    \/ GetMemoryStore(o) \/ NewMemoryStore(o) \/ initMemorySchema(o) \/ migrateV0(o)
    \/ Execute(o) \/ CloseStore(o) \/ CrashMemory(o) \/ Rebuild(o)
    \/ \E r \in Rows : IndexRow(o, r)
    \/ \E ns \in Namespaces : CleanupNamespace(o, ns)
-----------------------------------------------------------------------------
(***************************************************************************)
(* Properties.                                                             *)
(***************************************************************************)
MemTypeOK ==
  /\ version \in 0 .. 2
  /\ table \in [Tables -> [cols : {"none", "v0", "v1", "v2"}, rows : SUBSET Rows]]
  /\ acked \subseteq Rows
  /\ opc \in [Openers -> {"off", "mutex", "version", "legacy", "migrate", "open", "without"}]
  /\ msMu \in Openers \union {Nobody}
  /\ {perUser, cached} \subseteq BOOLEAN /\ memCrashes \in 0 .. MaxMemCrashes

\* No memory is lost: whatever statement a migration is interrupted at, and
\* whoever else migrates the same file, every row of the older release and
\* every row indexed since that has not expired is in a table of the file;
\* and at most one turn of a process opens a user's file (GetMemoryStore,
\* migrateV0, migrateV1toV2).
MemoryKept ==
  /\ \A r \in acked : \E t \in Tables : r \in table[t].rows
  /\ perUser => Cardinality({o \in Openers : opc[o] \in {"version", "legacy", "migrate"}}) <= 1
=============================================================================
