---------------------------- MODULE Consolidation ----------------------------
(***************************************************************************)
(* internal/memory/consolidator: after a turn, a background worker asks    *)
(* the model for the facts of the reply and stores them in the memory      *)
(* index and, when vector search is on, in the vector memory.              *)
(*                                                                         *)
(* Workers outlive the request that submitted them but not the runtime:    *)
(* admission is closed and the workers are joined before the stores are    *)
(* closed.  A worker is a slot of Workers that a submission occupies.      *)
(* Facts are told apart by nothing but themselves: two facts are similar   *)
(* when they are equal, and a reply that was indexed as a whole may be     *)
(* similar to any fact, since it can contain all of its words.             *)
(***************************************************************************)
EXTENDS Integers, FiniteSets

CONSTANTS
  Workers,   \* slots for accepted submissions
  Facts,     \* what the model may extract
  NoFact,    \* no fact in hand
  MaxRows    \* bound on the rows of one fact

ASSUME WorkersAssumption == IsFiniteSet(Workers)
ASSUME NoFactAssumption == NoFact \notin Facts
ASSUME MaxRowsAssumption == MaxRows \in Nat \ {0}

VARIABLES
  vector,    \* vector search is configured, and its store open
  stopped,   \* the runtime's context is done
  memStore,  \* the memory store: "none", "open" or "closed"
  rows,      \* fact -> its rows in memory_fts
  replies,   \* whole replies have been indexed too
  docs,      \* facts in the vector memory
  saved,     \* facts in the file of the vector memory
  closed,    \* Shutdown has been called
  active,    \* accepted workers that have not finished
  closes,    \* how often the channel done has been closed
  wpc,       \* worker -> where it is
  todo,      \* worker -> facts it has not looked at
  fact,      \* worker -> the fact it is looking at
  indexed,   \* workers that have indexed a fact
  expired    \* workers whose thirty seconds are over

storeVars == <<rows, replies, docs, saved>>
joinVars == <<closed, active, closes>>
workVars == <<wpc, todo, fact, indexed, expired>>
consVars == <<vector, stopped, memStore, storeVars, joinVars, workVars>>

ConsInit ==
  /\ vector \in BOOLEAN
  /\ stopped = FALSE
  /\ memStore = "none"
  /\ rows = [f \in Facts |-> 0]
  /\ replies = FALSE
  /\ docs = {}
  /\ saved = {}
  /\ closed = FALSE
  /\ active = 0
  /\ closes = 0
  /\ wpc = [w \in Workers |-> "off"]
  /\ todo = [w \in Workers |-> {}]
  /\ fact = [w \in Workers |-> NoFact]
  /\ indexed = {}
  /\ expired = {}

WAt(w, where) == wpc[w] = where
WGoto(w, where) == wpc' = [wpc EXCEPT ![w] = where]
Forget(w) == fact' = [fact EXCEPT ![w] = NoFact]

\* The owner is done when the runtime's context is, or Shutdown cancelled it.
OwnerDone == stopped \/ closed
WorkerDone(w) == OwnerDone \/ w \in expired
Running == {w \in Workers : wpc[w] # "off"}
-----------------------------------------------------------------------------
(***************************************************************************)
(* Admission and join.                                                     *)
(***************************************************************************)
Admitted == ~closed /\ ~OwnerDone

ConsolidateAsync(w) ==
  /\ WAt(w, "off")
  /\ Admitted
  /\ active' = active + 1
  /\ WGoto(w, "extract")
  /\ UNCHANGED <<vector, stopped, memStore, storeVars, closed, closes, todo, fact, indexed, expired>>

\* Thirty seconds after its start the worker's context is done.
Expire(w) ==
  /\ w \in Running \ expired
  /\ expired' = expired \union {w}
  /\ UNCHANGED <<vector, stopped, memStore, storeVars, joinVars, wpc, todo, fact, indexed>>

CloseDone == closed /\ active = 1

workerDone(w) ==
  /\ WAt(w, "exit")
  /\ active' = active - 1
  /\ closes' = IF CloseDone THEN closes + 1 ELSE closes
  /\ WGoto(w, "off")
  /\ todo' = [todo EXCEPT ![w] = {}]
  /\ indexed' = indexed \ {w}
  /\ expired' = expired \ {w}
  /\ UNCHANGED <<vector, stopped, memStore, storeVars, closed, fact>>

\* The part of Shutdown under the mutex; the caller then waits for done.
ShutdownCloses ==
  /\ closed' = TRUE
  /\ closes' = IF ~closed /\ active = 0 THEN closes + 1 ELSE closes
  /\ UNCHANGED active
-----------------------------------------------------------------------------
(***************************************************************************)
(* The memory index and the vector memory, as a worker uses them.          *)
(***************************************************************************)
\* The nearest documents are searched; an embedding that fails finds none.
isSemanticDuplicate(w) == {FALSE, fact[w] \in docs}

\* Words in common with a row: with an equal fact, and perhaps with a reply.
similarity(f) == rows[f] > 0 \/ replies

\* One full-text search; a search that fails finds nothing.
isLexicalDuplicate(w) ==
  {FALSE} \union (IF memStore = "open" /\ similarity(fact[w]) THEN {TRUE} ELSE {})

isDuplicate(w) == IF vector THEN isSemanticDuplicate(w) ELSE isLexicalDuplicate(w)

Inserts == {f \in Facts : memStore = "open" /\ rows[f] < MaxRows}
-----------------------------------------------------------------------------
(***************************************************************************)
(* The worker.  Every remote call may fail, with or without its context    *)
(* being done; the context is looked at between the steps.                 *)
(***************************************************************************)
\* An answer without a readable list has no facts.
parseScoredFacts == SUBSET Facts

extractFacts(w) ==
  /\ WAt(w, "extract")
  /\ \E F \in parseScoredFacts :
       /\ todo' = [todo EXCEPT ![w] = F]
       /\ WGoto(w, IF F = {} \/ WorkerDone(w) THEN "exit" ELSE "index")
  /\ UNCHANGED <<vector, stopped, memStore, storeVars, joinVars, fact, indexed, expired>>

nextFact(w) ==
  /\ WAt(w, "index")
  /\ \/ /\ WorkerDone(w) \/ todo[w] = {}
        /\ WGoto(w, "save")
        /\ UNCHANGED <<todo, fact>>
     \/ /\ ~WorkerDone(w)
        /\ \E f \in todo[w] :
             /\ todo' = [todo EXCEPT ![w] = @ \ {f}]
             /\ fact' = [fact EXCEPT ![w] = f]
        /\ WGoto(w, "compare")
  /\ UNCHANGED <<vector, stopped, memStore, storeVars, joinVars, indexed, expired>>

indexFacts(w) ==
  /\ WAt(w, "compare")
  /\ \E duplicate \in isDuplicate(w) :
       LET to == IF duplicate THEN "index" ELSE IF WorkerDone(w) THEN "save" ELSE "insert"
       IN WGoto(w, to) /\ (IF to = "insert" THEN UNCHANGED fact ELSE Forget(w))
  /\ UNCHANGED <<vector, stopped, memStore, storeVars, joinVars, todo, indexed, expired>>

\* The insertion has no context: it may begin after the worker's is done.
IndexWithImportance(w) ==
  /\ WAt(w, "insert")
  /\ \/ /\ fact[w] \in Inserts
        /\ rows' = [rows EXCEPT ![fact[w]] = @ + 1]
        /\ WGoto(w, "vector")
        /\ UNCHANGED fact
     \/ WGoto(w, "index") /\ Forget(w) /\ UNCHANGED rows
  /\ UNCHANGED <<vector, stopped, memStore, replies, docs, saved, joinVars, todo, indexed, expired>>

indexVectorFact(w) ==
  /\ WAt(w, "vector")
  /\ \/ vector /\ ~WorkerDone(w) /\ docs' = docs \union {fact[w]}
     \/ UNCHANGED docs
  /\ indexed' = indexed \union {w}
  /\ WGoto(w, "index") /\ Forget(w)
  /\ UNCHANGED <<vector, stopped, memStore, rows, replies, saved, joinVars, todo, expired>>

saveVectors(w) ==
  /\ WAt(w, "save")
  /\ \/ vector /\ ~WorkerDone(w) /\ w \in indexed /\ saved' = docs
     \/ UNCHANGED saved
  /\ WGoto(w, IF WorkerDone(w) THEN "exit" ELSE "cleanup")
  /\ UNCHANGED <<vector, stopped, memStore, rows, replies, docs, joinVars, todo, fact, indexed, expired>>

\* Rows older than the configured age are deleted; the vector memory keeps
\* its documents.
cleanupNamespaces(w) ==
  /\ WAt(w, "cleanup")
  /\ \/ /\ ~WorkerDone(w) /\ memStore = "open"
        /\ \E old \in SUBSET {f \in Facts : rows[f] > 0} :
             rows' = [f \in Facts |-> IF f \in old THEN 0 ELSE rows[f]]
     \/ UNCHANGED rows
  /\ WGoto(w, "exit")
  /\ UNCHANGED <<vector, stopped, memStore, replies, docs, saved, joinVars, todo, fact, indexed, expired>>

WorkerNext ==
  \E w \in Workers :
    \/ Expire(w) \/ extractFacts(w) \/ nextFact(w) \/ indexFacts(w)
    \/ IndexWithImportance(w) \/ indexVectorFact(w) \/ saveVectors(w)
    \/ cleanupNamespaces(w) \/ workerDone(w)
-----------------------------------------------------------------------------
(***************************************************************************)
(* Properties.                                                             *)
(***************************************************************************)
ConsTypeOK ==
  /\ {vector, stopped, replies, closed} \subseteq BOOLEAN
  /\ memStore \in {"none", "open", "closed"}
  /\ rows \in [Facts -> 0 .. MaxRows]
  /\ docs \subseteq Facts /\ saved \subseteq docs
  /\ active \in 0 .. Cardinality(Workers)
  /\ closes \in Nat
  /\ wpc \in [Workers -> {"off", "extract", "index", "compare", "insert", "vector",
                          "save", "cleanup", "exit"}]
  /\ todo \in [Workers -> SUBSET Facts]
  /\ fact \in [Workers -> Facts \union {NoFact}]
  /\ indexed \subseteq Workers /\ expired \subseteq Workers

\* The stores are closed only when no accepted worker is left to use them,
\* whoever finishes first, the workers or the five seconds of the join; and
\* the channel that tells the join is never closed a second time, which
\* would panic (Shutdown, workerDone, runWithStackCleanup).
StoresOutliveWorkers ==
  /\ memStore = "closed" => Running = {}
  /\ closes <= 1
=============================================================================
