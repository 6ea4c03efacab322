-------------------------------- MODULE Recall --------------------------------
(***************************************************************************)
(* What a turn is shown of the memory: the block of retrieved context in   *)
(* front of its system prompt (internal/app/runner_rag.go), the tools      *)
(* `memory` and `search_docs`, and the hybrid search of                    *)
(* internal/memory/vector behind them.                                     *)
(*                                                                         *)
(* Scores, decay and diversity only order the results: a search may return *)
(* any results of the right number.  A document of the vector memory is    *)
(* the row it was made from; a workspace document is a chunk of a file.    *)
(***************************************************************************)
EXTENDS MemoryStore

CONSTANTS
  Failed,      \* a search that returns an error
  Noise,       \* texts that match a noise pattern
  RagLimit,    \* results of a hybrid search; 5 in the code
  Chunks       \* the chunks the files of the workspace may have

ASSUME RagLimitAssumption == RagLimit \in Nat \ {0}

VARIABLES
  vecOn,       \* vector search is enabled, for a provider with embeddings
  vecDocs,     \* collection memory_facts
  workspace,   \* chunks of the files as they are
  wsDocs,      \* collection workspace_docs
  shown        \* what the last search of a turn showed it

recallVars == <<vecOn, vecDocs, workspace, wsDocs, shown>>
vecVars == <<vecOn, vecDocs, workspace, wsDocs>>

SessionNs == Namespaces \ {"global"}
NothingShown == [session |-> "global", rows |-> {}, chunks |-> {}]

RecallInit ==
  /\ vecOn \in BOOLEAN
  /\ vecDocs = {}
  /\ workspace = {}
  /\ wsDocs = {}
  /\ shown = NothingShown
-----------------------------------------------------------------------------
(***************************************************************************)
(* Searches, as the set of results they may return.                        *)
(***************************************************************************)
\* Similarity and age decide which are the best.
BestOf(S, n) ==
  {T \in SUBSET S : Cardinality(T) = IF Cardinality(S) < n THEN Cardinality(S) ELSE n}

\* The limit applies to the rows; of rows with the same text one is returned.
\* A query that FTS5 cannot parse finds nothing.
Search(namespaces, limit) ==
  {Failed} \union
  {R \in SUBSET {r \in table[fts].rows : r.ns \in namespaces} :
     /\ Cardinality(R) <= limit
     /\ \A r, q \in R : r.text = q.text => r = q}

VecSearch(S, limit) == {Failed} \union BestOf(S, limit)

\* The nearest documents are those of every session.
MutOfSession(D, s) == D
OfSession(D, s) == {d \in D : d.ns \in {s, "global"}}

applyMMR(D, limit) == BestOf(D, limit)

\* Results are keyed by namespace and text.
MergeResults(F, D) == F \union D

HybridSearch(s, limit) ==
  {Failed} \union
  UNION {UNION {BestOf(MergeResults(F, D), limit) :
                  D \in UNION {applyMMR(OfSession(V, s), 2 * limit) :
                                 V \in VecSearch(vecDocs, 4 * limit) \ {Failed}}} :
           F \in Search({s, "global"}, 2 * limit) \ {Failed}}

FilterRAGResults(R) == {r \in R : r.text \notin Noise}

ftsSearch(s) ==
  {IF R = Failed THEN {} ELSE FilterRAGResults(R) : R \in Search({s, "global"}, 2 * RagLimit)}

hybridRagSearch(s) ==
  (HybridSearch(s, RagLimit) \ {Failed}) \union ftsSearch(s)

getRagBlock(s) == IF vecOn THEN hybridRagSearch(s) ELSE ftsSearch(s)
-----------------------------------------------------------------------------
(***************************************************************************)
(* Turns.                                                                  *)
(***************************************************************************)
Shows(s, R, C) == shown' = [session |-> s, rows |-> R, chunks |-> C]

\* A short or generic message is not looked up.
buildSystemPrompt(o, s) ==
  /\ Usable(o)
  /\ \E R \in getRagBlock(s) \union {{}} : Shows(s, R, {})
  /\ UNCHANGED <<memVars, vecVars>>

MemoryTool(o, s) ==
  /\ Usable(o)
  /\ \E R \in Search({s, "global"}, RagLimit) : R # Failed /\ Shows(s, R, {})
  /\ UNCHANGED <<memVars, vecVars>>

\* The search is for no session; its rows are keyed by their namespace, so
\* only one of them is left after the merge.
SearchDocsTool(o, s) ==
  /\ Usable(o) /\ vecOn
  /\ \E R \in Search({"global"}, 2 * RagLimit) \ {Failed},
        C \in VecSearch(wsDocs, 2 * RagLimit) \ {Failed} :
       \E F \in BestOf(R, 1) : Shows(s, F, C)
  /\ UNCHANGED <<memVars, vecVars>>

\* A consolidation worker adds the fact it has indexed.
AddDocument(o, r) ==
  /\ OpenerAt(o, "open") /\ vecOn /\ r \in acked
  /\ vecDocs' = vecDocs \union {r}
  /\ UNCHANGED <<memVars, vecOn, workspace, wsDocs, shown>>

\* Chunks are what chunkMarkdown cuts the edited files into.
EditWorkspace ==
  /\ workspace' \in SUBSET Chunks
  /\ UNCHANGED <<memVars, vecOn, vecDocs, wsDocs, shown>>

\* Chunks are added under their file and number: those of a file that became
\* shorter or was removed stay.  A file that cannot be read ends the walk.
IndexWorkspaceMarkdown ==
  /\ vecOn
  /\ wsDocs' = wsDocs \union workspace
  /\ UNCHANGED <<memVars, vecOn, vecDocs, workspace, shown>>

RecallNext ==
  \/ \E o \in Openers :
       \/ \E s \in SessionNs : buildSystemPrompt(o, s) \/ MemoryTool(o, s) \/ SearchDocsTool(o, s)
       \/ \E r \in Rows : AddDocument(o, r)
  \/ EditWorkspace \/ IndexWorkspaceMarkdown

RecallSpec ==
  /\ MemInit /\ RecallInit
  /\ [][(MemNext /\ UNCHANGED recallVars) \/ RecallNext]_<<memVars, recallVars>>
-----------------------------------------------------------------------------
\* A turn is never shown a memory of another session, whichever index, tool
\* or fallback found it: the vector memory is one collection for all
\* sessions, and the filter comes after the search (HybridSearch,
\* hybridRagSearch, MemoryTool.Execute).
RecallIsolated == \A r \in shown.rows : r.ns \in {shown.session, "global"}
=============================================================================
