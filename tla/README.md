# A formal model of gobot

gobot is a personal agent: it receives Telegram messages and scheduled jobs,
runs a language model with tools on them, and keeps its state in SQLite and in
files. This directory holds TLA+ modules that model its stateful core, the TLC
configurations that check them on small instances, and TLAPS proofs.

`PROJECT.json` lists the components, the runs, the mutants that show each
property can fail, the source lines behind every definition, and the hazards.

## How gobot works

A message comes in through the Telegram poller (`internal/app/telegram.go`,
`internal/bot/bot.go`), one goroutine per message, passes the pairing gate, and
through `DispatchHandler` reaches `SessionManager.Dispatch` (`internal/agent`);
the HTTP gateway calls the same handler. Dispatch takes the lock of the session,
loads the latest snapshot from the checkpoint store (`internal/context`),
prunes, summarises and compacts the transcript, runs a turn (`AgentRunner` in
`internal/app`: model calls and tool calls until a terminal answer), saves the
next snapshot, and may spawn a worker that compacts the history under the same
lock. A turn is shown memories of its session (`internal/memory`, full-text and
vector search), and its reply is indexed and handed to a background worker that
extracts facts. Tool calls pass two hooks, policy and human approval, that may
ask the user with buttons and wait; the answers come back as callbacks, each in
its own goroutine. Tools are those of MCP servers, subprocesses shared by all
calls, those of Google (`internal/integrations/google`), and local ones. The cron
scheduler (`internal/cron`) polls every minute and runs due jobs; the dispatcher
(`internal/app/cron*.go`) runs a turn for each and delivers the answer by mail or
Telegram. Workflows (`internal/state`) are checkpoint and journal files with a
lock file, written by hooks and by commands of other processes. `RunAgent`
(`internal/app/app.go`) starts all of this in order and stops it again; every log
record also goes to a hub that browsers follow (`internal/dashboard`).

## Inventory

| component | state | operations | what is hard | what makes it correct | module |
|---|---|---|---|---|---|
| session lock (`agent/lock_metrics.go`) | registry of reference-counted lock objects, one token each | acquireLock, Lock, Unlock, release | objects are created and dropped while goroutines wait, cancelled waits | one holder per session, no leak, no waiter forgotten | SessionLock |
| session manager (`agent/agent.go`, `session_history.go`) | goroutines with a snapshot in hand | Dispatch, compactSessionAsync, clear | crash or failed save at every step, compaction against turns | saved turns stay, nothing is overwritten | SessionDispatch, SessionHistory |
| checkpoint store (`context/manager.go`, `db.go`) | threads, checkpoint rows | CreateThread, LoadLatest, SaveSnapshot, CompleteThread | order of snapshots, pruning | the latest is the newest | SessionDispatch |
| compaction and providers (`agent/compaction.go`, `provider`) | the transcript | prune, summarise, compact, convert | windows that cut between a call and its result | pairs stay together up to the wire | ContextWindow |
| approval and policy (`agent/hitl.go`, `policy.go`, `hooks.go`) | waiters, channels, `hitl_approvals` | RequestApproval, waitForApproval, HandleCallback | presses at any time, twice, late, across restarts | runs only if approved, no decision lost | Approval |
| agent runner (`app/runner*.go`, `reflection`), idempotency, breakers (`resilience`), sub-agents | messages of a run, keys, breaker states | Run, RetryChat, tool execution, Check/Store, Execute, reset | failures between calls of a response, shared breakers, nested runs | results belong to their calls, cron jobs fail closed, one probe | AgentTurn |
| MCP servers (`app/tool_mcp.go`, `tools.go`) | process, reader, pending table, admission | start, Call, stop, reader | restarts, teardown by several goroutines, arbitrary server and descendants | one transport, answers to their requests, calls return | MCPServer |
| workflow state (`internal/state`, `agent/state_hooks.go`, `cmd/gobot/state.go`) | checkpoint, journal, archive, lock file | hooks, recover, archive, cleanup | several processes, crash between file operations, stale locks | acknowledged state survives, one writer | WorkflowState |
| cron scheduler (`internal/cron`) | store in memory, `jobs.json`, definitions | poll, reload, reconcile, dispatch, save, seed | edits and crashes at any time, failing reads and writes | no saved run twice, no job lost, due jobs run | CronScheduler |
| cron delivery (`app/cron*.go`) | the run, retry goroutines | route, turn, mail, alert, retry | failing notices, retries beside the schedule and the shutdown, posts that Send repeats | a failure leads to one notice, no retry resends an answer | CronDelivery |
| Google (`integrations/google`, `app/tool_google.go`, `tool_email.go`), secrets | a grant in three places, the call under way | BearerToken, NewService, reauth, every tool | no lock between read and write-back, pages that fail | a list is whole or says it is not | GoogleAuth, GoogleTools |
| Telegram (`app/telegram.go`, `bot`, `app/handler.go`), pairing (`context/pairing.go`) | generations, offset, seen messages, codes | acquire, poll, drain, dispatch, authorize | generations ending and starting, full channels, repeated updates | nothing lost, nothing twice, gate closed | TelegramPolling |
| consolidation (`memory/consolidator`) | workers, join, stores | ConsolidateAsync, Shutdown | shutdown against submissions and slow workers | stores are closed after their users | Consolidation |
| start-up, shutdown, readiness, heartbeat, gateway (`app/app*.go`, `app/heartbeat.go`, `gateway`) | main goroutine, listeners, latches | start, wait, drain, join, clean up | listeners that fail while others start, a cleanup that waits for others | every trigger ends the run | Lifecycle |
| memory index (`memory/sqlite_store.go`) | tables and version of the file | open, migrate, index, clean up, rebuild | crash between statements, second process | no memory lost | MemoryStore |
| retrieval (`app/runner_rag.go`, `tool_memory.go`, `memory/vector`) | two vector collections | searches, indexing | one collection for all sessions | no memory of another session shown | Recall |
| log hub (`dashboard`, `gateway/dash/logs.go`) | ring buffer, subscribers | Emit, Subscribe, Close, stream | slow and leaving clients, close against emit | a stream has no holes of others' making | LogHub |

Interactions: Dispatch and the compaction worker share the session lock and the
checkpoint rows; approvals and pairing share the database; cron jobs, sub-agents
and messages share Dispatch; every tool call of every session shares the MCP
server objects, the breakers and the Google tokens; turns, workers and other
processes share the memory file; workflow files are shared between processes.

## Modules

**SessionLock** is `lock_metrics.go`: each step is a region under one mutex or
one channel operation. `acquireLock` finds or creates the object and counts the
reference, `LockTake` receives the token, `LockRecord`/`UnlockRecord` update the
metrics, `UnlockSend` returns the token, `release` drops the reference and, with
the last one, the object. A lock object is a heap address: one nothing points to
may be handed out again.

**SessionDispatch** is Dispatch over the checkpoint store. It instantiates
SessionLock for its goroutines (a turn and a compaction worker per call) and
composes its actions with those of the lock. A history is a sequence with one set
of turns per message, so that a summary still says which turns it tells about. A
failed `CreateThread` leads to a stateless call, a failed save to the warning, and
so on; a crash loses goroutines and locks and keeps the tables. `CompleteThread`
is the `clear-checkpoint` command of another process.

**SessionHistory** is what callers may rely on: a history changes only by a turn
appended to (a prepared form of) the current history or by a summary of a prefix;
turns leave it only when the turn that drops them started from them, or when the
session was cleared. SessionDispatch implements it with `hist` the history the next
load would return and `forgotten` what turns pruned (`NoLostUpdate`): a save from a
stale snapshot would make turns disappear that nobody pruned.

**Approval** is both pre-tool hooks, RequestApproval, waitForApproval and
HandleCallback. A waiter is a call in one of the two hooks. Any write to the
table may fail; a restart keeps the table and the buttons in the chat. A reading
the model supports: given that the waiter registers before it reads the status,
and that the callback persists before it looks the waiter up, the second status
check of waitForApproval never finds anything the first steps would have missed.

**WorkflowState** is one workflow's files; a step is one file-system operation.
A crash leaves the lock file and possibly half a journal record.

**CronScheduler** has the poll in the order of the code: reload `jobs.json` if it
changed, reconcile the definitions if their fingerprint is not the committed one,
mark due jobs, run them without the mutex, book, save. The fingerprint is the
directory itself, with the stamp of the edit that wrote each file.

**MCPServer** is one server. `cur` stands for the four fields that are set and
cleared together; a request is named by its channel; `wire` is what the server may
still answer. teardown is a procedure any goroutine may be in (`tear`), besides
its own place (`pc`). The server process is external and unrestricted. `route`
and the send it ends with are one step, since only the receiver of that channel
could tell them apart. The `initialized` flag is never read and left out.
stderr is a buffer, not a file, so `cmd.Wait` waits under `stopMu` until every
descendant of the server has closed its copy of it, and the reader ends when they
have closed stdout: `held` says which of the three pipes descendants of a process
that has ended still have, and they let go of them when they like
(`DescendantsExit`).

**AgentTurn** is `AgentRunner.Run` with everything it calls, for several turns on
the main runner and for the sub-agents they spawn. A response is a text or one of
a set of sequences of tool calls; an error is of the kind the code tells apart
(transient or not, the end of a context, anything else). The transcript is
reduced to what the properties ask of it: calls without a result, a tool error, a
result of another call. `current` replaces the generation counter of gobreaker,
which is external: it holds the calls whose result still counts. The wait before a
retry, the rate limiter and the admission by the breaker are one step, since only
the end of the context can come between them; that is a step of its own before
them. Approval decides what the hooks do; here they pass the call or end the turn.
A hook could also answer in the tool's place (`app/runner_tools.go:102`); neither of
the two that are registered, policy and approval, ever does.

**TelegramPolling** has the poller's generations (a pair of channels and one
worker), the two loops of `Bot.Run`, the dispatch goroutines, the pairing gate
with its tables, and `gobot authorize`. Telegram is external: it answers with the
updates from the offset on, perhaps with older ones before them, or with an error.

**GoogleAuth** keeps the grant in the secrets file and in two token files, as
functions that goroutines read, refresh and write back without a lock;
`gobot reauth` and `gobot secrets` are further writers. **GoogleTools** extends it
with the tools: pages that the server cuts as it likes, partial results, changes.
**CronDelivery** extends it with what CronScheduler takes for one step: the
routing of a due job, its turn, its mail or message, the notice of a failure, and
the delayed retries of the morning briefing. Send posts a mail up to three times
(`google/gmail.go:151`) without a key by which Gmail could tell a repetition, so
one Send leaves none to three copies behind, whether it reports success or not
(`SendOutcomes`). `told` keeps of each run who gave a notice and how it fared:
given, failed, never begun because the context was over, or meant for nobody.

**Consolidation** has the workers with every call that may fail and the join of
`Shutdown`; **Lifecycle** extends it with `RunAgent`: the main goroutine in the
order of the code, the listeners and loops it starts, turns in flight, signals.
The final cleanup is two steps that may wait (`bootstrap.go:73`): `mcpCleanup` for the
teardown of each server, and `vecCleanup`, which saves the vector store, for its
lock, held by a cron job that indexes the workspace while its chunks are embedded
remotely (`memory/vector/store.go:56`).
The five-second timers are steps that may be taken at any moment.

**MemoryStore** executes migrations statement by statement, so that a crash or a
second process comes between any two; **Recall** extends it with searches, each
the set of results it may return, since scores only order them.

**LogHub** is the hub under its mutex and the handlers of its clients.
**ContextWindow** is the transcript from checkpoint to request: compaction as
operators on the set of kept indexes, one conversion per kind of provider.

## Runs

| run | instance | shows |
|---|---|---|
| `turn_guards` | lock: 3 goroutines, 2 sessions, 3 objects; approval: 5 calls of all channels and policies on one request, 2 contradicting presses, 1 restart | mutual exclusion, no leak, sends never block, waiters served; runs only approved, waiter reachable, no decision lost |
| `dispatch` | 2 calls of a session with their workers, on an empty database or one with a saved turn, window 1, 2 rows kept, a crash, a clear, every store call may fail | acknowledged turns stay, latest is newest, metadata after snapshot, implements SessionHistory, every call returns |
| `clear_resumes` (violation) | 3 calls, a clear | see findings |
| `workflow` | 1 process with 5 operations and 2 crashes, or 3 processes with 4 operations and failing removals | acknowledged state survives, lock exclusive, evidence kept |
| `workflow_stale_lock` (violation) | 3 processes, one of which crashes holding the lock | see findings |
| `cron` | 2 jobs, all schedule kinds, a seed, an edit of either source at any time, time 0..4, a crash, failing writes, unreadable files | no saved run repeated, no back-to-back run, removals authorised, due jobs run if dispatches and alerts return |
| `mcp` | discovery with a call and a stop over 3 processes, or with 2 calls on one process | one transport, own answers, calls return if descendants let go of stderr |
| `agent_turn` | 2 turns, same or different sessions or a cron job, 2 iterations, 1 retry, 1 audit, 2 failures to trip, a sub-agent with a fallback | results belong to their calls, calls and results paired, cron fails closed, one probe |
| `telegram` | a message, a press, the message again; channels of capacity 1, 3 generations, 2 disturbances (failing calls or statements, Stop, expiry, commands) | nothing lost silently, nothing twice, gate closed, no wedge |
| `google` | 10 kinds of job in 2 runs with 2 retry delays; every tool on 2 calendars of 2 events; calls beside reauth, secrets, revocation and expiry | a failure leads to one notice, no retry resends an answer, lists complete, no turn after shutdown |
| `runtime` | start and stop with 1 turn and 2 workers; 2 openers of a memory file of any version, 2 crashes; searches with 4 rows of 3 namespaces; 2 clients and 3 records; 3 turns of 2 rounds with up to 2 calls, window 5 | stores outlive workers, shutdown ends if what its cleanup waits for does, memory kept, recall isolated, stream complete, pairs together |
| `gemini_pairs` (violation) | the last of these with Gemini | see findings |

`turn_guards`, `mcp`, `google` and `runtime` check parts that share no state, or
that interact only within one kind of behaviour, in one run: a variable
`scenario`, chosen initially and never changed, says which kind a behaviour is.
Restrictions made there and not in the modules: in `turn_guards` calls that ask
nobody run apart from those that wait (`Apart`); in `google` the tools run with
fresh tokens, and beside token changes only with two of the kinds of call; in `mcp`
the descendants of a process that ended hold all three pipes, stderr alone, or none;
in `runtime` turns run with the bot only, the two listeners together and the two
loops together, vector memory with the bot or the loops, the second worker only without it and at most one
worker at a time past its deadline; the searches have one opener and no crash.

Why the bounds are enough: the lock's interesting cases need a holder, a waiter
and a newcomer, and an object that is dropped and reallocated. Dispatch needs a
turn with its compaction and another turn between load and save, and a history long
enough to be summarised and compacted, which the turn of an earlier process makes it.
Approval needs two
identical calls and a press between any two steps of each. A stale lock needs two
waiters besides its owner. Cron needs a job that is due while another is edited,
and time for two intervals. MCP needs callers of different generations and another
goroutine tearing down. A turn needs an iteration after one with tools, two
turns that use the same tool at the same position, and one failure before the one
that trips the breaker. Telegram needs a full channel when a generation ends and a
third generation to be handed the rest. A retried briefing needs a second run
beside its retries. A migration needs a crash, the start after it, and another
process between its statements. Compaction needs a message with two calls at the
border of the window, and a turn after it. The log stream needs a full channel
beside one with room, and a record more than the hub keeps. Symmetry is used in
the workflow runs only, which check invariants.

Deadlock checking is off where the bounded system runs out of calls, operations,
edits, updates, records or time, or ends as it should (Lifecycle); in `agent_turn`
and `mcp` it is on.

Fairness: goroutines that can run do (weak fairness on each goroutine's steps);
Go serves blocked receivers of a channel in order, hence strong fairness on taking
the token; the poll loop goes on, but nothing makes a dispatched job or its alert
return (the alert has no deadline, `cron/scheduler.go:402`); the main goroutine of
RunAgent runs and its own timers fire, and its reading lock of the vector store is
given to it between two writers, as `sync.RWMutex` does (strong fairness on
`vecCleanup`). Not assumed: that timers of others fire before something else
happens, that a user presses a button, that a context is cancelled, that an MCP
server answers, accepts, lives or can be torn down, that its descendants end, that
a goroutine, turn, job or worker ends when the run is stopped. `dispatch` assumes
that a turn ends: model and tool calls are not part of that module. Calls of a
user message have no deadline of their own. For Telegram there is no liveness
property, since the service may fail for ever; `NoWedge` says that nobody waits
for someone who waits for him.

Three liveness properties therefore have premises, since the code waits without a
limit for things it does not control; without its premise each of them fails:

* `DueRuns`: every dispatch and every alert returns. `poll` waits for all of them, so a
  single alert that hangs stops the scheduler. Then a slot that is due in the memory
  of a polling scheduler is dispatched and booked, unless the scheduler dies or an
  edit it has not read yet concerns the job.
* `CallReturns`: no descendant of a server keeps its stderr for ever.
  Otherwise `cmd.Wait` (`app/tool_mcp.go:296`) does not return, and as stop runs under
  `stopMu` and perhaps with the admission in hand, neither do those that come to tear
  down after it, and others return only when their contexts end. With it, a call
  whose context ends, or whose reader ends while it waits for the answer, returns.
* `ShutdownEnds`: the teardown of the MCP servers ends, and jobs do not hold the lock of the
  vector store for ever. The first is the condition just named; the second is a
  remote embedding call under the lock, whose context may outlast the drain.

What the delivery properties say is less than the code's own words. By
`FailureTold`, a failed run leads to exactly one notice, by the dispatcher or by the
scheduler, and before the shutdown the scheduler's is given to Telegram or Gmail
unless nobody is configured to get it. It does not say that a dispatcher's notice arrives:
`AlreadyNotifiedError` is documented as "the dispatcher has already delivered a
failure notification" (`cron/scheduler.go:18`), and what the code guarantees is
that it has tried, perhaps in a context that was over (see Findings). By
`AnswerNotResent` the recipient gets of one run's answer no more copies than a
single Send can leave, three: no later retry sends an answer that may have arrived.

## Proofs

Eight modules prove, for every value of the constants, what the runs check on
small instances. Each has the same plan: an inductive invariant, one lemma per
action that it keeps it (under it one step per conjunct the action can disturb), and
theorems that read the properties off it. Every invariant was first checked by TLC
on the instance of the run.

| module | for any | proved | invariant and why it is needed |
|---|---|---|---|
| SessionLockProofs | finite set of goroutines, sessions, lock objects | `MutualExclusion`, `NoLeak`, `SendNeverBlocks`, types | `LockInv`, below |
| ApprovalProofs | calls, requests, policies, presses, restarts | `RunsOnlyApproved`, `WaiterReachable`, `NoLostDecision` | `ApprovalInv`: a decision in the table, in a channel or in a result was pressed on that request (`DecisionsPressed`), waiters are found under their own request only, the program counter tells which hook is running |
| AgentTurnProofs | turns, sub-agents, sessions, responses of any length, limits | `FreshResults`, `Paired`, `FailClosed`, `ProbeAlone` | `TurnInv`: the calls without a result are exactly the ones still to do, a stored result carries the call whose key it has (`KeysOK`), an open circuit has no call that counts and a half-open one has exactly one (`CircuitsOK`) |
| WorkflowStateProofs | processes, contents, numbers of operations and crashes | `EvidenceKept` always, `LockMutex` and `AckedSurvives` under the conditions below | `WorkflowInv`, `LockFileHeld`, `AckedInv` |
| MCPServerProofs | finite set of callers, number of processes | `OneTransport`, `OwnAnswer` | `MCPInv`: who may hold admission and stopMu, every running process or reader is the current one or in somebody's hands, an id of the current process was given to one request, and ids do not run out |
| SessionDispatchProofs | calls, sessions, rows, window and pruning limits, crashes | `AckedDurable`, `LatestIsNewest`, `MetadataAfterSnapshot`, and the refinement `NoLostUpdate` | `DispatchInv`, below |
| TelegramPollingProofs | stream of updates, list of chats, capacity, generations, disturbances | `NoSilentLoss`, `AtMostOnce`, `Gated`, `NoWedge` | `PollInv`, below |
| BackgroundProofs | jobs, definitions, schedules, edits and crashes (CronScheduler) | `OncePersisted`, `NoRefire`, `RemovalAuthorized`, as action properties | `CronInv`, below |
| | payloads, runs, attempts, fates of tokens and mails (CronDelivery) | `FailureTold`, `AnswerNotResent`, `NoTurnAfterShutdown` | `DeliveryInv`: of a run that has not ended nothing was told or mailed and no retry exists, a retry that may still mail belongs to a run whose answer Gmail has not taken (`RetriesOwe`), and the context of an alert ends with the shutdown only (`AlertLives`) |
| | finite set of workers, facts, turns, parts (Lifecycle, Consolidation) | `StoresOutliveWorkers` | `LifeInv`: the counter is the number of workers, the completion channel was closed exactly when the counter is zero after `Shutdown`, and cleanup comes after the join or knows that it timed out |
| | openers, rows, crashes (MemoryStore), sessions and searches (Recall) | `MemoryKept`, `RecallIsolated` | `MemInv`, below |
| | clients, records, sizes of buffer and channels (LogHub) | `StreamComplete` | `LogInv`: the buffer is the last records without a gap, a subscribed channel is open, and what a client was sent, is being sent and has queued is one sequence |

**The lock.** Mutual exclusion alone is not inductive: two goroutines could hold the
tokens of two objects of one session. `LockInv` adds that everybody inside the protocol
points to the registered object (`PointersAgree`), that sessions do not share
objects (`ObjectsDistinct`), that reference counts equal the number of users
(`RefCountExact`, so `release` drops an object only with its last user, and an
object that is allocated again has none), and that the token is out while someone
holds the lock (`TokenOut`). `RefCountExact` needs cardinalities of the set of
users before and after a step; `UsersSame`, `UsersAdded` and `UsersRemoved` supply
them.

**Dispatch.** SessionDispatch composes the lock, and its proof composes the proof
of the lock: `LP == INSTANCE SessionLockProofs`, whose lemmas are cited for the
steps that Dispatch takes on the lock. From mutual exclusion follows what every
property rests on: whoever is inside Dispatch or the compaction worker works on
the snapshot that a load would return now (`TurnWork`, `WorkerWork`), also when the
summary was made long after the load. `NewestRow` says that the order of LoadLatest
has a maximum, which is the row saved last unless the operator cleared the thread.
With them each step maps to a step of SessionHistory: a save appends a turn to the
history after a permitted pruning, a publication replaces a prefix by its summary,
and everything else stutters, so the store implements the abstract history
(`DispatchNoLostUpdate`). The fairness of `FairSpec` has no part in it.

**Workflows.** `EvidenceKept` holds whatever overlaps, dies or goes stale, because
an archive is published before anything is removed and no step removes an archive.
`LockMutex` is proved under `NoCrashBeside` (no lock goes stale under a living holder,
no process dies beside another); the violation run `workflow_stale_lock` shows
that without it the property fails. `AckedSurvives` is proved for operations one after the
other under `RemovesWork`: the journal can be removed. If `Truncate` fails after
a checkpoint was written, the old journal is replayed over the newer checkpoint (see
findings). The instances of the passing run satisfy both conditions, and `Serial`
has two crashes and failing writes at every step.

**Telegram.** `PollInv` says that only the newest generation has a worker at work
(`Chain`), that a batch is a run of consecutive updates that begins at the offset or
before it, so that what is not skipped is the update at the offset (`Batches`),
that a loop stays with a generation until its channel is closed and empty
(`LoopsOK`), that what is in a channel is there once, behind the offset and not yet
dispatched (`Contents`, `Fresh`), and that of the messages with one key no more have
passed `isDuplicate` than the key was forgotten, plus one while it is known
(`PassedOnce`, over cardinalities). `GateOK` ties what a goroutine serves to the two
lists. Steps are grouped by what they leave alone: a worker's step that moves no
update (`WorkerStep`), a loop that does not join (`LoopMoves`), steps that leave
the poller alone (`QuietStep`); taking an update, handing it over, draining it and joining a
generation have lemmas of their own.

**The scheduler.** That a saved slot is never dispatched again follows from an order
of times that no step may disturb: in `jobs.json` the next run of a job is unknown
or later than every saved slot of it; in memory it is also later than the slots that
finished unsaved and than the end of the last dispatch (`WorldOrder`). The file alone
would not do, since a reload replaces the store by it and forgets what was
unsaved, nor would the store, since a crash leaves only the file. A poll is a chain of
functions on a world (store, file and flags), so the proof has one lemma for each of
them (`CronReload`, `CronReconcileSnapshot`, `CronReloadModular`, `CronWrite`,
`CronAdvance`) instead of one for each path through it. `NextRunLater` is what they need of
`ComputeNextRun`: a result after the time asked for, or none. An edit of a job by the
operator may make it due at any time; it takes the job's slots out of `done`, which
is the exception `OncePersisted` makes. For `RemovalAuthorized`, `Keeps` follows a
job through the same chain, and `CronSnapshot` says that a complete snapshot without a
job is one of a directory without its definition.

**The memory file.** Every process that migrates is at a suffix of one list of ten
statements, or creates a fresh table (`AtSuffix`). Between its rename and its drop a
process owns the renamed table; an owned table exists and has one owner
(`OneOwner`), because a rename fails while the name is taken. A row that counts is in a
table that nobody has copied and is about to drop (`RowsSafe`). Each kind of
statement has a lemma about what it does to that (`RenameFiles`, `CreateFiles`,
`CopyFiles`, `DropFiles`). That turns open a user's file one at a time is the
mutex of `GetMemoryStore` (`MutexHeld`).

**The log.** `Strung` joins what a client was sent, its backlog and its channel. Sending
moves the head of one to the end of the other and leaves the sequence as it is
(`StrungMoves`); a record is appended (`StrungGrows`) or, if the channel is full, added to
the client's skipped ones. So the gaps of the sequence are always skipped records.

The specifications of these theorems (`DeliverySpec`, `LifeSpec`, `RecallSpec`, `LogSpec`)
are one component each; the runs `google` and `runtime` take their steps from the same
next-state relations, restricted to the scenario.

Assumptions on the constants are in the modules that declare them and are evaluated
by the runs: finite sets of goroutines, calls and listed chats; nil values that are
not objects, waiters, states, journals, jobs or definitions (`MarksAssumption`); numbers that
are naturals; turns and sub-agents that are different; an actor that is not two things
at once (MCPServer), a retry goroutine that serves one run (`RetriersAssumption`).
The code has nothing to add to them but the sizes of its tables.

Only model-checked, and why:

* liveness (`WaiterServed`, `EveryCallReturns`, `DueRuns`, `CallReturns`, `ShutdownEnds`): out of the prover's reach,
  and so is ENABLED;
* `ListingComplete` and `CompactedPaired`: what a fold over pages or over a transcript
  computes needs induction over data.

## Findings

* `workflow_stale_lock`: of two waiters that saw the same stale lock the second
  removes the fresh lock of the first. `os.Stat` and `os.Remove` are two steps
  (`internal/state/lock.go:39`).
* `clear_resumes`: after `gobot clear-checkpoint`, the next message sets the thread
  active again while its rows stay (`context/manager.go:132`), and the message
  after that resumes the cleared conversation. "Mark a session as completed so it
  cannot be resumed" (`cmd/gobot/checkpoint.go:52`). `LatestIsNewest` and
  `AckedDurable` are claimed for sessions that were not cleared.
* `gemini_pairs`: calls read from Gemini carry no identifiers
  (`provider/gemini.go:107`), and the pass that keeps pairs together matches by
  identifier, so compaction keeps a result and drops its call ("ensure
  tool-call/response pairs are not split", `agent/compaction.go:53`).

Behaviours of the models that no listed property forbids, met while modelling:

* Workflows: an archive interrupted between removing the journal and the directory
  leaves a checkpoint without its journal, and a step that loaded before the
  archive saves after it; either way an archived workflow is listed as active.
  When truncating fails after `state recover`, the journal is replayed over the
  newer checkpoint and the workflow loads as running. (`ArchiveMaterialized`,
  `ListActiveNotArchived`, `RecoverMarksFailed` state the contrary.)
* Cron: a `jobs.json` that cannot be decoded at start-up is not read again, and the
  first reconciliation overwrites it (`scheduler.go:81`, against
  `docs/deployment.md:269`; `UnownedSurvive`). A definition merged by a partial scan
  and removed before the next complete one leaves its job (`scheduler.go:294`,
  `docs/deployment.md:267`). Counters are read while jobs run
  (`CountsAfterWait`), and runs missed while down are made up for, which
  `docs/soak-test-plan.md:124` excludes. `jobs.json` edited while jobs
  run is overwritten, as documented.
* MCP: a descendant of a server that keeps its stderr open blocks the teardown,
  and the caller in it does not return when its context ends. `deregister` acts on the table installed when it runs, and ids restart with
  each process, so a caller that lost its process and is descheduled for the length
  of a restart deletes the entry of a new request (`app/tool_mcp.go:263`;
  `PendingKept`).
* Turns: `Register` replaces the breaker of the same name, so after a sub-agent ran
  on the main provider `/reset_circuits` does not reach the breaker of the main
  runner. A sub-agent's timeout wraps DeadlineExceeded and aborts the turn that
  spawned it. A tool that fails inside a sub-agent of a cron job does not fail the
  job. An audit that rejects the answer of the last iteration loses it. Keys of
  two runs never match, so a repeated message repeats its side effects.
* Telegram: callbacks may be left in a generation that the callback loop never
  joined. `gobot authorize` with an expired or unknown code authorises the chat
  whose id equals the number. A half-open breaker that the long poll occupies
  rejects sends. `api.Stop` has no caller but tests.
* Cron delivery: the failure mail of a job that timed out uses the job's context
  and fails with it, and `AlreadyNotifiedError` keeps the scheduler from alerting, so
  nobody is told (comment at `cron/scheduler.go:18`). A post that Gmail took and answered
  with an error is posted again, so an answer or a mail of a tool may arrive up to
  three times. Jobs for the channels "" and
  "cli" have no route and count as successes. Retries are lost with a restart, and
  the check of web evidence accepts that of an earlier run.
* Google: a refresh in flight during reauth overwrites the new grant with the old
  one; a reauth that could not write the secret is shadowed by the older secret; of
  two concurrent writes of the secrets file one is lost. A failing `send_email`
  returns a text of success without storing its id.
* Compaction: pruning and summarising may split a pair before compaction sees it.
  The array of kept messages still counts the leading answer that was stripped. A
  summary is a message of role "system" among the others for all providers. With
  routing, calls made by Gemini and sent to another provider lose their results.
* Memory: without vector search a fact is compared with the reply it was extracted
  from, which was indexed a moment before, and may be dropped as its duplicate.
  Asking for a duplicate and inserting are two steps. Expired facts stay in the vector
  memory, as do chunks of files that were shortened or removed. A crash between
  statements of a migration never loses rows but may leave them in a table nobody
  reads, or a file that no later start can open; the agent then runs without
  memory. `gobot memory rebuild` indexes logs under names no session searches. The hybrid
  search does not filter noise.
* Shutdown: the final cleanup has no time limit: it waits for MCP servers and for the
  lock of the vector store. Turns in flight are not waited for and may use a closed store. A
  listener that binds late sets the process ready again. When workers do not end
  in time, the whole cleanup is skipped. A signal before `signal.Notify` ends the
  process at once. A client that connects after the hub was closed waits until it
  disconnects.

## Not modelled

Browser and shell tools, configuration, diagnostics, observability, audit,
reports, tool schemas, the pages of the gateway and most commands: remote calls,
parsing and rendering, or sequential code over the stores above. `PROJECT.json`
names the files and the reason for each. Of what is modelled, texts, scores,
embeddings, prompts, formatting and logging are left out; where a decision depends on
them, the model takes either outcome. Not modelled either: schema migrations of
the checkpoint database, torn writes of the vector files, the retries of reads inside
`resilience.Do` (those of Send count, by the copies they may leave), and a start without a checkpoint store, which leaves the pairing gate
out.

## Plan

All components with concurrent state of their own have a module, and every safety
property that a passing run checks is a theorem, but for `ListingComplete` and
`CompactedPaired`. Those two need induction over pages and messages; to bring them
into reach, the accumulated list would have to be a variable that grows by one step
per element.
