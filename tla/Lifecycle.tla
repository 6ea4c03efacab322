------------------------------ MODULE Lifecycle ------------------------------
(***************************************************************************)
(* Start and stop of `gobot run`: RunAgent in internal/app/app.go with the *)
(* goroutines it starts (app_servers.go, app_setup.go), the HTTP gateway,  *)
(* the dashboard, the heartbeat and the readiness latch.                   *)
(*                                                                         *)
(* The main goroutine starts the parts in a fixed order, waits for a       *)
(* signal, the end of its context or a listener that failed, and then      *)
(* stops: not ready, cancel, drain the goroutines for at most five         *)
(* seconds, join the consolidation workers for at most five seconds, close *)
(* the stores.  The turns of the gateway and of the bot run in goroutines  *)
(* of their own that nobody waits for.  The timers are the clock's: a step *)
(* that waits for one may be taken at any moment.                          *)
(***************************************************************************)
EXTENDS Consolidation

CONSTANTS
  Turns      \* slots for turns in flight

Servers == {"gateway", "dashboard"}
Loops == {"idempotency", "bot", "cron", "heartbeat"}
Parts == (Servers \union Loops) \ {"idempotency"}
Goroutines == Servers \union Loops
startErrCap == 2

VARIABLES
  enabled,    \* the parts the configuration enables
  pc,         \* where the main goroutine is
  failure,    \* RunAgent returns an error of the start or of a listener
  drainTimedOut, \* ... or consolidator.ErrDrainTimeout
  owned,      \* a consolidator is bound to the runtime
  g,          \* goroutine -> where it is
  startErr,   \* failures in the channel startErr
  failed,     \* listeners that failed while the runtime was to run on
  ready,      \* Readiness.ready
  readyCh,    \* its one-shot channel is closed
  marker,     \* start-up banner and marker are published
  signalled,  \* SIGINT or SIGTERM has arrived
  orphaned,   \* the caller's context is done
  turn        \* turn -> where it is

lifeVars == <<enabled, pc, failure, drainTimedOut, owned, g, startErr, failed, ready,
              readyCh, marker, signalled, orphaned, turn>>
bootVars == <<enabled, owned, turn>>
signalVars == <<signalled, orphaned>>
readyVars == <<ready, readyCh, marker>>

LifeInit ==
  /\ enabled \in SUBSET Parts
  /\ pc = "boot"
  /\ failure = FALSE
  /\ drainTimedOut = FALSE
  /\ owned = FALSE
  /\ g = [x \in Goroutines |-> "off"]
  /\ startErr = 0
  /\ failed = {}
  /\ ready = FALSE
  /\ readyCh = FALSE
  /\ marker = FALSE
  /\ signalled = FALSE
  /\ orphaned = FALSE
  /\ turn = [t \in Turns |-> "off"]

Goto(where) == pc' = where
Go(x, where) == g' = [g EXCEPT ![x] = where]
Alive == pc # "returned"
-----------------------------------------------------------------------------
(***************************************************************************)
(* The main goroutine, in the order of RunAgent and                        *)
(* runInitializedAgentLoop.                                                *)
(***************************************************************************)
\* A memory store or vector memory that does not open is done without.
InitMemory == {"none", "open"}
InitVectorStore == {FALSE, vector}

\* Prerequisites, validation and providers may fail.
BuildAgentStack ==
  /\ pc = "boot"
  /\ \/ Goto("returned") /\ failure' = TRUE /\ UNCHANGED <<memStore, vector>>
     \/ /\ Goto("telegram")
        /\ memStore' \in InitMemory
        /\ vector' \in InitVectorStore
        /\ UNCHANGED failure
  /\ UNCHANGED <<stopped, storeVars, joinVars, workVars>>
  /\ UNCHANGED <<bootVars, drainTimedOut, g, startErr, failed, readyVars, signalVars>>

initializeStartupTelegram ==
  /\ pc = "telegram"
  /\ \/ "bot" \in enabled /\ Goto("cleanup") /\ failure' = TRUE
     \/ Goto("hooks") /\ UNCHANGED failure
  /\ UNCHANGED consVars
  /\ UNCHANGED <<bootVars, drainTimedOut, g, startErr, failed, readyVars, signalVars>>

\* A policy file that cannot be used stops the start, and cancels.
SetupHooks ==
  /\ pc = "hooks"
  /\ \/ Goto("cleanup") /\ failure' = TRUE /\ stopped' = TRUE
     \/ Goto("idempotency") /\ UNCHANGED <<failure, stopped>>
  /\ UNCHANGED <<vector, memStore, storeVars, joinVars, workVars>>
  /\ UNCHANGED <<bootVars, drainTimedOut, g, startErr, failed, readyVars, signalVars>>

\* Without a checkpoint store there is no idempotency store to clean.
InitIdempotency ==
  /\ pc = "idempotency"
  /\ Goto("consolidator")
  /\ Go("idempotency", "run") \/ UNCHANGED g
  /\ UNCHANGED consVars
  /\ UNCHANGED <<bootVars, failure, drainTimedOut, startErr, failed, readyVars, signalVars>>

SetupConsolidator ==
  /\ pc = "consolidator"
  /\ Goto("gateway")
  /\ owned' = (memStore = "open")
  /\ UNCHANGED consVars
  /\ UNCHANGED <<enabled, turn, failure, drainTimedOut, g, startErr, failed, readyVars, signalVars>>

StartPart(x, here, first, next) ==
  /\ pc = here
  /\ Goto(next)
  /\ IF x \in enabled THEN Go(x, first) ELSE UNCHANGED g
  /\ UNCHANGED consVars
  /\ UNCHANGED <<bootVars, failure, drainTimedOut, startErr, failed, readyVars, signalVars>>

StartGateway == StartPart("gateway", "gateway", "start", "dashboard")
StartDashboard == StartPart("dashboard", "dashboard", "start", "bot")
StartTelegramBot == StartPart("bot", "bot", "run", "publish")
StartCron == StartPart("cron", "cron", "run", "heartbeat")
StartHeartbeat == StartPart("heartbeat", "heartbeat", "run", "wait")

\* What the wait for the gateway may answer; its two seconds may be over.
awaitReadyForBanner ==
  IF "gateway" \notin enabled THEN {TRUE}
  ELSE {FALSE} \union (IF readyCh /\ ~stopped /\ ready THEN {TRUE} ELSE {})

\* A marker file that cannot be written is logged, no more.
recordStartupReady == marker' = TRUE

publishStartupReady ==
  /\ pc = "publish"
  /\ \E published \in awaitReadyForBanner :
       IF published THEN recordStartupReady ELSE UNCHANGED marker
  /\ Goto("cron")
  /\ UNCHANGED consVars
  /\ UNCHANGED <<bootVars, failure, drainTimedOut, g, startErr, failed, ready, readyCh, signalVars>>

\* The one-shot channel stays closed.
SetNotReady == ready' = FALSE /\ UNCHANGED readyCh

\* Whatever is there is taken: a signal may win over a failure.
waitForShutdownTrigger ==
  /\ pc = "wait"
  /\ \/ signalled /\ UNCHANGED <<failure, startErr>>
     \/ stopped /\ UNCHANGED <<failure, startErr>>
     \/ startErr > 0 /\ failure' = TRUE /\ startErr' = startErr - 1
  /\ SetNotReady
  /\ stopped' = TRUE
  /\ Goto("drain")
  /\ UNCHANGED <<vector, memStore, storeVars, joinVars, workVars>>
  /\ UNCHANGED <<bootVars, drainTimedOut, g, failed, marker, signalVars>>

\* All goroutines are done, or five seconds are over.
DrainGoroutines ==
  /\ pc = "drain"
  /\ Goto("join")
  /\ UNCHANGED consVars
  /\ UNCHANGED <<bootVars, failure, drainTimedOut, g, startErr, failed, readyVars, signalVars>>

shutdownConsolidation ==
  /\ pc = "join"
  /\ IF owned THEN ShutdownCloses /\ Goto("joining")
     ELSE UNCHANGED joinVars /\ Goto("cleanup")
  /\ UNCHANGED <<vector, stopped, memStore, storeVars, workVars>>
  /\ UNCHANGED <<bootVars, failure, drainTimedOut, g, startErr, failed, readyVars, signalVars>>

\* The join returns when done is closed or its five seconds are over; when
\* both are true either is taken.
joinConsolidation ==
  /\ pc = "joining"
  /\ drainTimedOut' \in {TRUE} \union {closes = 0}
  /\ Goto("cleanup")
  /\ UNCHANGED consVars
  /\ UNCHANGED <<bootVars, failure, g, startErr, failed, readyVars, signalVars>>

MutRetained == FALSE
Retained == drainTimedOut

runWithStackCleanup ==
  /\ pc = "cleanup"
  /\ Goto(IF Retained THEN "exit" ELSE "mcpCleanup")
  /\ UNCHANGED consVars
  /\ UNCHANGED <<bootVars, failure, drainTimedOut, g, startErr, failed, readyVars, signalVars>>

\* The MCP servers are stopped, for as long as their processes and what
\* these started take (MCPServer); then the memory store is closed.
mcpCleanup ==
  /\ pc = "mcpCleanup"
  /\ memStore' = IF memStore = "open" THEN "closed" ELSE memStore
  /\ Goto("vecCleanup")
  /\ UNCHANGED <<vector, stopped, storeVars, joinVars, workVars>>
  /\ UNCHANGED <<bootVars, failure, drainTimedOut, g, startErr, failed, readyVars, signalVars>>

\* The vector memory is saved under the read lock of its store, which a job
\* that adds documents holds for writing while it has them embedded.
WriteLocked == vector /\ g["cron"] = "indexing"

vecCleanup ==
  /\ pc = "vecCleanup"
  /\ ~WriteLocked
  /\ saved' \in (IF vector THEN {saved, docs} ELSE {saved})
  /\ Goto("exit")
  /\ UNCHANGED <<vector, stopped, memStore, rows, replies, docs, joinVars, workVars>>
  /\ UNCHANGED <<bootVars, failure, drainTimedOut, g, startErr, failed, readyVars, signalVars>>

\* The hub and the log are closed and the process exits.
RunAgentReturns ==
  /\ pc = "exit"
  /\ Goto("returned")
  /\ UNCHANGED consVars
  /\ UNCHANGED <<bootVars, failure, drainTimedOut, g, startErr, failed, readyVars, signalVars>>

UnblockedMain ==
  \/ BuildAgentStack \/ initializeStartupTelegram \/ SetupHooks
  \/ InitIdempotency \/ SetupConsolidator
  \/ StartGateway \/ StartDashboard \/ StartTelegramBot \/ publishStartupReady
  \/ StartCron \/ StartHeartbeat
  \/ waitForShutdownTrigger \/ DrainGoroutines
  \/ shutdownConsolidation \/ joinConsolidation
  \/ runWithStackCleanup \/ RunAgentReturns

MainNext == UnblockedMain \/ mcpCleanup \/ vecCleanup
-----------------------------------------------------------------------------
(***************************************************************************)
(* The listeners.                                                          *)
(***************************************************************************)
Ends(x) == Go(x, "done")

\* The channel keeps a failure until the main goroutine gets to it.
MutSent == IF pc = "wait" THEN 1 ELSE startErr
Sent == IF startErr < startErrCap THEN startErr + 1 ELSE startErr

reportStartupFailure(x) ==
  /\ Ends(x)
  /\ IF stopped THEN UNCHANGED <<startErr, failed>>
     ELSE startErr' = Sent /\ failed' = failed \union {x}
  /\ UNCHANGED readyVars

gatewayListen ==
  /\ g["gateway"] = "start"
  /\ \/ reportStartupFailure("gateway")
     \/ Go("gateway", "bound") /\ UNCHANGED <<startErr, failed, readyVars>>

SetReady ==
  /\ g["gateway"] = "bound"
  /\ Go("gateway", "run")
  /\ ready' = TRUE
  /\ readyCh' = TRUE
  /\ UNCHANGED <<startErr, failed, marker>>

dashboardListen ==
  /\ g["dashboard"] = "start"
  /\ \/ ~stopped /\ reportStartupFailure("dashboard")
     \/ Go("dashboard", IF stopped THEN "done" ELSE "run")
        /\ UNCHANGED <<startErr, failed, readyVars>>

\* Serve returns as soon as Shutdown is called, handlers in flight or not.
Serve(x) ==
  /\ x \in Servers /\ g[x] = "run"
  /\ \/ stopped /\ Ends(x) /\ UNCHANGED <<startErr, failed, readyVars>>
     \/ reportStartupFailure(x)
-----------------------------------------------------------------------------
(***************************************************************************)
(* The loops: each ends when the context is done, once it is back from     *)
(* what it is doing.                                                       *)
(***************************************************************************)
LoopSteps == UNCHANGED <<startErr, failed, readyVars>>
EndsWhenStopped(x) == g[x] = "run" /\ stopped /\ Ends(x) /\ LoopSteps

RunIdempotencyCleanup == EndsWhenStopped("idempotency")

RunBot == EndsWhenStopped("bot")

\* The jobs that are due run in the goroutine of the loop, the one that
\* indexes the workspace among them.
RunCron ==
  \/ EndsWhenStopped("cron")
  \/ g["cron"] = "run" /\ Go("cron", "job") /\ LoopSteps
  \/ g["cron"] = "job" /\ Go("cron", "run") /\ LoopSteps

IndexWorkspace ==
  \/ g["cron"] = "job" /\ vector /\ Go("cron", "indexing") /\ LoopSteps
  \/ g["cron"] = "indexing" /\ Go("cron", "job") /\ LoopSteps

runProbes ==
  g["heartbeat"] = "run" /\ Go("heartbeat", "probing") /\ LoopSteps

\* The liveness file is written; only failures are sent to the operator.
\* The probes have no context.
checkProbes ==
  /\ g["heartbeat"] = "probing"
  /\ \E failing \in BOOLEAN : Go("heartbeat", IF failing THEN "alert" ELSE "run")
  /\ LoopSteps

sendAlert ==
  g["heartbeat"] = "alert" /\ Go("heartbeat", "run") /\ LoopSteps

RunHeartbeat ==
  EndsWhenStopped("heartbeat") \/ runProbes \/ checkProbes \/ sendAlert

GoroutineNext ==
  /\ Alive
  /\ \/ gatewayListen \/ SetReady \/ dashboardListen
     \/ \E x \in Servers : Serve(x)
     \/ RunIdempotencyCleanup \/ RunBot \/ RunCron \/ IndexWorkspace \/ RunHeartbeat
  /\ UNCHANGED consVars
  /\ UNCHANGED <<bootVars, pc, failure, drainTimedOut, signalVars>>
-----------------------------------------------------------------------------
(***************************************************************************)
(* Turns, by DispatchHandler.Handle.                                       *)
(***************************************************************************)
TurnAt(t, where) == turn[t] = where
TurnGoto(t, where) == turn' = [turn EXCEPT ![t] = where]
TurnFrame ==
  UNCHANGED <<enabled, pc, failure, drainTimedOut, owned, g, startErr, failed, readyVars, signalVars>>

\* The gateway's handler and the bot each start a goroutine per message.
StartTurn(t) ==
  /\ TurnAt(t, "off")
  /\ g["gateway"] = "run" \/ g["bot"] = "run"
  /\ TurnGoto(t, "running")
  /\ UNCHANGED consVars /\ TurnFrame

\* The reply to a generic message is not indexed; into a closed store, that
\* is an error nobody but the log sees.
indexMemory == {replies, replies \/ memStore = "open"}

\* What compaction drops from the transcript is consolidated during the turn.
consolidateDropped(t) ==
  /\ TurnAt(t, "running") /\ owned
  /\ \E w \in Workers : ConsolidateAsync(w)
  /\ UNCHANGED turn /\ TurnFrame

Handle(t) ==
  /\ TurnAt(t, "running")
  /\ \/ TurnGoto(t, "off") /\ UNCHANGED replies
     \/ TurnGoto(t, "replied") /\ replies' \in indexMemory
  /\ UNCHANGED <<vector, stopped, memStore, rows, docs, saved, joinVars, workVars>>
  /\ TurnFrame

\* A short reply and one after the end of the runtime are not consolidated.
Consolidate(t) ==
  /\ TurnAt(t, "replied")
  /\ TurnGoto(t, "off")
  /\ \/ owned /\ \E w \in Workers : ConsolidateAsync(w)
     \/ UNCHANGED consVars
  /\ TurnFrame

TurnNext ==
  Alive /\ \E t \in Turns : StartTurn(t) \/ consolidateDropped(t) \/ Handle(t) \/ Consolidate(t)
-----------------------------------------------------------------------------
\* Signals are noticed from the moment signal.Notify is called; before that
\* they end the process.
Signal ==
  /\ pc = "wait"
  /\ signalled' = TRUE
  /\ UNCHANGED consVars
  /\ UNCHANGED <<bootVars, pc, failure, drainTimedOut, g, startErr, failed, readyVars, orphaned>>

CallerCancels ==
  /\ pc \notin {"boot", "telegram", "returned"} /\ ~orphaned
  /\ orphaned' = TRUE
  /\ stopped' = TRUE
  /\ UNCHANGED <<vector, memStore, storeVars, joinVars, workVars>>
  /\ UNCHANGED <<bootVars, pc, failure, drainTimedOut, g, startErr, failed, readyVars, signalled>>

LifeNext ==
  \/ MainNext
  \/ GoroutineNext
  \/ TurnNext
  \/ Alive /\ WorkerNext /\ UNCHANGED lifeVars
  \/ Signal \/ CallerCancels

LifeSpec == ConsInit /\ LifeInit /\ [][LifeNext]_<<consVars, lifeVars>>

\* The main goroutine is scheduled and its timers fire.  A reader that waits
\* for an RWMutex gets it when the writer unlocks, before the next writer.
\* Nothing bounds the time mcpCleanup takes.
LifeFairness ==
  /\ WF_<<consVars, lifeVars>>(UnblockedMain)
  /\ SF_<<consVars, lifeVars>>(vecCleanup)
-----------------------------------------------------------------------------
(***************************************************************************)
(* Properties.                                                             *)
(***************************************************************************)
LifeTypeOK ==
  /\ enabled \subseteq Parts
  /\ {failure, drainTimedOut, owned, ready, readyCh, marker, signalled, orphaned} \subseteq BOOLEAN
  /\ startErr \in 0 .. startErrCap
  /\ failed \subseteq Servers
  /\ DOMAIN g = Goroutines /\ DOMAIN turn = Turns

\* A signal, the end of the caller's context and a listener that fails each
\* end the run, whatever the goroutines, turns and workers are stuck in,
\* given that the MCP servers let themselves be stopped and that no job is
\* embedding the workspace for good, the two things the cleanup waits for
\* without a limit; and a listener that failed makes RunAgent return an
\* error, unless it was to stop anyway (reportStartupFailure,
\* waitForShutdownTrigger, DrainGoroutines, shutdownConsolidation,
\* mcpCleanup, vecCleanup).
ShutdownEnds ==
  []<>(pc # "mcpCleanup") /\ []<>~WriteLocked =>
    (signalled \/ orphaned \/ failed # {}) ~>
       /\ pc = "returned"
       /\ failure \/ drainTimedOut \/ signalled \/ orphaned
=============================================================================
