------------------------------- MODULE MCPServer -------------------------------
(***************************************************************************)
(* One MCP server of internal/app/tool_mcp.go: a subprocess that answers   *)
(* JSON-RPC requests over its pipes, started on demand, shared by all tool *)
(* calls, and replaced when it dies.                                       *)
(*                                                                         *)
(* Each start is a transport generation: process, pipes, a reader          *)
(* goroutine and a table of pending requests, whose ids count from 1       *)
(* again.  The admission channel serialises start and write; the wait for  *)
(* a response holds nothing.  teardown may be called by anyone at any time *)
(* and is serialised by stopMu.  A step of the model is a critical section *)
(* of mu or one operation on a channel, a pipe or the process.             *)
(*                                                                         *)
(* The server is external: it may accept a request or not, answer in any   *)
(* order, twice or never, and die; processes that it started may live on   *)
(* and keep using its pipes.                                               *)
(***************************************************************************)
EXTENDS Integers, FiniteSets

CONSTANTS
  Calls,       \* tool calls: Call(ctx, ...)
  Discovery,   \* the start-up goroutine that enumerates the tools
  Stops,       \* calls of stop, by the cleanup of appendMCPtools
  None,
  MaxGens      \* bound on the processes started

Users == Calls \cup {Discovery}
Actors == Users \cup Stops
Gens == 1..MaxGens
Pipes == {"stdin", "stdout", "stderr"}

\* A request is named by the channel it waits on; an actor has one for the
\* handshake and one for its own call.
Requests == Users \X {"init", "call"}

\* What a channel holds: nothing, an error, or the line that answers a request.
Empty == <<None, "empty">>
Error == <<None, "error">>

\* Per generation: one handshake and one call for each user.
Ids == 1..(Cardinality(Users) + 1)

ASSUME ActorsAssumption ==
  /\ IsFiniteSet(Calls)
  /\ Discovery \notin Calls
  /\ Stops \cap Users = {}
  /\ None \notin Actors \cup Requests
ASSUME MaxGensAssumption == MaxGens \in Nat \ {0}

VARIABLES
  admit,      \* who holds the admission channel
  stopMu,     \* who holds stopMu
  cur,        \* generation in the fields cmd, stdin, stdout, readerDone; 0 when nil
  dead,
  lastID,
  pending,    \* id -> request, None when there is no entry
  gens,       \* processes started so far
  proc,       \* generation -> "none", "running", "exited"
  reader,     \* generation -> "none", "running", "done"
  held,       \* generation -> pipes, open at our end, that outlive the process in descendants
  wire,       \* what the server got and may still answer: generation, id, request
  req,        \* request -> its generation and id
  chan,       \* request -> content of its one-slot channel
  pc,         \* actor -> where it is
  tear,       \* actor -> where it is inside teardown, "no" outside
  torn,       \* actor -> generation its teardown took out of the fields
  stage,      \* what the discovery does: "start", "list", "done"
  cancelled   \* users whose context has ended

fields == <<cur, dead, pending>>
procs == <<gens, proc, reader, held>>
vars == <<admit, stopMu, cur, dead, lastID, pending, gens, proc, reader, held, wire, req, chan,
          pc, tear, torn, stage, cancelled>>

Running == cur # 0 /\ ~dead
NoPending == [i \in Ids |-> None]
NoRequest == [gen |-> 0, id |-> 0]

\* Not every call or stop need come.
Init ==
  /\ admit = None /\ stopMu = None
  /\ cur = 0 /\ dead = FALSE /\ lastID = 0 /\ pending = NoPending
  /\ gens = 0
  /\ proc = [g \in Gens |-> "none"]
  /\ reader = [g \in Gens |-> "none"]
  /\ held = [g \in Gens |-> {}]
  /\ wire = {}
  /\ req = [k \in Requests |-> NoRequest]
  /\ chan = [k \in Requests |-> Empty]
  /\ \E used \in SUBSET Actors :
       /\ Discovery \in used
       /\ pc = [a \in Actors |-> IF a \in used THEN "acquire" ELSE "returned"]
  /\ tear = [a \in Actors |-> "no"]
  /\ torn = [a \in Actors |-> 0]
  /\ stage = "start"
  /\ cancelled = {}

At(a, where) == pc[a] = where /\ tear[a] = "no"
Goto(a, where) == pc' = [pc EXCEPT ![a] = where]

\* The tools exist, and can be called, once the discovery has ended.
Open(a) == a = Discovery \/ stage = "done"
-----------------------------------------------------------------------------
(***************************************************************************)
(* teardown.  The caller goes on at `next' when it returns.                *)
(***************************************************************************)
CallTeardown(a, next) ==
  /\ tear' = [tear EXCEPT ![a] = "lock"]
  /\ Goto(a, next)

MutTakeTransport(a) ==
  /\ tear[a] = "lock"
  /\ stopMu' = a
  /\ torn' = [torn EXCEPT ![a] = cur]
  /\ cur' = 0 /\ dead' = FALSE /\ pending' = NoPending
  /\ tear' = [tear EXCEPT ![a] = "kill"]
  /\ UNCHANGED <<admit, lastID, procs, wire, req, chan, pc, stage, cancelled>>

\* Lock stopMu and take the fields.
TakeTransport(a) ==
  /\ tear[a] = "lock" /\ stopMu = None
  /\ stopMu' = a
  /\ torn' = [torn EXCEPT ![a] = cur]
  /\ cur' = 0 /\ dead' = FALSE /\ pending' = NoPending
  /\ tear' = [tear EXCEPT ![a] = "kill"]
  /\ UNCHANGED <<admit, lastID, procs, wire, req, chan, pc, stage, cancelled>>

\* Kill the process and close our ends of stdin and stdout.
KillTransport(a) ==
  /\ tear[a] = "kill"
  /\ proc' = [g \in Gens |-> IF g = torn[a] THEN "exited" ELSE proc[g]]
  /\ \E h \in SUBSET {"stderr"} :
       /\ torn[a] # 0 /\ proc[torn[a]] = "exited" => h = held[torn[a]] \cap {"stderr"}
       /\ held' = [g \in Gens |-> IF g = torn[a] THEN h ELSE held[g]]
  /\ tear' = [tear EXCEPT ![a] = "join"]
  /\ UNCHANGED <<admit, stopMu, fields, lastID, gens, reader, wire, req, chan, pc, torn,
                 stage, cancelled>>

\* Wait for the reader.
JoinReader(a) ==
  /\ tear[a] = "join"
  /\ torn[a] # 0 => reader[torn[a]] = "done"
  /\ tear' = [tear EXCEPT ![a] = "wait"]
  /\ UNCHANGED <<admit, stopMu, fields, lastID, procs, wire, req, chan, pc, torn, stage,
                 cancelled>>

\* Reap the process and unlock.  Standard error goes to a buffer, so cmd.Wait
\* also waits for the goroutine that copies it, which ends when nobody holds
\* the pipe any more; WaitDelay is not set.
Wait(a) ==
  /\ tear[a] = "wait"
  /\ torn[a] # 0 => "stderr" \notin held[torn[a]]
  /\ stopMu' = None
  /\ tear' = [tear EXCEPT ![a] = "no"]
  /\ torn' = [torn EXCEPT ![a] = 0]
  /\ UNCHANGED <<admit, fields, lastID, procs, wire, req, chan, pc, stage, cancelled>>

teardown(a) == TakeTransport(a) \/ KillTransport(a) \/ JoinReader(a) \/ Wait(a)

stop(a) ==
  /\ a \in Stops /\ At(a, "acquire") /\ Open(a)
  /\ CallTeardown(a, "returned")
  /\ UNCHANGED <<admit, stopMu, fields, lastID, procs, wire, req, chan, torn, stage,
                 cancelled>>
-----------------------------------------------------------------------------
(***************************************************************************)
(* Admission, and starting the process.                                    *)
(***************************************************************************)
acquire(a) ==
  /\ At(a, "acquire") /\ Open(a) /\ admit = None
  /\ admit' = a
  /\ Goto(a, "ensure")
  /\ UNCHANGED <<stopMu, fields, lastID, procs, wire, req, chan, tear, torn, stage,
                 cancelled>>

acquireCancelled(a) ==
  /\ At(a, "acquire") /\ Open(a) /\ a \in cancelled
  /\ Goto(a, "errored")
  /\ UNCHANGED <<admit, stopMu, fields, lastID, procs, wire, req, chan, tear, torn, stage,
                 cancelled>>

\* Where ensureStarted returns to: start is done, Call sends its request.
Started(a) == IF a = Discovery /\ stage = "start" THEN "started" ELSE "send"

ensureStarted(a) ==
  /\ At(a, "ensure")
  /\ IF Running
       THEN Goto(a, Started(a)) /\ UNCHANGED tear
       ELSE CallTeardown(a, "spawn")
  /\ UNCHANGED <<admit, stopMu, fields, lastID, procs, wire, req, chan, torn, stage,
                 cancelled>>

startProcess(a) ==
  /\ At(a, "spawn")
  /\ \/ gens < MaxGens
        /\ gens' = gens + 1
        /\ proc' = [proc EXCEPT ![gens + 1] = "running"]
        /\ Goto(a, "attach")
     \/ Goto(a, "fail") /\ UNCHANGED <<gens, proc>>
  /\ UNCHANGED <<admit, stopMu, fields, lastID, reader, held, wire, req, chan, tear, torn, stage,
                 cancelled>>

attach(a) ==
  /\ At(a, "attach")
  /\ cur' = gens /\ dead' = FALSE /\ lastID' = 0 /\ pending' = NoPending
  /\ reader' = [reader EXCEPT ![gens] = "running"]
  /\ Goto(a, "initSend")
  /\ UNCHANGED <<admit, stopMu, gens, proc, held, wire, req, chan, tear, torn, stage, cancelled>>
-----------------------------------------------------------------------------
(***************************************************************************)
(* Requests: the handshake and the call itself take the same steps.        *)
(***************************************************************************)
\* The request a user is about to send, is sending or waits for.
mine(a) == <<a, IF pc[a] \in {"initSend", "initWrite", "initAwait", "initNotify",
                              "notifyWrite", "initUndo", "initDone"}
                  THEN "init" ELSE "call">>

\* Register the request under its id.
Register(a, id) ==
  /\ lastID' = id
  /\ pending' = [pending EXCEPT ![id] = mine(a)]
  /\ req' = [req EXCEPT ![mine(a)] = [gen |-> cur, id |-> id]]
  /\ chan' = [chan EXCEPT ![mine(a)] = Empty]

MutSend(a, from, next, failed) ==
  /\ At(a, from)
  /\ IF Running
       THEN /\ Register(a, Cardinality({i \in Ids : pending[i] # None}) + 1)
            /\ Goto(a, next)
       ELSE Goto(a, failed) /\ UNCHANGED <<lastID, pending, req, chan>>
  /\ UNCHANGED <<admit, stopMu, cur, dead, procs, wire, tear, torn, stage, cancelled>>

send(a, from, next, failed) ==
  /\ At(a, from)
  /\ IF Running
       THEN Register(a, lastID + 1) /\ Goto(a, next)
       ELSE Goto(a, failed) /\ UNCHANGED <<lastID, pending, req, chan>>
  /\ UNCHANGED <<admit, stopMu, cur, dead, procs, wire, tear, torn, stage, cancelled>>

\* The context of the handshake has a timer, which may have run out by now.
Expired(a) == a \in cancelled \/ mine(a)[2] = "init"

\* Has a pipe of generation g somebody at the other end?
Connected(g, pipe) == proc[g] = "running" \/ pipe \in held[g]

\* The pipe took all of the request.  A notification has no answer.
writeOk(a, from, next) ==
  /\ At(a, from) /\ Connected(req[mine(a)].gen, "stdin")
  /\ wire' = IF from = "notifyWrite" THEN wire ELSE wire \cup {<<req[mine(a)], mine(a)>>}
  /\ Goto(a, next)
  /\ UNCHANGED <<admit, stopMu, fields, lastID, procs, req, chan, tear, torn, stage,
                 cancelled>>

\* The context had ended before the write: an error, the transport stays.  The
\* pipe broke, or the context ended during the write: teardown.
writeFailed(a, from, failed) ==
  /\ At(a, from)
  /\ \/ Expired(a) /\ Goto(a, failed) /\ UNCHANGED tear
     \/ Expired(a) /\ CallTeardown(a, failed)
     \/ ~Connected(req[mine(a)].gen, "stdin") /\ CallTeardown(a, failed)
  /\ UNCHANGED <<admit, stopMu, fields, lastID, procs, wire, req, chan, torn, stage,
                 cancelled>>

\* A result in the channel, the end of the context or the end of the reader.
\* When the reader is done a result that arrived before is preferred.
await(a, from, next, failed) ==
  /\ At(a, from)
  /\ LET k == mine(a) IN
       \/ /\ chan[k] # Empty
          /\ chan' = [chan EXCEPT ![k] = Empty]
          /\ Goto(a, IF chan[k] = Error THEN failed ELSE next)
       \/ /\ Expired(a) \/ (reader[req[k].gen] = "done" /\ chan[k] = Empty)
          /\ Goto(a, failed)
          /\ UNCHANGED chan
  /\ UNCHANGED <<admit, stopMu, fields, lastID, procs, wire, req, tear, torn, stage, cancelled>>

\* delete(s.pending, id): the entry of the table installed now.
deregister(a) == pending' = [pending EXCEPT ![req[mine(a)].id] = None]

\* The handshake after the response: the transport must still be there.
notifyInitialized(a) ==
  /\ At(a, "initNotify")
  /\ Goto(a, IF cur = 0 THEN "initUndo" ELSE "notifyWrite")
  /\ UNCHANGED <<admit, stopMu, fields, lastID, procs, wire, req, chan, tear, torn, stage,
                 cancelled>>

\* handshake returns: deregister, and on failure startProcess tears down.
handshakeReturns(a) ==
  /\ \/ At(a, "initUndo") /\ CallTeardown(a, "fail")
     \/ At(a, "initDone") /\ Goto(a, Started(a)) /\ UNCHANGED tear
  /\ deregister(a)
  /\ UNCHANGED <<admit, stopMu, cur, dead, lastID, procs, wire, req, chan, torn, stage,
                 cancelled>>

handshake(a) ==
  \/ send(a, "initSend", "initWrite", "initFail")
  \/ At(a, "initFail") /\ CallTeardown(a, "fail")
     /\ UNCHANGED <<admit, stopMu, fields, lastID, procs, wire, req, chan, torn, stage,
                    cancelled>>
  \/ writeFailed(a, "initWrite", "initUndo")
  \/ await(a, "initAwait", "initNotify", "initUndo")
  \/ notifyInitialized(a)
  \/ writeFailed(a, "notifyWrite", "initUndo")
  \/ handshakeReturns(a)
-----------------------------------------------------------------------------
(***************************************************************************)
(* Call and start.                                                         *)
(***************************************************************************)
\* release, after start has succeeded or the request is written.
release(a) ==
  /\ \/ At(a, "started") /\ Goto(a, "acquire") /\ stage' = "list"
     \/ At(a, "written") /\ Goto(a, "await") /\ UNCHANGED stage
  /\ admit' = None
  /\ UNCHANGED <<stopMu, fields, lastID, procs, wire, req, chan, tear, torn, cancelled>>

MutReleaseFailed(a) ==
  /\ At(a, "fail")
  /\ Goto(a, "errored")
  /\ UNCHANGED <<admit, stopMu, fields, lastID, procs, wire, req, chan, tear, torn, stage,
                 cancelled>>

\* The deferred release of a start or call that fails before its request is written.
releaseFailed(a) ==
  /\ At(a, "fail")
  /\ admit' = None
  /\ Goto(a, "errored")
  /\ UNCHANGED <<stopMu, fields, lastID, procs, wire, req, chan, tear, torn, stage, cancelled>>

\* send gives up its entry when the write failed; Call when it returns.
giveUp(a) ==
  /\ \/ At(a, "undo") /\ Goto(a, "fail")
     \/ At(a, "answered") /\ Goto(a, "finish")
     \/ At(a, "unanswered") /\ Goto(a, "errored")
  /\ deregister(a)
  /\ UNCHANGED <<admit, stopMu, cur, dead, lastID, procs, wire, req, chan, tear, torn, stage,
                 cancelled>>

\* A call returns.  The discovery that fails stops the server; the passthrough
\* tool then starts from a server in the state this one is in.  What only this
\* call referred to is forgotten.
finish(a) ==
  /\ \/ a = Discovery /\ At(a, "errored") /\ CallTeardown(a, "finish")
        /\ UNCHANGED <<stage, req, chan, cancelled>>
     \/ /\ At(a, "finish") \/ (At(a, "errored") /\ a # Discovery)
        /\ Goto(a, "returned") /\ UNCHANGED tear
        /\ stage' = IF a = Discovery THEN "done" ELSE stage
        /\ req' = [k \in Requests |-> IF k[1] = a THEN NoRequest ELSE req[k]]
        /\ chan' = [k \in Requests |-> IF k[1] = a THEN Empty ELSE chan[k]]
        /\ cancelled' = cancelled \ {a}
  /\ UNCHANGED <<admit, stopMu, fields, lastID, procs, wire, torn>>

\* What a goroutine of gobot does without the server's help.
Step(a) ==
  \/ acquire(a) \/ acquireCancelled(a) \/ ensureStarted(a) \/ startProcess(a) \/ attach(a)
  \/ handshake(a)
  \/ send(a, "send", "write", "fail")
  \/ writeFailed(a, "write", "undo")
  \/ await(a, "await", "answered", "unanswered")
  \/ release(a) \/ releaseFailed(a) \/ giveUp(a) \/ finish(a)

\* The server takes a request or a notification out of the pipe.
Accepted(a) ==
  \/ writeOk(a, "initWrite", "initAwait")
  \/ writeOk(a, "notifyWrite", "initDone")
  \/ writeOk(a, "write", "written")

Cancel(a) ==
  /\ a \notin cancelled /\ pc[a] # "returned"
  /\ cancelled' = cancelled \cup {a}
  /\ UNCHANGED <<admit, stopMu, fields, lastID, procs, wire, req, chan, pc, tear, torn, stage>>
-----------------------------------------------------------------------------
(***************************************************************************)
(* The reader of a generation, and the process.                            *)
(***************************************************************************)
\* The line answering k under this id arrives: the id is looked up in the table
\* installed now.  The send cannot block (RouteNeverBlocks).
route(id, k) ==
  /\ IF pending[id] # None
       THEN chan' = [chan EXCEPT ![pending[id]] = k]
       ELSE UNCHANGED chan
  /\ pending' = [pending EXCEPT ![id] = None]

\* The server may answer once more.
readLoop(again) ==
  /\ \E m \in wire :
       /\ reader[m[1].gen] = "running"
       /\ route(m[1].id, m[2])
       /\ wire' = IF again THEN wire ELSE wire \ {m}
  /\ UNCHANGED <<admit, stopMu, cur, dead, lastID, procs, req, pc, tear, torn, stage, cancelled>>

\* End of file, or a line the scanner cannot take, which may be any.
finishReader(g) ==
  /\ reader[g] = "running"
  /\ reader' = [reader EXCEPT ![g] = "done"]
  /\ dead' = IF cur = g THEN TRUE ELSE dead
  /\ chan' = [k \in Requests |->
                IF chan[k] = Empty /\ \E i \in Ids : pending[i] = k
                  THEN Error ELSE chan[k]]
  /\ wire' = {m \in wire : m[1].gen # g}
  /\ UNCHANGED <<admit, stopMu, cur, lastID, pending, gens, proc, held, req, pc, tear, torn,
                 stage, cancelled>>

ScanError(g) == Connected(g, "stdout") /\ finishReader(g)
EndOfFile(g) == ~Connected(g, "stdout") /\ finishReader(g)

\* The process exits; its descendants may keep any of the pipes.
Exit(g) ==
  /\ proc[g] = "running"
  /\ proc' = [proc EXCEPT ![g] = "exited"]
  /\ \E h \in SUBSET Pipes : held' = [held EXCEPT ![g] = h]
  /\ UNCHANGED <<admit, stopMu, fields, lastID, gens, reader, wire, req, chan, pc, tear, torn,
                 stage, cancelled>>

DescendantsExit(g) ==
  /\ held[g] # {}
  /\ held' = [held EXCEPT ![g] = {}]
  /\ UNCHANGED <<admit, stopMu, fields, lastID, gens, proc, reader, wire, req, chan, pc, tear,
                 torn, stage, cancelled>>

AllReturned == (\A a \in Actors : pc[a] = "returned" /\ tear[a] = "no") /\ UNCHANGED vars

Next ==
  \/ \E a \in Users : Step(a) \/ Accepted(a) \/ Cancel(a)
  \/ \E a \in Stops : stop(a)
  \/ \E a \in Actors : teardown(a)
  \/ \E again \in BOOLEAN : readLoop(again)
  \/ \E g \in Gens : ScanError(g) \/ EndOfFile(g) \/ Exit(g) \/ DescendantsExit(g)
  \/ AllReturned

\* Goroutines run; a reader sees the end of its output when nobody is left to
\* write to it.  Nothing is assumed of the server, of its descendants or of the
\* callers' contexts.
Fairness ==
  /\ \A a \in Users : WF_vars(Step(a) \/ teardown(a))
  /\ \A a \in Stops : WF_vars(teardown(a))
  /\ WF_vars(\E g \in Gens : EndOfFile(g))

Spec == Init /\ [][Next]_vars /\ Fairness
-----------------------------------------------------------------------------
(***************************************************************************)
(* Properties.                                                             *)
(***************************************************************************)
TypeOK ==
  /\ admit \in Users \cup {None} /\ stopMu \in Actors \cup {None}
  /\ cur \in 0..MaxGens /\ dead \in BOOLEAN /\ lastID \in 0..Cardinality(Ids)
  /\ pending \in [Ids -> Requests \cup {None}]
  /\ cur = 0 => pending = NoPending
  /\ gens \in 0..MaxGens
  /\ proc \in [Gens -> {"none", "running", "exited"}]
  /\ reader \in [Gens -> {"none", "running", "done"}]
  /\ held \in [Gens -> SUBSET Pipes]
  /\ wire \subseteq [gen : Gens, id : Ids] \X Requests
  /\ req \in [Requests -> [gen : 0..MaxGens, id : 0..Cardinality(Ids)]]
  /\ chan \in [Requests -> {Empty, Error} \cup Requests]
  /\ pc \in [Actors -> {"acquire", "ensure", "spawn", "attach", "initSend", "initFail",
                        "initWrite", "initAwait", "initNotify", "notifyWrite", "initUndo",
                        "initDone", "started", "send", "write", "written", "await", "answered",
                        "unanswered", "undo", "fail", "errored", "finish", "returned"}]
  /\ tear \in [Actors -> {"no", "lock", "kill", "join", "wait"}]
  /\ torn \in [Actors -> 0..MaxGens]
  /\ stage \in {"start", "list", "done"}
  /\ cancelled \subseteq Users

\* "Exactly one reader goroutine owns the subprocess stdout per transport
\* generation": whatever stops, failing writes and restarts overlap, there is
\* at most one process and at most one reader, and a process that runs is in
\* the fields or in the hands of the goroutine that starts or kills it, so no
\* process is left that nobody can stop.  (A server's own children are not killed.)
OneTransport ==
  /\ \A g, h \in Gens : g # h =>
       /\ ~(proc[g] = "running" /\ proc[h] = "running")
       /\ ~(reader[g] = "running" /\ reader[h] = "running")
  /\ \A g \in Gens : proc[g] = "running" =>
       \/ cur = g
       \/ g = gens /\ \E a \in Users : pc[a] = "attach"
       \/ \E a \in Actors : tear[a] = "kill" /\ torn[a] = g

\* A line reaches the request it answers and no other: ids start again with
\* every generation, and callers give up and return between generations.
OwnAnswer == \A k \in Requests : chan[k] \in {Empty, Error, k}

\* "capacity 1, one send per registration": the reader never finds the channel
\* of a pending request full, even if the server answers a request twice.
RouteNeverBlocks ==
  \A m \in wire : reader[m[1].gen] = "running" /\ pending[m[1].id] # None =>
                    chan[pending[m[1].id]] = Empty

\* What makes a call return whatever the server does.
Released(a) ==
  \/ a \in cancelled
  \/ pc[a] = "await" /\ reader[req[mine(a)].gen] = "done"

\* A call whose context ends, or whose transport ends while it waits, returns and
\* holds neither admission nor stopMu, from wherever it is: waiting for
\* admission, for a teardown of others, in the handshake, in a blocked write or
\* for the response.  The one thing it needs of the outside is that no descendant
\* of a server keeps its standard error for ever: cmd.Wait would wait for it,
\* under stopMu, and with it every later teardown.
CallReturns ==
  (\A g \in Gens : []<>("stderr" \notin held[g])) =>
    \A a \in Users : (Open(a) /\ Released(a))
                        ~> (pc[a] = "returned" /\ a \notin {admit, stopMu})

\* "routes each response to the waiting request by id": while a call waits for
\* a response that its transport can still deliver, its entry is in the table.
PendingKept ==
  \A a \in Users : LET k == mine(a) IN
    pc[a] \in {"initAwait", "await"} /\ <<req[k], k>> \in wire /\ cur = req[k].gen /\ ~dead /\ chan[k] = Empty
      => pending[req[k].id] = k
=============================================================================
