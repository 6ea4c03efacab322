--------------------------- MODULE MCPServerProofs ---------------------------
(***************************************************************************)
(* Proofs about MCPServer for any finite set of calls, any stops and any   *)
(* number of processes.                                                    *)
(***************************************************************************)
EXTENDS MCPServer, FiniteSetTheorems, TLAPS

\* Where a user holds the admission channel.
Holding == {"ensure", "spawn", "attach", "initSend", "initFail", "initWrite", "initAwait",
            "initNotify", "notifyWrite", "initUndo", "initDone", "started", "send", "write",
            "written", "undo", "fail"}

\* Where the handshake, or the call, of a user has been registered.
InitSent == {"initWrite", "initAwait", "initNotify", "notifyWrite", "initUndo", "initDone"}
CallSent == {"write", "written", "await", "answered", "unanswered", "undo"}

\* Users that have registered their call or never will.
PastSend == {a \in Users : pc[a] \in CallSent \cup {"fail", "errored", "finish", "returned"}}

\* One user between acquire and release.
Admission ==
  \A a \in Users : /\ pc[a] \in Holding => admit = a
                   /\ pc[a] = "attach" => tear[a] = "no"

\* One teardown past stopMu; while it has a transport in hand the fields are nil.
Teardowns ==
  \A a \in Actors : /\ tear[a] \in {"kill", "join", "wait"} => stopMu = a
                    /\ torn[a] # 0 => tear[a] \in {"kill", "join", "wait"} /\ torn[a] <= gens /\ cur = 0

\* Who starts a process has waited for every earlier transport.
Spawning ==
  \A a \in Users : pc[a] \in {"spawn", "attach"} /\ tear[a] # "lock" =>
                     cur = 0 /\ \A b \in Actors : b # a => torn[b] = 0

Attaching == \E a \in Users : pc[a] = "attach"
Killing(g) == \E a \in Actors : tear[a] = "kill" /\ torn[a] = g
Joining(g) == \E a \in Actors : torn[a] = g

\* Processes and readers are somebody's, and come in the order of their numbers.
Transports ==
  /\ cur <= gens
  /\ cur # 0 => reader[cur] # "none"
  /\ \A g \in Gens :
       /\ proc[g] # "none" => g <= gens
       /\ proc[g] = "running" => cur = g \/ (g = gens /\ Attaching) \/ Killing(g)
       /\ reader[g] # "none" => g <= gens /\ ~(g = gens /\ Attaching)
       /\ reader[g] = "running" => cur = g \/ Joining(g)

\* Who reaps a process has waited for its reader.
Joined == \A a \in Actors : tear[a] = "wait" /\ torn[a] # 0 => reader[torn[a]] = "done"

\* An id of the current generation has been given to one request.
Given(r, k) ==
  /\ reader[r.gen] # "none" /\ r.id \in Ids
  /\ r.gen = cur => r.id <= lastID /\ pending[r.id] \in {None, k}

Requested ==
  /\ \A k \in Requests : req[k].gen # 0 => Given(req[k], k)
  /\ \A m \in wire : Given(m[1], m[2])
  /\ \A a \in Users : /\ pc[a] \in InitSent => req[<<a, "init">>].gen # 0
                      /\ pc[a] \in CallSent => req[<<a, "call">>].gen # 0

\* Ids do not run out: one handshake and one call of each user.
Counted ==
  /\ lastID <= Cardinality(PastSend) + 1
  /\ \A a \in Users : pc[a] = "initSend" => lastID = 0

MCPInv == /\ TypeOK /\ Admission /\ Teardowns /\ Spawning /\ Transports /\ Joined
          /\ Requested /\ Counted /\ OwnAnswer
-----------------------------------------------------------------------------
LEMMA IdsFacts ==
  /\ IsFiniteSet(Users) /\ Cardinality(Users) \in Nat
  /\ Cardinality(Ids) = Cardinality(Users) + 1
  /\ Ids = 1..(Cardinality(Users) + 1)
<1>1. IsFiniteSet(Users)
  BY ActorsAssumption, FS_AddElement DEF Users
<1>2. Cardinality(Users) \in Nat
  BY <1>1, FS_CardinalityType
<1>3. Cardinality(1..(Cardinality(Users) + 1)) = Cardinality(Users) + 1
  BY <1>2, FS_Interval
<1> QED
  BY <1>1, <1>2, <1>3 DEF Ids

\* A user's own request.
LEMMA MineFacts ==
  ASSUME NEW a \in Users
  PROVE  /\ mine(a) \in Requests /\ mine(a)[1] = a
         /\ pc[a] \in InitSent \cup {"initSend"} => mine(a) = <<a, "init">>
         /\ pc[a] \notin InitSent \cup {"initSend"} => mine(a) = <<a, "call">>
BY DEF mine, Requests, InitSent

\* The steps of a user, by what they touch.
Sends(a) == send(a, "initSend", "initWrite", "initFail") \/ send(a, "send", "write", "fail")

Awaits(a) == await(a, "initAwait", "initNotify", "initUndo")
             \/ await(a, "await", "answered", "unanswered")

Writes(a) == \/ writeOk(a, "initWrite", "initAwait") \/ writeOk(a, "notifyWrite", "initDone")
             \/ writeOk(a, "write", "written")

WritesFail(a) == \/ writeFailed(a, "initWrite", "initUndo")
                 \/ writeFailed(a, "notifyWrite", "initUndo")
                 \/ writeFailed(a, "write", "undo")

HandshakeFails(a) ==
  /\ At(a, "initFail") /\ CallTeardown(a, "fail")
  /\ UNCHANGED <<admit, stopMu, fields, lastID, procs, wire, req, chan, torn, stage,
                 cancelled>>

Act(a) ==
  \/ acquire(a) \/ acquireCancelled(a) \/ ensureStarted(a) \/ startProcess(a) \/ attach(a)
  \/ Sends(a) \/ HandshakeFails(a) \/ WritesFail(a) \/ Awaits(a) \/ notifyInitialized(a)
  \/ handshakeReturns(a) \/ release(a) \/ releaseFailed(a) \/ giveUp(a) \/ finish(a)
  \/ Writes(a) \/ Cancel(a)

\* The end of a teardown, and of what it tears down.
Reaps(a) == JoinReader(a) \/ Wait(a)
Ends(g) == Exit(g) \/ DescendantsExit(g)

LEMMA NextSteps ==
  ASSUME Next
  PROVE  \/ \E a \in Users : Act(a)
         \/ \E a \in Actors : stop(a) \/ TakeTransport(a) \/ KillTransport(a) \/ Reaps(a)
         \/ \E again \in BOOLEAN : readLoop(again)
         \/ \E g \in Gens : finishReader(g) \/ Ends(g)
         \/ UNCHANGED vars
BY DEF Next, Step, Accepted, handshake, teardown, stop, Act, Sends, Awaits, Writes, WritesFail,
   HandshakeFails, ScanError, EndOfFile, Reaps, Ends, AllReturned, Actors

\* A step of one user leaves the others where they are.
LEMMA OthersStay ==
  ASSUME TypeOK, NEW a \in Users, Act(a)
  PROVE  /\ torn' = torn /\ stopMu' = stopMu
         /\ \A b \in Actors : b # a => pc'[b] = pc[b] /\ tear'[b] = tear[b]
<1> USE DEF TypeOK, Goto, At, CallTeardown, Actors
<1>1. CASE \/ acquire(a) \/ acquireCancelled(a) \/ ensureStarted(a) \/ startProcess(a)
           \/ attach(a) \/ HandshakeFails(a) \/ notifyInitialized(a) \/ handshakeReturns(a)
  BY <1>1 DEF acquire, acquireCancelled, ensureStarted, startProcess, attach, HandshakeFails,
     notifyInitialized, handshakeReturns
<1>2. CASE release(a) \/ releaseFailed(a) \/ giveUp(a) \/ finish(a) \/ Cancel(a)
  BY <1>2 DEF release, releaseFailed, giveUp, finish, Cancel
<1>3. CASE Sends(a) \/ Awaits(a)
  BY <1>3 DEF Sends, Awaits, send, await
<1>4. CASE Writes(a) \/ WritesFail(a)
  BY <1>4 DEF Writes, WritesFail, writeOk, writeFailed
<1> QED
  BY <1>1, <1>2, <1>3, <1>4 DEF Act

\* All but two steps of a user leave processes, readers and fields alone.
LEMMA PlainStep ==
  ASSUME TypeOK, NEW a \in Users, Act(a), ~attach(a), ~startProcess(a)
  PROVE  /\ UNCHANGED <<cur, dead, gens, proc, reader, held>>
         /\ tear'[a] # tear[a] => tear[a] = "no" /\ tear'[a] = "lock"
         /\ pc'[a] \in {"spawn", "attach"} =>
              tear'[a] = "lock" \/ (pc'[a] = pc[a] /\ tear'[a] = tear[a])
         /\ pc'[a] = "attach" <=> pc[a] = "attach"
         /\ pc'[a] # "initSend" \/ pc[a] = "initSend"
<1> USE DEF TypeOK, Goto, At, CallTeardown, Actors, fields, procs
<1>1. CASE acquire(a) \/ acquireCancelled(a) \/ ensureStarted(a)
  BY <1>1 DEF acquire, acquireCancelled, ensureStarted, Started
<1>2. CASE release(a) \/ releaseFailed(a)
  BY <1>2 DEF release, releaseFailed
<1>3. CASE HandshakeFails(a) \/ notifyInitialized(a) \/ handshakeReturns(a)
  BY <1>3 DEF HandshakeFails, notifyInitialized, handshakeReturns, Started
<1>4. CASE giveUp(a) \/ finish(a) \/ Cancel(a)
  BY <1>4 DEF giveUp, finish, Cancel
<1>5. CASE Sends(a) \/ Awaits(a)
  BY <1>5 DEF Sends, Awaits, send, await
<1>6. CASE Writes(a) \/ WritesFail(a)
  BY <1>6 DEF Writes, WritesFail, writeOk, writeFailed
<1> QED
  BY <1>1, <1>2, <1>3, <1>4, <1>5, <1>6 DEF Act
-----------------------------------------------------------------------------
LEMMA AdmissionStep ==
  ASSUME TypeOK, Admission, Next
  PROVE  Admission'
<1> USE DEF TypeOK, Admission, Goto, At, CallTeardown, Actors, Holding
<1>1. ASSUME NEW a \in Users, Act(a) PROVE Admission'
  <2>1. \A b \in Users : b # a => pc'[b] = pc[b] /\ tear'[b] = tear[b]
    BY <1>1, OthersStay
  <2>2. CASE acquire(a)
    BY ActorsAssumption, <2>1, <2>2 DEF acquire
  <2>3. CASE release(a) \/ releaseFailed(a)
    BY <2>1, <2>3 DEF release, releaseFailed
  <2>4. CASE acquireCancelled(a) \/ ensureStarted(a) \/ startProcess(a) \/ attach(a)
    BY <2>1, <2>4 DEF acquireCancelled, ensureStarted, startProcess, attach, Started
  <2>5. CASE HandshakeFails(a) \/ notifyInitialized(a) \/ handshakeReturns(a)
    BY <2>1, <2>5 DEF HandshakeFails, notifyInitialized, handshakeReturns, Started
  <2>6. CASE giveUp(a) \/ finish(a) \/ Cancel(a)
    BY <2>1, <2>6 DEF giveUp, finish, Cancel
  <2>7. CASE Sends(a) \/ Awaits(a)
    BY <2>1, <2>7 DEF Sends, Awaits, send, await
  <2>8. CASE Writes(a) \/ WritesFail(a)
    BY <2>1, <2>8 DEF Writes, WritesFail, writeOk, writeFailed
  <2> QED
    BY <1>1, <2>2, <2>3, <2>4, <2>5, <2>6, <2>7, <2>8 DEF Act
<1>2. ASSUME NEW a \in Actors, stop(a) PROVE Admission'
  BY <1>2, ActorsAssumption DEF stop
<1>3. ASSUME NEW a \in Actors, TakeTransport(a) \/ KillTransport(a) \/ Reaps(a)
      PROVE  Admission'
  BY <1>3 DEF TakeTransport, KillTransport, Reaps, JoinReader, Wait
<1>4. ASSUME NEW again \in BOOLEAN, readLoop(again) PROVE Admission'
  BY <1>4 DEF readLoop
<1>5. ASSUME NEW g \in Gens, finishReader(g) \/ Ends(g) PROVE Admission'
  BY <1>5 DEF finishReader, Ends, Exit, DescendantsExit
<1>6. CASE UNCHANGED vars
  BY <1>6 DEF vars
<1> QED
  BY <1>1, <1>2, <1>3, <1>4, <1>5, <1>6, NextSteps

LEMMA TeardownsStep ==
  ASSUME TypeOK, Admission, Teardowns, Spawning, Transports, Next
  PROVE  Teardowns' /\ Spawning'
<1> USE MaxGensAssumption
    DEF TypeOK, Admission, Teardowns, Spawning, Goto, At, CallTeardown, Actors, Holding
<1>1. ASSUME NEW a \in Users, Act(a) PROVE Teardowns' /\ Spawning'
  <2>1. /\ torn' = torn /\ stopMu' = stopMu
        /\ \A b \in Actors : b # a => pc'[b] = pc[b] /\ tear'[b] = tear[b]
    BY <1>1, OthersStay
  <2>2. CASE attach(a)
    <3>1. /\ pc[a] = "attach" /\ pc'[a] = "initSend" /\ tear' = tear /\ gens' = gens
          /\ \A b \in Actors : torn[b] = 0
      BY <2>2 DEF attach
    <3>2. \A b \in Users : b # a => pc[b] \notin {"spawn", "attach"}
      BY <3>1
    <3> QED BY <2>1, <3>1, <3>2
  <2>3. CASE startProcess(a)
    <3>1. /\ pc[a] = "spawn" /\ tear[a] = "no" /\ tear' = tear /\ cur' = cur
          /\ gens' \in {gens, gens + 1}
      BY <2>3 DEF startProcess, fields
    <3>2. \A b \in Users : b # a => pc[b] \notin {"spawn", "attach"}
      BY <3>1
    <3> QED BY <2>1, <3>1, <3>2
  <2>4. CASE ~attach(a) /\ ~startProcess(a)
    <3>1. /\ cur' = cur /\ gens' = gens
          /\ tear'[a] # tear[a] => tear[a] = "no" /\ tear'[a] = "lock"
          /\ pc'[a] \in {"spawn", "attach"} =>
               tear'[a] = "lock" \/ (pc'[a] = pc[a] /\ tear'[a] = tear[a])
      BY <1>1, <2>4, PlainStep
    <3> QED
      BY <2>1, <3>1
  <2> QED
    BY <2>2, <2>3, <2>4
<1>2. ASSUME NEW a \in Actors, stop(a) PROVE Teardowns' /\ Spawning'
  BY <1>2, ActorsAssumption DEF stop, fields, procs
<1>3. ASSUME NEW a \in Actors, TakeTransport(a) PROVE Teardowns' /\ Spawning'
  BY <1>3, ActorsAssumption DEF TakeTransport, procs, Transports
<1>4. ASSUME NEW a \in Actors, KillTransport(a) \/ Reaps(a) PROVE Teardowns' /\ Spawning'
  BY <1>4, ActorsAssumption DEF KillTransport, Reaps, JoinReader, Wait, fields, procs
<1>5. ASSUME NEW again \in BOOLEAN, readLoop(again) PROVE Teardowns' /\ Spawning'
  BY <1>5 DEF readLoop, procs
<1>6. ASSUME NEW g \in Gens, finishReader(g) \/ Ends(g) PROVE Teardowns' /\ Spawning'
  <2>1. UNCHANGED <<stopMu, cur, gens, pc, tear, torn>>
    BY <1>6 DEF finishReader, Ends, Exit, DescendantsExit, fields
  <2> QED BY <2>1
<1>7. CASE UNCHANGED vars
  BY <1>7 DEF vars
<1> QED
  BY <1>1, <1>2, <1>3, <1>4, <1>5, <1>6, <1>7, NextSteps

LEMMA TransportsStep ==
  ASSUME TypeOK, Admission, Teardowns, Spawning, Transports, Joined, Next
  PROVE  Transports'
<1> USE MaxGensAssumption DEF TypeOK, Transports, Gens, Actors
<1>1. ASSUME NEW a \in Users, Act(a) PROVE Transports'
  <2>1. /\ torn' = torn
        /\ \A b \in Actors : b # a => pc'[b] = pc[b] /\ tear'[b] = tear[b]
    BY <1>1, OthersStay
  <2>2. CASE attach(a)
    <3>1. /\ At(a, "attach") /\ cur' = gens /\ UNCHANGED <<gens, proc, tear>>
          /\ reader' = [reader EXCEPT ![gens] = "running"] /\ pc'[a] = "initSend"
      BY <2>2 DEF attach, Goto
    <3>2. cur = 0 /\ (\A b \in Actors : torn[b] = 0) /\ \A b \in Users : b # a => pc[b] # "attach"
      <4>1. cur = 0 /\ \A b \in Actors : b # a => torn[b] = 0
        BY <3>1 DEF Spawning, At
      <4>2. torn[a] = 0
        BY <3>1 DEF Teardowns, At
      <4>3. \A b \in Users : b # a => pc[b] # "attach"
        BY <3>1 DEF Admission, At, Holding
      <4> HIDE DEF Actors
      <4> QED BY <4>1, <4>2, <4>3
    <3>3. \A g \in Gens : /\ proc[g] = "running" => g = gens
                          /\ reader[g] # "running"
      BY <3>2 DEF Killing, Joining
    <3>4. ~Attaching'
      BY <2>1, <3>1, <3>2 DEF Attaching
    <3> QED BY <3>1, <3>3, <3>4
  <2>3. CASE startProcess(a)
    <3>1. At(a, "spawn") /\ UNCHANGED <<cur, reader, tear>>
      BY <2>3 DEF startProcess, fields
    <3>2. \A b \in Users : pc[b] # "attach"
      BY <3>1 DEF Admission, At, Holding
    <3>3. ~Attaching
      BY <3>2 DEF Attaching
    <3>4. \A g \in Gens : (Killing(g)' <=> Killing(g)) /\ (Joining(g)' <=> Joining(g))
      BY <2>1, <3>1 DEF Killing, Joining
    <3>5. CASE UNCHANGED <<gens, proc>> /\ pc'[a] = "fail"
      <4>1. ~Attaching'
        BY <2>1, <3>2, <3>5 DEF Attaching
      <4> QED BY <3>1, <3>3, <3>4, <3>5, <4>1
    <3>6. CASE /\ gens < MaxGens /\ gens' = gens + 1 /\ pc'[a] = "attach"
               /\ proc' = [proc EXCEPT ![gens + 1] = "running"]
      <4>1. Attaching'
        BY <3>6 DEF Attaching
      <4> QED BY <3>1, <3>3, <3>4, <3>6, <4>1
    <3> QED BY <2>3, <3>5, <3>6 DEF startProcess, Goto
  <2>4. CASE ~attach(a) /\ ~startProcess(a)
    <3>1. /\ UNCHANGED <<cur, gens, proc, reader>>
          /\ tear'[a] # tear[a] => tear[a] = "no" /\ tear'[a] = "lock"
          /\ pc'[a] = "attach" <=> pc[a] = "attach"
      BY <1>1, <2>4, PlainStep
    <3>2. Attaching' <=> Attaching
      BY <2>1, <3>1 DEF Attaching
    <3>3. \A b \in Actors : tear'[b] = "kill" <=> tear[b] = "kill"
      BY <2>1, <3>1
    <3>4. \A g \in Gens : (Killing(g)' <=> Killing(g)) /\ (Joining(g)' <=> Joining(g))
      BY <2>1, <3>3 DEF Killing, Joining
    <3> QED BY <3>1, <3>2, <3>4
  <2> QED BY <2>2, <2>3, <2>4
<1>2. ASSUME NEW a \in Actors, stop(a) PROVE Transports'
  <2>1. /\ UNCHANGED <<cur, gens, proc, reader, torn>> /\ a \notin Users /\ tear[a] = "no"
        /\ tear' = [tear EXCEPT ![a] = "lock"] /\ \A b \in Users : pc'[b] = pc[b]
    BY <1>2, ActorsAssumption DEF stop, fields, procs, CallTeardown, Goto, At
  <2>2. Attaching' <=> Attaching
    BY <2>1 DEF Attaching
  <2>3. \A g \in Gens : (Killing(g)' <=> Killing(g)) /\ (Joining(g)' <=> Joining(g))
    BY <2>1 DEF Killing, Joining
  <2> QED BY <2>1, <2>2, <2>3
<1>3. ASSUME NEW a \in Actors, TakeTransport(a) PROVE Transports'
  <2>1. /\ UNCHANGED <<gens, proc, reader, pc>> /\ cur' = 0 /\ tear[a] = "lock"
        /\ torn' = [torn EXCEPT ![a] = cur] /\ tear' = [tear EXCEPT ![a] = "kill"]
    BY <1>3 DEF TakeTransport, procs
  <2>2. Attaching' <=> Attaching
    BY <2>1 DEF Attaching
  <2>3. torn[a] = 0
    BY <2>1 DEF Teardowns
  <2>4. \A g \in Gens : /\ Killing(g) \/ cur = g => Killing(g)'
                        /\ Joining(g) \/ cur = g => Joining(g)'
    BY <2>1, <2>3 DEF Killing, Joining
  <2> QED BY <2>1, <2>2, <2>4
<1>4. ASSUME NEW a \in Actors, KillTransport(a) PROVE Transports'
  <2>1. /\ UNCHANGED <<cur, gens, reader, pc, torn>> /\ tear[a] = "kill"
        /\ proc' = [g \in Gens |-> IF g = torn[a] THEN "exited" ELSE proc[g]]
        /\ tear' = [tear EXCEPT ![a] = "join"]
    BY <1>4 DEF KillTransport, fields
  <2>2. Attaching' <=> Attaching
    BY <2>1 DEF Attaching
  <2>3. \A g \in Gens : (Killing(g) /\ g # torn[a] => Killing(g)') /\ (Joining(g)' <=> Joining(g))
    BY <2>1 DEF Killing, Joining
  <2>4. torn[a] <= gens
    BY DEF Teardowns
  <2> QED BY <2>1, <2>2, <2>3, <2>4
<1>5. ASSUME NEW a \in Actors, JoinReader(a) PROVE Transports'
  <2>1. /\ UNCHANGED <<cur, gens, proc, reader, pc, torn>> /\ tear[a] = "join"
        /\ torn[a] # 0 => reader[torn[a]] = "done"
        /\ tear' = [tear EXCEPT ![a] = "wait"]
    BY <1>5 DEF JoinReader, fields, procs
  <2>2. Attaching' <=> Attaching
    BY <2>1 DEF Attaching
  <2>3. \A g \in Gens : (Killing(g) => Killing(g)') /\ (Joining(g) <=> Joining(g)')
    BY <2>1 DEF Killing, Joining
  <2> QED BY <2>1, <2>2, <2>3
<1>6. ASSUME NEW again \in BOOLEAN, readLoop(again) PROVE Transports'
  BY <1>6 DEF readLoop, procs, Attaching, Killing, Joining
<1>7. ASSUME NEW g \in Gens, finishReader(g) \/ Ends(g) PROVE Transports'
  <2>1. /\ UNCHANGED <<cur, gens, pc, tear, torn>>
        /\ proc' = proc \/ (proc' = [proc EXCEPT ![g] = "exited"] /\ proc[g] = "running")
        /\ reader' = reader \/ (reader' = [reader EXCEPT ![g] = "done"] /\ reader[g] = "running")
    BY <1>7 DEF finishReader, Ends, Exit, DescendantsExit, fields
  <2>2. Attaching' <=> Attaching
    BY <2>1 DEF Attaching
  <2>3. \A h \in Gens : (Killing(h)' <=> Killing(h)) /\ (Joining(h)' <=> Joining(h))
    BY <2>1 DEF Killing, Joining
  <2> QED BY <2>1, <2>2, <2>3
<1>9. ASSUME NEW a \in Actors, Wait(a) PROVE Transports'
  <2>1. /\ UNCHANGED <<cur, gens, proc, reader, pc>> /\ tear[a] = "wait"
        /\ torn' = [torn EXCEPT ![a] = 0] /\ tear' = [tear EXCEPT ![a] = "no"]
    BY <1>9 DEF Wait, fields, procs
  <2>2. Attaching' <=> Attaching
    BY <2>1 DEF Attaching
  <2>3. \A g \in Gens : (Killing(g) => Killing(g)') /\ (Joining(g) /\ g # torn[a] => Joining(g)')
    BY <2>1 DEF Killing, Joining
  <2>4. torn[a] # 0 => reader[torn[a]] = "done"
    BY <2>1 DEF Joined
  <2> QED BY <2>1, <2>2, <2>3, <2>4
<1>8. CASE UNCHANGED vars
  BY <1>8 DEF vars, Attaching, Killing, Joining
<1> QED
  BY <1>1, <1>2, <1>3, <1>4, <1>5, <1>6, <1>7, <1>8, <1>9, NextSteps DEF Reaps

LEMMA JoinedStep ==
  ASSUME TypeOK, Admission, Teardowns, Spawning, Transports, Joined, Next
  PROVE  Joined'
<1>0. /\ tear \in [Actors -> {"no", "lock", "kill", "join", "wait"}]
      /\ torn \in [Actors -> 0..MaxGens]
      /\ reader \in [Gens -> {"none", "running", "done"}]
  BY DEF TypeOK
<1>1. ASSUME NEW a \in Users, Act(a) PROVE Joined'
  <2>1. /\ torn' = torn
        /\ \A b \in Actors : b # a => tear'[b] = tear[b]
    BY <1>1, OthersStay
  <2>2. CASE attach(a)
    <3>1. At(a, "attach") /\ tear' = tear
      BY <2>2 DEF attach
    <3>2. \A b \in Actors : b # a => torn[b] = 0
      BY <3>1 DEF Spawning, At
    <3>3. torn[a] = 0
      BY <3>1 DEF Teardowns, At, Actors
    <3> QED BY <2>1, <3>2, <3>3 DEF Joined
  <2>3. CASE startProcess(a)
    <3>1. tear' = tear /\ reader' = reader
      BY <2>3 DEF startProcess
    <3> QED BY <2>1, <3>1 DEF Joined
  <2>4. CASE ~attach(a) /\ ~startProcess(a)
    <3>1. reader' = reader /\ (tear'[a] # tear[a] => tear'[a] = "lock")
      BY <1>1, <2>4, PlainStep
    <3>2. \A b \in Actors : tear'[b] = "wait" => tear[b] = "wait"
      BY <2>1, <3>1
    <3> QED BY <2>1, <3>1, <3>2 DEF Joined
  <2> QED BY <2>2, <2>3, <2>4
<1>2. ASSUME NEW a \in Actors, stop(a) PROVE Joined'
  <2>1. tear' = [tear EXCEPT ![a] = "lock"] /\ UNCHANGED <<reader, torn>>
    BY <1>2 DEF stop, CallTeardown, procs
  <2> QED BY <1>0, <2>1 DEF Joined
<1>3. ASSUME NEW a \in Actors, TakeTransport(a) \/ KillTransport(a) PROVE Joined'
  <2>1. /\ reader' = reader /\ \E w \in {"kill", "join"} : tear' = [tear EXCEPT ![a] = w]
        /\ torn' = torn \/ torn' = [torn EXCEPT ![a] = cur]
    BY <1>3 DEF TakeTransport, KillTransport, procs
  <2> QED BY <1>0, <2>1 DEF Joined
<1>4. ASSUME NEW a \in Actors, JoinReader(a) PROVE Joined'
  <2>1. /\ UNCHANGED <<reader, torn>> /\ tear' = [tear EXCEPT ![a] = "wait"]
        /\ torn[a] # 0 => reader[torn[a]] = "done"
    BY <1>4 DEF JoinReader, procs
  <2> QED BY <1>0, <2>1 DEF Joined
<1>5. ASSUME NEW a \in Actors, Wait(a) PROVE Joined'
  <2>1. /\ reader' = reader /\ tear' = [tear EXCEPT ![a] = "no"]
        /\ torn' = [torn EXCEPT ![a] = 0]
    BY <1>5 DEF Wait, procs
  <2> QED BY <1>0, <2>1 DEF Joined
<1>6. ASSUME NEW g \in Gens, finishReader(g) PROVE Joined'
  <2>1. UNCHANGED <<tear, torn>> /\ reader' = [reader EXCEPT ![g] = "done"]
    BY <1>6 DEF finishReader
  <2>2. \A a \in Actors : torn[a] # 0 => torn[a] \in Gens
    BY <1>0, MaxGensAssumption DEF Gens
  <2> QED BY <1>0, <2>1, <2>2 DEF Joined
<1>7. CASE (\E again \in BOOLEAN : readLoop(again)) \/ (\E g \in Gens : Ends(g)) \/ UNCHANGED vars
  BY <1>7 DEF readLoop, Ends, Exit, DescendantsExit, procs, vars, Joined
<1> QED
  BY <1>1, <1>2, <1>3, <1>4, <1>5, <1>6, <1>7, NextSteps DEF Reaps

LEMMA OneTransportHolds ==
  ASSUME TypeOK, Admission, Teardowns, Spawning, Transports
  PROVE  OneTransport
<1> USE MaxGensAssumption DEF TypeOK, Gens, Actors
<1>1. Attaching => cur = 0 /\ \A b \in Actors : torn[b] = 0
  BY DEF Attaching, Spawning, Admission, Teardowns
<1>2. \A b, c \in Actors : torn[b] # 0 /\ torn[c] # 0 => b = c
  BY DEF Teardowns
<1>3. \A b \in Actors : torn[b] # 0 => cur = 0
  BY DEF Teardowns
<1>4. \A g \in Gens : proc[g] = "running" => cur = g \/ (g = gens /\ Attaching) \/ Killing(g)
  BY DEF Transports
<1>8. \A g \in Gens : g # 0
  OBVIOUS
<1>9. \A g \in Gens : reader[g] = "running" => cur = g \/ Joining(g)
  BY DEF Transports
<1> HIDE DEF TypeOK, Gens, Actors
<1>10. \A g, h \in Gens : Joining(g) /\ Joining(h) => g = h
  BY <1>2, <1>8 DEF Joining
<1>11. \A g \in Gens : Joining(g) => cur = 0 /\ ~Attaching
  BY <1>1, <1>3, <1>8 DEF Joining
<1>12. \A g \in Gens : Killing(g) => Joining(g)
  BY DEF Killing, Joining
<1>5. \A g, h \in Gens : g # h => ~(proc[g] = "running" /\ proc[h] = "running")
  BY <1>1, <1>4, <1>8, <1>10, <1>11, <1>12
<1>6. \A g, h \in Gens : g # h => ~(reader[g] = "running" /\ reader[h] = "running")
  BY <1>8, <1>9, <1>10, <1>11
<1>7. \A g \in Gens : proc[g] = "running" =>
       \/ cur = g
       \/ g = gens /\ \E a \in Users : pc[a] = "attach"
       \/ \E a \in Actors : tear[a] = "kill" /\ torn[a] = g
  BY <1>4 DEF Attaching, Killing
<1> QED
  BY <1>5, <1>6, <1>7 DEF OneTransport
-----------------------------------------------------------------------------
(***************************************************************************)
(* Ids.                                                                    *)
(***************************************************************************)
\* Nobody goes back before its send.
LEMMA PastSendGrows ==
  ASSUME TypeOK, Next
  PROVE  PastSend \subseteq PastSend'
<1> USE DEF TypeOK, PastSend, CallSent, Goto, At, CallTeardown, Actors
<1>1. ASSUME NEW a \in Users, Act(a) PROVE PastSend \subseteq PastSend'
  <2>1. \A b \in Users : b # a => pc'[b] = pc[b]
    BY <1>1, OthersStay
  <2>2. CASE acquire(a) \/ acquireCancelled(a) \/ ensureStarted(a) \/ startProcess(a) \/ attach(a)
    BY <2>1, <2>2 DEF acquire, acquireCancelled, ensureStarted, startProcess, attach
  <2>3. CASE HandshakeFails(a) \/ notifyInitialized(a) \/ handshakeReturns(a)
    BY <2>1, <2>3 DEF HandshakeFails, notifyInitialized, handshakeReturns
  <2>4. CASE release(a) \/ releaseFailed(a) \/ giveUp(a) \/ finish(a) \/ Cancel(a)
    BY <2>1, <2>4 DEF release, releaseFailed, giveUp, finish, Cancel
  <2>5. CASE Sends(a) \/ Awaits(a)
    BY <2>1, <2>5 DEF Sends, Awaits, send, await
  <2>6. CASE Writes(a) \/ WritesFail(a)
    BY <2>1, <2>6 DEF Writes, WritesFail, writeOk, writeFailed
  <2> QED
    BY <1>1, <2>2, <2>3, <2>4, <2>5, <2>6 DEF Act
<1>2. ASSUME NEW a \in Actors, stop(a) PROVE PastSend \subseteq PastSend'
  BY <1>2, ActorsAssumption DEF stop
<1>3. ASSUME NEW a \in Actors, TakeTransport(a) \/ KillTransport(a) \/ Reaps(a)
      PROVE  PastSend \subseteq PastSend'
  BY <1>3 DEF TakeTransport, KillTransport, Reaps, JoinReader, Wait
<1>4. ASSUME NEW again \in BOOLEAN, readLoop(again) PROVE PastSend \subseteq PastSend'
  BY <1>4 DEF readLoop
<1>5. ASSUME NEW g \in Gens, finishReader(g) \/ Ends(g) PROVE PastSend \subseteq PastSend'
  BY <1>5 DEF finishReader, Ends, Exit, DescendantsExit
<1>6. CASE UNCHANGED vars
  BY <1>6 DEF vars
<1> QED
  BY <1>1, <1>2, <1>3, <1>4, <1>5, <1>6, NextSteps

\* There is an id for every request.
LEMMA NextId ==
  ASSUME TypeOK, Counted, NEW a \in Users, pc[a] \in {"initSend", "send"}
  PROVE  lastID + 1 \in Ids
<1> USE IdsFacts DEF TypeOK
<1>1. CASE pc[a] = "initSend"
  BY <1>1 DEF Counted
<1>2. CASE pc[a] = "send"
  <2>1. PastSend \subseteq Users \ {a}
    BY <1>2 DEF PastSend, CallSent
  <2>2. IsFiniteSet(Users \ {a}) /\ Cardinality(Users \ {a}) = Cardinality(Users) - 1
    BY FS_RemoveElement
  <2>3. Cardinality(PastSend) <= Cardinality(Users) - 1 /\ Cardinality(PastSend) \in Nat
    BY <2>1, <2>2, FS_Subset, FS_CardinalityType
  <2> QED BY <2>3 DEF Counted
<1> QED
  BY <1>1, <1>2

\* Who changes the id counter.
LEMMA LastIDStep ==
  ASSUME TypeOK, Next, lastID' # lastID
  PROVE  \E a \in Users : attach(a) \/ (Sends(a) /\ Running /\ lastID' = lastID + 1)
<1>1. ASSUME NEW a \in Users, Act(a)
      PROVE  attach(a) \/ (Sends(a) /\ Running /\ lastID' = lastID + 1)
  <2>1. CASE \/ acquire(a) \/ acquireCancelled(a) \/ ensureStarted(a) \/ startProcess(a)
             \/ HandshakeFails(a) \/ notifyInitialized(a) \/ handshakeReturns(a)
    BY <2>1 DEF acquire, acquireCancelled, ensureStarted, startProcess, HandshakeFails,
       notifyInitialized, handshakeReturns
  <2>2. CASE \/ release(a) \/ releaseFailed(a) \/ giveUp(a) \/ finish(a) \/ Cancel(a)
             \/ Awaits(a) \/ Writes(a) \/ WritesFail(a)
    BY <2>2 DEF release, releaseFailed, giveUp, finish, Cancel, Awaits, await, Writes, writeOk,
       WritesFail, writeFailed
  <2>3. CASE Sends(a)
    BY <2>3 DEF Sends, send, Register
  <2> QED BY <1>1, <2>1, <2>2, <2>3 DEF Act
<1> QED
  BY <1>1, NextSteps DEF stop, TakeTransport, KillTransport, Reaps, JoinReader, Wait, readLoop,
     finishReader, Ends, Exit, DescendantsExit, vars

LEMMA CountedStep ==
  ASSUME TypeOK, Admission, Counted, Next
  PROVE  Counted'
<1> USE IdsFacts DEF TypeOK
<1>1. /\ PastSend \subseteq PastSend' /\ IsFiniteSet(PastSend')
      /\ Cardinality(PastSend) <= Cardinality(PastSend')
      /\ Cardinality(PastSend) \in Nat /\ Cardinality(PastSend') \in Nat
  <2>1. IsFiniteSet(PastSend')
    BY FS_Subset DEF PastSend
  <2> QED BY <2>1, PastSendGrows, FS_Subset, FS_CardinalityType
<1>2. ASSUME NEW a \in Users, attach(a) PROVE Counted'
  BY <1>1, <1>2 DEF Counted, attach
<1>3. ASSUME NEW a \in Users, Sends(a), Running, lastID' = lastID + 1 PROVE Counted'
  <2>1. \A b \in Users : b # a => pc[b] # "initSend" /\ pc'[b] # "initSend"
    BY <1>3 DEF Sends, send, At, Goto, Admission, Holding, Actors
  <2>2. CASE pc[a] = "initSend"
    BY <1>1, <1>3, <2>1, <2>2 DEF Sends, send, At, Goto, Counted, Actors
  <2>3. CASE pc[a] = "send"
    <3>1. a \notin PastSend /\ a \in PastSend' /\ pc'[a] = "write"
      BY <1>3, <2>3 DEF Sends, send, At, Goto, PastSend, CallSent, Actors
    <3>2. Cardinality(PastSend) # Cardinality(PastSend')
      BY <1>1, <3>1, FS_Subset
    <3> QED BY <1>1, <1>3, <2>1, <3>1, <3>2 DEF Counted
  <2> QED BY <1>3, <2>2, <2>3 DEF Sends, send, At
<1>4. CASE lastID' = lastID
  <2>1. CASE \E a \in Users : Act(a)
    <3>1. PICK a \in Users : Act(a)
      BY <2>1
    <3>2. CASE attach(a)
      BY <1>2, <3>2
    <3>3. CASE startProcess(a)
      BY SMTT(30), <1>1, <1>4, <3>3, OthersStay DEF startProcess, Goto, Counted, At, Actors
    <3>4. CASE ~attach(a) /\ ~startProcess(a)
      <4>1. \A b \in Users : pc'[b] = "initSend" => pc[b] = "initSend"
        <5>1. \A b \in Users : b # a => pc'[b] = pc[b]
          BY <3>1, OthersStay DEF Actors
        <5>2. pc'[a] # "initSend" \/ pc[a] = "initSend"
          BY <3>1, <3>4, PlainStep
        <5> QED BY <5>1, <5>2
      <4> QED BY <1>1, <1>4, <4>1 DEF Counted
    <3> QED BY <3>2, <3>3, <3>4
  <2>2. CASE \E a \in Actors : stop(a) \/ TakeTransport(a) \/ KillTransport(a) \/ Reaps(a)
    <3>1. \A b \in Users : pc'[b] = "initSend" => pc[b] = "initSend"
      BY <2>2, ActorsAssumption
         DEF stop, TakeTransport, KillTransport, Reaps, JoinReader, Wait, CallTeardown, Goto, Actors
    <3> QED BY <1>1, <1>4, <3>1 DEF Counted
  <2>3. CASE UNCHANGED pc
    BY <1>1, <1>4, <2>3 DEF Counted
  <2> QED
    BY <2>1, <2>2, <2>3, NextSteps DEF readLoop, finishReader, Ends, Exit, DescendantsExit, vars
<1> QED
  BY <1>2, <1>3, <1>4, LastIDStep
-----------------------------------------------------------------------------
(***************************************************************************)
(* Requests and answers.                                                   *)
(***************************************************************************)
Records == [gen : Gens, id : Ids]

\* How steps change the table: not at all, by a new entry, by removals, or by a
\* new table.
LEMMA TableStep ==
  ASSUME TypeOK, Next
  PROVE  \/ UNCHANGED <<cur, lastID, pending>>
         \/ \E a \in Users : Sends(a) /\ Running
         \/ \E a \in Users : attach(a)
         \/ \E a \in Actors : TakeTransport(a)
         \/ /\ UNCHANGED <<cur, lastID>>
            /\ \E i \in Nat : pending' = [pending EXCEPT ![i] = None]
<1>1. ASSUME NEW a \in Users, Act(a)
      PROVE  \/ UNCHANGED <<cur, lastID, pending>>
             \/ Sends(a) /\ Running
             \/ attach(a)
             \/ /\ UNCHANGED <<cur, lastID>>
                /\ \E i \in Nat : pending' = [pending EXCEPT ![i] = None]
  <2>1. CASE \/ acquire(a) \/ acquireCancelled(a) \/ ensureStarted(a) \/ startProcess(a)
             \/ HandshakeFails(a) \/ notifyInitialized(a)
    BY <2>1 DEF acquire, acquireCancelled, ensureStarted, startProcess, HandshakeFails,
       notifyInitialized, fields
  <2>2. CASE \/ release(a) \/ releaseFailed(a) \/ finish(a) \/ Cancel(a)
             \/ Awaits(a) \/ Writes(a) \/ WritesFail(a)
    BY <2>2 DEF release, releaseFailed, finish, Cancel, Awaits, await, Writes, writeOk,
       WritesFail, writeFailed, fields
  <2>3. CASE Sends(a)
    BY <2>3 DEF Sends, send
  <2>4. CASE handshakeReturns(a) \/ giveUp(a)
    <3>1. /\ UNCHANGED <<cur, lastID>> /\ req[mine(a)].id \in Nat
          /\ pending' = [pending EXCEPT ![req[mine(a)].id] = None]
      BY <2>4, MineFacts, IdsFacts DEF handshakeReturns, giveUp, deregister, TypeOK
    <3> QED BY <3>1
  <2> QED BY <1>1, <2>1, <2>2, <2>3, <2>4 DEF Act
<1>2. ASSUME NEW again \in BOOLEAN, readLoop(again)
      PROVE  /\ UNCHANGED <<cur, lastID>>
             /\ \E i \in Nat : pending' = [pending EXCEPT ![i] = None]
  <2>1. PICK m \in wire : route(m[1].id, m[2])
    BY <1>2 DEF readLoop
  <2>2. m[1].id \in Nat
    BY IdsFacts DEF TypeOK
  <2> QED BY <1>2, <2>1, <2>2 DEF readLoop, route
<1> QED
  BY <1>1, <1>2, NextSteps DEF stop, KillTransport, Reaps, JoinReader, Wait, finishReader, Ends,
     Exit, DescendantsExit, vars, fields

\* A reader that has started does not unstart.
LEMMA ReaderStep ==
  ASSUME TypeOK, Next, NEW g \in Gens, reader[g] # "none"
  PROVE  reader'[g] # "none"
<1> USE DEF TypeOK
<1>1. ASSUME NEW a \in Users, Act(a) PROVE reader'[g] # "none"
  BY <1>1, PlainStep DEF attach, startProcess
<1> QED
  BY ZenonT(60), <1>1, NextSteps DEF stop, TakeTransport, KillTransport, Reaps, JoinReader, Wait,
     readLoop, finishReader, Ends, Exit, DescendantsExit, vars, procs

LEMMA GivenStep ==
  ASSUME TypeOK, Admission, Transports, Counted, Next,
         NEW r \in Records, NEW k \in Requests, Given(r, k)
  PROVE  Given(r, k)'
<1> USE MaxGensAssumption, IdsFacts DEF TypeOK, Records, Given
<1>1. reader'[r.gen] # "none"
  BY ReaderStep
<1>2. CASE UNCHANGED <<cur, lastID, pending>>
  BY <1>1, <1>2
<1>3. ASSUME NEW a \in Users, Sends(a), Running PROVE Given(r, k)'
  <2>1. /\ cur' = cur /\ lastID' = lastID + 1
        /\ pending' = [pending EXCEPT ![lastID + 1] = mine(a)]
    BY <1>3 DEF Sends, send, Register
  <2> QED BY <1>1, <2>1
<1>4. ASSUME NEW a \in Users, attach(a) PROVE Given(r, k)'
  <2>1. cur' = gens /\ Attaching
    BY <1>4 DEF attach, At, Attaching
  <2>2. r.gen # gens
    BY <2>1 DEF Transports
  <2> QED BY <1>1, <2>1, <2>2
<1>5. ASSUME NEW a \in Actors, TakeTransport(a) PROVE Given(r, k)'
  <2>1. cur' = 0
    BY <1>5 DEF TakeTransport
  <2> QED BY <1>1, <2>1 DEF Gens
<1>6. CASE /\ UNCHANGED <<cur, lastID>>
           /\ \E i \in Nat : pending' = [pending EXCEPT ![i] = None]
  BY <1>1, <1>6
<1> QED
  BY <1>2, <1>3, <1>4, <1>5, <1>6, TableStep

\* How steps change the requests.
LEMMA ReqStep ==
  ASSUME TypeOK, Next
  PROVE  \/ UNCHANGED req
         \/ \E a \in Users : Sends(a) /\ Running
         \/ \E a \in Users : /\ pc'[a] = "returned"
                             /\ req' = [k \in Requests |-> IF k[1] = a THEN NoRequest ELSE req[k]]
<1>1. ASSUME NEW a \in Users, Act(a)
      PROVE  \/ UNCHANGED req
             \/ Sends(a) /\ Running
             \/ /\ pc'[a] = "returned"
                /\ req' = [k \in Requests |-> IF k[1] = a THEN NoRequest ELSE req[k]]
  <2>1. CASE \/ acquire(a) \/ acquireCancelled(a) \/ ensureStarted(a) \/ startProcess(a)
             \/ HandshakeFails(a) \/ notifyInitialized(a) \/ attach(a) \/ handshakeReturns(a)
    BY <2>1 DEF acquire, acquireCancelled, ensureStarted, startProcess, HandshakeFails,
       notifyInitialized, attach, handshakeReturns
  <2>2. CASE \/ release(a) \/ releaseFailed(a) \/ giveUp(a) \/ Cancel(a)
             \/ Awaits(a) \/ Writes(a) \/ WritesFail(a)
    BY <2>2 DEF release, releaseFailed, giveUp, Cancel, Awaits, await, Writes, writeOk,
       WritesFail, writeFailed
  <2>3. CASE Sends(a)
    BY <2>3 DEF Sends, send
  <2>4. CASE finish(a)
    BY <2>4 DEF finish, Goto, TypeOK, Actors
  <2> QED BY <1>1, <2>1, <2>2, <2>3, <2>4 DEF Act
<1> QED
  BY <1>1, NextSteps DEF stop, TakeTransport, KillTransport, Reaps, JoinReader, Wait, readLoop,
     finishReader, Ends, Exit, DescendantsExit, vars

\* Who enters the places where a request is registered.
LEMMA SentStep ==
  ASSUME TypeOK, Next, NEW b \in Users
  PROVE  /\ pc'[b] \in InitSent => pc[b] \in InitSent \/ (Sends(b) /\ Running /\ pc[b] = "initSend")
         /\ pc'[b] \in CallSent => pc[b] \in CallSent \/ (Sends(b) /\ Running /\ pc[b] = "send")
<1> USE DEF TypeOK, InitSent, CallSent, Goto, At, CallTeardown, Actors
<1>1. ASSUME NEW a \in Users, Act(a), a # b PROVE pc'[b] = pc[b]
  BY <1>1, OthersStay
<1>2. CASE Act(b)
  <2>1. CASE acquire(b) \/ acquireCancelled(b) \/ ensureStarted(b) \/ startProcess(b) \/ attach(b)
    BY <2>1 DEF acquire, acquireCancelled, ensureStarted, startProcess, attach, Started
  <2>2. CASE HandshakeFails(b) \/ notifyInitialized(b) \/ handshakeReturns(b)
    BY <2>2 DEF HandshakeFails, notifyInitialized, handshakeReturns, Started
  <2>3. CASE release(b) \/ releaseFailed(b) \/ giveUp(b) \/ finish(b) \/ Cancel(b)
    BY <2>3 DEF release, releaseFailed, giveUp, finish, Cancel
  <2>4. CASE Sends(b)
    BY <2>4 DEF Sends, send
  <2>5. CASE Awaits(b)
    BY <2>5 DEF Awaits, await
  <2>6. CASE Writes(b) \/ WritesFail(b)
    BY <2>6 DEF Writes, WritesFail, writeOk, writeFailed
  <2> QED
    BY <1>2, <2>1, <2>2, <2>3, <2>4, <2>5, <2>6 DEF Act
<1>3. ASSUME NEW a \in Actors, stop(a) PROVE pc'[b] = pc[b]
  BY <1>3, ActorsAssumption DEF stop
<1>4. CASE UNCHANGED pc
  BY <1>4
<1> QED
  BY <1>1, <1>2, <1>3, <1>4, NextSteps DEF TakeTransport, KillTransport, Reaps, JoinReader, Wait,
     readLoop,
     finishReader, Ends, Exit, DescendantsExit, vars

\* What goes on the wire is what its sender has registered.
LEMMA WireStep ==
  ASSUME TypeOK, Requested, Next
  PROVE  \A m \in wire' : m \in wire \/ \E k \in Requests : m = <<req[k], k>> /\ req[k].gen # 0
<1>1. ASSUME NEW a \in Users, Writes(a)
      PROVE  \A m \in wire' : m \in wire \/ \E k \in Requests : m = <<req[k], k>> /\ req[k].gen # 0
  <2>1. mine(a) \in Requests /\ req[mine(a)].gen # 0
    <3>1. pc[a] \in {"initWrite", "notifyWrite", "write"}
      BY <1>1 DEF Writes, writeOk, At
    <3> QED BY <3>1, MineFacts DEF Requested, InitSent, CallSent
  <2> QED BY <1>1, <2>1 DEF Writes, writeOk
<1>2. ASSUME NEW a \in Users, Act(a), ~Writes(a) PROVE wire' = wire
  <2>1. CASE \/ acquire(a) \/ acquireCancelled(a) \/ ensureStarted(a) \/ startProcess(a)
             \/ HandshakeFails(a) \/ notifyInitialized(a) \/ attach(a) \/ handshakeReturns(a)
    BY <2>1 DEF acquire, acquireCancelled, ensureStarted, startProcess, HandshakeFails,
       notifyInitialized, attach, handshakeReturns
  <2>2. CASE \/ release(a) \/ releaseFailed(a) \/ giveUp(a) \/ Cancel(a) \/ finish(a)
             \/ Awaits(a) \/ WritesFail(a) \/ Sends(a)
    BY <2>2 DEF release, releaseFailed, giveUp, Cancel, finish, Awaits, await, WritesFail,
       writeFailed, Sends, send
  <2> QED BY <1>2, <2>1, <2>2 DEF Act
<1> QED
  BY <1>1, <1>2, NextSteps DEF stop, TakeTransport, KillTransport, Reaps, JoinReader, Wait,
     readLoop,
     finishReader, Ends, Exit, DescendantsExit, vars

\* A new entry is under a new id.
LEMMA SendGiven ==
  ASSUME TypeOK, Transports, Requested, Counted, NEW a \in Users, Sends(a), Running
  PROVE  \E r \in Records, k \in Requests :
           k = mine(a) /\ req' = [req EXCEPT ![k] = r] /\ Given(r, k)'
<1> USE MaxGensAssumption, IdsFacts DEF TypeOK
<1>1. PICK k \in Requests : k = mine(a)
  BY MineFacts
<1>2. lastID + 1 \in Ids /\ cur \in Gens
  BY NextId DEF Sends, send, At, Running, Gens
<1>3. PICK r \in Records : r = [gen |-> cur, id |-> lastID + 1]
  BY <1>2 DEF Records
<1>4. /\ req' = [req EXCEPT ![k] = r] /\ cur' = cur /\ lastID' = lastID + 1
      /\ pending' = [pending EXCEPT ![lastID + 1] = k] /\ reader' = reader
  BY <1>1, <1>3 DEF Sends, send, Register, procs
<1>5. r.gen = cur /\ r.id = lastID + 1 /\ r.id \in Ids /\ reader[cur] # "none"
  BY <1>2, <1>3 DEF Running, Transports
<1>6. reader'[r.gen] # "none" /\ r.id <= lastID' /\ pending'[r.id] = k
  BY <1>2, <1>4, <1>5
<1>7. Given(r, k)'
  BY <1>5, <1>6 DEF Given
<1> QED BY <1>1, <1>4, <1>7

LEMMA RequestedStep ==
  ASSUME TypeOK, Admission, Transports, Requested, Counted, Next
  PROVE  Requested'
<1> USE MaxGensAssumption, IdsFacts DEF TypeOK
<1>1. ASSUME NEW k \in Requests, req'[k].gen # 0 PROVE Given(req[k], k)'
  <2>1. ASSUME req'[k] = req[k] PROVE Given(req[k], k)'
    <3>1. PICK r : r = req[k]
      OBVIOUS
    <3>2. Given(r, k) /\ r \in Records
      BY <1>1, <2>1, <3>1 DEF Requested, Given, Records, Gens
    <3>3. Given(r, k)'
      BY <3>2, GivenStep
    <3> QED BY <2>1, <3>1, <3>3 DEF Given
  <2>2. CASE UNCHANGED req
    BY <2>1, <2>2
  <2>3. ASSUME NEW a \in Users, Sends(a), Running PROVE Given(req[k], k)'
    <3>1. PICK r \in Records, j \in Requests : req' = [req EXCEPT ![j] = r] /\ Given(r, j)'
      BY <2>3, SendGiven
    <3>2. CASE j = k
      <4>1. req'[k] = r
        BY <3>1, <3>2
      <4> QED BY <3>1, <3>2, <4>1 DEF Given
    <3>3. CASE j # k
      BY <2>1, <3>1, <3>3
    <3> QED BY <3>2, <3>3
  <2>4. ASSUME NEW a \in Users,
               req' = [i \in Requests |-> IF i[1] = a THEN NoRequest ELSE req[i]]
        PROVE  Given(req[k], k)'
    BY <1>1, <2>1, <2>4 DEF NoRequest
  <2> QED BY <2>2, <2>3, <2>4, ReqStep
<1>2. ASSUME NEW m \in wire' PROVE Given(m[1], m[2])'
  <2>1. m[1] \in Records /\ m[2] \in Requests /\ Given(m[1], m[2])
    <3>1. CASE m \in wire
      BY <3>1 DEF Requested, Records
    <3>2. ASSUME NEW k \in Requests, m = <<req[k], k>>, req[k].gen # 0
          PROVE  m[1] \in Records /\ m[2] \in Requests /\ Given(m[1], m[2])
      BY <3>2 DEF Requested, Given, Records, Gens
    <3> QED BY <3>1, <3>2, WireStep
  <2> QED BY <2>1, GivenStep
<1>3. ASSUME NEW b \in Users
      PROVE  /\ pc'[b] \in InitSent => req'[<<b, "init">>].gen # 0
             /\ pc'[b] \in CallSent => req'[<<b, "call">>].gen # 0
  <2>1. <<b, "init">> \in Requests /\ <<b, "call">> \in Requests
    BY DEF Requests
  <2>2. CASE Sends(b) /\ Running
    <3>1. PICK r \in Records, j \in Requests : j = mine(b) /\ req' = [req EXCEPT ![j] = r]
      BY <2>2, SendGiven
    <3>2. r.gen # 0
      BY DEF Records, Gens
    <3>3. mine(b) = IF pc[b] = "initSend" THEN <<b, "init">> ELSE <<b, "call">>
      BY <2>2, MineFacts DEF Sends, send, At, InitSent
    <3>4. pc'[b] = IF pc[b] = "initSend" THEN "initWrite" ELSE "write"
      BY <2>2 DEF Sends, send, At, Goto, Actors, Running
    <3> QED BY <2>1, <3>1, <3>2, <3>3, <3>4 DEF InitSent, CallSent
  <2>3. CASE ~(Sends(b) /\ Running)
    <3>1. /\ pc'[b] \in InitSent => pc[b] \in InitSent
          /\ pc'[b] \in CallSent => pc[b] \in CallSent
      BY <2>3, SentStep
    <3>2. CASE pc'[b] \in InitSent \cup CallSent
      <4>1. CASE UNCHANGED req
        BY <3>1, <4>1 DEF Requested
      <4>2. ASSUME NEW a \in Users, Sends(a), Running
            PROVE  UNCHANGED <<req[<<b, "init">>], req[<<b, "call">>]>>
        <5>1. a # b
          BY <2>3, <4>2
        <5>2. PICK r \in Records, j \in Requests : j = mine(a) /\ req' = [req EXCEPT ![j] = r]
          BY <4>2, SendGiven
        <5>3. j[1] = a
          BY <5>2, MineFacts
        <5> QED BY <2>1, <5>1, <5>2, <5>3
      <4>3. ASSUME NEW a \in Users, pc'[a] = "returned",
                   req' = [k \in Requests |-> IF k[1] = a THEN NoRequest ELSE req[k]]
            PROVE  UNCHANGED <<req[<<b, "init">>], req[<<b, "call">>]>>
        BY <2>1, <3>2, <4>3 DEF InitSent, CallSent
      <4> QED BY ZenonT(60), <3>1, <4>1, <4>2, <4>3, ReqStep DEF Requested
    <3> QED BY <3>2
  <2> QED BY <2>2, <2>3
<1> QED
  BY <1>1, <1>2, <1>3 DEF Requested

\* Only the reader puts an answer into a channel.
LEMMA ChanStep ==
  ASSUME TypeOK, Next, NEW k \in Requests
  PROVE  \/ chan'[k] \in {chan[k], Empty, Error}
         \/ \E m \in wire : /\ reader[m[1].gen] = "running"
                            /\ pending[m[1].id] = k /\ chan'[k] = m[2]
<1> USE DEF TypeOK
<1>1. ASSUME NEW a \in Users, Act(a) PROVE chan'[k] \in {chan[k], Empty}
  <2>1. CASE \/ acquire(a) \/ acquireCancelled(a) \/ ensureStarted(a) \/ startProcess(a)
             \/ HandshakeFails(a) \/ notifyInitialized(a) \/ attach(a) \/ handshakeReturns(a)
    BY <2>1 DEF acquire, acquireCancelled, ensureStarted, startProcess, HandshakeFails,
       notifyInitialized, attach, handshakeReturns
  <2>2. CASE \/ release(a) \/ releaseFailed(a) \/ giveUp(a) \/ Cancel(a)
             \/ Writes(a) \/ WritesFail(a)
    BY <2>2 DEF release, releaseFailed, giveUp, Cancel, Writes, writeOk, WritesFail, writeFailed
  <2>3. CASE finish(a)
    BY <2>3 DEF finish
  <2>4. CASE Sends(a)
    BY <2>4 DEF Sends, send, Register
  <2>5. CASE Awaits(a)
    BY <2>5 DEF Awaits, await
  <2> QED BY <1>1, <2>1, <2>2, <2>3, <2>4, <2>5 DEF Act
<1>2. ASSUME NEW again \in BOOLEAN, readLoop(again)
      PROVE  \/ chan'[k] = chan[k]
             \/ \E m \in wire : /\ reader[m[1].gen] = "running"
                                /\ pending[m[1].id] = k /\ chan'[k] = m[2]
  <2>1. PICK m \in wire : reader[m[1].gen] = "running" /\ route(m[1].id, m[2])
    BY <1>2 DEF readLoop
  <2> QED BY <2>1 DEF route
<1>3. ASSUME NEW g \in Gens, finishReader(g) PROVE chan'[k] \in {chan[k], Error}
  BY <1>3 DEF finishReader
<1> QED
  BY <1>1, <1>2, <1>3, NextSteps DEF stop, TakeTransport, KillTransport, Reaps, JoinReader, Wait,
     Ends, Exit, DescendantsExit, vars

LEMMA OwnAnswerStep ==
  ASSUME TypeOK, Teardowns, Transports, Requested, OwnAnswer, Next
  PROVE  OwnAnswer'
<1> SUFFICES ASSUME NEW k \in Requests PROVE chan'[k] \in {Empty, Error, k}
  BY DEF OwnAnswer
<1>1. ASSUME NEW m \in wire, reader[m[1].gen] = "running", pending[m[1].id] = k
      PROVE  m[2] = k
  <2>1. m[1].gen \in Gens /\ m[1].id \in Ids /\ m[1].gen # 0
    BY DEF TypeOK, Gens
  <2>2. k # None
    BY ActorsAssumption DEF Requests
  <2>3. cur # 0
    BY <1>1, <2>1, <2>2 DEF TypeOK, NoPending
  <2>4. cur = m[1].gen
    BY <1>1, <2>1, <2>3 DEF Transports, Joining, Teardowns
  <2> QED BY <1>1, <2>2, <2>4 DEF Requested, Given
<1> QED
  BY <1>1, ChanStep DEF OwnAnswer
-----------------------------------------------------------------------------
Places == {"acquire", "ensure", "spawn", "attach", "initSend", "initFail",
           "initWrite", "initAwait", "initNotify", "notifyWrite", "initUndo",
           "initDone", "started", "send", "write", "written", "await", "answered",
           "unanswered", "undo", "fail", "errored", "finish", "returned"}

LEMMA TypeStep ==
  ASSUME TypeOK, Transports, Requested, Counted, Next
  PROVE  TypeOK'
<1> USE MaxGensAssumption, IdsFacts
<1>1. pending' \in [Ids -> Requests \cup {None}] /\ (cur' = 0 => pending' = NoPending)
  <2>1. CASE UNCHANGED <<cur, lastID, pending>>
    BY <2>1 DEF TypeOK
  <2>2. ASSUME NEW a \in Users, Sends(a), Running
        PROVE  pending' \in [Ids -> Requests \cup {None}] /\ cur' # 0
    <3>1. PICK k \in Requests : k = mine(a)
      BY MineFacts
    <3>2. pending' = [pending EXCEPT ![lastID + 1] = k] /\ cur' = cur /\ cur # 0
      BY <2>2, <3>1 DEF Sends, send, Register, Running
    <3> QED BY <3>2 DEF TypeOK
  <2>3. ASSUME NEW a \in Users, attach(a)
        PROVE  pending' \in [Ids -> Requests \cup {None}] /\ pending' = NoPending
    BY <2>3 DEF attach, NoPending
  <2>4. ASSUME NEW a \in Actors, TakeTransport(a)
        PROVE  pending' \in [Ids -> Requests \cup {None}] /\ pending' = NoPending
    BY <2>4 DEF TakeTransport, NoPending
  <2>5. CASE /\ UNCHANGED <<cur, lastID>>
             /\ \E i \in Nat : pending' = [pending EXCEPT ![i] = None]
    <3>1. PICK i \in Nat : pending' = [pending EXCEPT ![i] = None]
      BY <2>5
    <3>2. pending' \in [Ids -> Requests \cup {None}]
      BY <3>1 DEF TypeOK
    <3>3. ASSUME cur = 0 PROVE pending' = NoPending
      <4>1. \A j \in Ids : pending'[j] = None
        BY <3>1, <3>3 DEF TypeOK, NoPending
      <4> QED BY <3>2, <4>1 DEF NoPending
    <3> QED BY <2>5, <3>2, <3>3
  <2> QED BY <2>1, <2>2, <2>3, <2>4, <2>5, TableStep
<1>2. lastID' \in 0..Cardinality(Ids)
  <2>1. ASSUME NEW a \in Users, attach(a) PROVE lastID' = 0
    BY <2>1 DEF attach
  <2>2. ASSUME NEW a \in Users, Sends(a), Running, lastID' = lastID + 1 PROVE lastID' \in Ids
    BY <2>2, NextId DEF Sends, send, At
  <2> QED BY <2>1, <2>2, LastIDStep DEF TypeOK
<1>3. req' \in [Requests -> [gen : 0..MaxGens, id : 0..Cardinality(Ids)]]
  <2>1. CASE UNCHANGED req
    BY <2>1 DEF TypeOK
  <2>2. ASSUME NEW a \in Users, Sends(a), Running
        PROVE  req' \in [Requests -> [gen : 0..MaxGens, id : 0..Cardinality(Ids)]]
    <3>1. PICK r \in Records, j \in Requests : req' = [req EXCEPT ![j] = r]
      BY <2>2, SendGiven
    <3>2. r \in [gen : 0..MaxGens, id : 0..Cardinality(Ids)]
      BY DEF Records, Gens
    <3> QED BY <3>1, <3>2 DEF TypeOK
  <2>3. ASSUME NEW a \in Users,
               req' = [k \in Requests |-> IF k[1] = a THEN NoRequest ELSE req[k]]
        PROVE  req' \in [Requests -> [gen : 0..MaxGens, id : 0..Cardinality(Ids)]]
    <3>1. NoRequest \in [gen : 0..MaxGens, id : 0..Cardinality(Ids)]
      BY DEF NoRequest
    <3> QED BY <2>3, <3>1 DEF TypeOK
  <2> QED BY <2>1, <2>2, <2>3, ReqStep
<1>4. wire' \subseteq [gen : Gens, id : Ids] \X Requests
  <2>1. ASSUME NEW k \in Requests, req[k].gen # 0
        PROVE  <<req[k], k>> \in [gen : Gens, id : Ids] \X Requests
    BY <2>1 DEF TypeOK, Requested, Given, Gens
  <2> QED BY <2>1, WireStep DEF TypeOK
<1>5. chan' \in [Requests -> {Empty, Error} \cup Requests]
  <2>1. \A k \in Requests : chan'[k] \in {Empty, Error} \cup Requests
    <3>1. \A m \in wire : m[2] \in Requests
      BY DEF TypeOK
    <3> QED BY ZenonT(60), <3>1, ChanStep DEF TypeOK
  <2>2. DOMAIN chan' = Requests /\ chan' = [k \in Requests |-> chan'[k]]
    <3>1. ASSUME NEW a \in Users, Act(a) PROVE chan' = [k \in Requests |-> chan'[k]]
      <4>1. CASE \/ acquire(a) \/ acquireCancelled(a) \/ ensureStarted(a) \/ startProcess(a)
                 \/ HandshakeFails(a) \/ notifyInitialized(a) \/ attach(a) \/ handshakeReturns(a)
        BY <4>1 DEF acquire, acquireCancelled, ensureStarted, startProcess, HandshakeFails,
           notifyInitialized, attach, handshakeReturns, TypeOK
      <4>2. CASE \/ release(a) \/ releaseFailed(a) \/ giveUp(a) \/ Cancel(a)
                 \/ Writes(a) \/ WritesFail(a)
        BY <4>2 DEF release, releaseFailed, giveUp, Cancel, Writes, writeOk, WritesFail,
           writeFailed, TypeOK
      <4>3. CASE finish(a)
        BY <4>3 DEF finish, TypeOK
      <4>4. CASE Sends(a)
        BY <4>4 DEF Sends, send, Register, TypeOK
      <4>5. CASE Awaits(a)
        BY <4>5 DEF Awaits, await, TypeOK
      <4> QED BY <3>1, <4>1, <4>2, <4>3, <4>4, <4>5 DEF Act
    <3>2. ASSUME NEW again \in BOOLEAN, readLoop(again) PROVE chan' = [k \in Requests |-> chan'[k]]
      BY <3>2 DEF readLoop, route, TypeOK
    <3>3. ASSUME NEW g \in Gens, finishReader(g) PROVE chan' = [k \in Requests |-> chan'[k]]
      BY <3>3 DEF finishReader
    <3> QED
      BY <3>1, <3>2, <3>3, NextSteps DEF stop, TakeTransport, KillTransport, Reaps, JoinReader,
         Wait, Ends, Exit, DescendantsExit,
         vars, TypeOK
  <2> QED BY <2>1, <2>2
<1>6. /\ cur' \in 0..MaxGens /\ gens' \in 0..MaxGens
      /\ proc' \in [Gens -> {"none", "running", "exited"}]
      /\ reader' \in [Gens -> {"none", "running", "done"}]
      /\ torn' \in [Actors -> 0..MaxGens]
  <2> USE DEF TypeOK
  <2>1. ASSUME NEW a \in Users, Act(a)
        PROVE  /\ cur' \in 0..MaxGens /\ gens' \in 0..MaxGens
               /\ proc' \in [Gens -> {"none", "running", "exited"}]
               /\ reader' \in [Gens -> {"none", "running", "done"}]
    <3>1. CASE attach(a)
      BY <3>1 DEF attach
    <3>2. CASE startProcess(a)
      <4>1. /\ UNCHANGED <<cur, reader>>
            /\ \/ gens < MaxGens /\ gens' = gens + 1 /\ proc' = [proc EXCEPT ![gens + 1] = "running"]
               \/ UNCHANGED <<gens, proc>>
        BY <3>2 DEF startProcess, fields
      <4>2. CASE UNCHANGED <<gens, proc>>
        BY <4>1, <4>2
      <4>3. CASE gens < MaxGens /\ gens' = gens + 1 /\ proc' = [proc EXCEPT ![gens + 1] = "running"]
        <5>1. gens' \in 0..MaxGens /\ cur' \in 0..MaxGens
          BY <4>1, <4>3
        <5>2. proc' \in [Gens -> {"none", "running", "exited"}]
          BY <4>3
        <5> QED BY <4>1, <5>1, <5>2
      <4> QED BY <4>1, <4>2, <4>3
    <3>3. CASE ~attach(a) /\ ~startProcess(a)
      BY <2>1, <3>3, PlainStep
    <3> QED BY <3>1, <3>2, <3>3
  <2>2. ASSUME NEW a \in Users, Act(a) PROVE torn' = torn
    BY <2>2, OthersStay
  <2>3. ASSUME NEW a \in Actors, stop(a) \/ TakeTransport(a) \/ KillTransport(a) \/ Reaps(a)
        PROVE  /\ cur' \in 0..MaxGens /\ gens' \in 0..MaxGens
               /\ proc' \in [Gens -> {"none", "running", "exited"}]
               /\ reader' \in [Gens -> {"none", "running", "done"}]
               /\ torn' \in [Actors -> 0..MaxGens]
    <3>1. CASE stop(a)
      BY <3>1 DEF stop, fields, procs
    <3>2. CASE TakeTransport(a)
      BY <3>2 DEF TakeTransport, procs
    <3>3. CASE KillTransport(a)
      BY <3>3 DEF KillTransport, fields
    <3>4. CASE Reaps(a)
      BY <3>4 DEF Reaps, JoinReader, Wait, fields, procs
    <3> QED BY <2>3, <3>1, <3>2, <3>3, <3>4
  <2> QED
    BY <2>1, <2>2, <2>3, NextSteps DEF readLoop, finishReader, Ends, Exit, DescendantsExit, vars,
       fields, procs
<1>7. /\ admit' \in Users \cup {None} /\ stopMu' \in Actors \cup {None} /\ dead' \in BOOLEAN
      /\ stage' \in {"start", "list", "done"} /\ cancelled' \subseteq Users
  <2> USE DEF TypeOK
  <2>1. ASSUME NEW a \in Users, Act(a)
        PROVE  /\ admit' \in Users \cup {None} /\ dead' \in BOOLEAN
               /\ stage' \in {"start", "list", "done"} /\ cancelled' \subseteq Users
    <3>1. CASE \/ acquire(a) \/ acquireCancelled(a) \/ ensureStarted(a) \/ startProcess(a)
               \/ HandshakeFails(a) \/ notifyInitialized(a) \/ attach(a) \/ handshakeReturns(a)
      BY <3>1 DEF acquire, acquireCancelled, ensureStarted, startProcess, HandshakeFails,
         notifyInitialized, attach, handshakeReturns, fields
    <3>2. CASE release(a) \/ releaseFailed(a) \/ giveUp(a) \/ Cancel(a) \/ finish(a)
      BY <3>2 DEF release, releaseFailed, giveUp, Cancel, finish, fields
    <3>3. CASE Awaits(a) \/ Writes(a) \/ WritesFail(a) \/ Sends(a)
      BY <3>3 DEF Awaits, await, Writes, writeOk, WritesFail, writeFailed, Sends, send, fields
    <3> QED BY <2>1, <3>1, <3>2, <3>3 DEF Act
  <2>2. ASSUME NEW a \in Users, Act(a) PROVE stopMu' = stopMu
    BY <2>2, OthersStay
  <2> QED
    BY <2>1, <2>2, NextSteps DEF stop, TakeTransport, KillTransport, Reaps, JoinReader, Wait,
       readLoop,
       finishReader, Ends, Exit, DescendantsExit, vars, fields
<1>8. pc' \in [Actors -> Places] /\ tear' \in [Actors -> {"no", "lock", "kill", "join", "wait"}]
  <2>0. pc \in [Actors -> Places] /\ tear \in [Actors -> {"no", "lock", "kill", "join", "wait"}]
    BY DEF TypeOK, Places
  <2>1. ASSUME NEW a \in Users, Act(a)
        PROVE  /\ UNCHANGED pc \/ \E w \in Places : pc' = [pc EXCEPT ![a] = w]
               /\ UNCHANGED tear \/ tear' = [tear EXCEPT ![a] = "lock"]
    <3> USE DEF Places, Goto, CallTeardown
    <3>1. CASE acquire(a) \/ acquireCancelled(a)
      BY <3>1 DEF acquire, acquireCancelled
    <3>2. CASE ensureStarted(a)
      BY <3>2 DEF ensureStarted, Started
    <3>3. CASE startProcess(a) \/ attach(a)
      BY <3>3 DEF startProcess, attach
    <3>4. CASE HandshakeFails(a) \/ notifyInitialized(a)
      BY <3>4 DEF HandshakeFails, notifyInitialized
    <3>5. CASE handshakeReturns(a)
      BY <3>5 DEF handshakeReturns, Started
    <3>6. CASE release(a) \/ releaseFailed(a)
      BY <3>6 DEF release, releaseFailed
    <3>7. CASE giveUp(a)
      BY <3>7 DEF giveUp
    <3>8. CASE Cancel(a) \/ finish(a)
      BY <3>8 DEF Cancel, finish
    <3>9. CASE Awaits(a)
      BY <3>9 DEF Awaits, await
    <3>10. CASE Sends(a)
      BY <3>10 DEF Sends, send
    <3>11. CASE Writes(a)
      BY <3>11 DEF Writes, writeOk
    <3>12. CASE WritesFail(a)
      BY <3>12 DEF WritesFail, writeFailed
    <3> QED BY <2>1, <3>1, <3>2, <3>3, <3>4, <3>5, <3>6, <3>7, <3>8, <3>9, <3>10, <3>11,
       <3>12 DEF Act
  <2>2. ASSUME NEW a \in Actors, stop(a) \/ TakeTransport(a) \/ KillTransport(a) \/ Reaps(a)
        PROVE  /\ UNCHANGED pc \/ pc' = [pc EXCEPT ![a] = "returned"]
               /\ \E w \in {"no", "lock", "kill", "join", "wait"} : tear' = [tear EXCEPT ![a] = w]
    BY <2>2 DEF stop, TakeTransport, KillTransport, Reaps, JoinReader, Wait, Goto, CallTeardown
  <2>3. ASSUME NEW a \in Users, Act(a)
        PROVE  pc' \in [Actors -> Places] /\ tear' \in [Actors -> {"no", "lock", "kill", "join", "wait"}]
    BY <2>0, <2>1, <2>3
  <2>4. ASSUME NEW a \in Actors, stop(a) \/ TakeTransport(a) \/ KillTransport(a) \/ Reaps(a)
        PROVE  pc' \in [Actors -> Places] /\ tear' \in [Actors -> {"no", "lock", "kill", "join", "wait"}]
    <3>1. "returned" \in Places
      BY DEF Places
    <3> QED BY <2>0, <2>2, <2>4, <3>1
  <2> QED
    BY <2>0, <2>3, <2>4, NextSteps DEF readLoop, finishReader, Ends, Exit, DescendantsExit, vars
<1>9. held' \in [Gens -> SUBSET Pipes]
  <2> USE DEF TypeOK
  <2>1. ASSUME NEW a \in Users, Act(a) PROVE held' = held
    <3>1. CASE attach(a) \/ startProcess(a)
      BY <3>1 DEF attach, startProcess
    <3>2. CASE ~attach(a) /\ ~startProcess(a)
      BY <2>1, <3>2, PlainStep
    <3> QED BY <3>1, <3>2
  <2>2. ASSUME NEW a \in Actors, KillTransport(a) PROVE held' \in [Gens -> SUBSET Pipes]
    BY <2>2 DEF KillTransport, Pipes
  <2>3. ASSUME NEW g \in Gens, Ends(g) PROVE held' \in [Gens -> SUBSET Pipes]
    BY <2>3 DEF Ends, Exit, DescendantsExit
  <2> QED
    BY <2>1, <2>2, <2>3, NextSteps DEF stop, TakeTransport, Reaps, JoinReader, Wait, readLoop,
       finishReader, procs, vars
<1> QED
  BY <1>1, <1>2, <1>3, <1>4, <1>5, <1>6, <1>7, <1>8, <1>9 DEF TypeOK, Places

LEMMA MCPInit ==
  ASSUME Init
  PROVE  MCPInv
<1> USE MaxGensAssumption, IdsFacts
<1>0. PICK used \in SUBSET Actors :
        pc = [a \in Actors |-> IF a \in used THEN "acquire" ELSE "returned"]
  BY DEF Init
<1>1. TypeOK
  <2>1. NoRequest \in [gen : 0..MaxGens, id : 0..Cardinality(Ids)] /\ NoRequest.gen = 0
    BY DEF NoRequest
  <2>2. NoPending \in [Ids -> Requests \cup {None}]
    BY DEF NoPending
  <2>3. 0 \in 0..MaxGens /\ 0 \in 0..Cardinality(Ids)
    OBVIOUS
  <2>4. pc \in [Actors -> Places]
    BY <1>0 DEF Places
  <2> QED BY <2>1, <2>2, <2>3, <2>4 DEF Init, TypeOK, Places
<1>2. Admission /\ Teardowns /\ Spawning
  BY <1>0 DEF Init, Admission, Teardowns, Spawning, Holding, Actors
<1>3. Transports /\ Joined
  BY DEF Init, Transports, Joined, Gens
<1>4. Requested
  BY <1>0 DEF Init, Requested, NoRequest, InitSent, CallSent, Actors
<1>5. Counted
  <2>1. IsFiniteSet(PastSend)
    BY FS_Subset DEF PastSend
  <2>2. Cardinality(PastSend) \in Nat
    BY <2>1, FS_CardinalityType
  <2> QED BY <1>0, <2>2 DEF Init, Counted, Actors
<1> QED
  BY <1>1, <1>2, <1>3, <1>4, <1>5 DEF MCPInv, OwnAnswer, Init
-----------------------------------------------------------------------------
(***************************************************************************)
(* The inductive invariant, for any finite set of calls.                   *)
(***************************************************************************)
THEOREM MCPInvariant == Spec => []MCPInv
<1>1. MCPInv /\ [Next]_vars => MCPInv'
  <2>1. ASSUME MCPInv, Next PROVE MCPInv'
    BY <2>1, TypeStep, AdmissionStep, TeardownsStep, TransportsStep, JoinedStep, RequestedStep,
       CountedStep, OwnAnswerStep DEF MCPInv
  <2>2. ASSUME MCPInv, UNCHANGED vars PROVE MCPInv'
    BY <2>2 DEF vars, MCPInv, TypeOK, Admission, Teardowns, Spawning, Transports, Joined, Attaching,
       Killing, Joining, Requested, Given, Counted, PastSend, OwnAnswer
  <2> QED BY <2>1, <2>2
<1> QED
  BY <1>1, MCPInit, PTL DEF Spec

(***************************************************************************)
(* Whatever stops, failing writes and restarts overlap there is one        *)
(* process and one reader at a time, and the process is one that the next  *)
(* teardown finds (startProcess, teardown, readLoop).                      *)
(***************************************************************************)
THEOREM MCPOneTransport == Spec => []OneTransport
<1>1. MCPInv => OneTransport
  BY OneTransportHolds DEF MCPInv
<1> QED
  BY <1>1, MCPInvariant, PTL

(***************************************************************************)
(* A response line reaches the request it answers and no other, although   *)
(* ids start again with every process and callers come and go (send,       *)
(* readLoop's routing by id).                                              *)
(***************************************************************************)
THEOREM MCPOwnAnswer == Spec => []OwnAnswer
<1>1. MCPInv => OwnAnswer
  BY DEF MCPInv
<1> QED
  BY <1>1, MCPInvariant, PTL
=============================================================================
