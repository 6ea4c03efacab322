------------------------ MODULE TelegramPollingProofs ------------------------
(***************************************************************************)
(* Proofs about TelegramPolling for any stream of updates, any list of     *)
(* chats, any capacity of the channels and any number of generations and   *)
(* disturbances: PollInv is inductive, and what the run checks of polling, *)
(* hand-over and pairing follows from it.                                  *)
(***************************************************************************)
EXTENDS TelegramPolling, FiniteSetTheorems, TLAPS

(***************************************************************************)
(* The inductive invariant.                                                *)
(***************************************************************************)
\* The channel of a generation that a loop drains.
Box(g, l) == IF l = "updates" THEN gens[g].msgs ELSE gens[g].cbs
\* The worker has taken the first update of its batch and not yet handed it over.
Holds(g) == gens[g].pc \in {"answer", "handing"}

\* Only the newest generation may have a worker at work.
ChainAt(g) == /\ gens[g].closed <=> gens[g].pc = "done"
              /\ g # Len(gens) => gens[g].closed
Chain == \A g \in DOMAIN gens : ChainAt(g)

\* A batch is a run of consecutive updates that starts at the offset or before
\* it, and the update in hand is behind the offset and from a listed chat.
BatchAt(g) ==
  /\ gens[g].pc \in {"wait", "polling", "ending", "done"} => gens[g].batch = <<>>
  /\ gens[g].batch # <<>> => gens[g].batch[1] <= offset
  /\ \A i \in 1..(Len(gens[g].batch) - 1) : gens[g].batch[i + 1] = gens[g].batch[i] + 1
  /\ Holds(g) => /\ gens[g].batch # <<>> /\ gens[g].batch[1] < offset
                 /\ Stream[gens[g].batch[1]].chat \in AllowFrom
Batches == \A g \in DOMAIN gens : BatchAt(g)

\* Only a worker that the update loop started polls and hands over, and its
\* context ends before it does only by Stop or with the run.
StartAt(g) ==
  /\ gens[g].pc \notin {"wait", "ending", "done"} \/ gens[g].msgs # <<>> => gens[g].started
  /\ gens[g].started => "updates" \in gens[g].joined
  /\ gens[g].pc \notin {"ending", "done"} /\ ~gens[g].live => trouble.stop > 0
Starts == \A g \in DOMAIN gens : StartAt(g)

\* A loop stays with a generation it joined until its channel is closed and
\* empty; it waits only for a cancelled worker.
LoopsOK ==
  \A l \in Loops :
    /\ loop[l].pc \in {"waiting", "drain"} => loop[l].g \in DOMAIN gens
    /\ loop[l].pc = "waiting" => ~gens[loop[l].g].live
    /\ alive => /\ loop[l].pc # "end"
                /\ \A g \in DOMAIN gens : l \in gens[g].joined =>
                     \/ loop[l] = [pc |-> "drain", g |-> g]
                     \/ gens[g].closed /\ Box(g, l) = <<>>

\* What is in a channel comes from a listed chat, is behind the offset, is
\* there once, and has not been dispatched.
Contents ==
  \A g \in DOMAIN gens, l \in Loops : \A i \in DOMAIN Box(g, l) :
    /\ Stream[Box(g, l)[i]].chat \in AllowFrom
    /\ Box(g, l)[i] < offset
    /\ dispatched[Box(g, l)[i]] = 0
    /\ \A h \in DOMAIN gens : \A j \in DOMAIN Box(h, l) :
         Box(g, l)[i] = Box(h, l)[j] => g = h /\ i = j

\* The update in hand is in no channel and has not been dispatched, and neither
\* has an update the offset has not passed.
Fresh ==
  /\ \A g \in DOMAIN gens : Holds(g) =>
       /\ dispatched[gens[g].batch[1]] = 0
       /\ \A h \in DOMAIN gens, l \in Loops : \A i \in DOMAIN Box(h, l) :
            Box(h, l)[i] # gens[g].batch[1]
  /\ \A u \in Ids : dispatched[u] <= 1 /\ (u >= offset => dispatched[u] = 0)

\* The table of seen messages knows only messages behind the offset.
SeenOK == \A k \in seen : \E v \in Msgs : v < offset /\ Key(v) = k

\* A message that passed isDuplicate and was not given up.
Passed(v) ==
  \/ dispatched[v] > 0
  \/ \E g \in DOMAIN gens : Holds(g) /\ gens[g].batch[1] = v
  \/ \E g \in DOMAIN gens : \E i \in DOMAIN gens[g].msgs : gens[g].msgs[i] = v
PassedAs(k) == {v \in Msgs : Key(v) = k /\ Passed(v)}

\* One message of a key passes for each time the key is forgotten, and one
\* more while it is known.
PassedOnce ==
  \A u \in Msgs : Cardinality(PassedAs(Key(u))) <= trouble.expiry + (IF Key(u) \in seen THEN 1 ELSE 0)

\* Dispatched updates come from listed chats, served ones from authorized chats.
GateOK ==
  \A u \in Ids : /\ disp[u].pc # "none" => Stream[u].chat \in AllowFrom
                 /\ disp[u].pc = "none" => disp[u].x = ""
                 /\ disp[u].x \in {"served", "remembered"} => Stream[u].chat \in authorized

\* What concerns the generations, without the breaker and the pairing gate.
PollOK ==
  /\ Chain /\ Batches /\ Starts /\ LoopsOK /\ Contents /\ Fresh /\ SeenOK /\ NoSilentLoss

PollInv ==
  /\ TypeOK
  /\ PollOK
  /\ PassedOnce
  /\ GateOK
-----------------------------------------------------------------------------
(***************************************************************************)
(* What the steps do to the generations.                                   *)
(***************************************************************************)
\* Two records of a generation that differ in nothing but `counted'.
SameRec(s, r) ==
  /\ s.pc = r.pc /\ s.live = r.live /\ s.started = r.started /\ s.closed = r.closed
  /\ s.batch = r.batch /\ s.msgs = r.msgs /\ s.cbs = r.cbs /\ s.joined = r.joined
\* What the worker leaves alone: the channels, and who joined.
SameEnds(s, r) ==
  s.msgs = r.msgs /\ s.cbs = r.cbs /\ s.started = r.started /\ s.joined = r.joined

\* A step on one generation at most.
Others(g) ==
  /\ gens' \in Seq(Generation) /\ Len(gens') = Len(gens) /\ DOMAIN gens' = DOMAIN gens
  /\ \A h \in DOMAIN gens \ {g} : SameRec(gens'[h], gens[h])

LEMMA GensAre ==
  ASSUME gens \in Seq(Generation)
  PROVE  /\ DOMAIN gens = 1..Len(gens) /\ Len(gens) \in Nat
         /\ \A g \in DOMAIN gens : gens[g] \in Generation
OBVIOUS

LEMMA Fields ==
  ASSUME NEW r \in Generation
  PROVE  /\ r.live \in BOOLEAN /\ r.started \in BOOLEAN /\ r.closed \in BOOLEAN
         /\ r.pc \in {"wait", "batch", "polling", "answer", "handing", "ending", "done"}
         /\ r.batch \in Seq(Ids) /\ r.msgs \in Seq(Msgs) /\ r.cbs \in Seq(Cbs)
         /\ r.joined \in SUBSET Loops
BY DEF Generation

\* A change of the breaker touches nothing but `counted'.
LEMMA SettleIs ==
  ASSUME gens \in Seq(Generation)
  PROVE  /\ Uncounted \in Seq(Generation) /\ Len(Uncounted) = Len(gens)
         /\ DOMAIN Uncounted = DOMAIN gens
         /\ \A h \in DOMAIN gens : SameRec(Uncounted[h], gens[h])
         /\ \A b : /\ Settle(b) \in Seq(Generation) /\ Len(Settle(b)) = Len(gens)
                   /\ DOMAIN Settle(b) = DOMAIN gens
                   /\ \A h \in DOMAIN gens : SameRec(Settle(b)[h], gens[h])
<1>1. \A r \in Generation : [r EXCEPT !.counted = FALSE] \in Generation
  BY DEF Generation
<1>2. \A r \in Generation : SameRec([r EXCEPT !.counted = FALSE], r)
  BY DEF SameRec, Generation
<1>3. \A h \in DOMAIN gens : /\ Uncounted[h] = [gens[h] EXCEPT !.counted = FALSE]
                             /\ Uncounted[h] \in Generation
  BY <1>1, GensAre DEF Uncounted
<1>4. \A h \in DOMAIN gens : SameRec(Uncounted[h], gens[h])
  BY <1>2, <1>3, GensAre
<1>5. /\ Uncounted \in Seq(Generation) /\ Len(Uncounted) = Len(gens)
      /\ DOMAIN Uncounted = DOMAIN gens
  BY <1>3, GensAre DEF Uncounted
<1>6. \A h \in DOMAIN gens : SameRec(gens[h], gens[h])
  BY DEF SameRec
<1> QED  BY <1>4, <1>5, <1>6 DEF Settle

\* A step that gives generation g the record r.
LEMMA Puts ==
  ASSUME gens \in Seq(Generation), NEW g \in DOMAIN gens, NEW r \in Generation,
         NEW b, gens' = [Settle(b) EXCEPT ![g] = r]
  PROVE  Others(g) /\ gens'[g] = r
<1>1. /\ Settle(b) \in Seq(Generation) /\ Len(Settle(b)) = Len(gens)
      /\ DOMAIN Settle(b) = DOMAIN gens
      /\ \A h \in DOMAIN gens : SameRec(Settle(b)[h], gens[h])
  BY SettleIs
<1>2. \A h \in DOMAIN gens \ {g} : gens'[h] = Settle(b)[h]
  BY <1>1
<1>3. /\ gens' \in Seq(Generation) /\ Len(gens') = Len(gens) /\ DOMAIN gens' = DOMAIN gens
      /\ gens'[g] = r
  BY <1>1
<1> QED  BY <1>1, <1>2, <1>3 DEF Others
LEMMA Puts0 ==
  ASSUME gens \in Seq(Generation), NEW g \in DOMAIN gens, NEW r \in Generation,
         gens' = [gens EXCEPT ![g] = r]
  PROVE  Others(g) /\ gens'[g] = r
BY DEF Others, SameRec

-----------------------------------------------------------------------------
(***************************************************************************)
(* Steps of the workers, the breaker and the world, which move no update   *)
(* between the worker's hands, the channels and the dispatch goroutines.   *)
(***************************************************************************)
\* A generation after a step that leaves its channels alone.
KeepsEnds(h) ==
  /\ SameEnds(gens'[h], gens[h])
  /\ gens[h].closed => gens'[h].closed
  /\ gens'[h].live => gens[h].live
\* Its worker holds the same update, or still none.
Keeps(h) ==
  /\ KeepsEnds(h)
  /\ Holds(h)' <=> Holds(h)
  /\ Holds(h) => gens'[h].batch = gens[h].batch

LEMMA MovesLoops ==
  ASSUME TypeOK, LoopsOK, DOMAIN gens' = DOMAIN gens, \A h \in DOMAIN gens : KeepsEnds(h),
         loop' = loop, alive' => alive
  PROVE  LoopsOK'
<1>1. ASSUME NEW l \in Loops, loop[l].pc \in {"waiting", "drain"}
      PROVE  loop[l].g \in DOMAIN gens /\ (loop[l].pc = "waiting" => ~gens'[loop[l].g].live)
  BY <1>1 DEF LoopsOK, KeepsEnds
<1>2. ASSUME NEW l \in Loops, alive'
      PROVE  loop[l].pc # "end"
  BY <1>2 DEF LoopsOK
<1>3. ASSUME NEW l \in Loops, alive', NEW g \in DOMAIN gens, l \in gens'[g].joined
      PROVE  \/ loop[l] = [pc |-> "drain", g |-> g]
             \/ gens'[g].closed /\ Box(g, l)' = <<>>
  <2>1. l \in gens[g].joined /\ Box(g, l)' = Box(g, l)
    BY <1>3 DEF KeepsEnds, SameEnds, Box
  <2>2. \/ loop[l] = [pc |-> "drain", g |-> g]
        \/ gens[g].closed /\ Box(g, l) = <<>>
    BY <1>3, <2>1 DEF LoopsOK
  <2> QED  BY <2>1, <2>2 DEF KeepsEnds
<1> QED  BY <1>1, <1>2, <1>3 DEF LoopsOK

LEMMA MovesContents ==
  ASSUME DOMAIN gens' = DOMAIN gens, \A h \in DOMAIN gens : Keeps(h), Contents, Fresh,
         dispatched' = dispatched, offset' = offset
  PROVE  Contents' /\ Fresh'
<1>1. \A h \in DOMAIN gens, l \in Loops : Box(h, l)' = Box(h, l)
  BY DEF Keeps, KeepsEnds, SameEnds, Box
<1>2. Contents'
  BY <1>1 DEF Contents
<1>3. \A h \in DOMAIN gens : Holds(h)' => Holds(h) /\ gens'[h].batch = gens[h].batch
  BY DEF Keeps, KeepsEnds
<1>4. Fresh'
  BY <1>1, <1>3 DEF Fresh
<1> QED  BY <1>2, <1>4

LEMMA MovesNoLoss ==
  ASSUME TypeOK, TypeOK', DOMAIN gens' = DOMAIN gens, \A h \in DOMAIN gens : Keeps(h), NoSilentLoss,
         Batches, loop' = loop, alive' => alive, trouble'.stop >= trouble.stop,
         dispatched' = dispatched, offset' = offset, lost' = lost
  PROVE  NoSilentLoss'
<1>1. SUFFICES ASSUME NEW u \in Ids, u < offset, Wanted(u)
               PROVE  \/ dispatched[u] > 0 \/ InHand(u)' \/ Drained(u)'
                      \/ ~alive' \/ (u \in lost /\ trouble'.stop > 0)
                      \/ u \in Cbs /\ NotJoined(u)'
  BY DEF NoSilentLoss, Wanted, Key
<1>2. \A h \in DOMAIN gens : Channel(h, u)' = Channel(h, u) /\ gens'[h].joined = gens[h].joined
  BY DEF Keeps, KeepsEnds, SameEnds, Channel
<1>3. InHand(u) => InHand(u)'
  BY DEF InHand, Keeps, KeepsEnds, Holds
<1>4. Drained(u) => Drained(u)'
  BY <1>2 DEF Drained
<1>5. NotJoined(u) => NotJoined(u)'
  BY <1>2 DEF NotJoined
<1>6. trouble.stop \in Nat /\ trouble'.stop \in Nat
  BY DEF TypeOK
<1>7. \/ dispatched[u] > 0 \/ InHand(u) \/ Drained(u)
      \/ ~alive \/ (u \in lost /\ trouble.stop > 0)
      \/ u \in Cbs /\ NotJoined(u)
  BY <1>1 DEF NoSilentLoss
<1> QED  BY <1>3, <1>4, <1>5, <1>6, <1>7

\* Such a step keeps the invariant if it keeps what is said of each generation
\* by itself.
LEMMA Moves ==
  ASSUME TypeOK, TypeOK', PollOK, Chain', Batches', Starts',
         DOMAIN gens' = DOMAIN gens, \A h \in DOMAIN gens : Keeps(h),
         loop' = loop, alive' => alive, trouble'.stop >= trouble.stop, seen' = seen,
         dispatched' = dispatched, offset' = offset, lost' = lost
  PROVE  PollOK' /\ \A v \in Msgs : Passed(v)' => Passed(v)
<1>1. LoopsOK' /\ Contents' /\ Fresh' /\ NoSilentLoss'
  BY MovesLoops, MovesContents, MovesNoLoss DEF PollOK, Keeps
<1>2. SeenOK'
  BY DEF PollOK, SeenOK, Key
<1>3. ASSUME NEW v \in Msgs, Passed(v)' PROVE Passed(v)
  <2>1. \A h \in DOMAIN gens : gens'[h].msgs = gens[h].msgs
    BY DEF Keeps, KeepsEnds, SameEnds
  <2>2. \A h \in DOMAIN gens : Holds(h)' => Holds(h) /\ gens'[h].batch = gens[h].batch
    BY DEF Keeps, KeepsEnds
  <2> QED  BY <1>3, <2>1, <2>2 DEF Passed
<1> QED  BY <1>1, <1>2, <1>3 DEF PollOK

\* A step that changes no generation but in `counted'.
LEMMA Still ==
  ASSUME TypeOK, TypeOK', PollOK, DOMAIN gens' = DOMAIN gens, Len(gens') = Len(gens),
         \A h \in DOMAIN gens : SameRec(gens'[h], gens[h]),
         loop' = loop, alive' => alive, trouble'.stop >= trouble.stop, seen' = seen,
         dispatched' = dispatched, offset' = offset, lost' = lost
  PROVE  PollOK' /\ \A v \in Msgs : Passed(v)' => Passed(v)
<1>1. \A h \in DOMAIN gens : Keeps(h)
  BY DEF SameRec, Keeps, KeepsEnds, SameEnds, Holds
<1>3. Chain'
  BY DEF PollOK, Chain, ChainAt, SameRec
<1>4. Batches'
  BY DEF PollOK, Batches, BatchAt, SameRec, Holds
<1>5. Starts'
  <2>1. trouble.stop \in Nat /\ trouble'.stop \in Nat
    BY DEF TypeOK
  <2> QED  BY <2>1 DEF PollOK, Starts, StartAt, SameRec
<1> QED  BY <1>1, <1>3, <1>4, <1>5, Moves

\* A step of the worker of generation g that changes no channel and not the
\* update in hand.
LEMMA WorkerMoves ==
  ASSUME TypeOK, TypeOK', PollOK, NEW g \in DOMAIN gens, Others(g), Keeps(g),
         ChainAt(g)', BatchAt(g)', StartAt(g)',
         loop' = loop, alive' = alive, trouble'.stop >= trouble.stop, seen' = seen,
         dispatched' = dispatched, offset' = offset, lost' = lost
  PROVE  PollOK' /\ \A v \in Msgs : Passed(v)' => Passed(v)
<1>1. \A h \in DOMAIN gens : Keeps(h)
  BY DEF Others, SameRec, Keeps, KeepsEnds, SameEnds, Holds
<1>2. Len(gens') = Len(gens) /\ DOMAIN gens' = DOMAIN gens
  BY DEF Others
<1>3. Chain'
  BY <1>2 DEF PollOK, Chain, ChainAt, SameRec, Others
<1>4. Batches'
  BY <1>2 DEF PollOK, Batches, BatchAt, SameRec, Holds, Others
<1>5. Starts'
  <2>1. trouble.stop \in Nat /\ trouble'.stop \in Nat
    BY DEF TypeOK
  <2> QED  BY <1>2, <2>1 DEF PollOK, Starts, StartAt, SameRec, Others
<1> QED  BY <1>1, <1>2, <1>3, <1>4, <1>5, Moves

-----------------------------------------------------------------------------
(***************************************************************************)
(* Effects of the worker's steps on its generation.                        *)
(***************************************************************************)
LEMMA EndingEffect ==
  ASSUME gens \in Seq(Generation), NEW g \in DOMAIN gens, NEW b,
         gens' = [Settle(b) EXCEPT ![g].pc = "ending", ![g].live = FALSE, ![g].counted = FALSE]
                 \/ gens' = Ending(g)
  PROVE  /\ Others(g)
         /\ SameEnds(gens'[g], gens[g]) /\ gens'[g].batch = gens[g].batch
         /\ gens'[g].closed = gens[g].closed
         /\ gens'[g].pc = "ending" /\ gens'[g].live = FALSE
<1> DEFINE upd(r) == [r EXCEPT !.pc = "ending", !.live = FALSE, !.counted = FALSE]
<1>1. \A r \in Generation : upd(r) \in Generation
  BY DEF Generation
<1>2. \A r \in Generation : /\ SameEnds(upd(r), r) /\ upd(r).batch = r.batch
                            /\ upd(r).closed = r.closed
                            /\ upd(r).pc = "ending" /\ upd(r).live = FALSE
  BY DEF SameEnds, Generation
<1>3. CASE gens' = Ending(g)
  <2>1. gens' = [gens EXCEPT ![g] = upd(gens[g])]
    BY <1>3 DEF Ending
  <2> HIDE DEF upd
  <2> QED  BY <1>1, <1>2, <2>1, GensAre, Puts0
<1>4. CASE gens' = [Settle(b) EXCEPT ![g].pc = "ending", ![g].live = FALSE, ![g].counted = FALSE]
  <2>1. Settle(b)[g] \in Generation /\ SameRec(Settle(b)[g], gens[g])
    BY SettleIs
  <2>2. gens' = [Settle(b) EXCEPT ![g] = upd(Settle(b)[g])]
    BY <1>4
  <2> HIDE DEF upd
  <2>3. Others(g) /\ gens'[g] = upd(Settle(b)[g])
    BY <1>1, <2>1, <2>2, Puts
  <2> QED  BY <1>2, <2>1, <2>3 DEF SameRec, SameEnds
<1> QED  BY <1>3, <1>4

\* The other changes of a record, one lemma each.
LEMMA UpdDone ==
  ASSUME NEW r \in Generation
  PROVE  LET s == [r EXCEPT !.pc = "done", !.closed = TRUE]
         IN  /\ s \in Generation
             /\ SameEnds(s, r) /\ s.batch = r.batch /\ s.live = r.live
             /\ s.pc = "done" /\ s.closed = TRUE
BY DEF Generation, SameEnds

LEMMA UpdPolling ==
  ASSUME NEW r \in Generation
  PROVE  LET s == [r EXCEPT !.pc = "polling", !.counted = TRUE]
         IN  /\ s \in Generation
             /\ SameEnds(s, r) /\ s.batch = r.batch /\ s.live = r.live
             /\ s.pc = "polling" /\ s.closed = r.closed
BY DEF Generation, SameEnds

LEMMA UpdLive ==
  ASSUME NEW r \in Generation
  PROVE  LET s == [r EXCEPT !.live = FALSE]
         IN  /\ s \in Generation
             /\ SameEnds(s, r) /\ s.batch = r.batch /\ s.live = FALSE
             /\ s.pc = r.pc /\ s.closed = r.closed
BY DEF Generation, SameEnds

LEMMA UpdPc ==
  ASSUME NEW r \in Generation, NEW p \in {"batch", "answer", "handing"}
  PROVE  LET s == [r EXCEPT !.pc = p]
         IN  /\ s \in Generation
             /\ SameEnds(s, r) /\ s.batch = r.batch /\ s.live = r.live
             /\ s.pc = p /\ s.closed = r.closed
BY DEF Generation, SameEnds

LEMMA UpdBatch ==
  ASSUME NEW r \in Generation, NEW q \in Seq(Ids)
  PROVE  LET s == [r EXCEPT !.batch = q]
         IN  /\ s \in Generation
             /\ SameEnds(s, r) /\ s.batch = q /\ s.live = r.live
             /\ s.pc = r.pc /\ s.closed = r.closed
BY DEF Generation, SameEnds

LEMMA UpdFetched ==
  ASSUME NEW r \in Generation, NEW q \in Seq(Ids)
  PROVE  LET s == [r EXCEPT !.pc = "batch", !.counted = FALSE, !.batch = q]
         IN  /\ s \in Generation
             /\ SameEnds(s, r) /\ s.batch = q /\ s.live = r.live
             /\ s.pc = "batch" /\ s.closed = r.closed
BY DEF Generation, SameEnds

LEMMA UpdHanded ==
  ASSUME NEW r \in Generation, NEW q \in Seq(Ids)
  PROVE  LET s == [r EXCEPT !.batch = q, !.pc = "batch"]
         IN  /\ s \in Generation
             /\ SameEnds(s, r) /\ s.batch = q /\ s.live = r.live
             /\ s.pc = "batch" /\ s.closed = r.closed
BY DEF Generation, SameEnds

LEMMA UpdMsgs ==
  ASSUME NEW r \in Generation, NEW q \in Seq(Msgs)
  PROVE  LET s == [r EXCEPT !.msgs = q]
         IN  /\ s \in Generation
             /\ s.msgs = q /\ s.cbs = r.cbs
             /\ s.joined = r.joined /\ s.started = r.started /\ s.batch = r.batch /\ s.live = r.live
             /\ s.pc = r.pc /\ s.closed = r.closed
BY DEF Generation, SameEnds

LEMMA UpdCbs ==
  ASSUME NEW r \in Generation, NEW q \in Seq(Cbs)
  PROVE  LET s == [r EXCEPT !.cbs = q]
         IN  /\ s \in Generation
             /\ s.cbs = q /\ s.msgs = r.msgs
             /\ s.joined = r.joined /\ s.started = r.started /\ s.batch = r.batch /\ s.live = r.live
             /\ s.pc = r.pc /\ s.closed = r.closed
BY DEF Generation, SameEnds

Joined(r, l) == [r EXCEPT !.started = r.started \/ l = "updates", !.joined = r.joined \cup {l}]
LEMMA UpdJoined ==
  ASSUME NEW r \in Generation, NEW l \in Loops
  PROVE  /\ Joined(r, l) \in Generation
         /\ Joined(r, l).cbs = r.cbs /\ Joined(r, l).msgs = r.msgs
         /\ Joined(r, l).joined = r.joined \cup {l}
         /\ Joined(r, l).started = (r.started \/ l = "updates")
         /\ Joined(r, l).batch = r.batch /\ Joined(r, l).live = r.live
         /\ Joined(r, l).pc = r.pc /\ Joined(r, l).closed = r.closed
<1>1. r.started \in BOOLEAN /\ r.joined \cup {l} \in SUBSET Loops
  BY DEF Generation
<1>2. PICK b \in BOOLEAN : b = (r.started \/ l = "updates")
  OBVIOUS
<1>3. Joined(r, l) = [r EXCEPT !.started = b, !.joined = r.joined \cup {l}]
  BY <1>2 DEF Joined
<1>4. Joined(r, l) \in Generation
  BY <1>1, <1>3 DEF Generation
<1>5. /\ Joined(r, l).cbs = r.cbs /\ Joined(r, l).msgs = r.msgs
      /\ Joined(r, l).joined = r.joined \cup {l} /\ Joined(r, l).started = b
      /\ Joined(r, l).batch = r.batch /\ Joined(r, l).live = r.live
      /\ Joined(r, l).pc = r.pc /\ Joined(r, l).closed = r.closed
  BY <1>3 DEF Generation
<1> QED  BY <1>2, <1>4, <1>5


-----------------------------------------------------------------------------
(***************************************************************************)
(* Frames: types, messages that passed, the pairing gate.                  *)
(***************************************************************************)
Breaker == [state : {"closed", "open", "half-open"}, fails : 0..(MaxFail - 1)]

LEMMA AfterType ==
  ASSUME brk \in Breaker, NEW ok \in BOOLEAN, NEW window \in BOOLEAN
  PROVE  After(ok, window) \in Breaker
BY CapAssumption DEF After, Breaker

LEMMA ResultType ==
  ASSUME brk \in Breaker, NEW ok \in BOOLEAN, NEW g, Result(g, ok)
  PROVE  brk' \in Breaker
BY AfterType DEF Result

LEMMA TroubleType ==
  ASSUME TypeOK, Trouble
  PROVE  /\ trouble' \in [left : Nat, stop : Nat, expiry : Nat]
         /\ trouble'.stop = trouble.stop /\ trouble'.expiry = trouble.expiry
<1>1. trouble \in [left : Nat, stop : Nat, expiry : Nat]
  BY DEF TypeOK
<1>2. trouble' = [trouble EXCEPT !.left = trouble.left - 1] /\ trouble.left - 1 \in Nat
  BY <1>1 DEF Trouble
<1> QED  BY <1>1, <1>2

\* A short call leaves the counts of stops and expiries alone.
LEMMA ExecuteType ==
  ASSUME TypeOK, NEW ok \in BOOLEAN, Execute(ok)
  PROVE  /\ brk' \in Breaker
         /\ trouble' \in [left : Nat, stop : Nat, expiry : Nat]
         /\ trouble'.stop = trouble.stop /\ trouble'.expiry = trouble.expiry
<1>1. brk \in Breaker /\ trouble \in [left : Nat, stop : Nat, expiry : Nat]
  BY DEF TypeOK, Breaker
<1>2. CASE UNCHANGED <<brk, trouble>>
  BY <1>1, <1>2
<1>3. CASE ~UNCHANGED <<brk, trouble>>
  <2>1. PICK window \in BOOLEAN : brk' = After(ok, window)
    BY <1>3 DEF Execute
  <2>2. UNCHANGED trouble \/ Trouble
    BY <1>3 DEF Execute
  <2> QED  BY <1>1, <2>1, <2>2, AfterType, TroubleType
<1> QED  BY <1>2, <1>3

LEMMA MsgsAre ==
  /\ IsFiniteSet(Msgs)
  /\ \A k : IsFiniteSet(PassedAs(k)) /\ Cardinality(PassedAs(k)) \in Nat
<1>1. IsFiniteSet(Ids)
  BY BoundsAssumption, FS_Interval DEF Ids
<1>2. Msgs \subseteq Ids
  BY DEF Msgs
<1>3. IsFiniteSet(Msgs)
  BY <1>1, <1>2, FS_Subset
<1>4. \A k : PassedAs(k) \subseteq Msgs
  BY DEF PassedAs
<1> QED  BY <1>3, <1>4, FS_Subset, FS_CardinalityType

LEMMA PassedStill ==
  ASSUME TypeOK, TypeOK', PassedOnce, \A v \in Msgs : Passed(v)' => Passed(v),
         seen \subseteq seen', trouble'.expiry >= trouble.expiry
  PROVE  PassedOnce'
<1>1. SUFFICES ASSUME NEW u \in Msgs
               PROVE  Cardinality(PassedAs(Key(u))') <= trouble'.expiry + (IF Key(u) \in seen' THEN 1 ELSE 0)
  BY DEF PassedOnce, Key, PassedAs
<1>2. PassedAs(Key(u))' \subseteq PassedAs(Key(u))
  BY DEF PassedAs, Key
<1>3. Cardinality(PassedAs(Key(u))') <= Cardinality(PassedAs(Key(u)))
  BY <1>2, MsgsAre, FS_Subset
<1>4. Cardinality(PassedAs(Key(u))') \in Nat
  BY <1>2, MsgsAre, FS_Subset, FS_CardinalityType
<1>5. Cardinality(PassedAs(Key(u))) <= trouble.expiry + (IF Key(u) \in seen THEN 1 ELSE 0)
  BY DEF PassedOnce
<1>6. trouble.expiry \in Nat /\ trouble'.expiry \in Nat /\ Cardinality(PassedAs(Key(u))) \in Nat
  BY MsgsAre DEF TypeOK
<1> QED  BY <1>3, <1>4, <1>5, <1>6

\* A step of the poller leaves the gate alone.
LEMMA PollerStep ==
  ASSUME PollInv, TypeOK', PollOK' /\ \A v \in Msgs : Passed(v)' => Passed(v),
         seen' = seen, trouble'.expiry >= trouble.expiry, disp' = disp, authorized' = authorized
  PROVE  PollInv'
<1>1. PassedOnce'
  BY PassedStill DEF PollInv
<1>2. GateOK'
  BY DEF PollInv, GateOK
<1> QED  BY <1>1, <1>2 DEF PollInv

\* The types after a step of the poller.
LEMMA PollerTypes ==
  ASSUME TypeOK, gens' \in Seq(Generation), Len(gens') <= MaxGens, brk' \in Breaker,
         trouble' \in [left : Nat, stop : Nat, expiry : Nat],
         UNCHANGED <<alive, offset, loop, disp, codes, dispatched, lost>>
  PROVE  TypeOK'
BY DEF TypeOK, Breaker, LoopState, Generation

\* A worker's step that moves no update keeps the invariant if it keeps what is
\* said of its own generation.
LEMMA WorkerStep ==
  ASSUME PollInv, NEW g \in DOMAIN gens, Others(g), Keeps(g), ChainAt(g)', BatchAt(g)', StartAt(g)',
         brk' \in Breaker, trouble' \in [left : Nat, stop : Nat, expiry : Nat],
         trouble'.stop >= trouble.stop, trouble'.expiry >= trouble.expiry,
         UNCHANGED <<alive, offset, seen, loop, disp, pairing, op, seenBy>>
  PROVE  PollInv'
<1>1. TypeOK'
  <2>1. gens' \in Seq(Generation) /\ Len(gens') <= MaxGens
    BY DEF Others, PollInv, TypeOK
  <2> QED  BY <2>1, PollerTypes DEF PollInv, pairing, seenBy
<1>2. PollOK' /\ \A v \in Msgs : Passed(v)' => Passed(v)
  BY <1>1, WorkerMoves DEF PollInv, seenBy
<1> QED  BY <1>1, <1>2, PollerStep DEF pairing

LEMMA OffsetIs ==
  ASSUME PollInv
  PROVE  offset \in Nat /\ offset >= 1 /\ offset <= Len(Stream) + 1 /\ Len(Stream) \in Nat
<1>1. offset \in 1..(Len(Stream) + 1)
  BY DEF PollInv, TypeOK
<1>2. Len(Stream) \in Nat
  BY BoundsAssumption
<1> QED  BY <1>1, <1>2

\* The invariant at one generation.
LEMMA AtGeneration ==
  ASSUME PollInv, NEW g \in DOMAIN gens
  PROVE  /\ gens \in Seq(Generation) /\ gens[g] \in Generation
         /\ g \in 1..Len(gens) /\ Len(gens) \in Nat
         /\ ChainAt(g) /\ BatchAt(g) /\ StartAt(g)
         /\ brk \in Breaker /\ trouble \in [left : Nat, stop : Nat, expiry : Nat]
         /\ offset \in 1..(Len(Stream) + 1)
BY GensAre DEF PollInv, TypeOK, Breaker, PollOK, Chain, Batches, Starts

LEMMA runGenerationHolds ==
  ASSUME PollInv, NEW g \in DOMAIN gens, runGeneration(g)
  PROVE  PollInv'
<1>0. /\ gens[g].pc = "wait"
      /\ UNCHANGED <<alive, offset, seen, brk, loop, disp, pairing, op, trouble, seenBy>>
  BY DEF runGeneration
<1>1. gens[g] \in Generation /\ ChainAt(g) /\ BatchAt(g) /\ StartAt(g)
  BY AtGeneration
<1>2. CASE gens' = Ending(g)
  <2>1. /\ Others(g)
        /\ SameEnds(gens'[g], gens[g]) /\ gens'[g].batch = gens[g].batch
        /\ gens'[g].closed = gens[g].closed
        /\ gens'[g].pc = "ending" /\ gens'[g].live = FALSE
    BY <1>2, AtGeneration, EndingEffect
  <2>2. Keeps(g)
    BY <1>0, <2>1 DEF Keeps, KeepsEnds, Holds
  <2>3. ChainAt(g)' /\ BatchAt(g)' /\ StartAt(g)'
    BY <1>0, <2>1, AtGeneration DEF ChainAt, BatchAt, StartAt, Holds, Others, SameEnds
  <2> QED  BY <1>0, <2>1, <2>2, <2>3, AtGeneration, WorkerStep
<1>3. CASE gens[g].started /\ gens' = [gens EXCEPT ![g].pc = "batch"]
  <2>1. /\ Others(g)
        /\ SameEnds(gens'[g], gens[g]) /\ gens'[g].batch = gens[g].batch
        /\ gens'[g].closed = gens[g].closed
        /\ gens'[g].pc = "batch" /\ gens'[g].live = gens[g].live
    <3> DEFINE r == [gens[g] EXCEPT !.pc = "batch"]
    <3>1. /\ r \in Generation /\ SameEnds(r, gens[g]) /\ r.batch = gens[g].batch
          /\ r.live = gens[g].live /\ r.pc = "batch" /\ r.closed = gens[g].closed
      BY <1>1, UpdPc
    <3>2. gens' = [gens EXCEPT ![g] = r]
      BY <1>3
    <3> HIDE DEF r
    <3> QED  BY <3>1, <3>2, AtGeneration, Puts0
  <2>2. Keeps(g)
    BY <1>0, <2>1 DEF Keeps, KeepsEnds, Holds
  <2>3. ChainAt(g)' /\ BatchAt(g)' /\ StartAt(g)'
    BY ZenonT(60), <1>0, <1>3, <1>1, <2>1 DEF ChainAt, BatchAt, StartAt, Holds, Others, SameEnds
  <2> QED  BY <1>0, <2>1, <2>2, <2>3, AtGeneration, WorkerStep
<1> QED  BY <1>2, <1>3 DEF runGeneration

LEMMA finishGenerationHolds ==
  ASSUME PollInv, NEW g \in DOMAIN gens, finishGeneration(g)
  PROVE  PollInv'
<1>0. /\ gens[g].pc = "ending"
      /\ gens' = [gens EXCEPT ![g] = [gens[g] EXCEPT !.pc = "done", !.closed = TRUE]]
      /\ UNCHANGED <<alive, offset, seen, brk, loop, disp, pairing, op, trouble, seenBy>>
  BY DEF finishGeneration
<1> DEFINE r == [gens[g] EXCEPT !.pc = "done", !.closed = TRUE]
<1>1. /\ r \in Generation /\ SameEnds(r, gens[g]) /\ r.batch = gens[g].batch
      /\ r.live = gens[g].live /\ r.pc = "done" /\ r.closed = TRUE
  BY AtGeneration, UpdDone
<1> HIDE DEF r
<1>2. Others(g) /\ gens'[g] = r
  BY <1>0, <1>1, AtGeneration, Puts0 DEF r
<1>3. Keeps(g)
  BY <1>0, <1>1, <1>2 DEF Keeps, KeepsEnds, Holds
<1>4. ChainAt(g)' /\ BatchAt(g)' /\ StartAt(g)'
  BY <1>0, <1>1, <1>2, AtGeneration DEF ChainAt, BatchAt, StartAt, Holds, Others, SameEnds
<1> QED  BY <1>0, <1>2, <1>3, <1>4, AtGeneration, WorkerStep

LEMMA startPollerHolds ==
  ASSUME PollInv, NEW g \in DOMAIN gens, startPoller(g)
  PROVE  PollInv'
<1>0. /\ gens[g].pc = "batch" /\ gens[g].batch = <<>>
      /\ UNCHANGED <<alive, offset, seen, brk, loop, disp, pairing, op, trouble, seenBy>>
  BY DEF startPoller
<1>1. CASE gens' = Ending(g)
  <2>1. /\ Others(g)
        /\ SameEnds(gens'[g], gens[g]) /\ gens'[g].batch = gens[g].batch
        /\ gens'[g].closed = gens[g].closed
        /\ gens'[g].pc = "ending" /\ gens'[g].live = FALSE
    BY <1>1, AtGeneration, EndingEffect
  <2>2. Keeps(g)
    BY <1>0, <2>1 DEF Keeps, KeepsEnds, Holds
  <2>3. ChainAt(g)' /\ BatchAt(g)' /\ StartAt(g)'
    BY <1>0, <2>1, AtGeneration DEF ChainAt, BatchAt, StartAt, Holds, Others, SameEnds
  <2> QED  BY <1>0, <2>1, <2>2, <2>3, AtGeneration, WorkerStep
<1>2. CASE gens' = [gens EXCEPT ![g].pc = "polling", ![g].counted = TRUE]
  <2> DEFINE r == [gens[g] EXCEPT !.pc = "polling", !.counted = TRUE]
  <2>1. /\ r \in Generation /\ SameEnds(r, gens[g]) /\ r.batch = gens[g].batch
        /\ r.live = gens[g].live /\ r.pc = "polling" /\ r.closed = gens[g].closed
    BY AtGeneration, UpdPolling
  <2>2. gens' = [gens EXCEPT ![g] = r]
    BY <1>2
  <2> HIDE DEF r
  <2>3. Others(g) /\ gens'[g] = r
    BY <2>1, <2>2, AtGeneration, Puts0
  <2>4. Keeps(g)
    BY <1>0, <2>1, <2>3 DEF Keeps, KeepsEnds, Holds
  <2>5. ChainAt(g)' /\ BatchAt(g)' /\ StartAt(g)'
    BY <1>0, <2>1, <2>3, AtGeneration DEF ChainAt, BatchAt, StartAt, Holds, Others, SameEnds
  <2> QED  BY <1>0, <2>3, <2>4, <2>5, AtGeneration, WorkerStep
<1> QED  BY <1>1, <1>2 DEF startPoller

LEMMA fetchFailsHolds ==
  ASSUME PollInv, NEW g \in DOMAIN gens, fetchFails(g)
  PROVE  PollInv'
<1>0. /\ gens[g].pc = "polling" /\ Result(g, FALSE)
      /\ Trouble \/ UNCHANGED trouble
      /\ gens' = [Settle(brk') EXCEPT ![g].pc = "ending", ![g].live = FALSE, ![g].counted = FALSE]
      /\ UNCHANGED <<alive, offset, seen, loop, disp, pairing, op, seenBy>>
  BY DEF fetchFails
<1>1. /\ Others(g)
      /\ SameEnds(gens'[g], gens[g]) /\ gens'[g].batch = gens[g].batch
      /\ gens'[g].closed = gens[g].closed
      /\ gens'[g].pc = "ending" /\ gens'[g].live = FALSE
  BY <1>0, AtGeneration, EndingEffect
<1>2. brk' \in Breaker
  BY <1>0, AtGeneration, ResultType
<1>3. /\ trouble' \in [left : Nat, stop : Nat, expiry : Nat]
      /\ trouble'.stop = trouble.stop /\ trouble'.expiry = trouble.expiry
      /\ trouble.stop \in Nat /\ trouble.expiry \in Nat
  BY <1>0, AtGeneration, TroubleType DEF PollInv
<1>4. Keeps(g)
  BY <1>0, <1>1 DEF Keeps, KeepsEnds, Holds
<1>5. ChainAt(g)' /\ BatchAt(g)' /\ StartAt(g)'
  BY <1>0, <1>1, AtGeneration DEF ChainAt, BatchAt, StartAt, Holds, Others, SameEnds
<1> QED  BY <1>0, <1>1, <1>2, <1>3, <1>4, <1>5, WorkerStep

\* What Telegram returns is a run of updates that starts at the offset or one
\* before it.
LEMMA BatchIs ==
  ASSUME NEW a \in {offset - 1, offset} \ {0}, NEW z \in (offset - 1)..Len(Stream),
         offset \in 1..(Len(Stream) + 1)
  PROVE  LET q == [i \in 1..(z - a + 1) |-> a + i - 1]
         IN  /\ q \in Seq(Ids) /\ Len(q) = z - a + 1
             /\ q # <<>> => q[1] <= offset
             /\ \A i \in 1..(Len(q) - 1) : q[i + 1] = q[i] + 1
<1> DEFINE q == [i \in 1..(z - a + 1) |-> a + i - 1]
<1>1. z - a + 1 \in Nat /\ Len(Stream) \in Nat /\ a \in 1..(Len(Stream) + 1) /\ a <= offset /\ z <= Len(Stream)
  BY BoundsAssumption
<1>2. \A i \in 1..(z - a + 1) : a + i - 1 \in Ids
  BY <1>1 DEF Ids
<1>3. q \in Seq(Ids) /\ Len(q) = z - a + 1
  BY <1>1, <1>2
<1>4. \A i \in 1..(z - a + 1) : q[i] = a + i - 1
  OBVIOUS
<1> HIDE DEF q
<1>5. q # <<>> => q[1] <= offset
  <2>1. q # <<>> => 1 \in 1..(z - a + 1)
    BY <1>1, <1>3
  <2> QED  BY <1>1, <1>4, <2>1
<1>6. \A i \in 1..(Len(q) - 1) : q[i + 1] = q[i] + 1
  BY <1>1, <1>3, <1>4
<1> QED  BY <1>3, <1>5, <1>6 DEF q

LEMMA fetchUpdatesHolds ==
  ASSUME PollInv, NEW g \in DOMAIN gens, fetchUpdates(g)
  PROVE  PollInv'
<1>0. /\ gens[g].pc = "polling" /\ Result(g, TRUE)
      /\ UNCHANGED <<alive, offset, seen, loop, disp, pairing, op, trouble, seenBy>>
  BY DEF fetchUpdates
<1>1. PICK a \in {offset - 1, offset} \ {0}, z \in (offset - 1)..Len(Stream) :
        gens' = [Settle(brk') EXCEPT ![g].pc = "batch", ![g].counted = FALSE,
                                     ![g].batch = [i \in 1..(z - a + 1) |-> a + i - 1]]
  BY DEF fetchUpdates
<1> DEFINE q == [i \in 1..(z - a + 1) |-> a + i - 1]
           s == Settle(brk')[g]
           r == [s EXCEPT !.pc = "batch", !.counted = FALSE, !.batch = q]
<1>2. /\ q \in Seq(Ids)
      /\ q # <<>> => q[1] <= offset
      /\ \A i \in 1..(Len(q) - 1) : q[i + 1] = q[i] + 1
  BY AtGeneration, BatchIs
<1>3. gens' = [Settle(brk') EXCEPT ![g] = r]
  BY <1>1
<1> HIDE DEF q
<1>4. s \in Generation /\ SameRec(s, gens[g])
  BY AtGeneration, SettleIs
<1> HIDE DEF s
<1>5. /\ r \in Generation /\ SameEnds(r, s) /\ r.batch = q /\ r.live = s.live
      /\ r.pc = "batch" /\ r.closed = s.closed
  BY <1>2, <1>4, UpdFetched
<1> HIDE DEF r
<1>6. Others(g) /\ gens'[g] = r
  BY <1>3, <1>5, AtGeneration, Puts
<1>7. SameEnds(r, gens[g]) /\ r.live = gens[g].live /\ r.closed = gens[g].closed
  BY <1>4, <1>5 DEF SameEnds, SameRec
<1>8. Keeps(g)
  BY <1>0, <1>5, <1>6, <1>7 DEF Keeps, KeepsEnds, Holds
<1>9. ChainAt(g) /\ BatchAt(g) /\ StartAt(g)
  BY AtGeneration
<1>10. BatchAt(g)'
  BY <1>0, <1>2, <1>5, <1>6 DEF BatchAt, Holds
<1>11. ChainAt(g)' /\ StartAt(g)'
  BY <1>0, <1>5, <1>6, <1>7, <1>9 DEF ChainAt, StartAt, Others, SameEnds
<1>12. /\ brk' \in Breaker /\ trouble' \in [left : Nat, stop : Nat, expiry : Nat]
       /\ trouble'.stop >= trouble.stop /\ trouble'.expiry >= trouble.expiry
  <2>1. trouble \in [left : Nat, stop : Nat, expiry : Nat] /\ brk \in Breaker
    BY AtGeneration
  <2>2. trouble' = trouble /\ trouble.stop \in Nat /\ trouble.expiry \in Nat
    BY <1>0, <2>1
  <2>3. brk' \in Breaker
    BY <1>0, <2>1, ResultType
  <2> QED  BY <2>1, <2>2, <2>3
<1> QED  BY <1>0, <1>6, <1>8, <1>10, <1>11, <1>12, WorkerStep

LEMMA answerCallbackHolds ==
  ASSUME PollInv, NEW g \in DOMAIN gens, answerCallback(g)
  PROVE  PollInv'
<1>0. /\ gens[g].pc = "answer"
      /\ gens' = [Settle(brk') EXCEPT ![g].pc = "handing"]
      /\ UNCHANGED <<alive, offset, seen, loop, disp, pairing, op, seenBy>>
  BY DEF answerCallback
<1>1. PICK ok \in BOOLEAN : Execute(ok)
  BY DEF answerCallback
<1> DEFINE s == Settle(brk')[g]
           r == [s EXCEPT !.pc = "handing"]
<1>2. gens' = [Settle(brk') EXCEPT ![g] = r]
  BY <1>0
<1>3. s \in Generation /\ SameRec(s, gens[g])
  BY AtGeneration, SettleIs
<1> HIDE DEF s
<1>4. /\ r \in Generation /\ SameEnds(r, s) /\ r.batch = s.batch /\ r.live = s.live
      /\ r.pc = "handing" /\ r.closed = s.closed
  BY <1>3, UpdPc
<1> HIDE DEF r
<1>5. Others(g) /\ gens'[g] = r
  BY <1>2, <1>4, AtGeneration, Puts
<1>6. SameEnds(r, gens[g]) /\ r.live = gens[g].live /\ r.closed = gens[g].closed /\ r.batch = gens[g].batch
  BY <1>3, <1>4 DEF SameEnds, SameRec
<1>7. Keeps(g)
  BY <1>0, <1>4, <1>5, <1>6 DEF Keeps, KeepsEnds, Holds
<1>8. ChainAt(g) /\ BatchAt(g) /\ StartAt(g)
  BY AtGeneration
<1>9. /\ brk' \in Breaker
      /\ trouble' \in [left : Nat, stop : Nat, expiry : Nat]
      /\ trouble'.stop = trouble.stop /\ trouble'.expiry = trouble.expiry
      /\ trouble.stop \in Nat /\ trouble.expiry \in Nat
  BY <1>1, AtGeneration, ExecuteType DEF PollInv
<1>10. ChainAt(g)' /\ StartAt(g)'
  BY <1>0, <1>4, <1>5, <1>6, <1>8, <1>9 DEF ChainAt, StartAt, Others, SameEnds
<1>11. BatchAt(g)'
  BY <1>0, <1>4, <1>5, <1>6, <1>8 DEF BatchAt, Holds
<1> QED  BY <1>0, <1>5, <1>7, <1>9, <1>10, <1>11, WorkerStep

LEMMA CountType ==
  ASSUME TypeOK, NEW k \in {"stop", "expiry"}, Count(k)
  PROVE  /\ trouble' \in [left : Nat, stop : Nat, expiry : Nat]
         /\ trouble'.stop = IF k = "stop" THEN trouble.stop + 1 ELSE trouble.stop
         /\ trouble'.expiry = IF k = "expiry" THEN trouble.expiry + 1 ELSE trouble.expiry
         /\ trouble.stop \in Nat /\ trouble.expiry \in Nat
<1>1. trouble \in [left : Nat, stop : Nat, expiry : Nat]
  BY DEF TypeOK
<1>2. trouble.left - 1 \in Nat
  BY <1>1 DEF Count
<1>3. \A t \in [left : Nat, stop : Nat, expiry : Nat], a \in Nat, b \in Nat :
        /\ [t EXCEPT !.left = a, !.stop = b] \in [left : Nat, stop : Nat, expiry : Nat]
        /\ [t EXCEPT !.left = a, !.expiry = b] \in [left : Nat, stop : Nat, expiry : Nat]
  OBVIOUS
<1>4. trouble.stop + 1 \in Nat /\ trouble.expiry + 1 \in Nat
  BY <1>1
<1>5. CASE k = "stop"
  <2>1. trouble' = [trouble EXCEPT !.left = trouble.left - 1, !.stop = trouble.stop + 1]
    BY <1>1, <1>5 DEF Count
  <2>2. trouble' \in [left : Nat, stop : Nat, expiry : Nat]
    BY <1>1, <1>2, <1>3, <1>4, <2>1
  <2>3. trouble'.stop = trouble.stop + 1 /\ trouble'.expiry = trouble.expiry
    BY <1>1, <2>1
  <2> QED  BY <1>1, <1>5, <2>2, <2>3
<1>6. CASE k = "expiry"
  <2>1. trouble' = [trouble EXCEPT !.left = trouble.left - 1, !.expiry = trouble.expiry + 1]
    BY <1>1, <1>6 DEF Count
  <2>2. trouble' \in [left : Nat, stop : Nat, expiry : Nat]
    BY <1>1, <1>2, <1>3, <1>4, <2>1
  <2>3. trouble'.stop = trouble.stop /\ trouble'.expiry = trouble.expiry + 1
    BY <1>1, <2>1
  <2> QED  BY <1>1, <1>6, <2>2, <2>3
<1> QED  BY <1>5, <1>6

LEMMA StopHolds ==
  ASSUME PollInv, Stop
  PROVE  PollInv'
<1>0. /\ Count("stop") /\ gens # <<>> /\ gens' = [gens EXCEPT ![Len(gens)].live = FALSE]
      /\ UNCHANGED <<alive, offset, seen, brk, loop, disp, pairing, op, seenBy>>
  BY DEF Stop
<1>1. gens \in Seq(Generation)
  BY DEF PollInv, TypeOK
<1>2. PICK g \in DOMAIN gens : g = Len(gens)
  BY <1>0, <1>1
<1> DEFINE r == [gens[g] EXCEPT !.live = FALSE]
<1>3. gens[g] \in Generation /\ ChainAt(g) /\ BatchAt(g) /\ StartAt(g)
  BY <1>2, AtGeneration
<1>4. /\ r \in Generation /\ SameEnds(r, gens[g]) /\ r.batch = gens[g].batch
      /\ r.live = FALSE /\ r.pc = gens[g].pc /\ r.closed = gens[g].closed
  BY <1>3, UpdLive
<1>5. gens' = [gens EXCEPT ![g] = r]
  BY <1>0, <1>2
<1> HIDE DEF r
<1>6. Others(g) /\ gens'[g] = r
  BY <1>1, <1>2, <1>4, <1>5, Puts0
<1>7. Keeps(g)
  BY <1>4, <1>6 DEF Keeps, KeepsEnds, Holds
<1>8. /\ trouble' \in [left : Nat, stop : Nat, expiry : Nat]
      /\ trouble'.stop > 0 /\ trouble'.stop >= trouble.stop /\ trouble'.expiry = trouble.expiry
      /\ trouble.expiry \in Nat
  BY <1>0, CountType DEF PollInv
<1>9. ChainAt(g)' /\ StartAt(g)' /\ BatchAt(g)'
  BY <1>0, <1>3, <1>4, <1>6, <1>8 DEF ChainAt, StartAt, BatchAt, Holds, Others, SameEnds
<1> QED  BY <1>0, <1>2, <1>6, <1>7, <1>8, <1>9, AtGeneration, WorkerStep

-----------------------------------------------------------------------------
(***************************************************************************)
(* The worker takes an update and moves the offset.                        *)
(***************************************************************************)
LEMMA FirstOfBatch ==
  ASSUME PollInv, NEW g \in DOMAIN gens, gens[g].batch # <<>>
  PROVE  /\ gens[g].batch \in Seq(Ids) /\ Head(gens[g].batch) = gens[g].batch[1]
         /\ gens[g].batch[1] \in Ids /\ gens[g].batch[1] <= offset
         /\ Tail(gens[g].batch) \in Seq(Ids)
         /\ \A i \in 1..(Len(Tail(gens[g].batch)) - 1) :
              Tail(gens[g].batch)[i + 1] = Tail(gens[g].batch)[i] + 1
         /\ Tail(gens[g].batch) # <<>> => Tail(gens[g].batch)[1] = gens[g].batch[1] + 1
<1> DEFINE q == gens[g].batch
<1>1. q \in Seq(Ids) /\ q # <<>> /\ q[1] <= offset
  BY AtGeneration, Fields DEF BatchAt
<1>2. \A i \in 1..(Len(q) - 1) : q[i + 1] = q[i] + 1
  BY AtGeneration DEF BatchAt
<1> HIDE DEF q
<1>3. /\ Len(q) \in Nat \ {0} /\ Tail(q) \in Seq(Ids) /\ Len(Tail(q)) = Len(q) - 1
      /\ Head(q) = q[1] /\ q[1] \in Ids
      /\ \A i \in 1..(Len(q) - 1) : Tail(q)[i] = q[i + 1]
  BY <1>1
<1>4. \A i \in 1..(Len(Tail(q)) - 1) : Tail(q)[i + 1] = Tail(q)[i] + 1
  <2>1. SUFFICES ASSUME NEW i \in 1..(Len(Tail(q)) - 1)
                 PROVE  Tail(q)[i + 1] = Tail(q)[i] + 1
    OBVIOUS
  <2>2. i \in 1..(Len(q) - 1) /\ i + 1 \in 1..(Len(q) - 1)
    BY <1>3
  <2> QED  BY <1>2, <1>3, <2>2
<1>5. Tail(q) # <<>> => Tail(q)[1] = q[1] + 1
  <2>1. Tail(q) # <<>> => 1 \in 1..(Len(q) - 1)
    BY <1>3
  <2> QED  BY <1>2, <1>3, <2>1
<1> QED  BY <1>1, <1>3, <1>4, <1>5 DEF q

\* The next update of the batch.
LEMMA Next1Effect ==
  ASSUME PollInv, NEW g \in DOMAIN gens, gens[g].batch # <<>>, gens' = Next1(g)
  PROVE  /\ Others(g) /\ SameEnds(gens'[g], gens[g]) /\ gens'[g].batch = Tail(gens[g].batch)
         /\ gens'[g].live = gens[g].live /\ gens'[g].pc = gens[g].pc
         /\ gens'[g].closed = gens[g].closed
<1> DEFINE q == Tail(gens[g].batch)
           r == [gens[g] EXCEPT !.batch = q]
<1>1. q \in Seq(Ids)
  BY FirstOfBatch
<1>2. gens' = [gens EXCEPT ![g] = r]
  BY DEF Next1
<1> HIDE DEF q
<1>3. gens[g] \in Generation /\ gens \in Seq(Generation)
  BY AtGeneration
<1>4. /\ r \in Generation /\ SameEnds(r, gens[g]) /\ r.batch = q
      /\ r.live = gens[g].live /\ r.pc = gens[g].pc /\ r.closed = gens[g].closed
  BY <1>1, <1>3, UpdBatch
<1> HIDE DEF r
<1> QED  BY <1>2, <1>3, <1>4, Puts0 DEF q

\* An update below the offset is skipped.
LEMMA SkipHolds ==
  ASSUME PollInv, NEW g \in DOMAIN gens, handleGenerationUpdate(g), Head(gens[g].batch) < offset
  PROVE  PollInv'
<1>0. /\ gens[g].pc = "batch" /\ gens[g].batch # <<>> /\ gens' = Next1(g)
      /\ UNCHANGED <<alive, offset, seen, brk, loop, disp, pairing, op, trouble, seenBy>>
  BY DEF handleGenerationUpdate
<1>1. /\ Others(g) /\ SameEnds(gens'[g], gens[g]) /\ gens'[g].batch = Tail(gens[g].batch)
      /\ gens'[g].live = gens[g].live /\ gens'[g].pc = gens[g].pc
      /\ gens'[g].closed = gens[g].closed
  BY <1>0, Next1Effect
<1>2. ChainAt(g) /\ BatchAt(g) /\ StartAt(g)
  BY AtGeneration
<1>3. Keeps(g)
  BY <1>0, <1>1 DEF Keeps, KeepsEnds, Holds
<1>4. ChainAt(g)' /\ StartAt(g)'
  BY <1>0, <1>1, <1>2 DEF ChainAt, StartAt, Others, SameEnds
<1>5. BatchAt(g)'
  <2>1. gens[g].batch[1] \in Ids /\ Head(gens[g].batch) = gens[g].batch[1]
    BY <1>0, FirstOfBatch
  <2>2. gens[g].batch[1] \in Nat /\ gens[g].batch[1] < offset /\ offset \in Nat
    BY <2>1, OffsetIs DEF Ids
  <2>3. Tail(gens[g].batch) # <<>> => Tail(gens[g].batch)[1] <= offset
    BY <1>0, <2>2, FirstOfBatch
  <2> QED  BY <1>0, <1>1, <2>3, FirstOfBatch DEF BatchAt, Holds
<1>6. /\ brk' \in Breaker /\ trouble' \in [left : Nat, stop : Nat, expiry : Nat]
      /\ trouble'.stop >= trouble.stop /\ trouble'.expiry >= trouble.expiry
  <2>1. trouble \in [left : Nat, stop : Nat, expiry : Nat] /\ brk \in Breaker
    BY AtGeneration
  <2>2. trouble' = trouble /\ brk' = brk /\ trouble.stop \in Nat /\ trouble.expiry \in Nat
    BY <1>0, <2>1
  <2> QED  BY <2>1, <2>2
<1> QED  BY <1>0, <1>1, <1>3, <1>4, <1>5, <1>6, WorkerStep

\* Any other update is the one at the offset.  It is kept in hand, or dropped;
\* what is wanted is kept, and a message that is kept was not seen before.
Takes(g, u) ==
  /\ u \in Ids /\ u = offset /\ offset' = u + 1
  /\ gens[g].pc = "batch" /\ gens[g].batch # <<>> /\ gens[g].batch[1] = u
  /\ Others(g) /\ SameEnds(gens'[g], gens[g])
  /\ gens'[g].live = gens[g].live /\ gens'[g].closed = gens[g].closed
  /\ \/ /\ gens'[g].pc = "batch" /\ gens'[g].batch = Tail(gens[g].batch)
        /\ ~Wanted(u)
     \/ /\ gens'[g].pc \in {"answer", "handing"} /\ gens'[g].batch = gens[g].batch
        /\ Stream[u].chat \in AllowFrom
        /\ u \in Msgs => Key(u) \notin seen /\ Key(u) \in seen'
  /\ seen \subseteq seen' /\ seen' \subseteq seen \cup {Key(u)}
  /\ u \notin Msgs => seen' = seen
  /\ UNCHANGED <<alive, brk, loop, disp, pairing, op, trouble, seenBy>>

LEMMA TakesEffect ==
  ASSUME PollInv, NEW g \in DOMAIN gens, handleGenerationUpdate(g), ~(Head(gens[g].batch) < offset)
  PROVE  \E u \in Ids : Takes(g, u)
<1>0. /\ gens[g].pc = "batch" /\ gens[g].batch # <<>>
      /\ UNCHANGED <<alive, brk, loop, disp, pairing, op, trouble, seenBy>>
  BY DEF handleGenerationUpdate
<1>1. PICK u \in Ids : u = Head(gens[g].batch)
  BY <1>0, FirstOfBatch
<1>2. u = gens[g].batch[1] /\ u = offset
  <2>1. u = gens[g].batch[1] /\ u <= offset
    BY <1>0, <1>1, FirstOfBatch
  <2> QED  BY <1>1, <2>1, OffsetIs DEF Ids
<1>3. /\ offset' = u + 1
      /\ IF u \in Msgs THEN handleMessage(g, u) ELSE handleCallbackQuery(g, u)
  BY <1>1 DEF handleGenerationUpdate
<1>4. /\ seen \subseteq seen' /\ seen' \subseteq seen \cup {Key(u)}
      /\ u \notin Msgs => seen' = seen
  BY <1>3 DEF handleMessage, handleCallbackQuery
<1>5. Wanted(u) /\ u \in Msgs => Key(u) \notin seen
  <2>1. SUFFICES ASSUME Wanted(u), u \in Msgs, Key(u) \in seen PROVE FALSE
    OBVIOUS
  <2>2. PICK v \in Msgs : v < offset /\ Key(v) = Key(u)
    BY <2>1 DEF PollInv, PollOK, SeenOK
  <2> QED  BY <1>2, <2>1, <2>2 DEF Wanted
<1>6. CASE gens' = Next1(g) /\ ~Wanted(u)
  <2>1. /\ Others(g) /\ SameEnds(gens'[g], gens[g]) /\ gens'[g].batch = Tail(gens[g].batch)
        /\ gens'[g].live = gens[g].live /\ gens'[g].pc = gens[g].pc
        /\ gens'[g].closed = gens[g].closed
    BY <1>0, <1>6, Next1Effect
  <2> QED  BY <1>0, <1>2, <1>3, <1>4, <1>6, <2>1 DEF Takes
<1>7. ASSUME NEW p \in {"answer", "handing"}, gens' = [gens EXCEPT ![g].pc = p],
             Stream[u].chat \in AllowFrom,
             u \in Msgs => Key(u) \notin seen /\ Key(u) \in seen'
      PROVE  Takes(g, u)
  <2> DEFINE r == [gens[g] EXCEPT !.pc = p]
  <2>1. gens[g] \in Generation /\ gens \in Seq(Generation)
    BY AtGeneration
  <2>2. /\ r \in Generation /\ SameEnds(r, gens[g]) /\ r.batch = gens[g].batch
        /\ r.live = gens[g].live /\ r.pc = p /\ r.closed = gens[g].closed
    <3>1. p \in {"batch", "answer", "handing"}
      OBVIOUS
    <3> QED  BY <2>1, <3>1, UpdPc
  <2>3. gens' = [gens EXCEPT ![g] = r]
    BY <1>7
  <2> HIDE DEF r
  <2>4. Others(g) /\ gens'[g] = r
    BY <2>1, <2>2, <2>3, Puts0
  <2> QED  BY <1>0, <1>2, <1>3, <1>4, <1>7, <2>2, <2>4 DEF Takes
<1>8. CASE u \in Msgs
  <2>1. CASE Stream[u].text # "" /\ ~isDuplicate(u) /\ Stream[u].chat \in AllowFrom
    <3>1. gens' = [gens EXCEPT ![g].pc = "handing"] /\ Key(u) \in seen' /\ Key(u) \notin seen
      BY <1>3, <1>8, <2>1 DEF handleMessage, isDuplicate
    <3> QED  BY <1>7, <2>1, <3>1
  <2>2. CASE ~(Stream[u].text # "" /\ ~isDuplicate(u) /\ Stream[u].chat \in AllowFrom)
    <3>1. gens' = Next1(g)
      BY <1>3, <1>8, <2>2 DEF handleMessage
    <3>2. ~Wanted(u)
      BY <1>5, <1>8, <2>2 DEF Wanted, isDuplicate
    <3> QED  BY <1>6, <3>1, <3>2
  <2> QED  BY <2>1, <2>2
<1>9. CASE u \notin Msgs
  <2>1. CASE Stream[u].chat \in AllowFrom
    <3>1. gens' = [gens EXCEPT ![g].pc = "answer"]
      BY <1>3, <1>9, <2>1 DEF handleCallbackQuery
    <3> QED  BY <1>7, <1>9, <2>1, <3>1
  <2>2. CASE Stream[u].chat \notin AllowFrom
    <3>1. gens' = Next1(g) /\ ~Wanted(u)
      BY <1>3, <1>9, <2>2 DEF handleCallbackQuery, Wanted
    <3> QED  BY <1>6, <3>1
  <2> QED  BY <2>1, <2>2
<1> QED  BY <1>8, <1>9

\* A closed generation has no batch; only the newest one is not closed.
LEMMA OthersClosed ==
  ASSUME PollInv, NEW g \in DOMAIN gens, ~gens[g].closed, NEW h \in DOMAIN gens, h # g
  PROVE  gens[h].closed /\ gens[h].pc = "done" /\ gens[h].batch = <<>> /\ ~Holds(h)
<1>1. g = Len(gens)
  BY DEF PollInv, PollOK, Chain, ChainAt
<1>2. gens[h].closed /\ gens[h].pc = "done"
  BY <1>1 DEF PollInv, PollOK, Chain, ChainAt
<1> QED  BY <1>2 DEF PollInv, PollOK, Batches, BatchAt, Holds

LEMMA SeqAre ==
  ASSUME NEW S, NEW T, S \subseteq T, NEW s \in Seq(S)
  PROVE  /\ s \in Seq(T) /\ Len(s) \in Nat /\ DOMAIN s = 1..Len(s)
         /\ \A i \in DOMAIN s : s[i] \in S
OBVIOUS

\* The channels hold updates, each in the channel of its kind.
LEMMA BoxesAre ==
  ASSUME gens \in Seq(Generation), NEW g \in DOMAIN gens, NEW l \in Loops
  PROVE  /\ Box(g, l) \in Seq(Ids)
         /\ \A i \in DOMAIN Box(g, l) : /\ Box(g, l)[i] \in Ids /\ Box(g, l)[i] \in Nat
                                       /\ LoopOf(Box(g, l)[i]) = l
<1>1. gens[g].msgs \in Seq(Msgs) /\ gens[g].cbs \in Seq(Cbs)
  BY GensAre, Fields
<1>2. Ids \subseteq Nat /\ Msgs \cap Cbs = {}
  BY DEF Msgs, Cbs, Ids
<1>3. Msgs \subseteq Ids /\ Cbs \subseteq Ids
  BY DEF Msgs, Cbs, Ids
<1>4. CASE l = "updates"
  <2>1. Box(g, l) \in Seq(Msgs)
    BY <1>1, <1>4 DEF Box
  <2>2. Box(g, l) \in Seq(Ids) /\ \A i \in DOMAIN Box(g, l) : Box(g, l)[i] \in Msgs
    BY <1>3, <2>1, SeqAre
  <2> QED  BY <1>2, <1>4, <1>3, <2>2 DEF LoopOf
<1>5. CASE l = "callbacks"
  <2>1. Box(g, l) \in Seq(Cbs)
    BY <1>1, <1>5 DEF Box
  <2>2. Box(g, l) \in Seq(Ids) /\ \A i \in DOMAIN Box(g, l) : Box(g, l)[i] \in Cbs
    BY <1>3, <2>1, SeqAre
  <2> QED  BY <1>2, <1>5, <1>3, <2>2 DEF LoopOf
<1> QED  BY <1>4, <1>5 DEF Loops

LEMMA TakesHolds ==
  ASSUME PollInv, NEW g \in DOMAIN gens, NEW u \in Ids, Takes(g, u)
  PROVE  PollInv'
<1>0. /\ u = offset /\ offset' = u + 1 /\ u \in Nat
      /\ gens[g].pc = "batch" /\ gens[g].batch # <<>> /\ gens[g].batch[1] = u
      /\ Others(g) /\ SameEnds(gens'[g], gens[g])
      /\ gens'[g].live = gens[g].live /\ gens'[g].closed = gens[g].closed
      /\ seen \subseteq seen'
      /\ alive' = alive /\ brk' = brk /\ loop' = loop /\ disp' = disp /\ authorized' = authorized
      /\ codes' = codes /\ trouble' = trouble /\ dispatched' = dispatched /\ lost' = lost
      /\ DOMAIN gens' = DOMAIN gens /\ Len(gens') = Len(gens)
  BY DEF Takes, pairing, seenBy, Others, Ids
<1> DEFINE dropped == /\ gens'[g].pc = "batch" /\ gens'[g].batch = Tail(gens[g].batch)
                      /\ ~Wanted(u)
           kept == /\ gens'[g].pc \in {"answer", "handing"} /\ gens'[g].batch = gens[g].batch
                   /\ Stream[u].chat \in AllowFrom
                   /\ u \in Msgs => Key(u) \notin seen /\ Key(u) \in seen'
<1>1. dropped \/ kept
  BY DEF Takes
<1>2. ChainAt(g) /\ BatchAt(g) /\ StartAt(g)
  BY AtGeneration
<1>3. ~gens[g].closed
  BY <1>0, <1>2 DEF ChainAt
<1>4. \A h \in DOMAIN gens \ {g} :
        SameRec(gens'[h], gens[h]) /\ gens[h].batch = <<>> /\ ~Holds(h) /\ gens[h].pc = "done"
  BY <1>0, <1>3, OthersClosed DEF Others
<1>5. ~Holds(g)
  BY <1>0 DEF Holds
<1>6. \A h \in DOMAIN gens : KeepsEnds(h)
  BY <1>0 DEF KeepsEnds, Others, SameRec, SameEnds
<1>7. TypeOK'
  <2>1. offset' \in 1..(Len(Stream) + 1)
    BY <1>0, BoundsAssumption DEF Ids
  <2> QED  BY <1>0, <2>1 DEF PollInv, TypeOK, Others, Breaker, LoopState, Generation
<1>8. Chain'
  <2>1. ChainAt(g)'
    BY <1>0, <1>1, <1>2 DEF ChainAt
  <2>2. \A h \in DOMAIN gens \ {g} : ChainAt(h)'
    BY <1>0, <1>4 DEF PollInv, PollOK, Chain, ChainAt, SameRec
  <2> QED  BY <1>0, <2>1, <2>2 DEF Chain
<1>9. Batches'
  <2>0. ASSUME NEW h \in DOMAIN gens \ {g} PROVE BatchAt(h)'
    <3>1. gens'[h].batch = <<>> /\ gens'[h].pc = "done"
      BY <1>4 DEF SameRec
    <3> QED  BY <3>1 DEF BatchAt, Holds
  <2>1. CASE dropped
    <3>1. Tail(gens[g].batch) # <<>> => Tail(gens[g].batch)[1] <= offset'
      BY <1>0, FirstOfBatch
    <3>2. BatchAt(g)'
      BY <1>0, <2>1, <3>1, FirstOfBatch DEF BatchAt, Holds
    <3> QED  BY <1>0, <2>0, <3>2 DEF Batches
  <2>2. CASE kept
    <3>1. BatchAt(g)'
      <4>1. /\ gens'[g].pc \in {"answer", "handing"} /\ gens'[g].batch = gens[g].batch
            /\ gens[g].batch # <<>> /\ gens[g].batch[1] < offset' /\ gens[g].batch[1] <= offset'
            /\ Stream[gens[g].batch[1]].chat \in AllowFrom
        BY <1>0, <2>2
      <4>2. \A i \in 1..(Len(gens[g].batch) - 1) : gens[g].batch[i + 1] = gens[g].batch[i] + 1
        BY <1>2 DEF BatchAt
      <4> QED  BY <4>1, <4>2 DEF BatchAt, Holds
    <3> QED  BY <1>0, <2>0, <3>1 DEF Batches
  <2> QED  BY <1>1, <2>1, <2>2
<1>10. Starts'
  <2>1. StartAt(g)'
    BY <1>0, <1>2 DEF StartAt, SameEnds
  <2>2. \A h \in DOMAIN gens \ {g} : StartAt(h)'
    BY <1>0, <1>4 DEF PollInv, PollOK, Starts, StartAt, SameRec
  <2> QED  BY <1>0, <2>1, <2>2 DEF Starts
<1>11. LoopsOK'
  BY <1>0, <1>6, MovesLoops DEF PollInv, PollOK
<1>12. \A h \in DOMAIN gens, l \in Loops : Box(h, l)' = Box(h, l)
  BY <1>6 DEF KeepsEnds, SameEnds, Box
<1>13. Contents'
  <2>1. \A h \in DOMAIN gens, l \in Loops : \A i \in DOMAIN Box(h, l) :
          /\ Box(h, l)[i] < offset'
          /\ Stream[Box(h, l)[i]].chat \in AllowFrom
          /\ dispatched[Box(h, l)[i]] = 0
          /\ \A k \in DOMAIN gens : \A j \in DOMAIN Box(k, l) :
               Box(h, l)[i] = Box(k, l)[j] => h = k /\ i = j
    <3>1. \A h \in DOMAIN gens, l \in Loops : \A i \in DOMAIN Box(h, l) :
            Box(h, l)[i] \in Nat /\ Box(h, l)[i] < offset
      BY AtGeneration, BoxesAre DEF PollInv, PollOK, Contents
    <3> QED  BY <1>0, <3>1 DEF PollInv, PollOK, Contents
  <2> QED  BY <1>0, <1>12, <2>1 DEF Contents
<1>14. Fresh'
  <2>1. /\ dispatched[u] = 0
        /\ \A h \in DOMAIN gens, l \in Loops : \A i \in DOMAIN Box(h, l) : Box(h, l)[i] # u
    <3>1. \A h \in DOMAIN gens, l \in Loops : \A i \in DOMAIN Box(h, l) :
            Box(h, l)[i] \in Nat /\ Box(h, l)[i] < offset
      BY AtGeneration, BoxesAre DEF PollInv, PollOK, Contents
    <3>2. dispatched[u] = 0
      BY <1>0 DEF PollInv, PollOK, Fresh
    <3> QED  BY <1>0, <3>1, <3>2
  <2>2. ASSUME NEW h \in DOMAIN gens, Holds(h)' PROVE h = g /\ gens'[h].batch[1] = u
    <3>1. h = g
      BY <1>4, <2>2 DEF Holds, SameRec
    <3> QED  BY <1>0, <1>1, <2>2, <3>1 DEF Holds
  <2>3. \A v \in Ids : dispatched[v] <= 1 /\ (v >= offset' => dispatched[v] = 0)
    <3>1. \A v \in Ids : v >= offset' => v >= offset
      BY <1>0 DEF Ids
    <3> QED  BY <3>1 DEF PollInv, PollOK, Fresh
  <2> QED  BY <1>0, <1>12, <2>1, <2>2, <2>3 DEF Fresh
<1>15. SeenOK'
  <2>1. SUFFICES ASSUME NEW k \in seen' PROVE \E v \in Msgs : v < offset' /\ Key(v) = k
    BY DEF SeenOK, Key
  <2>2. CASE k \in seen
    <3>1. PICK v \in Msgs : v < offset /\ Key(v) = k
      BY <2>2 DEF PollInv, PollOK, SeenOK
    <3>2. v \in Nat
      BY DEF Msgs, Ids
    <3> QED  BY <1>0, <3>1, <3>2
  <2>3. CASE k \notin seen
    <3>1. k = Key(u) /\ u \in Msgs
      BY <2>1, <2>3 DEF Takes
    <3> QED  BY <1>0, <3>1
  <2> QED  BY <2>2, <2>3
<1>16. NoSilentLoss'
  <2>1. SUFFICES ASSUME NEW v \in Ids, v < offset', Wanted(v)
                 PROVE  \/ dispatched[v] > 0 \/ InHand(v)' \/ Drained(v)'
                        \/ ~alive \/ (v \in lost /\ trouble.stop > 0)
                        \/ v \in Cbs /\ NotJoined(v)'
    BY <1>0 DEF NoSilentLoss, Wanted, Key
  <2>2. CASE v = u
    <3>1. kept
      BY <1>1, <2>1, <2>2
    <3>2. Holds(g)' /\ Head(gens'[g].batch) = u
      BY <1>0, <3>1, FirstOfBatch DEF Holds
    <3> QED  BY <1>0, <2>2, <3>2 DEF InHand, Holds
  <2>3. CASE v # u
    <3>1. v < offset
      BY <1>0, <2>1, <2>3 DEF Ids
    <3>2. ~InHand(v)
      BY <1>4, <1>5 DEF InHand, Holds
    <3>3. \A h \in DOMAIN gens : Channel(h, v)' = Channel(h, v) /\ gens'[h].joined = gens[h].joined
      BY <1>6 DEF KeepsEnds, SameEnds, Channel
    <3>4. Drained(v) => Drained(v)'
      BY <1>0, <3>3 DEF Drained
    <3>5. NotJoined(v) => NotJoined(v)'
      BY <1>0, <3>3 DEF NotJoined
    <3> QED  BY <2>1, <3>1, <3>2, <3>4, <3>5 DEF PollInv, PollOK, NoSilentLoss
  <2> QED  BY <2>2, <2>3
<1>17. PassedOnce'
  <2>1. ASSUME NEW v \in Msgs, v # u, Passed(v)' PROVE Passed(v)
    <3>1. \A h \in DOMAIN gens : gens'[h].msgs = gens[h].msgs
      BY <1>6 DEF KeepsEnds, SameEnds
    <3>2. \A h \in DOMAIN gens : Holds(h)' => gens'[h].batch[1] = u
      <4>1. SUFFICES ASSUME NEW h \in DOMAIN gens, Holds(h)' PROVE gens'[h].batch[1] = u
        OBVIOUS
      <4>2. h = g
        BY <1>4, <4>1 DEF Holds, SameRec
      <4> QED  BY <1>0, <1>1, <4>1, <4>2 DEF Holds
    <3> QED  BY <1>0, <2>1, <3>1, <3>2 DEF Passed
  <2>2. CASE u \in Msgs /\ kept
    <3>1. SUFFICES ASSUME NEW w \in Msgs
                   PROVE  Cardinality(PassedAs(Key(w))') <= trouble.expiry + (IF Key(w) \in seen' THEN 1 ELSE 0)
      BY <1>0 DEF PassedOnce, Key, PassedAs
    <3>2. Cardinality(PassedAs(Key(w))) <= trouble.expiry + (IF Key(w) \in seen THEN 1 ELSE 0)
      BY DEF PollInv, PassedOnce
    <3>3. trouble.expiry \in Nat /\ Cardinality(PassedAs(Key(w))) \in Nat
      BY MsgsAre DEF PollInv, TypeOK
    <3>4. CASE Key(w) = Key(u)
      <4>1. PassedAs(Key(w))' \subseteq PassedAs(Key(w)) \cup {u}
        BY <2>1 DEF PassedAs, Key
      <4>2. Cardinality(PassedAs(Key(w)) \cup {u}) <= Cardinality(PassedAs(Key(w))) + 1
            /\ IsFiniteSet(PassedAs(Key(w)) \cup {u})
        <5> DEFINE S == PassedAs(Key(w))
        <5>1. IsFiniteSet(S) /\ Cardinality(S) \in Nat
          BY MsgsAre
        <5> HIDE DEF S
        <5>2. /\ IsFiniteSet(S \cup {u})
              /\ Cardinality(S \cup {u}) = IF u \in S THEN Cardinality(S) ELSE Cardinality(S) + 1
          BY <5>1, FS_AddElement
        <5>3. Cardinality(S \cup {u}) <= Cardinality(S) + 1
          BY <5>1, <5>2
        <5> QED  BY <5>2, <5>3 DEF S
      <4>3. Cardinality(PassedAs(Key(w))') <= Cardinality(PassedAs(Key(w)) \cup {u})
            /\ Cardinality(PassedAs(Key(w))') \in Nat
            /\ Cardinality(PassedAs(Key(w)) \cup {u}) \in Nat
        BY <4>1, <4>2, FS_Subset, FS_CardinalityType
      <4>4. Key(w) \notin seen /\ Key(w) \in seen'
        BY <2>2, <3>4
      <4> QED  BY <3>2, <3>3, <4>2, <4>3, <4>4
    <3>5. CASE Key(w) # Key(u)
      <4>1. PassedAs(Key(w))' \subseteq PassedAs(Key(w))
        BY <2>1, <3>5 DEF PassedAs, Key
      <4>2. Cardinality(PassedAs(Key(w))') <= Cardinality(PassedAs(Key(w)))
            /\ Cardinality(PassedAs(Key(w))') \in Nat
        BY <4>1, MsgsAre, FS_Subset, FS_CardinalityType
      <4> QED  BY <1>0, <3>2, <3>3, <4>2
    <3> QED  BY <3>4, <3>5
  <2>3. CASE ~(u \in Msgs /\ kept)
    <3>1. ASSUME u \in Msgs, Passed(u)' PROVE Passed(u)
      <4>1. dropped
        BY <1>1, <2>3, <3>1
      <4>2. \A h \in DOMAIN gens : gens'[h].msgs = gens[h].msgs /\ ~Holds(h)'
        BY <1>4, <1>6, <4>1 DEF KeepsEnds, SameEnds, Holds, SameRec
      <4> QED  BY <1>0, <3>1, <4>2 DEF Passed
    <3>2. \A v \in Msgs : Passed(v)' => Passed(v)
      BY <2>1, <3>1
    <3>3. trouble'.expiry >= trouble.expiry
      <4>1. trouble.expiry \in Nat
        BY DEF PollInv, TypeOK
      <4> QED  BY <1>0, <4>1
    <3> QED  BY <1>0, <1>7, <3>2, <3>3, PassedStill DEF PollInv
  <2> QED  BY <2>2, <2>3
<1>18. GateOK'
  BY <1>0 DEF PollInv, GateOK
<1> QED
  BY <1>7, <1>8, <1>9, <1>10, <1>11, <1>13, <1>14, <1>15, <1>16, <1>17, <1>18 DEF PollInv, PollOK

LEMMA handleGenerationUpdateHolds ==
  ASSUME PollInv, NEW g \in DOMAIN gens, handleGenerationUpdate(g)
  PROVE  PollInv'
BY SkipHolds, TakesEffect, TakesHolds

-----------------------------------------------------------------------------
(***************************************************************************)
(* The worker hands an update over.                                        *)
(***************************************************************************)
\* The update goes to the end of its channel, or is given up.
HandsOver(g, l, u) ==
  /\ gens[g].pc = "handing" /\ gens[g].batch # <<>> /\ gens[g].batch[1] = u /\ LoopOf(u) = l
  /\ Others(g)
  /\ gens'[g].pc = "batch" /\ gens'[g].batch = Tail(gens[g].batch)
  /\ gens'[g].live = gens[g].live /\ gens'[g].closed = gens[g].closed
  /\ gens'[g].started = gens[g].started /\ gens'[g].joined = gens[g].joined
  /\ \A k \in Loops \ {l} : Box(g, k)' = Box(g, k)
  /\ \/ Box(g, l)' = Append(Box(g, l), u) /\ lost' = lost
     \/ Box(g, l)' = Box(g, l) /\ lost' = lost \cup {u} /\ ~Live(g)
  /\ UNCHANGED <<alive, offset, seen, brk, loop, disp, pairing, op, trouble, dispatched>>

LEMMA HandedEffect ==
  ASSUME PollInv, NEW g \in DOMAIN gens, gens[g].pc = "handing"
  PROVE  /\ gens[g].batch # <<>> /\ gens[g].batch[1] = Head(gens[g].batch) /\ gens[g].batch[1] \in Ids
         /\ Handed(g) \in Seq(Generation) /\ Len(Handed(g)) = Len(gens)
         /\ DOMAIN Handed(g) = DOMAIN gens
         /\ \A h \in DOMAIN gens \ {g} : Handed(g)[h] = gens[h]
         /\ SameEnds(Handed(g)[g], gens[g]) /\ Handed(g)[g].pc = "batch"
         /\ Handed(g)[g].batch = Tail(gens[g].batch)
         /\ Handed(g)[g].live = gens[g].live /\ Handed(g)[g].closed = gens[g].closed
         /\ Handed(g)[g] \in Generation
<1>1. gens[g].batch # <<>>
  BY AtGeneration DEF BatchAt, Holds
<1> DEFINE q == Tail(gens[g].batch)
           r == [gens[g] EXCEPT !.batch = q, !.pc = "batch"]
<1>2. q \in Seq(Ids) /\ gens[g].batch[1] = Head(gens[g].batch) /\ gens[g].batch[1] \in Ids
  BY <1>1, FirstOfBatch
<1>3. gens[g] \in Generation /\ gens \in Seq(Generation)
  BY AtGeneration
<1>4. Handed(g) = [gens EXCEPT ![g] = r]
  BY <1>3 DEF Handed, Next1
<1> HIDE DEF q
<1>5. /\ r \in Generation /\ SameEnds(r, gens[g]) /\ r.batch = q
      /\ r.live = gens[g].live /\ r.pc = "batch" /\ r.closed = gens[g].closed
  BY <1>2, <1>3, UpdHanded
<1> HIDE DEF r
<1>6. /\ Handed(g) \in Seq(Generation) /\ Len(Handed(g)) = Len(gens)
      /\ DOMAIN Handed(g) = DOMAIN gens
      /\ \A h \in DOMAIN gens \ {g} : Handed(g)[h] = gens[h]
      /\ Handed(g)[g] = r
  BY <1>3, <1>4, <1>5
<1> QED  BY <1>1, <1>2, <1>5, <1>6 DEF q

LEMMA GivenUpEffect ==
  ASSUME PollInv, NEW g \in DOMAIN gens, gens[g].pc = "handing", GivenUp(g),
         NEW l \in Loops, LoopOf(gens[g].batch[1]) = l,
         UNCHANGED <<alive, offset, seen, brk, loop, disp, pairing, op, trouble, dispatched>>
  PROVE  HandsOver(g, l, gens[g].batch[1])
<1>1. ~Live(g) /\ gens' = Handed(g) /\ lost' = lost \cup {gens[g].batch[1]}
  BY HandedEffect DEF GivenUp
<1>2. /\ Others(g) /\ SameEnds(gens'[g], gens[g])
      /\ gens'[g].pc = "batch" /\ gens'[g].batch = Tail(gens[g].batch)
      /\ gens'[g].live = gens[g].live /\ gens'[g].closed = gens[g].closed
  BY <1>1, HandedEffect DEF Others, SameRec
<1>3. \A k \in Loops : Box(g, k)' = Box(g, k)
  BY <1>2 DEF Box, SameEnds
<1> QED  BY <1>1, <1>2, <1>3, HandedEffect DEF HandsOver, SameEnds

LEMMA sendMessageEffect ==
  ASSUME PollInv, NEW g \in DOMAIN gens, sendMessage(g)
  PROVE  HandsOver(g, "updates", gens[g].batch[1]) /\ gens[g].batch[1] \in Ids
<1>0. /\ gens[g].pc = "handing" /\ Head(gens[g].batch) \in Msgs
      /\ UNCHANGED <<alive, offset, seen, brk, loop, disp, pairing, op, trouble, dispatched>>
  BY DEF sendMessage
<1> DEFINE u == gens[g].batch[1]
<1>1. u \in Msgs /\ LoopOf(u) = "updates" /\ u \in Ids
  BY <1>0, HandedEffect DEF LoopOf
<1>2. CASE GivenUp(g)
  BY <1>0, <1>1, <1>2, GivenUpEffect DEF Loops
<1>3. CASE gens' = [Handed(g) EXCEPT ![g].msgs = Append(@, Head(gens[g].batch))] /\ lost' = lost
  <2> DEFINE q == Append(gens[g].msgs, u)
             r == [Handed(g)[g] EXCEPT !.msgs = q]
  <2>1. q \in Seq(Msgs)
    <3>1. gens[g].msgs \in Seq(Msgs)
      BY AtGeneration, Fields
    <3> QED  BY <1>1, <3>1
  <2>2. gens' = [Handed(g) EXCEPT ![g] = r]
    BY <1>0, <1>3, HandedEffect DEF SameEnds
  <2> HIDE DEF q
  <2>3. /\ r \in Generation /\ r.msgs = q /\ r.cbs = gens[g].cbs
        /\ r.joined = gens[g].joined /\ r.started = gens[g].started /\ r.batch = Tail(gens[g].batch)
        /\ r.live = gens[g].live /\ r.pc = "batch" /\ r.closed = gens[g].closed
    <3>1. Handed(g)[g] \in Generation
      BY <1>0, HandedEffect
    <3>2. /\ r \in Generation /\ r.msgs = q /\ r.cbs = Handed(g)[g].cbs
          /\ r.joined = Handed(g)[g].joined /\ r.started = Handed(g)[g].started
          /\ r.batch = Handed(g)[g].batch
          /\ r.live = Handed(g)[g].live /\ r.pc = Handed(g)[g].pc /\ r.closed = Handed(g)[g].closed
      BY <2>1, <3>1, UpdMsgs
    <3> HIDE DEF r
    <3> QED  BY <1>0, <3>2, HandedEffect DEF SameEnds
  <2> HIDE DEF r
  <2>4. Others(g) /\ gens'[g] = r
    BY <1>0, <2>2, <2>3, HandedEffect DEF Others, SameRec
  <2>5. /\ \A k \in Loops \ {"updates"} : Box(g, k)' = Box(g, k)
        /\ Box(g, "updates")' = Append(Box(g, "updates"), u)
    BY <2>3, <2>4 DEF Box, q, Loops
  <2> QED  BY <1>0, <1>1, <1>3, <2>3, <2>4, <2>5, HandedEffect DEF HandsOver
<1> QED  BY <1>2, <1>3 DEF sendMessage

LEMMA sendCallbackEffect ==
  ASSUME PollInv, NEW g \in DOMAIN gens, sendCallback(g)
  PROVE  HandsOver(g, "callbacks", gens[g].batch[1]) /\ gens[g].batch[1] \in Ids
<1>0. /\ gens[g].pc = "handing" /\ Head(gens[g].batch) \in Cbs
      /\ UNCHANGED <<alive, offset, seen, brk, loop, disp, pairing, op, trouble, dispatched>>
  BY DEF sendCallback
<1> DEFINE u == gens[g].batch[1]
<1>1. u \in Cbs /\ LoopOf(u) = "callbacks" /\ u \in Ids
  BY <1>0, HandedEffect DEF LoopOf, Cbs
<1>2. CASE GivenUp(g)
  BY <1>0, <1>1, <1>2, GivenUpEffect DEF Loops
<1>3. CASE gens' = [Handed(g) EXCEPT ![g].cbs = Append(@, Head(gens[g].batch))] /\ lost' = lost
  <2> DEFINE q == Append(gens[g].cbs, u)
             r == [Handed(g)[g] EXCEPT !.cbs = q]
  <2>1. q \in Seq(Cbs)
    <3>1. gens[g].cbs \in Seq(Cbs)
      BY AtGeneration, Fields
    <3> QED  BY <1>1, <3>1
  <2>2. gens' = [Handed(g) EXCEPT ![g] = r]
    BY <1>0, <1>3, HandedEffect DEF SameEnds
  <2> HIDE DEF q
  <2>3. /\ r \in Generation /\ r.cbs = q /\ r.msgs = gens[g].msgs
        /\ r.joined = gens[g].joined /\ r.started = gens[g].started /\ r.batch = Tail(gens[g].batch)
        /\ r.live = gens[g].live /\ r.pc = "batch" /\ r.closed = gens[g].closed
    <3>1. Handed(g)[g] \in Generation
      BY <1>0, HandedEffect
    <3>2. /\ r \in Generation /\ r.cbs = q /\ r.msgs = Handed(g)[g].msgs
          /\ r.joined = Handed(g)[g].joined /\ r.started = Handed(g)[g].started
          /\ r.batch = Handed(g)[g].batch
          /\ r.live = Handed(g)[g].live /\ r.pc = Handed(g)[g].pc /\ r.closed = Handed(g)[g].closed
      BY <2>1, <3>1, UpdCbs
    <3> HIDE DEF r
    <3> QED  BY <1>0, <3>2, HandedEffect DEF SameEnds
  <2> HIDE DEF r
  <2>4. Others(g) /\ gens'[g] = r
    BY <1>0, <2>2, <2>3, HandedEffect DEF Others, SameRec
  <2>5. /\ \A k \in Loops \ {"callbacks"} : Box(g, k)' = Box(g, k)
        /\ Box(g, "callbacks")' = Append(Box(g, "callbacks"), u)
    BY <2>3, <2>4 DEF Box, q, Loops
  <2> QED  BY <1>0, <1>1, <1>3, <2>3, <2>4, <2>5, HandedEffect DEF HandsOver
<1> QED  BY <1>2, <1>3 DEF sendCallback

\* What Append and Tail leave in a sequence.
LEMMA AppendAre ==
  ASSUME NEW S, NEW s \in Seq(S), NEW e \in S
  PROVE  /\ DOMAIN Append(s, e) = 1..(Len(s) + 1) /\ DOMAIN s = 1..Len(s) /\ Len(s) \in Nat
         /\ \A i \in DOMAIN s : i \in DOMAIN Append(s, e) /\ Append(s, e)[i] = s[i]
         /\ Append(s, e)[Len(s) + 1] = e
         /\ \A i \in DOMAIN Append(s, e) : i \in DOMAIN s \/ i = Len(s) + 1
         /\ Contains(Append(s, e), e)
         /\ \A x : Contains(s, x) => Contains(Append(s, e), x)
<1>1. /\ DOMAIN Append(s, e) = 1..(Len(s) + 1) /\ DOMAIN s = 1..Len(s) /\ Len(s) \in Nat
      /\ Len(Append(s, e)) = Len(s) + 1
      /\ \A i \in 1..Len(s) : Append(s, e)[i] = s[i]
      /\ Append(s, e)[Len(s) + 1] = e
  OBVIOUS
<1>2. \A i \in 1..Len(s) : i \in 1..(Len(s) + 1)
  BY <1>1
<1>3. Len(s) + 1 \in 1..(Len(s) + 1)
  BY <1>1
<1>4. Contains(Append(s, e), e)
  BY <1>1, <1>3 DEF Contains
<1>5. \A x : Contains(s, x) => Contains(Append(s, e), x)
  BY <1>1, <1>2 DEF Contains
<1>6. \A i \in 1..(Len(s) + 1) : i \in 1..Len(s) \/ i = Len(s) + 1
  BY <1>1
<1> QED  BY <1>1, <1>2, <1>4, <1>5, <1>6

LEMMA TailAre ==
  ASSUME NEW S, NEW s \in Seq(S), s # <<>>
  PROVE  /\ Tail(s) \in Seq(S) /\ DOMAIN s = 1..Len(s) /\ Len(s) \in Nat \ {0}
         /\ Head(s) = s[1] /\ 1 \in DOMAIN s /\ s[1] \in S
         /\ \A i \in DOMAIN Tail(s) : i + 1 \in DOMAIN s /\ i \in Nat /\ i >= 1 /\ Tail(s)[i] = s[i + 1]
         /\ \A x : Contains(s, x) => x = Head(s) \/ Contains(Tail(s), x)
<1>1. /\ Tail(s) \in Seq(S) /\ DOMAIN s = 1..Len(s) /\ Len(s) \in Nat \ {0}
      /\ Len(Tail(s)) = Len(s) - 1 /\ DOMAIN Tail(s) = 1..(Len(s) - 1)
      /\ Head(s) = s[1] /\ s[1] \in S
      /\ \A i \in 1..(Len(s) - 1) : Tail(s)[i] = s[i + 1]
  OBVIOUS
<1>2. 1 \in 1..Len(s) /\ \A i \in 1..(Len(s) - 1) : i + 1 \in 1..Len(s) /\ i \in Nat /\ i >= 1
  BY <1>1
<1>3. ASSUME NEW x, Contains(s, x), x # Head(s) PROVE Contains(Tail(s), x)
  <2>1. PICK i \in 1..Len(s) : s[i] = x
    BY <1>3 DEF Contains
  <2>2. i # 1
    BY <1>1, <1>3, <2>1
  <2>3. i - 1 \in 1..(Len(s) - 1) /\ (i - 1) + 1 = i
    BY <1>1, <2>2
  <2>4. Tail(s)[i - 1] = x
    BY <1>1, <2>1, <2>3
  <2> QED  BY <1>1, <2>3, <2>4 DEF Contains
<1> QED  BY <1>1, <1>2, <1>3

LEMMA HandsOverHolds ==
  ASSUME PollInv, NEW g \in DOMAIN gens, NEW l \in Loops, NEW u \in Ids, HandsOver(g, l, u)
  PROVE  PollInv'
<1>0. /\ gens[g].pc = "handing" /\ gens[g].batch # <<>> /\ gens[g].batch[1] = u /\ LoopOf(u) = l
      /\ Others(g) /\ DOMAIN gens' = DOMAIN gens /\ Len(gens') = Len(gens)
      /\ gens'[g].pc = "batch" /\ gens'[g].batch = Tail(gens[g].batch)
      /\ gens'[g].live = gens[g].live /\ gens'[g].closed = gens[g].closed
      /\ gens'[g].started = gens[g].started /\ gens'[g].joined = gens[g].joined
      /\ alive' = alive /\ brk' = brk /\ loop' = loop /\ disp' = disp /\ authorized' = authorized
      /\ codes' = codes /\ trouble' = trouble /\ dispatched' = dispatched
      /\ offset' = offset /\ seen' = seen
  BY DEF HandsOver, pairing, Others
<1> DEFINE sent == Box(g, l)' = Append(Box(g, l), u) /\ lost' = lost
           given == Box(g, l)' = Box(g, l) /\ lost' = lost \cup {u} /\ ~Live(g)
<1>1. sent \/ given
  BY DEF HandsOver
<1>2. ChainAt(g) /\ BatchAt(g) /\ StartAt(g) /\ gens \in Seq(Generation)
  BY AtGeneration
<1>3. ~gens[g].closed /\ Holds(g) /\ ~Holds(g)'
  BY <1>0, <1>2 DEF ChainAt, Holds
<1>4. \A h \in DOMAIN gens \ {g} :
        SameRec(gens'[h], gens[h]) /\ ~Holds(h) /\ ~Holds(h)'
  BY <1>0, <1>3, OthersClosed DEF Others, SameRec, Holds
<1>5. \A h \in DOMAIN gens, k \in Loops : (h # g \/ k # l) => Box(h, k)' = Box(h, k)
  BY <1>4 DEF HandsOver, Box, SameRec
<1>6. /\ Box(g, l) \in Seq(Ids)
      /\ \A h \in DOMAIN gens, k \in Loops : \A i \in DOMAIN Box(h, k) :
           LoopOf(Box(h, k)[i]) = k /\ Box(h, k)[i] # u
  BY <1>0, <1>2, <1>3, BoxesAre DEF PollInv, PollOK, Fresh
\* An entry of a channel afterwards is an entry before, at the same place, or u.
<1>7. ASSUME NEW h \in DOMAIN gens, NEW k \in Loops, NEW i \in DOMAIN Box(h, k)'
      PROVE  \/ i \in DOMAIN Box(h, k) /\ Box(h, k)'[i] = Box(h, k)[i]
             \/ h = g /\ k = l /\ i = Len(Box(g, l)) + 1 /\ Box(h, k)'[i] = u
  BY <1>1, <1>5, <1>6, <1>7, AppendAre
<1>8. TypeOK'
  <2>1. lost' \subseteq Ids
    BY <1>1 DEF PollInv, TypeOK
  <2> QED  BY <1>0, <2>1 DEF PollInv, TypeOK, Others, Breaker, LoopState, Generation
<1>9. Chain'
  BY <1>0, <1>2, <1>4 DEF PollInv, PollOK, Chain, ChainAt, SameRec
<1>10. Batches'
  <2>1. BatchAt(g)'
    <3>1. gens[g].batch[1] < offset
      BY <1>2, <1>3 DEF BatchAt
    <3>2. Tail(gens[g].batch) # <<>> => Tail(gens[g].batch)[1] <= offset
      <4>1. u \in Nat /\ offset \in Nat
        BY OffsetIs DEF Ids
      <4> QED  BY SMTT(30), <1>0, <3>1, <4>1, FirstOfBatch
    <3> QED  BY <1>0, <1>3, <3>2, FirstOfBatch DEF BatchAt
  <2>2. \A h \in DOMAIN gens \ {g} : BatchAt(h)'
    BY <1>0, <1>4 DEF PollInv, PollOK, Batches, BatchAt, Holds, SameRec
  <2> QED  BY <1>0, <2>1, <2>2 DEF Batches
<1>11. Starts'
  <2>1. StartAt(g)'
    BY <1>0, <1>2 DEF StartAt
  <2>2. \A h \in DOMAIN gens \ {g} : StartAt(h)'
    BY <1>0, <1>4 DEF PollInv, PollOK, Starts, StartAt, SameRec
  <2> QED  BY <1>0, <2>1, <2>2 DEF Starts
<1>12. LoopsOK'
  <2>1. \A h \in DOMAIN gens : /\ gens'[h].live = gens[h].live /\ gens'[h].closed = gens[h].closed
                               /\ gens'[h].joined = gens[h].joined
    BY <1>0, <1>4 DEF SameRec
  <2>2. ASSUME NEW k \in Loops, alive, NEW h \in DOMAIN gens, k \in gens[h].joined
        PROVE  \/ loop[k] = [pc |-> "drain", g |-> h]
               \/ gens'[h].closed /\ Box(h, k)' = <<>>
    <3>1. \/ loop[k] = [pc |-> "drain", g |-> h]
          \/ gens[h].closed /\ Box(h, k) = <<>>
      BY <2>2 DEF PollInv, PollOK, LoopsOK
    <3> QED  BY <1>3, <1>5, <2>1, <3>1
  <2> QED  BY <1>0, <2>1, <2>2 DEF PollInv, PollOK, LoopsOK
<1>13. dispatched[u] = 0 /\ Stream[u].chat \in AllowFrom /\ u < offset
  BY <1>0, <1>2, <1>3 DEF BatchAt, PollInv, PollOK, Fresh
<1>14. Contents'
  <2>1. ASSUME NEW h \in DOMAIN gens, NEW k \in Loops, NEW i \in DOMAIN Box(h, k)'
        PROVE  /\ Stream[Box(h, k)'[i]].chat \in AllowFrom
               /\ Box(h, k)'[i] < offset
               /\ dispatched[Box(h, k)'[i]] = 0
    BY <1>7, <1>13, <2>1 DEF PollInv, PollOK, Contents
  <2>2. ASSUME NEW h \in DOMAIN gens, NEW k \in Loops, NEW i \in DOMAIN Box(h, k)',
               NEW m \in DOMAIN gens, NEW j \in DOMAIN Box(m, k)',
               Box(h, k)'[i] = Box(m, k)'[j]
        PROVE  h = m /\ i = j
    <3>1. CASE Box(h, k)'[i] = u
      <4>1. h = g /\ k = l /\ i = Len(Box(g, l)) + 1
        BY <1>6, <1>7, <3>1
      <4>2. Box(m, k)'[j] = u
        BY <2>2, <3>1
      <4>3. m = g /\ j = Len(Box(g, l)) + 1
        BY <1>6, <1>7, <4>2
      <4> QED  BY <4>1, <4>3
    <3>2. CASE Box(h, k)'[i] # u
      <4>1. /\ i \in DOMAIN Box(h, k) /\ Box(h, k)'[i] = Box(h, k)[i]
            /\ j \in DOMAIN Box(m, k) /\ Box(m, k)'[j] = Box(m, k)[j]
        BY <1>7, <2>2, <3>2
      <4>2. Box(h, k)[i] = Box(m, k)[j]
        BY <2>2, <4>1
      <4>3. Contents
        BY DEF PollInv, PollOK
      <4> QED  BY <4>1, <4>2, <4>3 DEF Contents
    <3> QED  BY <3>1, <3>2
  <2> QED  BY <1>0, <2>1, <2>2 DEF Contents
<1>15. Fresh'
  <2>1. \A h \in DOMAIN gens : ~Holds(h)'
    BY <1>3, <1>4
  <2> QED  BY <1>0, <2>1 DEF PollInv, PollOK, Fresh
<1>16. SeenOK'
  BY <1>0 DEF PollInv, PollOK, SeenOK, Key
<1>17. NoSilentLoss'
  <2>1. SUFFICES ASSUME NEW v \in Ids, v < offset, Wanted(v), alive
                 PROVE  \/ dispatched[v] > 0 \/ InHand(v)' \/ Drained(v)'
                        \/ (v \in lost' /\ trouble.stop > 0)
                        \/ v \in Cbs /\ NotJoined(v)'
    BY <1>0 DEF NoSilentLoss, Wanted, Key
  <2>2. /\ \A h \in DOMAIN gens : Channel(h, v) = Box(h, LoopOf(v)) /\ Channel(h, v)' = Box(h, LoopOf(v))'
        /\ LoopOf(v) \in Loops
    BY DEF Channel, Box, LoopOf, Loops
  <2>3. \A h \in DOMAIN gens : gens'[h].joined = gens[h].joined
    BY <1>0, <1>4 DEF SameRec
  <2>4. CASE v = u
    <3>1. CASE sent
      <4>1. Contains(Channel(g, u)', u)
        <5>1. Channel(g, u)' = Append(Box(g, l), u)
          BY <1>0, <2>2, <2>4, <3>1
        <5>2. Contains(Append(Box(g, l), u), u)
          BY <1>6, AppendAre
        <5> QED  BY <5>1, <5>2
      <4>2. CASE l \in gens[g].joined
        <5>1. loop[l] = [pc |-> "drain", g |-> g]
          BY <1>3, <2>1, <4>2 DEF PollInv, PollOK, LoopsOK
        <5> QED  BY <1>0, <2>4, <4>1, <5>1 DEF Drained
      <4>3. CASE l \notin gens[g].joined
        <5>1. l # "updates"
          BY <1>0, <1>2, <4>3 DEF StartAt
        <5>2. u \in Cbs
          BY <1>0, <5>1 DEF LoopOf, Cbs
        <5> QED  BY <1>0, <2>3, <2>4, <4>1, <4>3, <5>2 DEF NotJoined
      <4> QED  BY <4>2, <4>3
    <3>2. CASE given
      BY <1>0, <1>2, <2>1, <2>4, <3>2 DEF Live, StartAt
    <3> QED  BY <1>1, <3>1, <3>2
  <2>5. CASE v # u
    <3>1. ~InHand(v)
      <4>1. Head(gens[g].batch) = u
        BY <1>0, FirstOfBatch
      <4> QED  BY <1>4, <2>5, <4>1 DEF InHand, Holds
    <3>2. \A h \in DOMAIN gens : Contains(Channel(h, v), v) => Contains(Channel(h, v)', v)
      <4>1. SUFFICES ASSUME NEW h \in DOMAIN gens, Contains(Box(h, LoopOf(v)), v)
                     PROVE  Contains(Box(h, LoopOf(v))', v)
        BY <2>2
      <4>2. CASE h = g /\ LoopOf(v) = l /\ sent
        BY <1>6, <4>1, <4>2, AppendAre
      <4>3. CASE ~(h = g /\ LoopOf(v) = l /\ sent)
        BY <1>1, <1>5, <2>2, <4>1, <4>3
      <4> QED  BY <4>2, <4>3
    <3>3. Drained(v) => Drained(v)'
      BY <1>0, <3>2 DEF Drained
    <3>4. NotJoined(v) => NotJoined(v)'
      BY <1>0, <2>3, <3>2 DEF NotJoined
    <3>5. lost \subseteq lost'
      BY <1>1
    <3> QED  BY <2>1, <3>1, <3>3, <3>4, <3>5 DEF PollInv, PollOK, NoSilentLoss
  <2> QED  BY <2>4, <2>5
<1>18. \A v \in Msgs : Passed(v)' => Passed(v)
  <2>1. SUFFICES ASSUME NEW v \in Msgs, Passed(v)' PROVE Passed(v)
    OBVIOUS
  <2>2. CASE dispatched[v] > 0
    BY <2>2 DEF Passed
  <2>3. ASSUME NEW h \in DOMAIN gens, NEW i \in DOMAIN gens'[h].msgs, gens'[h].msgs[i] = v
        PROVE  Passed(v)
    <3>1. Box(h, "updates")' = gens'[h].msgs /\ Box(h, "updates") = gens[h].msgs /\ "updates" \in Loops
      BY DEF Box, Loops
    <3>2. (i \in DOMAIN gens[h].msgs /\ gens[h].msgs[i] = v) \/ v = u
      BY <1>7, <2>3, <3>1
    <3> QED  BY <1>0, <1>3, <3>2 DEF Passed
  <2> QED  BY <1>0, <1>3, <1>4, <2>1, <2>2, <2>3 DEF Passed
<1>19. PollOK'
  BY <1>9, <1>10, <1>11, <1>12, <1>14, <1>15, <1>16, <1>17 DEF PollOK
<1>20. trouble'.expiry >= trouble.expiry
  <2>1. trouble.expiry \in Nat
    BY DEF PollInv, TypeOK
  <2> QED  BY <1>0, <2>1
<1> QED  BY <1>0, <1>8, <1>18, <1>19, <1>20, PollerStep

LEMMA sendHolds ==
  ASSUME PollInv, NEW g \in DOMAIN gens, sendMessage(g) \/ sendCallback(g)
  PROVE  PollInv'
<1>1. "updates" \in Loops /\ "callbacks" \in Loops
  BY DEF Loops
<1>2. ASSUME sendMessage(g) PROVE PollInv'
  <2>1. PICK u \in Ids : u = gens[g].batch[1] /\ HandsOver(g, "updates", u)
    BY <1>2, sendMessageEffect
  <2> QED  BY <1>1, <2>1, HandsOverHolds
<1>3. ASSUME sendCallback(g) PROVE PollInv'
  <2>1. PICK u \in Ids : u = gens[g].batch[1] /\ HandsOver(g, "callbacks", u)
    BY <1>3, sendCallbackEffect
  <2> QED  BY <1>1, <2>1, HandsOverHolds
<1> QED  BY <1>2, <1>3

-----------------------------------------------------------------------------
(***************************************************************************)
(* The loops: draining.                                                    *)
(***************************************************************************)
\* The loop l takes the first update u of the channel of generation g.
Drains(g, l, u) ==
  /\ loop[l].pc = "drain" /\ loop[l].g = g
  /\ Box(g, l) # <<>> /\ u = Head(Box(g, l))
  /\ Others(g)
  /\ gens'[g].pc = gens[g].pc /\ gens'[g].batch = gens[g].batch
  /\ gens'[g].live = gens[g].live /\ gens'[g].closed = gens[g].closed
  /\ gens'[g].started = gens[g].started /\ gens'[g].joined = gens[g].joined
  /\ \A k \in Loops \ {l} : Box(g, k)' = Box(g, k)
  /\ Box(g, l)' = Tail(Box(g, l))
  /\ disp' = [disp EXCEPT ![u] = Started]
  /\ dispatched' = [dispatched EXCEPT ![u] = @ + 1]
  /\ UNCHANGED <<alive, offset, seen, brk, loop, pairing, op, trouble, lost>>

LEMMA drainUpdatesEffect ==
  ASSUME PollInv, drainUpdates
  PROVE  \E g \in DOMAIN gens, u \in Ids : Drains(g, "updates", u)
<1>1. PICK g : g = loop["updates"].g
  OBVIOUS
<1>2. /\ loop["updates"].pc = "drain" /\ gens[g].msgs # <<>>
      /\ gens' = [gens EXCEPT ![g].msgs = Tail(@)]
      /\ disp' = [disp EXCEPT ![Head(gens[g].msgs)] = Started]
      /\ dispatched' = [dispatched EXCEPT ![Head(gens[g].msgs)] = @ + 1]
      /\ UNCHANGED <<alive, offset, seen, brk, loop, pairing, op, trouble, lost>>
  BY <1>1 DEF drainUpdates
<1>3. g \in DOMAIN gens
  BY <1>1, <1>2 DEF PollInv, PollOK, LoopsOK, Loops
<1>4. gens[g] \in Generation /\ gens \in Seq(Generation) /\ gens[g].msgs \in Seq(Msgs)
  BY <1>3, AtGeneration, Fields
<1>5. Tail(gens[g].msgs) \in Seq(Msgs) /\ Head(gens[g].msgs) \in Msgs
  BY <1>2, <1>4
<1> DEFINE q == Tail(gens[g].msgs)
           r == [gens[g] EXCEPT !.msgs = q]
<1>6. gens' = [gens EXCEPT ![g] = r]
  BY <1>2
<1>7. q \in Seq(Msgs)
  BY <1>5
<1> HIDE DEF q
<1>8. /\ r \in Generation /\ r.msgs = q /\ r.cbs = gens[g].cbs
      /\ r.joined = gens[g].joined /\ r.started = gens[g].started /\ r.batch = gens[g].batch
      /\ r.live = gens[g].live /\ r.pc = gens[g].pc /\ r.closed = gens[g].closed
  BY <1>4, <1>7, UpdMsgs
<1> HIDE DEF r
<1>9. Others(g) /\ gens'[g] = r
  BY <1>3, <1>4, <1>6, <1>8, Puts0
<1>10. /\ \A k \in Loops \ {"updates"} : Box(g, k)' = Box(g, k)
       /\ Box(g, "updates")' = Tail(Box(g, "updates"))
       /\ Box(g, "updates") = gens[g].msgs
  BY <1>8, <1>9 DEF Box, q, Loops
<1>11. Drains(g, "updates", Head(gens[g].msgs))
  BY <1>1, <1>2, <1>8, <1>9, <1>10 DEF Drains
<1>12. Head(gens[g].msgs) \in Ids
  BY <1>5 DEF Msgs
<1> QED  BY <1>3, <1>11, <1>12

LEMMA drainCallbacksEffect ==
  ASSUME PollInv, drainCallbacks
  PROVE  \E g \in DOMAIN gens, u \in Ids : Drains(g, "callbacks", u)
<1>1. PICK g : g = loop["callbacks"].g
  OBVIOUS
<1>2. /\ loop["callbacks"].pc = "drain" /\ gens[g].cbs # <<>>
      /\ gens' = [gens EXCEPT ![g].cbs = Tail(@)]
      /\ disp' = [disp EXCEPT ![Head(gens[g].cbs)] = Started]
      /\ dispatched' = [dispatched EXCEPT ![Head(gens[g].cbs)] = @ + 1]
      /\ UNCHANGED <<alive, offset, seen, brk, loop, pairing, op, trouble, lost>>
  BY <1>1 DEF drainCallbacks
<1>3. g \in DOMAIN gens
  BY <1>1, <1>2 DEF PollInv, PollOK, LoopsOK, Loops
<1>4. gens[g] \in Generation /\ gens \in Seq(Generation) /\ gens[g].cbs \in Seq(Cbs)
  BY <1>3, AtGeneration, Fields
<1>5. Tail(gens[g].cbs) \in Seq(Cbs) /\ Head(gens[g].cbs) \in Cbs
  BY <1>2, <1>4
<1> DEFINE q == Tail(gens[g].cbs)
           r == [gens[g] EXCEPT !.cbs = q]
<1>6. gens' = [gens EXCEPT ![g] = r]
  BY <1>2
<1>7. q \in Seq(Cbs)
  BY <1>5
<1> HIDE DEF q
<1>8. /\ r \in Generation /\ r.cbs = q /\ r.msgs = gens[g].msgs
      /\ r.joined = gens[g].joined /\ r.started = gens[g].started /\ r.batch = gens[g].batch
      /\ r.live = gens[g].live /\ r.pc = gens[g].pc /\ r.closed = gens[g].closed
  BY <1>4, <1>7, UpdCbs
<1> HIDE DEF r
<1>9. Others(g) /\ gens'[g] = r
  BY <1>3, <1>4, <1>6, <1>8, Puts0
<1>10. /\ \A k \in Loops \ {"callbacks"} : Box(g, k)' = Box(g, k)
       /\ Box(g, "callbacks")' = Tail(Box(g, "callbacks"))
       /\ Box(g, "callbacks") = gens[g].cbs
  BY <1>8, <1>9 DEF Box, q, Loops
<1>11. Drains(g, "callbacks", Head(gens[g].cbs))
  BY <1>1, <1>2, <1>8, <1>9, <1>10 DEF Drains
<1>12. Head(gens[g].cbs) \in Ids
  BY <1>5 DEF Cbs
<1> QED  BY <1>3, <1>11, <1>12

LEMMA StartedIs == Started.pc = "dispatch" /\ Started.x = ""
BY DEF Started

LEMMA DrainsHolds ==
  ASSUME PollInv, NEW g \in DOMAIN gens, NEW l \in Loops, NEW u \in Ids, Drains(g, l, u)
  PROVE  PollInv'
<1>0. /\ loop[l].pc = "drain" /\ loop[l].g = g
      /\ Box(g, l) # <<>> /\ u = Head(Box(g, l)) /\ Box(g, l)' = Tail(Box(g, l))
      /\ Others(g) /\ DOMAIN gens' = DOMAIN gens /\ Len(gens') = Len(gens)
      /\ gens'[g].pc = gens[g].pc /\ gens'[g].batch = gens[g].batch
      /\ gens'[g].live = gens[g].live /\ gens'[g].closed = gens[g].closed
      /\ gens'[g].started = gens[g].started /\ gens'[g].joined = gens[g].joined
      /\ disp' = [disp EXCEPT ![u] = Started]
      /\ dispatched' = [dispatched EXCEPT ![u] = @ + 1]
      /\ alive' = alive /\ brk' = brk /\ loop' = loop /\ authorized' = authorized
      /\ codes' = codes /\ trouble' = trouble /\ lost' = lost
      /\ offset' = offset /\ seen' = seen
  BY DEF Drains, pairing, Others
<1>1. gens \in Seq(Generation)
  BY AtGeneration
<1>2. \A h \in DOMAIN gens :
        /\ gens'[h].pc = gens[h].pc /\ gens'[h].batch = gens[h].batch
        /\ gens'[h].live = gens[h].live /\ gens'[h].closed = gens[h].closed
        /\ gens'[h].started = gens[h].started /\ gens'[h].joined = gens[h].joined
        /\ Holds(h)' <=> Holds(h)
  BY <1>0 DEF Others, SameRec, Holds
<1>3. \A h \in DOMAIN gens, k \in Loops : (h # g \/ k # l) => Box(h, k)' = Box(h, k)
  BY DEF Drains, Box, Others, SameRec
<1>4. /\ Box(g, l) \in Seq(Ids) /\ 1 \in DOMAIN Box(g, l) /\ Box(g, l)[1] = u
      /\ \A h \in DOMAIN gens, k \in Loops : \A i \in DOMAIN Box(h, k) : LoopOf(Box(h, k)[i]) = k
  <2>1. Box(g, l) \in Seq(Ids)
    BY <1>1, BoxesAre
  <2>2. 1 \in DOMAIN Box(g, l) /\ Box(g, l)[1] = u
    BY <1>0, <2>1, TailAre
  <2> QED  BY <1>1, <2>1, <2>2, BoxesAre
<1>5. LoopOf(u) = l
  BY <1>4
<1>6. /\ dispatched[u] = 0 /\ Stream[u].chat \in AllowFrom /\ u < offset
      /\ \A h \in DOMAIN gens : \A i \in DOMAIN Box(h, l) : Box(h, l)[i] = u => h = g /\ i = 1
  BY <1>4 DEF PollInv, PollOK, Contents
\* Where an entry of a channel was before.
<1> DEFINE was(h, k, i) == IF h = g /\ k = l THEN i + 1 ELSE i
<1>7. ASSUME NEW h \in DOMAIN gens, NEW k \in Loops, NEW i \in DOMAIN Box(h, k)'
      PROVE  /\ was(h, k, i) \in DOMAIN Box(h, k) /\ Box(h, k)'[i] = Box(h, k)[was(h, k, i)]
             /\ Box(h, k)'[i] # u /\ i \in Nat
  <2>1. CASE h = g /\ k = l
    <3>1. i + 1 \in DOMAIN Box(g, l) /\ i \in Nat /\ i >= 1 /\ Tail(Box(g, l))[i] = Box(g, l)[i + 1]
      BY <1>0, <1>4, <1>7, <2>1, TailAre
    <3>2. i + 1 # 1
      BY <3>1
    <3>3. Box(g, l)[i + 1] # u
      BY <1>6, <3>1, <3>2
    <3>4. Box(h, k)'[i] = Box(g, l)[i + 1]
      BY <1>0, <2>1, <3>1
    <3> QED  BY <2>1, <3>1, <3>3, <3>4
  <2>2. CASE ~(h = g /\ k = l)
    <3>1. Box(h, k)' = Box(h, k)
      BY <1>3, <2>2
    <3>2. Box(h, k)[i] # u
      <4>1. i \in DOMAIN Box(h, k)
        BY <1>7, <3>1
      <4> QED  BY <1>4, <1>5, <1>6, <2>2, <4>1
    <3>3. i \in Nat
      <4>1. Box(h, k) \in Seq(Ids)
        BY <1>1, BoxesAre
      <4> QED  BY <1>7, <3>1, <4>1
    <3> QED  BY <1>7, <2>2, <3>1, <3>2, <3>3
  <2> QED  BY <2>1, <2>2
<1>8. \A v \in Ids : dispatched'[v] = IF v = u THEN 1 ELSE dispatched[v]
  <2>1. dispatched \in [Ids -> Nat]
    BY DEF PollInv, TypeOK
  <2> QED  BY <1>0, <1>6, <2>1
<1>9. TypeOK'
  <2>1. dispatched' \in [Ids -> Nat]
    <3>1. dispatched \in [Ids -> Nat]
      BY DEF PollInv, TypeOK
    <3> QED  BY <1>0, <3>1
  <2>2. disp' \in [Ids -> [pc : {"none", "dispatch", "check", "delete", "insert", "send", "plain", "done"},
                           x : {"", "code", "failed", "refused", "served", "remembered"}]]
    BY <1>0 DEF PollInv, TypeOK, Started
  <2> QED  BY <1>0, <2>1, <2>2 DEF PollInv, TypeOK, Others, Breaker, LoopState, Generation
<1>10. Chain'
  BY <1>0, <1>2 DEF PollInv, PollOK, Chain, ChainAt
<1>11. Batches'
  <2>1. Batches
    BY DEF PollInv, PollOK
  <2>2. ASSUME NEW h \in DOMAIN gens PROVE BatchAt(h)'
    <3>1. /\ gens'[h].pc = gens[h].pc /\ gens'[h].batch = gens[h].batch /\ Holds(h)' = Holds(h)
          /\ BatchAt(h)
      BY <1>2, <2>1 DEF Batches, Holds
    <3> QED  BY <1>0, <3>1 DEF BatchAt
  <2> QED  BY <1>0, <2>2 DEF Batches
<1>12. Starts'
  <2>1. \A h \in DOMAIN gens : gens'[h].msgs # <<>> => gens[h].msgs # <<>>
    <3>1. SUFFICES ASSUME NEW h \in DOMAIN gens, gens[h].msgs = <<>> PROVE gens'[h].msgs = <<>>
      OBVIOUS
    <3>2. Box(h, "updates")' = gens'[h].msgs /\ Box(h, "updates") = gens[h].msgs /\ "updates" \in Loops
      BY DEF Box, Loops
    <3> QED  BY <1>0, <1>3, <3>1, <3>2
  <2> QED  BY <1>0, <1>2, <2>1 DEF PollInv, PollOK, Starts, StartAt
<1>13. LoopsOK'
  <2>1. ASSUME NEW k \in Loops, alive, NEW h \in DOMAIN gens, k \in gens[h].joined
        PROVE  \/ loop[k] = [pc |-> "drain", g |-> h]
               \/ gens'[h].closed /\ Box(h, k)' = <<>>
    <3>1. \/ loop[k] = [pc |-> "drain", g |-> h]
          \/ gens[h].closed /\ Box(h, k) = <<>>
      BY <2>1 DEF PollInv, PollOK, LoopsOK
    <3> QED  BY <1>0, <1>2, <1>3, <3>1
  <2> QED  BY <1>0, <1>2, <2>1 DEF PollInv, PollOK, LoopsOK
<1>14. Contents'
  <2>1. Contents
    BY DEF PollInv, PollOK
  <2>2. ASSUME NEW h \in DOMAIN gens, NEW k \in Loops, NEW i \in DOMAIN Box(h, k)'
        PROVE  /\ Stream[Box(h, k)'[i]].chat \in AllowFrom
               /\ Box(h, k)'[i] < offset
               /\ dispatched'[Box(h, k)'[i]] = 0
    <3>1. Box(h, k)'[i] \in Ids
      <4>1. was(h, k, i) \in DOMAIN Box(h, k) /\ Box(h, k)'[i] = Box(h, k)[was(h, k, i)]
        BY <1>7
      <4> HIDE DEF was
      <4> QED  BY <1>1, <4>1, BoxesAre
    <3> QED  BY <1>7, <1>8, <2>1, <3>1 DEF Contents
  <2>3. ASSUME NEW h \in DOMAIN gens, NEW k \in Loops, NEW i \in DOMAIN Box(h, k)',
               NEW m \in DOMAIN gens, NEW j \in DOMAIN Box(m, k)',
               Box(h, k)'[i] = Box(m, k)'[j]
        PROVE  h = m /\ i = j
    <3>1. h = m /\ was(h, k, i) = was(m, k, j)
      <4>1. /\ was(h, k, i) \in DOMAIN Box(h, k) /\ was(m, k, j) \in DOMAIN Box(m, k)
            /\ Box(h, k)[was(h, k, i)] = Box(m, k)[was(m, k, j)]
        BY <1>7, <2>3
      <4> HIDE DEF was
      <4> QED  BY <2>1, <4>1 DEF Contents
    <3>2. i \in Nat /\ j \in Nat
      BY <1>7
    <3> QED  BY <3>1, <3>2
  <2> QED  BY <1>0, <2>2, <2>3 DEF Contents
<1>15. Fresh'
  <2>1. ASSUME NEW h \in DOMAIN gens, Holds(h)
        PROVE  /\ dispatched'[gens[h].batch[1]] = 0
               /\ \A m \in DOMAIN gens, k \in Loops : \A i \in DOMAIN Box(m, k)' :
                    Box(m, k)'[i] # gens[h].batch[1]
    <3>1. /\ dispatched[gens[h].batch[1]] = 0
          /\ \A m \in DOMAIN gens, k \in Loops : \A i \in DOMAIN Box(m, k) :
               Box(m, k)[i] # gens[h].batch[1]
      BY <2>1 DEF PollInv, PollOK, Fresh
    <3>2. gens[h].batch[1] # u
      BY <1>4, <3>1
    <3>3. gens[h].batch[1] \in Ids
      BY <2>1, AtGeneration, FirstOfBatch DEF BatchAt
    <3> QED  BY <1>7, <1>8, <3>1, <3>2, <3>3
  <2>2. \A v \in Ids : dispatched'[v] <= 1 /\ (v >= offset => dispatched'[v] = 0)
    <3>1. \A v \in Ids : dispatched[v] <= 1 /\ (v >= offset => dispatched[v] = 0)
      BY DEF PollInv, PollOK, Fresh
    <3>2. ~(u >= offset)
      BY <1>6, OffsetIs DEF Ids
    <3> QED  BY <1>8, <3>1, <3>2
  <2> QED  BY <1>0, <1>2, <2>1, <2>2 DEF Fresh
<1>16. SeenOK'
  BY <1>0 DEF PollInv, PollOK, SeenOK, Key
<1>17. NoSilentLoss'
  <2>1. SUFFICES ASSUME NEW v \in Ids, v < offset, Wanted(v)
                 PROVE  \/ dispatched'[v] > 0 \/ InHand(v)' \/ Drained(v)'
                        \/ ~alive \/ (v \in lost /\ trouble.stop > 0)
                        \/ v \in Cbs /\ NotJoined(v)'
    BY <1>0 DEF NoSilentLoss, Wanted, Key
  <2>2. CASE v = u
    BY <1>8, <2>2
  <2>3. CASE v # u
    <3>1. InHand(v) => InHand(v)'
      BY <1>0, <1>2 DEF InHand
    <3>2. /\ \A h \in DOMAIN gens : Channel(h, v) = Box(h, LoopOf(v)) /\ Channel(h, v)' = Box(h, LoopOf(v))'
          /\ LoopOf(v) \in Loops
      BY DEF Channel, Box, LoopOf, Loops
    <3>3. \A h \in DOMAIN gens : Contains(Channel(h, v), v) => Contains(Channel(h, v)', v)
      <4>1. SUFFICES ASSUME NEW h \in DOMAIN gens, Contains(Box(h, LoopOf(v)), v)
                     PROVE  Contains(Box(h, LoopOf(v))', v)
        BY <3>2
      <4>2. CASE h = g /\ LoopOf(v) = l
        <5>1. Contains(Box(g, l), v)
          BY <4>1, <4>2
        <5>2. Contains(Tail(Box(g, l)), v)
          BY <1>0, <1>4, <2>3, <5>1, TailAre
        <5> QED  BY <1>0, <4>2, <5>2
      <4>3. CASE ~(h = g /\ LoopOf(v) = l)
        BY <1>3, <3>2, <4>1, <4>3
      <4> QED  BY <4>2, <4>3
    <3>4. Drained(v) => Drained(v)'
      BY <1>0, <3>3 DEF Drained
    <3>5. NotJoined(v) => NotJoined(v)'
      BY <1>0, <1>2, <3>3 DEF NotJoined
    <3>6. dispatched'[v] = dispatched[v]
      BY <1>8, <2>3
    <3> QED  BY <2>1, <3>1, <3>4, <3>5, <3>6 DEF PollInv, PollOK, NoSilentLoss
  <2> QED  BY <2>2, <2>3
<1>18. \A v \in Msgs : Passed(v)' => Passed(v)
  <2>1. SUFFICES ASSUME NEW v \in Msgs, Passed(v)' PROVE Passed(v)
    OBVIOUS
  <2>2. v \in Ids
    BY DEF Msgs
  <2>3. \A h \in DOMAIN gens : Box(h, "updates") = gens[h].msgs /\ Box(h, "updates")' = gens'[h].msgs
    BY DEF Box
  <2>4. CASE v = u
    <3>1. l = "updates"
      BY <1>5, <2>4 DEF LoopOf
    <3> QED  BY <1>4, <2>3, <2>4, <3>1 DEF Passed
  <2>5. CASE v # u
    <3>1. dispatched'[v] = dispatched[v]
      BY <1>8, <2>2, <2>5
    <3>2. ASSUME NEW h \in DOMAIN gens, NEW i \in DOMAIN gens'[h].msgs, gens'[h].msgs[i] = v
          PROVE  \E j \in DOMAIN gens[h].msgs : gens[h].msgs[j] = v
      <4>1. "updates" \in Loops
        BY DEF Loops
      <4> HIDE DEF was
      <4> QED  BY <1>7, <2>3, <3>2, <4>1
    <3> QED  BY ZenonT(60), <1>0, <1>2, <2>1, <3>1, <3>2 DEF Passed
  <2> QED  BY <2>4, <2>5
<1>19. PassedOnce'
  <2>1. trouble'.expiry >= trouble.expiry
    <3>1. trouble.expiry \in Nat
      BY DEF PollInv, TypeOK
    <3> QED  BY <1>0, <3>1
  <2> QED  BY <1>0, <1>9, <1>18, <2>1, PassedStill DEF PollInv
<1>20. GateOK'
  <2>1. disp'[u] = Started /\ \A v \in Ids \ {u} : disp'[v] = disp[v]
    BY <1>0 DEF PollInv, TypeOK
  <2>2. disp'[u].pc # "none" /\ disp'[u].x = ""
    BY <2>1, StartedIs
  <2>3. \A v \in Ids \ {u} : /\ disp[v].pc # "none" => Stream[v].chat \in AllowFrom
                             /\ disp[v].pc = "none" => disp[v].x = ""
                             /\ disp[v].x \in {"served", "remembered"} => Stream[v].chat \in authorized
    BY DEF PollInv, GateOK
  <2>4. \A v \in Ids : /\ disp'[v].pc # "none" => Stream[v].chat \in AllowFrom
                       /\ disp'[v].pc = "none" => disp'[v].x = ""
                       /\ disp'[v].x \in {"served", "remembered"} => Stream[v].chat \in authorized
    <3>1. "" \notin {"served", "remembered"}
      OBVIOUS
    <3> QED  BY <1>6, <2>1, <2>2, <2>3, <3>1
  <2>5. authorized' = authorized
    BY <1>0
  <2> QED  BY <2>4, <2>5 DEF GateOK
<1> QED
  BY <1>9, <1>10, <1>11, <1>12, <1>13, <1>14, <1>15, <1>16, <1>17, <1>19, <1>20 DEF PollInv, PollOK

LEMMA drainHolds ==
  ASSUME PollInv, drainUpdates \/ drainCallbacks
  PROVE  PollInv'
BY drainUpdatesEffect, drainCallbacksEffect, DrainsHolds DEF Loops

-----------------------------------------------------------------------------
(***************************************************************************)
(* The loops: leaving one generation and joining the next.                 *)
(***************************************************************************)
\* A loop that does not join: it leaves a generation only when its channel is
\* closed and empty, or with the run.
LEMMA LoopMoves ==
  ASSUME PollInv, NEW l \in Loops, NEW s \in LoopState, loop' = [loop EXCEPT ![l] = s],
         s.pc # "drain",
         s.pc = "waiting" => s.g \in DOMAIN gens /\ ~gens[s.g].live,
         alive => s.pc # "end",
         alive /\ loop[l].pc = "drain" => gens[loop[l].g].closed /\ Box(loop[l].g, l) = <<>>,
         UNCHANGED <<alive, polling, brk, disp, pairing, op, trouble, seenBy>>
  PROVE  PollInv'
<1>0. /\ gens' = gens /\ offset' = offset /\ seen' = seen /\ alive' = alive /\ brk' = brk
      /\ disp' = disp /\ authorized' = authorized /\ codes' = codes /\ trouble' = trouble
      /\ dispatched' = dispatched /\ lost' = lost
  BY DEF polling, pairing, seenBy
<1>1. /\ loop \in [Loops -> LoopState] /\ loop'[l] = s
      /\ \A k \in Loops \ {l} : loop'[k] = loop[k]
  BY DEF PollInv, TypeOK
<1>2. TypeOK'
  <2>1. loop' \in [Loops -> LoopState]
    BY <1>1
  <2> QED  BY <1>0, <2>1 DEF PollInv, TypeOK
<1>3. \A h \in DOMAIN gens, k \in Loops : Box(h, k)' = Box(h, k)
  BY <1>0 DEF Box
<1>4. \A h : [pc |-> "drain", g |-> h].pc = "drain" /\ [pc |-> "drain", g |-> h].g = h
  OBVIOUS
<1>5. LoopsOK'
  <2>1. ASSUME NEW k \in Loops
        PROVE  /\ loop'[k].pc \in {"waiting", "drain"} => loop'[k].g \in DOMAIN gens
               /\ loop'[k].pc = "waiting" => ~gens[loop'[k].g].live
               /\ alive => loop'[k].pc # "end"
    BY <1>1 DEF PollInv, PollOK, LoopsOK
  <2>2. ASSUME NEW k \in Loops, alive, NEW h \in DOMAIN gens, k \in gens[h].joined
        PROVE  \/ loop'[k] = [pc |-> "drain", g |-> h]
               \/ gens[h].closed /\ Box(h, k) = <<>>
    <3>1. \/ loop[k] = [pc |-> "drain", g |-> h]
          \/ gens[h].closed /\ Box(h, k) = <<>>
      BY <2>2 DEF PollInv, PollOK, LoopsOK
    <3>2. CASE k = l
      BY <1>4, <2>2, <3>1, <3>2
    <3>3. CASE k # l
      BY <1>1, <3>1, <3>3
    <3> QED  BY <3>2, <3>3
  <2> QED  BY <1>0, <1>3, <2>1, <2>2 DEF LoopsOK
<1>6. Chain' /\ Starts' /\ SeenOK'
  BY <1>0 DEF PollInv, PollOK, Chain, ChainAt, Starts, StartAt, SeenOK, Key
<1>7. Batches' /\ Contents' /\ Fresh'
  BY <1>0 DEF PollInv, PollOK, Batches, BatchAt, Contents, Fresh, Box, Holds
<1>8. NoSilentLoss'
  <2>1. ASSUME NEW v \in Ids, Drained(v), alive PROVE Drained(v)'
    <3>1. PICK h \in DOMAIN gens : /\ Contains(Channel(h, v), v)
                                   /\ loop[LoopOf(v)] = [pc |-> "drain", g |-> h]
      BY <2>1 DEF Drained
    <3>2. LoopOf(v) # l
      <4>1. SUFFICES ASSUME LoopOf(v) = l PROVE FALSE
        OBVIOUS
      <4>2. Box(h, l) = <<>>
        BY <1>4, <2>1, <3>1, <4>1
      <4>3. Channel(h, v) = Box(h, l)
        BY <4>1 DEF Channel, Box, LoopOf
      <4>4. Len(<<>>) = 0
        OBVIOUS
      <4> QED  BY <3>1, <4>2, <4>3, <4>4 DEF Contains
    <3>3. LoopOf(v) \in Loops
      BY DEF LoopOf, Loops
    <3>4. Channel(h, v)' = Channel(h, v)
      BY <1>0 DEF Channel
    <3> QED  BY <1>0, <1>1, <3>1, <3>2, <3>3, <3>4 DEF Drained
  <2>2. \A v \in Ids : /\ InHand(v) => InHand(v)'
                       /\ NotJoined(v) => NotJoined(v)'
                       /\ Wanted(v)' => Wanted(v)
    BY <1>0 DEF InHand, NotJoined, Channel, Wanted, Key
  <2>3. NoSilentLoss
    BY DEF PollInv, PollOK
  <2> QED  BY <1>0, <2>1, <2>2, <2>3 DEF NoSilentLoss
<1>9. \A v \in Msgs : Passed(v)' => Passed(v)
  BY <1>0 DEF Passed, Holds
<1>10. PollOK'
  BY <1>5, <1>6, <1>7, <1>8 DEF PollOK
<1>11. trouble'.expiry >= trouble.expiry
  <2>1. trouble.expiry \in Nat
    BY DEF PollInv, TypeOK
  <2> QED  BY <1>0, <2>1
<1> QED  BY <1>0, <1>2, <1>9, <1>10, <1>11, PollerStep

LEMMA LoopIs ==
  ASSUME TypeOK, NEW l \in Loops, NEW p \in {"acquire", "waiting", "drain", "retry", "end"}
  PROVE  /\ [loop[l] EXCEPT !.pc = p] \in LoopState /\ [loop[l] EXCEPT !.pc = p].pc = p
         /\ loop' = [loop EXCEPT ![l].pc = p] => loop' = [loop EXCEPT ![l] = [loop[l] EXCEPT !.pc = p]]
<1>1. loop[l] \in LoopState
  BY DEF TypeOK
<1>2. \A s \in LoopState : [s EXCEPT !.pc = p] \in LoopState /\ [s EXCEPT !.pc = p].pc = p
  BY DEF LoopState
<1> QED  BY <1>1, <1>2

LEMMA acquireWaitedHolds ==
  ASSUME PollInv, NEW l \in Loops, acquireWaited(l)
  PROVE  PollInv'
<1>1. PICK p \in {"acquire", "retry"} : loop' = [loop EXCEPT ![l].pc = p]
  BY DEF acquireWaited
<1> DEFINE s == [loop[l] EXCEPT !.pc = p]
<1>2. s \in LoopState /\ s.pc = p /\ loop' = [loop EXCEPT ![l] = s]
  BY ZenonT(60), <1>1, LoopIs DEF PollInv
<1> HIDE DEF s
<1>3. /\ loop[l].pc = "waiting"
      /\ UNCHANGED <<alive, polling, brk, disp, pairing, op, trouble, seenBy>>
  BY DEF acquireWaited
<1> QED  BY <1>2, <1>3, LoopMoves

LEMMA waitRetryHolds ==
  ASSUME PollInv, NEW l \in Loops, waitRetry(l)
  PROVE  PollInv'
<1>1. PICK p \in {"acquire", "end"} : loop' = [loop EXCEPT ![l].pc = p] /\ (alive => p = "acquire")
  BY DEF waitRetry
<1> DEFINE s == [loop[l] EXCEPT !.pc = p]
<1>2. s \in LoopState /\ s.pc = p /\ loop' = [loop EXCEPT ![l] = s]
  BY ZenonT(60), <1>1, LoopIs DEF PollInv
<1> HIDE DEF s
<1>3. /\ loop[l].pc = "retry"
      /\ UNCHANGED <<alive, polling, brk, disp, pairing, op, trouble, seenBy>>
  BY DEF waitRetry
<1> QED  BY <1>1, <1>2, <1>3, LoopMoves

LEMMA drainEndsHolds ==
  ASSUME PollInv, NEW l \in Loops, drainEnds(l)
  PROVE  PollInv'
<1>1. PICK p \in {"acquire", "end"} :
        /\ loop' = [loop EXCEPT ![l].pc = p]
        /\ alive => p = "acquire" /\ gens[loop[l].g].closed /\ Pending(l) = <<>>
  BY DEF drainEnds
<1> DEFINE s == [loop[l] EXCEPT !.pc = p]
<1>2. s \in LoopState /\ s.pc = p /\ loop' = [loop EXCEPT ![l] = s]
  BY ZenonT(60), <1>1, LoopIs DEF PollInv
<1> HIDE DEF s
<1>3. UNCHANGED <<alive, polling, brk, disp, pairing, op, trouble, seenBy>>
  BY DEF drainEnds
<1>4. Pending(l) = Box(loop[l].g, l)
  BY DEF Pending, Box
<1> QED  BY <1>1, <1>2, <1>3, <1>4, LoopMoves

\* The loop l joins generation k, the newest one or a new one.
Joins(l, k) ==
  /\ loop[l].pc = "acquire" /\ alive
  /\ gens' \in Seq(Generation) /\ k \in Nat /\ Len(gens') = k /\ k <= MaxGens
  /\ DOMAIN gens' = DOMAIN gens \cup {k}
  /\ \A h \in DOMAIN gens :
       /\ gens'[h].pc = gens[h].pc /\ gens'[h].live = gens[h].live /\ gens'[h].closed = gens[h].closed
       /\ gens'[h].batch = gens[h].batch /\ gens'[h].msgs = gens[h].msgs /\ gens'[h].cbs = gens[h].cbs
       /\ h # k => gens'[h].started = gens[h].started /\ gens'[h].joined = gens[h].joined
  /\ k \in DOMAIN gens => /\ gens'[k].started = (gens[k].started \/ l = "updates")
                          /\ gens'[k].joined = gens[k].joined \cup {l}
  /\ k \notin DOMAIN gens =>
       /\ \A h \in DOMAIN gens : gens[h].closed
       /\ gens'[k].started = (l = "updates") /\ gens'[k].joined = {l}
       /\ gens'[k].pc = "wait" /\ gens'[k].live = TRUE /\ gens'[k].closed = FALSE
       /\ gens'[k].batch = <<>> /\ gens'[k].msgs = <<>> /\ gens'[k].cbs = <<>>
  /\ loop' = [loop EXCEPT ![l] = [pc |-> "drain", g |-> k]]
  /\ UNCHANGED <<alive, offset, seen, brk, disp, pairing, op, trouble, seenBy>>

LEMMA NewIs ==
  /\ NewGeneration \in Generation
  /\ NewGeneration.started = FALSE /\ NewGeneration.joined = {}
  /\ NewGeneration.pc = "wait" /\ NewGeneration.live = TRUE /\ NewGeneration.closed = FALSE
  /\ NewGeneration.batch = <<>> /\ NewGeneration.msgs = <<>> /\ NewGeneration.cbs = <<>>
<1>1. <<>> \in Seq(Ids) /\ <<>> \in Seq(Msgs) /\ <<>> \in Seq(Cbs) /\ {} \in SUBSET Loops
  OBVIOUS
<1> QED  BY <1>1 DEF NewGeneration, Generation

LEMMA AppendIs ==
  ASSUME gens \in Seq(Generation), NEW f, NEW c \in Generation, f = Append(gens, c),
         NEW k, k = Len(gens) + 1, NEW r \in Generation, gens' = [f EXCEPT ![k] = r]
  PROVE  /\ gens' \in Seq(Generation) /\ Len(gens') = k /\ DOMAIN gens' = DOMAIN gens \cup {k}
         /\ gens'[k] = r /\ k \notin DOMAIN gens
         /\ \A h \in DOMAIN gens : gens'[h] = gens[h] /\ h # k
<1>1. /\ f \in Seq(Generation) /\ Len(f) = k /\ DOMAIN f = 1..k /\ k \in Nat
      /\ DOMAIN gens = 1..Len(gens) /\ Len(gens) \in Nat
      /\ \A h \in DOMAIN gens : f[h] = gens[h]
  OBVIOUS
<1>2. k \in 1..k /\ 1..k = DOMAIN gens \cup {k} /\ k \notin DOMAIN gens
  BY <1>1
<1>3. /\ DOMAIN gens' = DOMAIN f /\ gens'[k] = r
      /\ \A h \in DOMAIN gens : gens'[h] = gens[h] /\ h # k
  BY <1>1, <1>2
<1>4. gens' \in Seq(Generation) /\ Len(gens') = k
  BY <1>1, <1>2
<1> QED  BY <1>1, <1>2, <1>3, <1>4

LEMMA acquireEffect ==
  ASSUME PollInv, NEW l \in Loops, acquire(l)
  PROVE  \/ \E p \in {"retry"} : gens' = gens /\ loop' = [loop EXCEPT ![l].pc = p]
         \/ /\ gens' = gens /\ Len(gens) \in DOMAIN gens /\ ~gens[Len(gens)].live
            /\ loop' = [loop EXCEPT ![l] = [pc |-> "waiting", g |-> Len(gens)]]
         \/ \E k \in Nat : Joins(l, k)
<1>0. /\ loop[l].pc = "acquire"
      /\ UNCHANGED <<alive, offset, seen, brk, disp, pairing, op, trouble, seenBy>>
  BY DEF acquire
<1>1. CASE gens' = gens /\ loop' = [loop EXCEPT ![l].pc = "retry"]
  BY <1>1
<1>2. CASE ~(gens' = gens /\ loop' = [loop EXCEPT ![l].pc = "retry"])
  <2>1. alive /\ acquireGeneration(l)
    BY <1>2 DEF acquire
  <2>2. gens \in Seq(Generation) /\ Len(gens) \in Nat /\ DOMAIN gens = 1..Len(gens)
    BY GensAre DEF PollInv, TypeOK
  <2>3. PICK n \in Nat : n = Len(gens)
    BY <2>2
  <2>4. n > 0 => n \in DOMAIN gens
    BY <2>2, <2>3
  <2>5. CASE n > 0 /\ ~gens[n].closed /\ ~Live(n)
    BY <2>1, <2>3, <2>4, <2>5 DEF acquireGeneration, Live
  <2>6. CASE ~(n > 0 /\ ~gens[n].closed /\ ~Live(n))
    <3> DEFINE join == IF n = 0 \/ gens[n].closed THEN Append(gens, NewGeneration) ELSE gens
               start == l = "updates"
    <3>1. PICK k : k = Len(join)
      OBVIOUS
    <3>2. /\ k <= MaxGens
          /\ gens' = [join EXCEPT ![k].started = @ \/ start, ![k].joined = @ \cup {l}]
          /\ loop' = [loop EXCEPT ![l] = [pc |-> "drain", g |-> k]]
      BY <1>2, <2>1, <2>3, <2>6, <3>1 DEF acquireGeneration
    <3>3. CASE n = 0 \/ gens[n].closed
      <4> DEFINE r == Joined(NewGeneration, l)
      <4>1. /\ k = n + 1 /\ k \in Nat /\ join = Append(gens, NewGeneration)
            /\ join[k] = NewGeneration
        <5>1. join = Append(gens, NewGeneration)
          BY <3>3
        <5> HIDE DEF join
        <5> QED  BY <2>2, <2>3, <3>1, <5>1, NewIs, AppendAre
      <4>2. gens' = [join EXCEPT ![k] = r]
        BY <3>2, <4>1 DEF Joined
      <4>3. /\ r \in Generation /\ r.cbs = <<>> /\ r.msgs = <<>>
            /\ r.joined = {l} /\ r.started = start /\ r.batch = <<>> /\ r.live = TRUE
            /\ r.pc = "wait" /\ r.closed = FALSE
        BY NewIs, UpdJoined
      <4> HIDE DEF r
      <4>4. /\ gens' \in Seq(Generation) /\ Len(gens') = k /\ DOMAIN gens' = DOMAIN gens \cup {k}
            /\ gens'[k] = r /\ k \notin DOMAIN gens
            /\ \A h \in DOMAIN gens : gens'[h] = gens[h] /\ h # k
        <5> HIDE DEF join
        <5>1. k = Len(gens) + 1 /\ NewGeneration \in Generation
          BY <2>3, <4>1, NewIs
        <5> QED  BY <2>2, <4>1, <4>2, <4>3, <5>1, AppendIs
      <4>5. \A h \in DOMAIN gens : gens[h].closed
        <5>1. ASSUME NEW h \in DOMAIN gens PROVE gens[h].closed
          <6>1. h # n => gens[h].closed
            BY <2>3 DEF PollInv, PollOK, Chain, ChainAt
          <6>2. n # 0
            BY <2>2, <2>3
          <6> QED  BY <3>3, <6>1, <6>2
        <5> QED  BY <5>1
      <4>6. Joins(l, k)
        BY <1>0, <2>1, <3>2, <4>1, <4>3, <4>4, <4>5 DEF Joins
      <4> QED  BY <4>1, <4>6
    <3>4. CASE ~(n = 0 \/ gens[n].closed)
      <4>1. k = n /\ join = gens /\ k \in DOMAIN gens /\ k \in Nat /\ k = Len(gens)
        BY <2>2, <2>3, <2>4, <3>1, <3>4
      <4>2. gens[k] \in Generation /\ gens[k].started \in BOOLEAN /\ gens[k].joined \in SUBSET Loops
        BY <2>2, <4>1, GensAre, Fields
      <4> DEFINE r == Joined(gens[k], l)
      <4>3. gens' = [gens EXCEPT ![k] = r]
        BY <3>2, <4>1 DEF Joined
      <4>4. /\ r \in Generation /\ r.cbs = gens[k].cbs /\ r.msgs = gens[k].msgs
            /\ r.joined = gens[k].joined \cup {l} /\ r.started = (gens[k].started \/ start)
            /\ r.batch = gens[k].batch /\ r.live = gens[k].live
            /\ r.pc = gens[k].pc /\ r.closed = gens[k].closed
        BY <4>2, UpdJoined
      <4> HIDE DEF r
      <4>5. Others(k) /\ gens'[k] = r
        BY <2>2, <4>1, <4>3, <4>4, Puts0
      <4>6. /\ DOMAIN gens' = DOMAIN gens \cup {k} /\ Len(gens') = k /\ gens' \in Seq(Generation)
            /\ \A h \in DOMAIN gens \ {k} : SameRec(gens'[h], gens[h])
        BY <4>1, <4>5 DEF Others
      <4>7. \A h \in DOMAIN gens :
              /\ gens'[h].pc = gens[h].pc /\ gens'[h].live = gens[h].live
              /\ gens'[h].closed = gens[h].closed
              /\ gens'[h].batch = gens[h].batch /\ gens'[h].msgs = gens[h].msgs
              /\ gens'[h].cbs = gens[h].cbs
              /\ h # k => gens'[h].started = gens[h].started /\ gens'[h].joined = gens[h].joined
        BY <4>4, <4>5, <4>6 DEF SameRec
      <4>8. gens'[k].started = (gens[k].started \/ l = "updates") /\ gens'[k].joined = gens[k].joined \cup {l}
        BY <4>4, <4>5
      <4>9. Joins(l, k)
        BY <1>0, <2>1, <3>2, <4>1, <4>6, <4>7, <4>8 DEF Joins
      <4> QED  BY <4>1, <4>9
    <3> QED  BY <3>3, <3>4
  <2> QED  BY <2>5, <2>6
<1> QED  BY <1>1, <1>2

LEMMA JoinsHolds ==
  ASSUME PollInv, NEW l \in Loops, NEW k \in Nat, Joins(l, k)
  PROVE  PollInv'
<1>0. /\ loop[l].pc = "acquire" /\ alive /\ alive' = alive /\ offset' = offset /\ seen' = seen
      /\ brk' = brk /\ disp' = disp /\ authorized' = authorized /\ codes' = codes
      /\ trouble' = trouble /\ dispatched' = dispatched /\ lost' = lost
      /\ gens' \in Seq(Generation) /\ Len(gens') = k /\ k <= MaxGens
      /\ DOMAIN gens' = DOMAIN gens \cup {k}
      /\ loop' = [loop EXCEPT ![l] = [pc |-> "drain", g |-> k]]
  BY DEF Joins, pairing, seenBy
<1>1. \A h \in DOMAIN gens :
        /\ gens'[h].pc = gens[h].pc /\ gens'[h].live = gens[h].live /\ gens'[h].closed = gens[h].closed
        /\ gens'[h].batch = gens[h].batch /\ gens'[h].msgs = gens[h].msgs /\ gens'[h].cbs = gens[h].cbs
        /\ h # k => gens'[h].started = gens[h].started /\ gens'[h].joined = gens[h].joined
  BY DEF Joins
<1>2. k \in DOMAIN gens => /\ gens'[k].started = (gens[k].started \/ l = "updates")
                           /\ gens'[k].joined = gens[k].joined \cup {l}
  BY DEF Joins
<1>3. k \notin DOMAIN gens =>
        /\ \A h \in DOMAIN gens : gens[h].closed
        /\ gens'[k].started = (l = "updates") /\ gens'[k].joined = {l}
        /\ gens'[k].pc = "wait" /\ gens'[k].live = TRUE /\ gens'[k].closed = FALSE
        /\ gens'[k].batch = <<>> /\ gens'[k].msgs = <<>> /\ gens'[k].cbs = <<>>
  BY DEF Joins
<1>4. gens \in Seq(Generation) /\ DOMAIN gens = 1..Len(gens) /\ Len(gens) \in Nat
  BY GensAre DEF PollInv, TypeOK
<1>5. k \in DOMAIN gens => k = Len(gens)
  <2>1. DOMAIN gens' = 1..k
    BY <1>0
  <2>2. PICK n \in Nat : n = Len(gens)
    BY <1>4
  <2>3. DOMAIN gens = 1..n /\ 1..k = (1..n) \cup {k}
    BY <1>0, <1>4, <2>1, <2>2
  <2>4. ASSUME k \in 1..n PROVE k = n
    <3>1. n \in 1..k
      BY <2>3, <2>4
    <3> QED  BY <2>4, <3>1
  <2> QED  BY <2>2, <2>3, <2>4
<1>6. /\ loop \in [Loops -> LoopState] /\ loop'[l] = [pc |-> "drain", g |-> k]
      /\ \A m \in Loops \ {l} : loop'[m] = loop[m]
      /\ loop' \in [Loops -> LoopState]
  <2>1. loop \in [Loops -> LoopState]
    BY DEF PollInv, TypeOK
  <2>2. [pc |-> "drain", g |-> k] \in LoopState
    BY <1>0, BoundsAssumption DEF LoopState
  <2> QED  BY <1>0, <2>1, <2>2
<1>7. /\ \A h \in DOMAIN gens, m \in Loops : Box(h, m)' = Box(h, m)
      /\ k \notin DOMAIN gens => \A m \in Loops : Box(k, m)' = <<>>
  BY <1>1, <1>3 DEF Box
<1>8. /\ \A h \in DOMAIN gens : Holds(h)' <=> Holds(h)
      /\ k \notin DOMAIN gens => ~Holds(k)'
  BY <1>1, <1>3 DEF Holds
<1>9. DOMAIN <<>> = {} /\ \A i : i \notin DOMAIN <<>>
  OBVIOUS
<1>t. TypeOK'
  BY <1>0, <1>6 DEF PollInv, TypeOK
<1>10. Chain'
  <2>1. ASSUME NEW h \in DOMAIN gens' PROVE ChainAt(h)'
    <3>1. CASE h \in DOMAIN gens
      <4>1. ChainAt(h)
        BY <3>1 DEF PollInv, PollOK, Chain
      <4>2. h # k => gens[h].closed
        BY <1>3, <1>5, <3>1, <4>1 DEF ChainAt
      <4> QED  BY <1>0, <1>1, <3>1, <4>1, <4>2 DEF ChainAt
    <3>2. CASE h \notin DOMAIN gens
      BY <1>0, <1>3, <2>1, <3>2 DEF ChainAt
    <3> QED  BY <3>1, <3>2
  <2> QED  BY <2>1 DEF Chain
<1>11. Batches'
  <2>1. ASSUME NEW h \in DOMAIN gens' PROVE BatchAt(h)'
    <3>1. CASE h \in DOMAIN gens
      <4>1. BatchAt(h)
        BY <3>1 DEF PollInv, PollOK, Batches
      <4> QED  BY <1>0, <1>1, <1>8, <3>1, <4>1 DEF BatchAt
    <3>2. CASE h \notin DOMAIN gens
      <4>1. h = k /\ gens'[k].batch = <<>> /\ ~Holds(k)'
        BY <1>0, <1>3, <1>8, <3>2
      <4>2. 1..(Len(<<>>) - 1) = {}
        OBVIOUS
      <4> QED  BY <4>1, <4>2 DEF BatchAt
    <3> QED  BY <3>1, <3>2
  <2> QED  BY <2>1 DEF Batches
<1>12. Starts'
  <2>1. ASSUME NEW h \in DOMAIN gens' PROVE StartAt(h)'
    <3>1. CASE h \in DOMAIN gens
      <4>1. StartAt(h)
        BY <3>1 DEF PollInv, PollOK, Starts
      <4>2. CASE h = k
        BY <1>0, <1>1, <1>2, <3>1, <4>1, <4>2 DEF StartAt
      <4>3. CASE h # k
        BY <1>0, <1>1, <3>1, <4>1, <4>3 DEF StartAt
      <4> QED  BY <4>2, <4>3
    <3>2. CASE h \notin DOMAIN gens
      BY <1>0, <1>3, <2>1, <3>2 DEF StartAt
    <3> QED  BY <3>1, <3>2
  <2> QED  BY <2>1 DEF Starts
<1>13. [pc |-> "drain", g |-> k].pc = "drain" /\ [pc |-> "drain", g |-> k].g = k
  OBVIOUS
<1>14. LoopsOK'
  <2>1. ASSUME NEW m \in Loops
        PROVE  /\ loop'[m].pc \in {"waiting", "drain"} => loop'[m].g \in DOMAIN gens'
               /\ loop'[m].pc = "waiting" => ~gens'[loop'[m].g].live
               /\ loop'[m].pc # "end"
    <3>1. CASE m = l
      BY <1>0, <1>6, <1>13, <3>1
    <3>2. CASE m # l
      BY <1>0, <1>1, <1>6, <3>2 DEF PollInv, PollOK, LoopsOK
    <3> QED  BY <3>1, <3>2
  <2>2. ASSUME NEW m \in Loops, NEW h \in DOMAIN gens', m \in gens'[h].joined
        PROVE  \/ loop'[m] = [pc |-> "drain", g |-> h]
               \/ gens'[h].closed /\ Box(h, m)' = <<>>
    <3>1. CASE m = l /\ h = k
      BY <1>6, <3>1
    <3>2. CASE ~(m = l /\ h = k)
      <4>1. h \in DOMAIN gens /\ m \in gens[h].joined
        <5>1. CASE h = k
          BY <1>2, <1>3, <2>2, <3>2, <5>1
        <5>2. CASE h # k
          BY <1>0, <1>1, <2>2, <5>2
        <5> QED  BY <5>1, <5>2
      <4>2. \/ loop[m] = [pc |-> "drain", g |-> h]
            \/ gens[h].closed /\ Box(h, m) = <<>>
        BY <1>0, <4>1 DEF PollInv, PollOK, LoopsOK
      <4>3. m = l => loop[m] # [pc |-> "drain", g |-> h]
        BY <1>0
      <4> QED  BY <1>1, <1>6, <1>7, <4>1, <4>2, <4>3
    <3> QED  BY <3>1, <3>2
  <2> QED  BY <2>1, <2>2 DEF LoopsOK
<1>15. ASSUME NEW h \in DOMAIN gens', NEW m \in Loops, NEW i \in DOMAIN (Box(h, m)')
       PROVE  h \in DOMAIN gens /\ i \in DOMAIN Box(h, m) /\ Box(h, m)' = Box(h, m)
  <2>1. h \in DOMAIN gens
    BY <1>0, <1>7, <1>9, <1>15
  <2> QED  BY <1>7, <1>15, <2>1
<1>16. Contents'
  <2>1. ASSUME NEW h \in DOMAIN gens', NEW m \in Loops, NEW i \in DOMAIN (Box(h, m)')
        PROVE  /\ Stream[Box(h, m)'[i]].chat \in AllowFrom
               /\ Box(h, m)'[i] < offset
               /\ dispatched[Box(h, m)'[i]] = 0
    BY <1>15 DEF PollInv, PollOK, Contents
  <2>2. ASSUME NEW h \in DOMAIN gens', NEW m \in Loops, NEW i \in DOMAIN (Box(h, m)'),
               NEW f \in DOMAIN gens', NEW j \in DOMAIN (Box(f, m)'),
               Box(h, m)'[i] = Box(f, m)'[j]
        PROVE  h = f /\ i = j
    <3>1. /\ h \in DOMAIN gens /\ i \in DOMAIN Box(h, m) /\ Box(h, m)' = Box(h, m)
          /\ f \in DOMAIN gens /\ j \in DOMAIN Box(f, m) /\ Box(f, m)' = Box(f, m)
      BY <1>15
    <3> QED  BY <2>2, <3>1 DEF PollInv, PollOK, Contents
  <2>3. offset' = offset /\ dispatched' = dispatched
    BY <1>0
  <2> QED  BY <2>1, <2>2, <2>3 DEF Contents
<1>17. Fresh'
  <2>1. ASSUME NEW f \in DOMAIN gens', Holds(f)'
        PROVE  /\ dispatched[gens'[f].batch[1]] = 0
               /\ \A h \in DOMAIN gens', m \in Loops : \A i \in DOMAIN (Box(h, m)') :
                    Box(h, m)'[i] # gens'[f].batch[1]
    <3>1. f \in DOMAIN gens /\ Holds(f) /\ gens'[f].batch = gens[f].batch
      BY <1>0, <1>1, <1>8, <2>1
    <3> QED  BY <1>15, <3>1 DEF PollInv, PollOK, Fresh
  <2>2. \A u \in Ids : dispatched[u] <= 1 /\ (u >= offset => dispatched[u] = 0)
    BY DEF PollInv, PollOK, Fresh
  <2> QED  BY <1>0, <2>1, <2>2 DEF Fresh
<1>18. SeenOK'
  BY <1>0 DEF PollInv, PollOK, SeenOK, Key
<1>19. NoSilentLoss'
  <2>1. ASSUME NEW v \in Ids, Drained(v) PROVE Drained(v)'
    <3>1. PICK h \in DOMAIN gens : /\ Contains(Channel(h, v), v)
                                   /\ loop[LoopOf(v)] = [pc |-> "drain", g |-> h]
      BY <2>1 DEF Drained
    <3>2. LoopOf(v) # l
      BY <1>0, <3>1
    <3>3. LoopOf(v) \in Loops
      BY DEF LoopOf, Loops
    <3>4. Channel(h, v)' = Channel(h, v)
      BY <1>1 DEF Channel
    <3> QED  BY <1>0, <1>6, <3>1, <3>2, <3>3, <3>4 DEF Drained
  <2>2. ASSUME NEW v \in Ids, NotJoined(v) PROVE NotJoined(v)' \/ Drained(v)'
    <3>1. PICK h \in DOMAIN gens : Contains(Channel(h, v), v) /\ LoopOf(v) \notin gens[h].joined
      BY <2>2 DEF NotJoined
    <3>2. Channel(h, v)' = Channel(h, v) /\ h \in DOMAIN gens'
      BY <1>0, <1>1 DEF Channel
    <3>3. CASE h = k /\ LoopOf(v) = l
      BY <1>6, <3>1, <3>2, <3>3 DEF Drained
    <3>4. CASE ~(h = k /\ LoopOf(v) = l)
      <4>1. LoopOf(v) \notin gens'[h].joined
        BY <1>1, <1>2, <3>1, <3>4
      <4> QED  BY <3>1, <3>2, <4>1 DEF NotJoined
    <3> QED  BY <3>3, <3>4
  <2>3. ASSUME NEW v \in Ids, InHand(v) PROVE InHand(v)'
    <3>1. PICK h \in DOMAIN gens : gens[h].pc \in {"answer", "handing"} /\ Head(gens[h].batch) = v
      BY <2>3 DEF InHand
    <3> QED  BY <1>0, <1>1, <3>1 DEF InHand
  <2>4. \A v \in Ids : Wanted(v)' => Wanted(v)
    BY DEF Wanted, Key
  <2>5. NoSilentLoss
    BY DEF PollInv, PollOK
  <2> QED  BY <1>0, <2>1, <2>2, <2>3, <2>4, <2>5 DEF NoSilentLoss
<1>20. ASSUME NEW v \in Msgs, Passed(v)' PROVE Passed(v)
  <2>1. CASE dispatched'[v] > 0
    BY <1>0, <2>1 DEF Passed
  <2>2. CASE \E h \in DOMAIN gens' : Holds(h)' /\ gens'[h].batch[1] = v
    <3>1. PICK h \in DOMAIN gens' : Holds(h)' /\ gens'[h].batch[1] = v
      BY <2>2
    <3>2. h \in DOMAIN gens /\ Holds(h) /\ gens[h].batch[1] = v
      BY <1>0, <1>1, <1>8, <3>1
    <3> QED  BY <3>2 DEF Passed
  <2>3. CASE \E h \in DOMAIN gens' : \E i \in DOMAIN gens'[h].msgs : gens'[h].msgs[i] = v
    <3>1. PICK h \in DOMAIN gens' : \E i \in DOMAIN gens'[h].msgs : gens'[h].msgs[i] = v
      BY <2>3
    <3>2. h \in DOMAIN gens /\ gens'[h].msgs = gens[h].msgs
      BY <1>0, <1>1, <1>3, <1>9, <3>1
    <3> QED  BY <3>1, <3>2 DEF Passed
  <2> QED  BY <1>20, <2>1, <2>2, <2>3 DEF Passed
<1>21. PollOK'
  BY <1>10, <1>11, <1>12, <1>14, <1>16, <1>17, <1>18, <1>19 DEF PollOK
<1>22. trouble'.expiry >= trouble.expiry
  <2>1. trouble.expiry \in Nat
    BY DEF PollInv, TypeOK
  <2> QED  BY <1>0, <2>1
<1> QED  BY <1>0, <1>t, <1>20, <1>21, <1>22, PollerStep

LEMMA acquireHolds ==
  ASSUME PollInv, NEW l \in Loops, acquire(l)
  PROVE  PollInv'
<1>0. /\ loop[l].pc = "acquire"
      /\ UNCHANGED <<alive, offset, seen, brk, disp, pairing, op, trouble, seenBy>>
  BY DEF acquire
<1>1. CASE gens' = gens /\ loop' = [loop EXCEPT ![l].pc = "retry"]
  <2> DEFINE s == [loop[l] EXCEPT !.pc = "retry"]
  <2>1. s \in LoopState /\ s.pc = "retry" /\ loop' = [loop EXCEPT ![l] = s]
    BY <1>1, LoopIs DEF PollInv
  <2> HIDE DEF s
  <2>2. UNCHANGED <<alive, polling, brk, disp, pairing, op, trouble, seenBy>>
    BY <1>0, <1>1 DEF polling
  <2> QED  BY <1>0, <2>1, <2>2, LoopMoves
<1>2. CASE /\ gens' = gens /\ Len(gens) \in DOMAIN gens /\ ~gens[Len(gens)].live
           /\ loop' = [loop EXCEPT ![l] = [pc |-> "waiting", g |-> Len(gens)]]
  <2> DEFINE s == [pc |-> "waiting", g |-> Len(gens)]
  <2>0. Len(gens) \in 0..MaxGens
    <3>1. gens \in Seq(Generation) /\ Len(gens) <= MaxGens
      BY DEF PollInv, TypeOK
    <3>2. Len(gens) \in Nat /\ MaxGens \in Nat
      BY <3>1, GensAre, BoundsAssumption
    <3>3. \A n \in Nat : n <= MaxGens => n \in 0..MaxGens
      BY <3>2
    <3> QED  BY <3>1, <3>2, <3>3
  <2>1. s \in LoopState /\ s.pc = "waiting" /\ s.g = Len(gens)
    BY <2>0 DEF LoopState
  <2>2. loop' = [loop EXCEPT ![l] = s]
    BY <1>2
  <2> HIDE DEF s
  <2>3. UNCHANGED <<alive, polling, brk, disp, pairing, op, trouble, seenBy>>
    BY <1>0, <1>2 DEF polling
  <2> QED  BY <1>0, <1>2, <2>1, <2>2, <2>3, LoopMoves
<1>3. CASE \E k \in Nat : Joins(l, k)
  BY <1>3, JoinsHolds
<1> QED  BY <1>1, <1>2, <1>3, acquireEffect

-----------------------------------------------------------------------------
(***************************************************************************)
(* Dispatch, the operator and the world, which leave the poller alone.     *)
(***************************************************************************)
Pcs == {"none", "dispatch", "check", "delete", "insert", "send", "plain", "done"}
Outcomes == {"", "code", "failed", "refused", "served", "remembered"}
Task == [pc : Pcs, x : Outcomes]
CodeRow == [code : Codes, chat : Chats, valid : BOOLEAN]
Troubles == [left : Nat, stop : Nat, expiry : Nat]

\* No generation changes but in `counted'.
GensStill ==
  /\ gens' \in Seq(Generation) /\ Len(gens') = Len(gens) /\ DOMAIN gens' = DOMAIN gens
  /\ \A h \in DOMAIN gens : SameRec(gens'[h], gens[h])

LEMMA GensStillIs ==
  ASSUME PollInv, NEW b, gens' = gens \/ gens' = Uncounted \/ gens' = Settle(b)
  PROVE  GensStill
<1>1. gens \in Seq(Generation)
  BY DEF PollInv, TypeOK
<1>2. \A h \in DOMAIN gens : SameRec(gens[h], gens[h])
  BY DEF SameRec
<1> QED  BY <1>1, <1>2, SettleIs DEF GensStill

LEMMA QuietStep ==
  ASSUME PollInv, GensStill, brk' \in Breaker, disp' \in [Ids -> Task], codes' \subseteq CodeRow,
         trouble' \in Troubles, trouble'.stop >= trouble.stop, trouble'.expiry >= trouble.expiry,
         alive' \in BOOLEAN, alive' => alive, GateOK', UNCHANGED <<offset, seen, loop, seenBy>>
  PROVE  PollInv'
<1>1. offset' = offset /\ seen' = seen /\ loop' = loop /\ dispatched' = dispatched /\ lost' = lost
  BY DEF seenBy
<1>2. gens' \in Seq(Generation) /\ Len(gens') = Len(gens) /\ DOMAIN gens' = DOMAIN gens
  BY DEF GensStill
<1>3. TypeOK'
  BY <1>1, <1>2 DEF PollInv, TypeOK, Breaker, Task, CodeRow, Troubles, Pcs, Outcomes
<1>4. PollOK' /\ \A v \in Msgs : Passed(v)' => Passed(v)
  BY <1>1, <1>2, <1>3, Still DEF PollInv, GensStill
<1>5. PassedOnce'
  BY <1>1, <1>3, <1>4, PassedStill DEF PollInv
<1> QED  BY <1>3, <1>4, <1>5 DEF PollInv

\* The types as QuietStep wants them.
LEMMA QuietTypes ==
  ASSUME PollInv
  PROVE  /\ brk \in Breaker /\ disp \in [Ids -> Task] /\ codes \subseteq CodeRow
         /\ trouble \in Troubles /\ trouble.stop \in Nat /\ trouble.expiry \in Nat
         /\ alive \in BOOLEAN /\ gens \in Seq(Generation)
<1>1. /\ brk \in Breaker /\ disp \in [Ids -> Task] /\ codes \subseteq CodeRow
      /\ trouble \in Troubles /\ alive \in BOOLEAN /\ gens \in Seq(Generation)
  BY DEF PollInv, TypeOK, Breaker, Task, CodeRow, Troubles, Pcs, Outcomes
<1> QED  BY <1>1 DEF Troubles

\* A disturbance or a short call, as QuietStep wants it.
LEMMA QuietTrouble ==
  ASSUME PollInv, Trouble \/ trouble' = trouble
  PROVE  trouble' \in Troubles /\ trouble'.stop >= trouble.stop /\ trouble'.expiry >= trouble.expiry
<1>1. trouble \in Troubles /\ trouble.stop \in Nat /\ trouble.expiry \in Nat
  BY QuietTypes
<1>2. CASE Trouble
  BY <1>1, <1>2, TroubleType DEF PollInv, Troubles
<1>3. CASE trouble' = trouble
  BY <1>1, <1>3
<1> QED  BY <1>2, <1>3

LEMMA QuietExecute ==
  ASSUME PollInv, NEW ok \in BOOLEAN, Execute(ok)
  PROVE  /\ brk' \in Breaker
         /\ trouble' \in Troubles /\ trouble'.stop >= trouble.stop /\ trouble'.expiry >= trouble.expiry
<1>1. trouble.stop \in Nat /\ trouble.expiry \in Nat
  BY QuietTypes
<1> QED  BY <1>1, ExecuteType DEF PollInv, Troubles

\* A dispatch goroutine moves on: what it serves is of an authorized chat.
LEMMA GotoHolds ==
  ASSUME PollInv, NEW u \in Ids, NEW p \in Pcs \ {"none"}, NEW y \in Outcomes, Goto(u, p, y),
         disp[u].pc # "none", authorized \subseteq authorized',
         y \in {"served", "remembered"} => Stream[u].chat \in authorized
  PROVE  disp' \in [Ids -> Task] /\ GateOK'
<1>1. PICK t : t = [pc |-> p, x |-> y]
  OBVIOUS
<1>2. t \in Task /\ t.pc = p /\ t.x = y
  BY <1>1 DEF Task
<1>3. disp' = [disp EXCEPT ![u] = t] /\ disp \in [Ids -> Task]
  BY <1>1, QuietTypes DEF Goto
<1>4. disp' \in [Ids -> Task] /\ disp'[u] = t /\ \A v \in Ids \ {u} : disp'[v] = disp[v]
  BY <1>2, <1>3
<1>5. ASSUME NEW v \in Ids
      PROVE  /\ disp'[v].pc # "none" => Stream[v].chat \in AllowFrom
             /\ disp'[v].pc = "none" => disp'[v].x = ""
             /\ disp'[v].x \in {"served", "remembered"} => Stream[v].chat \in authorized'
  <2>1. /\ disp[v].pc # "none" => Stream[v].chat \in AllowFrom
        /\ disp[v].pc = "none" => disp[v].x = ""
        /\ disp[v].x \in {"served", "remembered"} => Stream[v].chat \in authorized
    BY DEF PollInv, GateOK
  <2>2. CASE v = u
    BY <1>2, <1>4, <2>1, <2>2
  <2>3. CASE v # u
    BY <1>4, <2>1, <2>3
  <2> QED  BY <2>2, <2>3
<1> QED  BY <1>4, <1>5 DEF GateOK

LEMMA GateStill ==
  ASSUME PollInv, disp' = disp, authorized \subseteq authorized'
  PROVE  disp' \in [Ids -> Task] /\ GateOK'
<1>1. GateOK'
  BY DEF PollInv, GateOK
<1> QED  BY <1>1, QuietTypes

LEMMA NamesAre ==
  /\ {"check", "delete", "insert", "send", "plain", "done"} \subseteq Pcs \ {"none"}
  /\ "" \in Outcomes /\ "code" \in Outcomes /\ "failed" \in Outcomes /\ "refused" \in Outcomes
  /\ "served" \in Outcomes /\ "remembered" \in Outcomes
  /\ "" \notin {"served", "remembered"}
BY DEF Pcs, Outcomes

LEMMA dispatchHolds ==
  ASSUME PollInv, NEW u \in Ids, dispatch(u)
  PROVE  PollInv'
<1>0. /\ disp[u].pc # "none" /\ alive' = alive /\ authorized' = authorized /\ codes' = codes
      /\ UNCHANGED <<offset, seen, loop, seenBy>>
  BY DEF dispatch, pairing
<1>1. CASE Goto(u, "done", "") /\ UNCHANGED <<brk, gens, trouble>>
  <2>1. disp' \in [Ids -> Task] /\ GateOK'
    BY <1>0, <1>1, GotoHolds, NamesAre
  <2> QED  BY <1>0, <1>1, <2>1, QuietTypes, QuietTrouble, GensStillIs, QuietStep
<1>2. CASE (\E ok \in BOOLEAN : Execute(ok)) /\ gens' = Settle(brk') /\ Goto(u, "check", "")
  <2>1. disp' \in [Ids -> Task] /\ GateOK'
    BY <1>0, <1>2, GotoHolds, NamesAre
  <2> QED  BY <1>0, <1>2, <2>1, QuietTypes, QuietExecute, GensStillIs, QuietStep
<1> QED  BY <1>1, <1>2 DEF dispatch

LEMMA sendTypingHolds ==
  ASSUME PollInv, NEW u \in Ids, sendTyping(u)
  PROVE  PollInv'
<1>0. /\ alive' = alive /\ authorized' = authorized /\ codes' = codes /\ disp' = disp
      /\ gens' = Settle(brk') /\ UNCHANGED <<offset, seen, loop, seenBy>>
  BY DEF sendTyping, pairing
<1>1. PICK ok \in BOOLEAN : Execute(ok)
  BY DEF sendTyping
<1>2. disp' \in [Ids -> Task] /\ GateOK'
  BY <1>0, GateStill
<1> QED  BY <1>0, <1>1, <1>2, QuietTypes, QuietExecute, GensStillIs, QuietStep

LEMMA DbFailsHolds ==
  ASSUME PollInv, NEW u \in Ids, DbFails(u)
  PROVE  PollInv'
<1>0. /\ disp[u].pc # "none" /\ alive' = alive /\ authorized' = authorized /\ codes' = codes
      /\ gens' = gens /\ brk' = brk /\ UNCHANGED <<offset, seen, loop, seenBy>>
  BY DEF DbFails, pairing, polling
<1>1. Trouble /\ \E p \in {"send", "done"} : Goto(u, p, "failed")
  BY DEF DbFails, DbErr
<1>2. disp' \in [Ids -> Task] /\ GateOK'
  <2>1. "failed" \notin {"served", "remembered"}
    OBVIOUS
  <2> QED  BY <1>0, <1>1, <2>1, GotoHolds, NamesAre
<1> QED  BY <1>0, <1>1, <1>2, QuietTypes, QuietTrouble, GensStillIs, QuietStep

\* Of an authorized chat the inner handler or the admin command answers, of
\* another the code.
LEMMA HandleHolds ==
  ASSUME PollInv, NEW u \in Ids, Handle(u)
  PROVE  PollInv'
<1>0. /\ disp[u].pc # "none" /\ alive' = alive /\ authorized' = authorized /\ codes' = codes
      /\ trouble' = trouble /\ UNCHANGED <<offset, seen, loop, seenBy>>
  BY DEF Handle, pairing
<1>1. Closed \in Breaker
  BY CapAssumption DEF Closed, Breaker
<1>2. brk' \in Breaker /\ GensStill
  <2>1. CASE brk' = Closed /\ gens' = Uncounted
    BY <1>1, <2>1, GensStillIs
  <2>2. CASE brk' = brk /\ gens' = gens
    BY <2>2, QuietTypes, GensStillIs
  <2> QED  BY <2>1, <2>2 DEF Handle, maybeHandleAdminCommand, innerHandle
<1>3. disp' \in [Ids -> Task] /\ GateOK'
  <2>1. CASE IsAuthorized(Stream[u].chat)
    <3>1. \E p \in {"send", "done"}, y \in {"served", "remembered"} : Goto(u, p, y)
      BY <2>1 DEF Handle, maybeHandleAdminCommand, innerHandle
    <3> QED  BY <1>0, <2>1, <3>1, GotoHolds, NamesAre DEF IsAuthorized
  <2>2. CASE ~IsAuthorized(Stream[u].chat)
    <3>1. Goto(u, "send", "code") \/ Goto(u, "delete", "")
      BY <2>2 DEF Handle
    <3>2. "code" \notin {"served", "remembered"}
      OBVIOUS
    <3> QED  BY <1>0, <3>1, <3>2, GotoHolds, NamesAre
  <2> QED  BY <2>1, <2>2
<1> QED  BY <1>0, <1>2, <1>3, QuietTypes, QuietTrouble, QuietStep

LEMMA DeleteExpiredHolds ==
  ASSUME PollInv, NEW u \in Ids, DeleteExpired(u)
  PROVE  PollInv'
<1>0. /\ disp[u].pc # "none" /\ alive' = alive /\ authorized' = authorized /\ trouble' = trouble
      /\ gens' = gens /\ brk' = brk /\ UNCHANGED <<offset, seen, loop, seenBy>>
      /\ codes' \subseteq codes /\ Goto(u, "insert", "")
  BY DEF DeleteExpired, polling
<1>1. disp' \in [Ids -> Task] /\ GateOK'
  BY <1>0, GotoHolds, NamesAre
<1>2. codes' \subseteq CodeRow
  BY <1>0, QuietTypes
<1> QED  BY <1>0, <1>1, <1>2, QuietTypes, QuietTrouble, GensStillIs, QuietStep

LEMMA GetOrCreateCodeHolds ==
  ASSUME PollInv, NEW u \in Ids, GetOrCreateCode(u)
  PROVE  PollInv'
<1>0. /\ disp[u].pc # "none" /\ alive' = alive /\ authorized' = authorized /\ trouble' = trouble
      /\ gens' = gens /\ brk' = brk /\ UNCHANGED <<offset, seen, loop, seenBy>>
  BY DEF GetOrCreateCode, polling
<1>1. PICK c \in Codes :
        IF \E r \in codes : r.code = c
          THEN Goto(u, IF alive THEN "send" ELSE "done", "failed") /\ UNCHANGED codes
          ELSE /\ codes' = codes \cup {[code |-> c, chat |-> Stream[u].chat, valid |-> TRUE]}
               /\ Goto(u, "send", "code")
  BY DEF GetOrCreateCode
<1>2. codes' \subseteq CodeRow
  <2>1. Stream[u].chat \in Chats
    BY <1>0, AllowAssumption DEF PollInv, GateOK
  <2>2. [code |-> c, chat |-> Stream[u].chat, valid |-> TRUE] \in CodeRow
    BY <2>1 DEF CodeRow
  <2> QED  BY <1>1, <2>2, QuietTypes
<1>3. disp' \in [Ids -> Task] /\ GateOK'
  <2>1. \E p \in {"send", "done"}, y \in {"code", "failed"} : Goto(u, p, y)
    BY <1>1
  <2>2. "code" \notin {"served", "remembered"} /\ "failed" \notin {"served", "remembered"}
    OBVIOUS
  <2> QED  BY <1>0, <2>1, <2>2, GotoHolds, NamesAre
<1> QED  BY <1>0, <1>2, <1>3, QuietTypes, QuietTrouble, GensStillIs, QuietStep

LEMMA SendHolds ==
  ASSUME PollInv, NEW u \in Ids, Send(u)
  PROVE  PollInv'
<1>0. /\ disp[u].pc # "none" /\ alive' = alive /\ authorized' = authorized /\ codes' = codes
      /\ gens' = Settle(brk') /\ UNCHANGED <<offset, seen, loop, seenBy>>
  BY DEF Send, pairing
<1>1. PICK ok \in BOOLEAN : Execute(ok)
  BY DEF Send
<1>2. \E p \in {"done", "plain"} : Goto(u, p, disp[u].x)
  BY DEF Send
<1>3. disp' \in [Ids -> Task] /\ GateOK'
  <2>1. disp[u].x \in Outcomes
    BY QuietTypes DEF Task
  <2>2. disp[u].x \in {"served", "remembered"} => Stream[u].chat \in authorized
    BY DEF PollInv, GateOK
  <2> QED  BY <1>0, <1>2, <2>1, <2>2, GotoHolds, NamesAre
<1> QED  BY <1>0, <1>1, <1>3, QuietTypes, QuietExecute, GensStillIs, QuietStep

LEMMA HandleCallbackHolds ==
  ASSUME PollInv, NEW u \in Ids, HandleCallback(u)
  PROVE  PollInv'
<1>0. /\ disp[u].pc # "none" /\ alive' = alive /\ authorized' = authorized /\ codes' = codes
      /\ trouble' = trouble /\ gens' = gens /\ brk' = brk /\ UNCHANGED <<offset, seen, loop, seenBy>>
  BY DEF HandleCallback, polling, pairing
<1>1. \/ Goto(u, "done", "served") /\ Stream[u].chat \in authorized
      \/ Goto(u, "done", "refused")
  BY DEF HandleCallback, IsAuthorized
<1>2. disp' \in [Ids -> Task] /\ GateOK'
  <2>1. "refused" \notin {"served", "remembered"}
    OBVIOUS
  <2> QED  BY <1>0, <1>1, <2>1, GotoHolds, NamesAre
<1> QED  BY <1>0, <1>2, QuietTypes, QuietTrouble, GensStillIs, QuietStep

\* A step of the operator: authorizations are only added.
LEMMA OperatorHolds ==
  ASSUME PollInv, Operator
  PROVE  PollInv'
<1> DEFINE quiet == /\ alive' = alive /\ disp' = disp /\ gens' = gens /\ brk' = brk
                    /\ UNCHANGED <<offset, seen, loop, seenBy>>
                    /\ codes' \subseteq codes /\ authorized \subseteq authorized'
                    /\ Trouble \/ trouble' = trouble
<1>1. quiet
  <2>1. ASSUME NEW arg \in Args, authorize(arg) PROVE quiet
    BY <2>1 DEF authorize, polling, pairing
  <2>2. CASE AuthorizeByCode
    BY <2>2 DEF AuthorizeByCode, polling
  <2>3. CASE DeleteCode
    BY <2>3 DEF DeleteCode, polling
  <2>4. CASE AuthorizeByChatID
    BY <2>4 DEF AuthorizeByChatID, polling
  <2> QED  BY <2>1, <2>2, <2>3, <2>4 DEF Operator
<1>2. disp' \in [Ids -> Task] /\ GateOK'
  BY <1>1, GateStill
<1>3. codes' \subseteq CodeRow
  BY <1>1, QuietTypes
<1> QED  BY <1>1, <1>2, <1>3, QuietTypes, QuietTrouble, GensStillIs, QuietStep

LEMMA CancelHolds ==
  ASSUME PollInv, Cancel
  PROVE  PollInv'
<1>1. /\ alive' = FALSE /\ alive /\ disp' = disp /\ gens' = gens /\ brk' = brk /\ codes' = codes
      /\ authorized' = authorized /\ trouble' = trouble
      /\ UNCHANGED <<offset, seen, loop, seenBy>>
  BY DEF Cancel, polling, pairing
<1>2. disp' \in [Ids -> Task] /\ GateOK'
  BY <1>1, GateStill
<1> QED  BY <1>1, <1>2, QuietTypes, QuietTrouble, GensStillIs, QuietStep

LEMMA OpenTimeoutHolds ==
  ASSUME PollInv, OpenTimeout
  PROVE  PollInv'
<1>1. /\ alive' = alive /\ disp' = disp /\ gens' = Uncounted /\ codes' = codes
      /\ brk' = [state |-> "half-open", fails |-> 0]
      /\ authorized' = authorized /\ trouble' = trouble
      /\ UNCHANGED <<offset, seen, loop, seenBy>>
  BY DEF OpenTimeout, pairing
<1>2. disp' \in [Ids -> Task] /\ GateOK'
  BY <1>1, GateStill
<1>3. brk' \in Breaker
  BY <1>1, CapAssumption DEF Breaker
<1> QED  BY <1>1, <1>2, <1>3, QuietTypes, QuietTrouble, GensStillIs, QuietStep

LEMMA ExpireCodeHolds ==
  ASSUME PollInv, ExpireCode
  PROVE  PollInv'
<1>1. /\ alive' = alive /\ disp' = disp /\ gens' = gens /\ brk' = brk
      /\ authorized' = authorized /\ Count("expiry")
      /\ UNCHANGED <<offset, seen, loop, seenBy>>
  BY DEF ExpireCode, polling
<1>2. disp' \in [Ids -> Task] /\ GateOK'
  BY <1>1, GateStill
<1>3. codes' \subseteq CodeRow
  <2>1. PICK r \in codes : codes' = (codes \ {r}) \cup {[r EXCEPT !.valid = FALSE]}
    BY DEF ExpireCode
  <2>2. [r EXCEPT !.valid = FALSE] \in CodeRow
    BY QuietTypes DEF CodeRow
  <2> QED  BY <2>1, <2>2, QuietTypes
<1>4. trouble' \in Troubles /\ trouble'.stop >= trouble.stop /\ trouble'.expiry >= trouble.expiry
  BY <1>1, CountType DEF PollInv, Troubles
<1> QED  BY <1>1, <1>2, <1>3, <1>4, QuietTypes, GensStillIs, QuietStep

\* A forgotten message may pass once more, which the count of expiries allows.
LEMMA EvictSeenHolds ==
  ASSUME PollInv, EvictSeen
  PROVE  PollInv'
<1>1. /\ alive' = alive /\ disp' = disp /\ gens' = gens /\ brk' = brk /\ offset' = offset
      /\ authorized' = authorized /\ codes' = codes /\ loop' = loop
      /\ dispatched' = dispatched /\ lost' = lost /\ Count("expiry")
  BY DEF EvictSeen, pairing, seenBy
<1>2. seen' \subseteq seen
  BY DEF EvictSeen
<1>3. /\ trouble' \in Troubles /\ trouble'.stop = trouble.stop /\ trouble'.expiry = trouble.expiry + 1
      /\ trouble.stop \in Nat /\ trouble.expiry \in Nat
  BY <1>1, CountType DEF PollInv, Troubles
<1>4. TypeOK'
  BY <1>1, <1>3 DEF PollInv, TypeOK, Troubles
<1>5. Chain' /\ Starts'
  BY <1>1, <1>3 DEF PollInv, PollOK, Chain, ChainAt, Starts, StartAt
<1>6. Batches' /\ Contents' /\ Fresh' /\ LoopsOK'
  BY <1>1 DEF PollInv, PollOK, Batches, BatchAt, Contents, Fresh, Box, Holds, LoopsOK
<1>7. SeenOK'
  BY <1>1, <1>2 DEF PollInv, PollOK, SeenOK, Key
<1>8. NoSilentLoss'
  <2>1. \A v \in Ids : /\ InHand(v) => InHand(v)'
                       /\ NotJoined(v) => NotJoined(v)'
                       /\ Drained(v) => Drained(v)'
                       /\ Wanted(v)' => Wanted(v)
    BY <1>1 DEF InHand, NotJoined, Drained, Channel, Wanted, Key
  <2>2. NoSilentLoss
    BY DEF PollInv, PollOK
  <2> QED  BY <1>1, <1>3, <2>1, <2>2 DEF NoSilentLoss
<1>9. PassedOnce'
  <2>1. SUFFICES ASSUME NEW u \in Msgs
                 PROVE  Cardinality(PassedAs(Key(u))') <= trouble'.expiry + (IF Key(u) \in seen' THEN 1 ELSE 0)
    BY DEF PassedOnce, Key, PassedAs
  <2>2. PassedAs(Key(u))' = PassedAs(Key(u))
    BY <1>1 DEF PassedAs, Key, Passed, Holds
  <2>3. Cardinality(PassedAs(Key(u))) <= trouble.expiry + (IF Key(u) \in seen THEN 1 ELSE 0)
    BY DEF PollInv, PassedOnce
  <2>4. Cardinality(PassedAs(Key(u))) \in Nat
    BY MsgsAre
  <2> QED  BY <1>3, <2>2, <2>3, <2>4
<1>10. GateOK'
  BY <1>1, GateStill
<1>11. PollOK'
  BY <1>5, <1>6, <1>7, <1>8 DEF PollOK
<1> QED  BY <1>4, <1>9, <1>10, <1>11 DEF PollInv

-----------------------------------------------------------------------------
(***************************************************************************)
(* The theorems.                                                           *)
(***************************************************************************)
LEMMA InitHolds ==
  ASSUME Init
  PROVE  PollInv
<1>0. /\ alive = TRUE /\ offset = 1 /\ gens = <<>> /\ brk = Closed /\ seen = {}
      /\ loop = [l \in Loops |-> [pc |-> "acquire", g |-> 0]]
      /\ disp = [u \in Ids |-> Idle] /\ codes = {}
      /\ dispatched = [u \in Ids |-> 0] /\ lost = {}
  BY DEF Init
<1>1. trouble \in Troubles /\ trouble.expiry = 0
  <2>1. PICK failed \in SUBSET AllowFrom :
          /\ Cardinality(failed) <= MaxTrouble
          /\ trouble = [left |-> MaxTrouble - Cardinality(failed), stop |-> 0, expiry |-> 0]
    BY DEF Init
  <2>2. Cardinality(failed) \in Nat
    BY BoundsAssumption, FS_Subset, FS_CardinalityType
  <2>3. MaxTrouble - Cardinality(failed) \in Nat
    BY <2>1, <2>2, BoundsAssumption
  <2> QED  BY <2>1, <2>3 DEF Troubles
<1>2. gens \in Seq(Generation) /\ DOMAIN gens = {} /\ Len(gens) = 0
  BY <1>0
<1>3. Idle \in Task /\ Idle.pc = "none" /\ Idle.x = ""
  <2>1. "none" \in Pcs /\ "" \in Outcomes
    BY DEF Pcs, Outcomes
  <2>2. \A p \in Pcs, y \in Outcomes : /\ [pc |-> p, x |-> y] \in Task
                                       /\ [pc |-> p, x |-> y].pc = p /\ [pc |-> p, x |-> y].x = y
    BY DEF Task
  <2> QED  BY <2>1, <2>2 DEF Idle
<1>4. disp \in [Ids -> Task] /\ \A u \in Ids : disp[u] = Idle
  BY <1>0, <1>3
<1>5. brk \in Breaker
  BY <1>0, CapAssumption DEF Closed, Breaker
<1>6. /\ loop \in [Loops -> LoopState]
      /\ \A l \in Loops : loop[l].pc = "acquire"
  <2>1. [pc |-> "acquire", g |-> 0] \in LoopState
    BY BoundsAssumption DEF LoopState
  <2> QED  BY <1>0, <2>1
<1>7. dispatched \in [Ids -> Nat] /\ \A u \in Ids : dispatched[u] = 0
  BY <1>0
<1>8. offset \in 1..(Len(Stream) + 1)
  BY <1>0, BoundsAssumption
<1>9. TypeOK
  <2>1. 0 <= MaxGens
    BY BoundsAssumption
  <2> QED  BY <1>0, <1>1, <1>2, <1>4, <1>5, <1>6, <1>7, <1>8, <2>1
             DEF TypeOK, Breaker, Task, Troubles, Pcs, Outcomes
<1>10. Chain /\ Batches /\ Starts /\ Contents
  BY <1>2 DEF Chain, Batches, Starts, Contents
<1>11. Fresh /\ SeenOK
  BY <1>0, <1>2, <1>7 DEF Fresh, SeenOK
<1>12. LoopsOK
  BY <1>2, <1>6 DEF LoopsOK
<1>13. NoSilentLoss
  <2>1. \A u \in Ids : ~(u < offset)
    BY <1>0, BoundsAssumption DEF Ids
  <2> QED  BY <2>1 DEF NoSilentLoss
<1>14. PassedOnce
  <2>1. \A v \in Msgs : v \in Ids /\ ~Passed(v)
    BY <1>2, <1>7 DEF Passed, Msgs
  <2>2. \A k : PassedAs(k) = {}
    BY <2>1 DEF PassedAs
  <2>3. \A u \in Msgs : Cardinality(PassedAs(Key(u))) = 0
    BY <2>2, FS_EmptySet
  <2> QED  BY <1>0, <1>1, <2>3 DEF PassedOnce
<1>15. GateOK
  BY <1>3, <1>4 DEF GateOK
<1> QED  BY <1>9, <1>10, <1>11, <1>12, <1>13, <1>14, <1>15 DEF PollInv, PollOK

LEMMA LoopHolds ==
  ASSUME PollInv, NEW l \in Loops, Loop(l)
  PROVE  PollInv'
BY acquireHolds, acquireWaitedHolds, waitRetryHolds, drainEndsHolds DEF Loop

LEMMA WorkerHolds ==
  ASSUME PollInv, NEW g, Worker(g)
  PROVE  PollInv'
<1>1. g \in DOMAIN gens
  BY DEF Worker
<1> QED  BY <1>1, runGenerationHolds, finishGenerationHolds, startPollerHolds, fetchFailsHolds,
            fetchUpdatesHolds, handleGenerationUpdateHolds, answerCallbackHolds, sendHolds DEF Worker

LEMMA DispatchHolds ==
  ASSUME PollInv, NEW u \in Ids, Dispatch(u) \/ DbFails(u) \/ sendTyping(u)
  PROVE  PollInv'
BY dispatchHolds, HandleHolds, DeleteExpiredHolds, GetOrCreateCodeHolds, SendHolds,
   HandleCallbackHolds, DbFailsHolds, sendTypingHolds DEF Dispatch

LEMMA WorldHolds ==
  ASSUME PollInv, World
  PROVE  PollInv'
BY CancelHolds, EvictSeenHolds, ExpireCodeHolds, OpenTimeoutHolds, StopHolds DEF World

LEMMA StutterHolds ==
  ASSUME PollInv, UNCHANGED vars
  PROVE  PollInv'
<1>1. /\ alive' = alive /\ disp' = disp /\ gens' = gens /\ brk' = brk /\ codes' = codes
      /\ authorized' = authorized /\ trouble' = trouble
      /\ UNCHANGED <<offset, seen, loop, seenBy>>
  BY DEF vars, polling, pairing
<1>2. disp' \in [Ids -> Task] /\ GateOK'
  BY <1>1, GateStill
<1> QED  BY <1>1, <1>2, QuietTypes, QuietTrouble, GensStillIs, QuietStep

LEMMA NextHolds ==
  ASSUME PollInv, Next
  PROVE  PollInv'
<1>1. CASE runUpdateLoop
  BY <1>1, LoopHolds, drainHolds DEF runUpdateLoop, Loops
<1>2. CASE runCallbackLoop
  BY <1>2, LoopHolds, drainHolds DEF runCallbackLoop, Loops
<1>3. CASE \E g \in Gens : Worker(g)
  BY <1>3, WorkerHolds
<1>4. CASE \E u \in Ids : Dispatch(u) \/ DbFails(u) \/ sendTyping(u)
  BY <1>4, DispatchHolds
<1> QED  BY <1>1, <1>2, <1>3, <1>4, OperatorHolds, WorldHolds DEF Next

\* PollInv is inductive: whatever Telegram returns, however the calls, the
\* statements and the operator interleave with the two loops and the worker
\* (internal/app/telegram.go, internal/bot/bot.go).
THEOREM PollInvariant == Spec => []PollInv
<1>1. Init => PollInv
  BY InitHolds
<1>2. PollInv /\ [Next]_vars => PollInv'
  BY NextHolds, StutterHolds
<1> QED  BY <1>1, <1>2, PTL DEF Spec

\* An update that the offset has passed is in the worker's hands, in a channel
\* that its loop drains or that the callback loop has yet to join, or dispatched,
\* unless the run was cancelled or stopped (startPoller, acquire).
THEOREM PollNoSilentLoss == Spec => []NoSilentLoss
<1>1. PollInv => NoSilentLoss
  BY DEF PollInv, PollOK
<1> QED  BY <1>1, PollInvariant, PTL

\* No update is dispatched twice, and no message under two update ids except once
\* for each time the table of seen messages forgot it (isDuplicate, the skip of
\* startPoller).
THEOREM PollAtMostOnce == Spec => []AtMostOnce
<1>1. ASSUME PollInv PROVE AtMostOnce
  <2>1. \A u \in Ids : dispatched[u] <= 1
    BY <1>1 DEF PollInv, PollOK, Fresh
  <2>2. Msgs \subseteq Ids /\ Cbs \subseteq Ids
    BY DEF Msgs, Cbs
  <2>3. ASSUME NEW u \in Msgs,
               NEW same, same = {v \in Msgs : Key(v) = Key(u) /\ dispatched[v] > 0}
        PROVE  Cardinality(same) <= 1 + trouble.expiry
    <3>1. same \subseteq PassedAs(Key(u))
      BY <2>3 DEF PassedAs, Passed
    <3>2. Cardinality(same) <= Cardinality(PassedAs(Key(u))) /\ Cardinality(same) \in Nat
      BY <3>1, MsgsAre, FS_Subset, FS_CardinalityType
    <3>3. Cardinality(PassedAs(Key(u))) <= trouble.expiry + (IF Key(u) \in seen THEN 1 ELSE 0)
      BY <1>1 DEF PollInv, PassedOnce
    <3>4. Cardinality(PassedAs(Key(u))) \in Nat /\ trouble.expiry \in Nat
      BY <1>1, MsgsAre, QuietTypes
    <3> QED  BY <3>2, <3>3, <3>4
  <2> QED  BY <2>1, <2>2, <2>3 DEF AtMostOnce
<1>2. PollInv => AtMostOnce
  BY <1>1
<1> QED  BY <1>2, PollInvariant, PTL

\* What is served, or remembered, comes from a chat that is both listed and
\* authorized, whatever statements of the pairing store fail (PairingHandler).
THEOREM PollGated == Spec => []Gated
<1>1. ASSUME PollInv PROVE Gated
  <2>1. ASSUME NEW u \in Ids, disp[u].x \in {"served", "remembered"}
        PROVE  Stream[u].chat \in AllowFrom \cap authorized
    <3>1. disp[u].pc # "none"
      BY <1>1, <2>1, NamesAre DEF PollInv, GateOK
    <3> QED  BY <1>1, <2>1, <3>1 DEF PollInv, GateOK
  <2> QED  BY <2>1 DEF Gated
<1>2. PollInv => Gated
  BY <1>1
<1> QED  BY <1>2, PollInvariant, PTL

\* While the run lasts, a worker with an update to hand over finds the loop of
\* that channel draining it or on its way to join, and a loop waits only for a
\* worker whose context has ended (acquire, handleMessage).
THEOREM PollNoWedge == Spec => []NoWedge
<1>1. ASSUME PollInv, alive PROVE NoWedge
  <2>1. ASSUME NEW g \in DOMAIN gens, gens[g].pc = "handing", Live(g),
               NEW l \in Loops, l = LoopOf(Head(gens[g].batch))
        PROVE  \/ loop[l] = [pc |-> "drain", g |-> g]
               \/ loop[l].pc \in {"acquire", "retry"}
               \/ loop[l].pc \in {"drain", "waiting"} /\ gens[loop[l].g].closed
    <3>1. loop \in [Loops -> LoopState] /\ LoopsOK /\ Chain
      BY <1>1 DEF PollInv, PollOK, TypeOK
    <3>2. /\ loop[l].pc \in {"acquire", "waiting", "drain", "retry", "end"} /\ loop[l].pc # "end"
          /\ loop[l].pc \in {"waiting", "drain"} => loop[l].g \in DOMAIN gens
          /\ loop[l].pc = "waiting" => ~gens[loop[l].g].live
      BY <1>1, <3>1 DEF LoopsOK, LoopState
    <3>3. g = Len(gens) /\ gens[g].live
      BY <2>1, <3>1 DEF Chain, ChainAt, Live
    <3>4. CASE loop[l].pc \in {"waiting", "drain"} /\ loop[l].g # g
      BY <3>1, <3>2, <3>3, <3>4 DEF Chain, ChainAt
    <3>5. CASE loop[l].pc \in {"waiting", "drain"} /\ loop[l].g = g
      <4>1. loop[l].pc = "drain"
        BY <3>2, <3>3, <3>5
      <4>2. \A s \in LoopState : s = [pc |-> s.pc, g |-> s.g]
        BY DEF LoopState
      <4> QED  BY <3>1, <3>5, <4>1, <4>2
    <3> QED  BY <3>2, <3>4, <3>5
  <2>2. \A u : LoopOf(u) \in Loops
    BY DEF LoopOf, Loops
  <2>3. \A l \in Loops : /\ loop[l].pc = "waiting" => ~Live(loop[l].g)
                         /\ loop[l].pc # "end"
    BY <1>1 DEF PollInv, PollOK, LoopsOK, Live
  <2> QED  BY <2>1, <2>2, <2>3 DEF NoWedge
<1>2. PollInv => NoWedge
  BY <1>1 DEF NoWedge
<1> QED  BY <1>2, PollInvariant, PTL

=============================================================================
