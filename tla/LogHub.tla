-------------------------------- MODULE LogHub --------------------------------
(***************************************************************************)
(* internal/dashboard: every log record is handed to a hub that keeps the  *)
(* last ones and broadcasts them to the clients of the live stream; the    *)
(* gateway's log page (internal/gateway/dash/logs.go) reads the same hub.  *)
(*                                                                         *)
(* An entry is its number and its level.  A client's channel holds a       *)
(* hundred entries; a record is not kept for a client whose channel is     *)
(* full.  The hub is closed when the runtime ends, while clients may still *)
(* be connected and records still logged.                                  *)
(***************************************************************************)
EXTENDS Integers, Sequences, FiniteSets

CONSTANTS
  Viewers,     \* connections to /events and requests for the log page
  Levels,
  BufSize,     \* entries the hub keeps
  ChanCap,     \* capacity of a client's channel
  TailLines,   \* entries the log page shows
  MaxEntries   \* bound on the records of one behaviour

ASSUME SizesAssumption ==
  {BufSize, ChanCap, TailLines, MaxEntries} \subseteq Nat \ {0}

VARIABLES
  buffer,      \* Hub.buffer
  subscribers, \* Hub.subscribers
  hubClosed,
  channel,     \* client -> entries in its channel
  isClosed,    \* clients whose channel is closed
  panicked,    \* a closed channel was sent to, or closed
  emitted,     \* number of entries so far
  cpc,         \* client -> where its handler is
  backlog,     \* client -> entries it got from Subscribe and has not sent
  sent,        \* client -> entries written to its connection
  skipped      \* client -> entries that its full channel had no room for

hubVars == <<buffer, subscribers, hubClosed, channel, isClosed, panicked, emitted, skipped>>
clientVars == <<cpc, backlog, sent>>
logVars == <<hubVars, clientVars>>

LogInit ==
  /\ buffer = <<>>
  /\ subscribers = {}
  /\ hubClosed = FALSE
  /\ channel = [c \in Viewers |-> <<>>]
  /\ isClosed = {}
  /\ panicked = FALSE
  /\ emitted = 0
  /\ cpc = [c \in Viewers |-> "off"]
  /\ backlog = [c \in Viewers |-> <<>>]
  /\ sent = [c \in Viewers |-> <<>>]
  /\ skipped = [c \in Viewers |-> {}]

LastOf(s, n) == SubSeq(s, IF Len(s) > n THEN Len(s) - n + 1 ELSE 1, Len(s))
ClientAt(c, where) == cpc[c] = where
ClientTo(c, where) == cpc' = [cpc EXCEPT ![c] = where]
-----------------------------------------------------------------------------
(***************************************************************************)
(* The hub, under its mutex.                                               *)
(***************************************************************************)
MutHasRoom(c) == \A d \in subscribers : Len(channel[d]) < ChanCap
HasRoom(c) == Len(channel[c]) < ChanCap

Emit(e) ==
  /\ emitted' = emitted + 1
  /\ IF hubClosed THEN UNCHANGED <<buffer, channel, skipped, panicked>>
     ELSE /\ buffer' = LastOf(Append(buffer, e), BufSize)
          /\ channel' = [c \in Viewers |->
               IF c \in subscribers /\ HasRoom(c) THEN Append(channel[c], e) ELSE channel[c]]
          /\ skipped' = [c \in Viewers |->
               IF c \in subscribers /\ Len(channel[c]) >= ChanCap
               THEN skipped[c] \union {e.n} ELSE skipped[c]]
          /\ panicked' = (panicked \/ subscribers \intersect isClosed # {})

Subscribe(c) ==
  IF hubClosed
  THEN backlog' = [backlog EXCEPT ![c] = <<>>] /\ UNCHANGED <<subscribers, channel, isClosed, skipped>>
  ELSE /\ subscribers' = subscribers \union {c}
       /\ backlog' = [backlog EXCEPT ![c] = buffer]
       /\ channel' = [channel EXCEPT ![c] = <<>>]
       /\ isClosed' = isClosed \ {c}
       /\ skipped' = [skipped EXCEPT ![c] = {}]

CloseChannels(S) ==
  /\ isClosed' = isClosed \union S
  /\ panicked' = (panicked \/ S \intersect isClosed # {})

Unsubscribe(c) ==
  /\ subscribers' = subscribers \ {c}
  /\ CloseChannels({c} \intersect subscribers)

CloseHub ==
  /\ ~hubClosed
  /\ hubClosed' = TRUE
  /\ CloseChannels(subscribers)
  /\ subscribers' = {}
  /\ buffer' = <<>>
  /\ UNCHANGED <<channel, emitted, skipped, clientVars>>

\* SlogHandler.Handle: the redacted record goes to the hub, then to the file.
HandleRecord(l) ==
  /\ emitted < MaxEntries
  /\ Emit([n |-> emitted + 1, level |-> l])
  /\ UNCHANGED <<subscribers, hubClosed, isClosed, clientVars>>
-----------------------------------------------------------------------------
(***************************************************************************)
(* A connection to /events, once its token is accepted.                    *)
(***************************************************************************)
handleEvents(c) ==
  /\ ClientAt(c, "off")
  /\ Subscribe(c)
  /\ sent' = [sent EXCEPT ![c] = <<>>]
  /\ ClientTo(c, IF hubClosed THEN "stale" ELSE "backlog")
  /\ UNCHANGED <<buffer, hubClosed, panicked, emitted>>

\* A write may fail, and then the handler returns.
sendSSE(c, e, next) ==
  \/ sent' = [sent EXCEPT ![c] = Append(@, e.n)] /\ ClientTo(c, next)
  \/ UNCHANGED sent /\ ClientTo(c, "leave")

sendBacklog(c) ==
  /\ ClientAt(c, "backlog")
  /\ IF backlog[c] = <<>> THEN ClientTo(c, "live") /\ UNCHANGED <<sent, backlog>>
     ELSE sendSSE(c, Head(backlog[c]), "backlog") /\ backlog' = [backlog EXCEPT ![c] = Tail(@)]
  /\ UNCHANGED hubVars

\* Entries in a closed channel are still received.
streamLive(c) ==
  /\ ClientAt(c, "live")
  /\ \/ /\ channel[c] # <<>>
        /\ sendSSE(c, Head(channel[c]), "live")
        /\ channel' = [channel EXCEPT ![c] = Tail(@)]
     \/ /\ channel[c] = <<>> /\ c \in isClosed
        /\ ClientTo(c, "leave")
        /\ UNCHANGED <<sent, channel>>
  /\ UNCHANGED <<buffer, subscribers, hubClosed, isClosed, panicked, emitted, skipped, backlog>>

\* A client of a closed hub has no channel and waits until it disconnects.
Disconnect(c) ==
  /\ cpc[c] \in {"live", "stale"}
  /\ ClientTo(c, "leave")
  /\ UNCHANGED <<hubVars, backlog, sent>>

leaveEvents(c) ==
  /\ ClientAt(c, "leave")
  /\ Unsubscribe(c)
  /\ ClientTo(c, "off")
  /\ backlog' = [backlog EXCEPT ![c] = <<>>]
  /\ sent' = [sent EXCEPT ![c] = <<>>]
  /\ UNCHANGED <<buffer, hubClosed, channel, emitted, skipped>>
-----------------------------------------------------------------------------
(***************************************************************************)
(* The log page.                                                           *)
(***************************************************************************)
\* "INFO+2" counts as "INFO"; any other word than a level is no filter.
levelMatches(e, filter) == filter \in Levels => e.level = filter

filterByLevel(s, filter) == SelectSeq(s, LAMBDA e : levelMatches(e, filter))

hubLogTail(c) ==
  /\ ClientAt(c, "off")
  /\ Subscribe(c)
  /\ ClientTo(c, IF hubClosed THEN "file" ELSE "page")
  /\ UNCHANGED <<buffer, hubClosed, panicked, emitted, sent>>

\* An empty tail is replaced by that of the log file, where a level that is
\* written as an attribute is looked for in lower case in an upper-case line
\* and never found.
handleLogs(c) ==
  /\ cpc[c] \in {"page", "file"}
  /\ \E filter \in Levels \union {"all"} :
       sent' = [sent EXCEPT ![c] =
         LET tail == LastOf(filterByLevel(backlog[c], filter), TailLines)
         IN [i \in 1 .. Len(tail) |-> tail[i].n]]
  /\ IF ClientAt(c, "page") THEN Unsubscribe(c)
     ELSE UNCHANGED <<subscribers, isClosed, panicked>>
  /\ ClientTo(c, "off")
  /\ backlog' = [backlog EXCEPT ![c] = <<>>]
  /\ UNCHANGED <<buffer, hubClosed, channel, emitted, skipped>>

LogNext ==
  \/ \E l \in Levels : HandleRecord(l)
  \/ CloseHub
  \/ \E c \in Viewers :
       \/ handleEvents(c) \/ sendBacklog(c) \/ streamLive(c) \/ Disconnect(c) \/ leaveEvents(c)
       \/ hubLogTail(c) \/ handleLogs(c)

LogSpec == LogInit /\ [][LogNext]_logVars
-----------------------------------------------------------------------------
(***************************************************************************)
(* Properties.                                                             *)
(***************************************************************************)
LogTypeOK ==
  /\ Len(buffer) <= BufSize
  /\ subscribers \subseteq Viewers /\ isClosed \subseteq Viewers
  /\ \A c \in Viewers : Len(channel[c]) <= ChanCap
  /\ cpc \in [Viewers -> {"off", "backlog", "live", "stale", "leave", "page", "file"}]

\* What a connected client has been sent, has yet to be sent of the backlog
\* and has in its channel are, in this order, consecutive records without a
\* repetition: a record is missing only if this client's own channel was
\* full when it was logged, whatever other clients do, and nothing is sent
\* to a closed channel or closed twice when a client leaves while the hub is
\* closed (Emit, Subscribe, Unsubscribe, Close, handleEvents).
Stream(c) ==
  sent[c] \o [i \in 1 .. Len(backlog[c]) |-> backlog[c][i].n]
          \o [i \in 1 .. Len(channel[c]) |-> channel[c][i].n]

StreamComplete ==
  /\ ~panicked
  /\ \A c \in Viewers :
       cpc[c] \in {"backlog", "live"} =>
         LET s == Stream(c)
         IN /\ \A i \in 1 .. Len(s) - 1 :
                 /\ s[i] < s[i + 1]
                 /\ \A n \in s[i] + 1 .. s[i + 1] - 1 : n \in skipped[c]
            /\ c \in subscribers /\ s # <<>> =>
                 \A n \in s[Len(s)] + 1 .. emitted : n \in skipped[c]
=============================================================================
