---------------------------- MODULE SessionHistory ----------------------------
(***************************************************************************)
(* What the session manager promises about conversation history: each      *)
(* session has one history, every saved turn is appended to the history as *)
(* it stands at that moment, and a summary replaces a prefix of it by one  *)
(* message that still tells about the same turns.  A turn may prune what   *)
(* it started from, and what it prunes is forgotten knowingly.  Nothing    *)
(* else ever changes a history: no turn overwrites another one, except in  *)
(* a session the operator cleared, which may start from nothing.           *)
(*                                                                         *)
(* A history is a sequence of messages; a message is represented by the    *)
(* set of turns it tells about (a summary tells about several).            *)
(***************************************************************************)
EXTENDS Naturals, Sequences, SequencesExt

CONSTANTS Sessions, Turns

VARIABLES
  hist,        \* session -> its history
  forgotten,   \* turns knowingly pruned from a history
  mayRestart   \* sessions the operator has cleared

historyVars == <<hist, forgotten, mayRestart>>

Told(h) == UNION ToSet(h)

Suffix(h, n) == SubSeq(h, n + 1, Len(h))

\* What a turn may start from: the history with a prefix dropped (expired or
\* beyond the context window), the rest possibly headed by a summary.
Prepared(h) ==
  {Suffix(h, n) : n \in 0 .. Len(h)}
    \union {<<Told(SubSeq(h, m + 1, n))>> \o Suffix(h, n) : m, n \in 0 .. Len(h)}

HistoryInit ==
  /\ hist \in [Sessions -> Seq(SUBSET Turns)]
  /\ forgotten = {}
  /\ mayRestart = {}

AppendTurn(k, c) ==
  /\ \E h \in Prepared(hist[k]) :
       /\ hist' = [hist EXCEPT ![k] = Append(h, {c})]
       /\ forgotten' = forgotten \union (Told(hist[k]) \ Told(h))
  /\ UNCHANGED mayRestart

Restart(k, c) ==
  /\ k \in mayRestart
  /\ hist' = [hist EXCEPT ![k] = <<{c}>>]
  /\ UNCHANGED <<forgotten, mayRestart>>

Summarise(k) ==
  /\ \E n \in 1 .. Len(hist[k]) :
       hist' = [hist EXCEPT ![k] =
                  <<Told(SubSeq(hist[k], 1, n))>> \o Suffix(hist[k], n)]
  /\ UNCHANGED <<forgotten, mayRestart>>

Clear(k) ==
  /\ mayRestart' = mayRestart \union {k}
  /\ UNCHANGED <<hist, forgotten>>

HistoryNext ==
  \E k \in Sessions :
    \/ Summarise(k)
    \/ Clear(k)
    \/ \E c \in Turns : AppendTurn(k, c) \/ Restart(k, c)

HistorySpec == HistoryInit /\ [][HistoryNext]_historyVars
=============================================================================
