-------------------------- MODULE MCSessionDispatch --------------------------
(* Instances of SessionDispatch for TLC: all calls go to one session, which  *)
(* is where they interact (sessions share nothing but the lock registry,     *)
(* and MCTurnGuards covers that).                                            *)
EXTENDS SessionDispatch

CONSTANTS k1, e1

MCSessionOf == [c \in Calls |-> k1]

\* Enough for the second call to summarise and to compact what it loads.
MCEarlier == <<e1>>
MCNoEarlier == << >>
=============================================================================
