------------------------------ MODULE MCMCPServer ------------------------------
(***************************************************************************)
(* MCPServer for TLC, in two kinds of behaviours: a call and a stop over   *)
(* up to three processes ("restarts"), and two calls that share one        *)
(* process ("shared").                                                     *)
(***************************************************************************)
EXTENDS MCPServer

CONSTANTS c1, c2, s

VARIABLE scenario

MCInit ==
  /\ Init
  /\ scenario \in {"restarts", "shared"}
  /\ \A a \in Actors : pc[a] = "returned" <=> a = IF scenario = "shared" THEN s ELSE c2

\* A start may fail as well: the bound on the processes takes no enabled step
\* away from an actor.  Descendants keep all pipes, as inherited, or standard
\* error alone.
MCNext ==
  /\ Next
  /\ scenario = "shared" => gens' <= 1
  /\ \A g \in Gens : held'[g] \in {{}, {"stderr"}, Pipes}
  /\ UNCHANGED scenario

MCSpec == MCInit /\ [][MCNext]_<<vars, scenario>> /\ Fairness
=============================================================================
