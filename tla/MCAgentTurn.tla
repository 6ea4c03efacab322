----------------------------- MODULE MCAgentTurn -----------------------------
(***************************************************************************)
(* AgentTurn for TLC: two turns, of one session or of a session and a cron *)
(* job; the specialist runs on another provider than the main runner, and  *)
(* the configured fallback is the model that has failed.                   *)
(***************************************************************************)
EXTENDS AgentTurn

CONSTANTS t1, t2, s1, job, read, write, spawn, ghost

MCResponses == [a \in Agents |->
  CASE a = t1 -> {<<write, ghost>>, <<spawn>>}
    [] a = t2 -> {<<write>>}
    [] OTHER -> {<<read>>, <<write>>}]
MCSpecialist == [prov |-> "A", model |-> "a1"]
MCDefault == [prov |-> "B", model |-> "b1"]
MCFallbacks == <<[prov |-> "A", model |-> "a1"]>>
=============================================================================
