------------------------------ MODULE MCRuntime ------------------------------
(* Behaviours of five kinds, told apart by the rigid variable scenario: the  *)
(* start and stop of the agent with its consolidation workers ("lifecycle"), *)
(* the file of the memory with its migrations ("migrate"), what turns are    *)
(* shown of the memory ("recall"), the hub of the log ("logs") and the       *)
(* transcript of a session ("window").  The parts of the other kinds stay    *)
(* as they are.                                                              *)
EXTENDS Lifecycle, Recall, LogHub, ContextWindow

CONSTANTS x, y, w2

VARIABLE scenario

runtimeVars == <<consVars, lifeVars, memVars, recallVars, logVars, windowVars, scenario>>
Row(ns, text) == [ns |-> ns, text |-> text]
MCRows ==
  IF scenario = "recall"
  THEN {Row("s1", x), Row("s2", x), Row("s2", y), Row("global", x)}
  ELSE {Row("s1", x), Row("global", x)}

\* Both listeners, and the loops, without turns; the bot's turns with their
\* workers, two or, with vector memory, one.
MCEnabled == {{"gateway", "dashboard"}, {"bot"}, {"cron", "heartbeat"}}

MCInit ==
  /\ scenario \in {"lifecycle", "migrate", "recall", "logs", "window"}
  /\ ConsInit /\ LifeInit /\ MemInit /\ RecallInit /\ LogInit /\ WindowInit
  /\ enabled \in MCEnabled
  /\ acked \subseteq MCRows
  /\ vector => enabled # {"gateway", "dashboard"} /\ scenario = "lifecycle"
  /\ scenario # "lifecycle" => enabled = {"bot"}
  /\ scenario # "migrate" => ~perUser /\ version = 0 /\ acked = {} /\ ~Exists(fts)
  /\ scenario # "recall" => ~vecOn
  /\ scenario # "window" =>
       /\ executor = "openai" /\ manager = "none"
       /\ ~pruning /\ ~summarizing

MCNext ==
  /\ UNCHANGED scenario
  /\ \/ /\ scenario = "lifecycle" /\ LifeNext
        /\ IF enabled = {"bot"}
           THEN g'["idempotency"] = "off" /\ ~orphaned' /\ Cardinality(expired') <= 1
           ELSE turn' = turn
        /\ vector => wpc'[w2] = "off"
        /\ UNCHANGED <<memVars, recallVars, logVars, windowVars>>
     \/ /\ scenario = "migrate" /\ MemNext
        /\ table'[fts].rows \subseteq MCRows
        /\ UNCHANGED <<recallVars, consVars, lifeVars, logVars, windowVars>>
     \/ /\ scenario = "recall"
        /\ \/ MemNext /\ table'[fts].rows \subseteq MCRows /\ UNCHANGED recallVars
           \/ RecallNext
        /\ memCrashes' = 0 /\ opc'["cli"] = "off"
        /\ UNCHANGED <<consVars, lifeVars, logVars, windowVars>>
     \/ /\ scenario = "logs" /\ LogNext
        /\ UNCHANGED <<consVars, lifeVars, memVars, recallVars, windowVars>>
     \/ /\ scenario = "window" /\ WindowNext
        /\ UNCHANGED <<consVars, lifeVars, memVars, recallVars, logVars>>

MCSpec == MCInit /\ [][MCNext]_runtimeVars /\ LifeFairness
=============================================================================
