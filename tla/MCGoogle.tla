------------------------------ MODULE MCGoogle ------------------------------
(* Three kinds of behaviours over the same tokens: scheduled jobs with      *)
(* their mails and retries ("cron"), tool calls of the agent with every     *)
(* content of calendars, task list and mailbox ("tools"), and tool calls    *)
(* of one request beside `gobot reauth`, `gobot secrets` and revocations    *)
(* ("tokens").  A call that has its token does not touch the stores, so     *)
(* the last two lose nothing by being apart.                                *)
EXTENDS CronDelivery, GoogleTools

CONSTANTS r1, r2, k1, k2

VARIABLE scenario

MCRetriers == <<r1, r2>>
MCCalendars == <<k1, k2>>

Job(id, agent, channel, to, silent) ==
  [id |-> id, agent |-> agent, channel |-> channel, to |-> to, silent |-> silent, system |-> FALSE]

MCPayloads ==
  {Job("morning_briefing", "", "email", "", FALSE),
   Job("report", "", "email", "user", FALSE),
   Job("chat", "", "telegram", "chat", FALSE),
   Job("typo", "", "telegram", "nobody", FALSE),
   Job("plain", "", "cli", "", FALSE),
   Job("quiet", "", "email", "user", TRUE),
   Job("research", "known", "email", "user", FALSE),
   Job("research", "known", "telegram", "chat", TRUE),
   Job("lost", "unknown", "cli", "", FALSE),
   [Job("index", "", "telegram", "chat", FALSE) EXCEPT !.system = TRUE]}

Fresh == tokenFile["gmail"] = Token(0)

MCInit ==
  /\ AuthInit /\ CronInit /\ ToolInit
  /\ scenario \in {"cron", "tools", "tokens"}
  /\ job = Job("chat", "", "telegram", "chat", FALSE)
  /\ scenario = "cron" => secret.google_oauth_token = None
  /\ scenario = "tools" => Fresh
  /\ scenario # "cron" => hasEmail

MCNext ==
  /\ UNCHANGED scenario
  /\ \/ scenario = "cron" /\ CronNext /\ UNCHANGED toolVars
     \/ scenario = "tools" /\ (tpc = "idle" => calls = 0) /\ ToolNext /\ UNCHANGED cronVars
     \/ /\ scenario = "tokens"
        /\ \/ CreateTaskTool \/ SendEmailTool
           \/ CallCancelled \/ Authorized \/ CreateTask \/ Send \/ Forget
        /\ UNCHANGED cronVars
     \/ /\ UNCHANGED <<cronVars, toolVars>>
        /\ \/ \E c \in Mailers : NewService(c)
           \/ \E c \in Bearers : BearerToken(c)
           \/ scenario \in {"cron", "tokens"} /\ TokensExpire
           \/ scenario = "tokens" /\ (AuthorizeInteractive \/ Revoke \/ cliSecrets)

MCSpec == MCInit /\ [][MCNext]_<<authVars, cronVars, toolVars, scenario>>
=============================================================================
