----------------------------- MODULE CronDelivery -----------------------------
(***************************************************************************)
(* What CronScheduler calls a dispatch: CronDispatcher (internal/app/      *)
(* cron*.go) takes a due job's payload, routes it, runs an agent turn and  *)
(* delivers the answer by mail or Telegram; a failure is told to the       *)
(* recipient, by the dispatcher itself or by the scheduler's alert, and a  *)
(* failed morning briefing is retried by a goroutine that outlives the     *)
(* dispatch.  Mail needs a Gmail token, so the module extends GoogleAuth.  *)
(***************************************************************************)
EXTENDS GoogleAuth, Sequences

CONSTANTS
  Payloads,      \* of jobs: [id, agent, channel, to, silent, system]
  Retriers,      \* sequence of goroutines: the n-th may retry the n-th run
  Delays         \* number of delays of retryMorningBriefing

\* Every retry is a goroutine of its own.
ASSUME RetriersAssumption ==
  /\ "job" \in Mailers
  /\ Retriers \in Seq(Mailers \ {"job"})
  /\ \A i, j \in DOMAIN Retriers : Retriers[i] = Retriers[j] => i = j
ASSUME DelaysAssumption == Delays \in Nat

VARIABLES
  n,          \* number of the current or last run
  job,        \* its payload
  mpc,        \* mailer -> where it is in its run or retry
  fault,      \* mailer -> kind of the error it is handling: "none", "error", "auth"
  attempt,    \* retrier -> index of the current delay
  outcome,    \* how the current run ended, as executeJob reports it
  told,       \* run -> sequence of the notices of its failure
  briefings,  \* run -> mails with its answer that Gmail took
  shutdown,   \* is shutdownCh closed?
  hasEmail    \* is Runtime.UserEmail set?

cronVars == <<n, job, mpc, fault, attempt, outcome, told, briefings, shutdown, hasEmail>>
deliveryVars == <<authVars, cronVars>>

Runs == DOMAIN Retriers
RetryIds == {Retriers[i] : i \in Runs}
Deliverers == {"job"} \union RetryIds
RunOf(w) == IF w = "job" THEN n ELSE CHOOSE i \in Runs : Retriers[i] = w

CronInit ==
  /\ n = 0
  /\ job \in Payloads
  /\ mpc = [w \in Deliverers |-> "idle"]
  /\ fault = [w \in Deliverers |-> "none"]
  /\ attempt = [w \in RetryIds |-> 0]
  /\ outcome = "none"
  /\ told = [i \in Runs |-> <<>>]
  /\ briefings = [i \in Runs |-> 0]
  /\ shutdown = FALSE
  /\ hasEmail \in BOOLEAN

MailerTo(w, where) == mpc' = [mpc EXCEPT ![w] = where]
Tell(notice) == told' = [told EXCEPT ![n] = Append(@, notice)]
Rest == UNCHANGED <<n, job, attempt, told, briefings, shutdown, hasEmail>>
-----------------------------------------------------------------------------
(***************************************************************************)
(* Routing.                                                                *)
(***************************************************************************)
isMorningBriefingJob == job.id = "morning_briefing"

\* ResolveRoutableChannel: no route for a silent message; "" and "cli" fall
\* back to telegram without a target.
Channel(silent) == IF silent THEN "" ELSE IF job.channel \in {"", "cli"} THEN "telegram" ELSE job.channel
To(silent) == IF silent \/ job.channel \in {"", "cli"} THEN "" ELSE job.to
MailTo(silent) == To(silent) # "" \/ hasEmail

Routes == {"system", "specialist", "email", "telegram", "unroutable"}

Route ==
  IF job.system THEN "system"
  ELSE IF job.agent # "" THEN "specialist"
  ELSE IF job.silent THEN "unroutable"              \* dispatchSilent with to = ""
  ELSE IF Channel(FALSE) = "email" THEN IF MailTo(FALSE) THEN "email" ELSE "unroutable"
  ELSE IF Channel(FALSE) = "telegram" /\ To(FALSE) # "" THEN "telegram"
  ELSE "unroutable"

\* How an answer goes out: sendSpecialistResponse, sendEmailResponse,
\* sendTelegramResponse; "drop" when there is nobody to send it to.
Carrier(silent) ==
  IF Channel(silent) = "email" THEN IF MailTo(silent) THEN "mail" ELSE "drop"
  ELSE IF Channel(silent) = "telegram" /\ To(silent) # "" THEN "chat"
  ELSE "drop"
-----------------------------------------------------------------------------
(***************************************************************************)
(* executeJob and Dispatch.                                                *)
(***************************************************************************)
executeJobStarts ==
  /\ mpc["job"] = "idle" /\ n < Len(Retriers) /\ ~shutdown
  /\ n' = n + 1
  /\ job' \in Payloads
  /\ MailerTo("job", "route")
  /\ outcome' = "none"
  /\ fault' = [fault EXCEPT !["job"] = "none"]
  /\ dead' = dead \ {"job"}
  /\ UNCHANGED <<secret, tokenFile, apc, hand, smap, revoked, granted, expiries>>
  /\ UNCHANGED <<attempt, told, briefings, shutdown, hasEmail>>

\* Dispatch returns an error that is not AlreadyNotifiedError: sendFailureAlert follows.
FailPlain(w) == MailerTo(w, "alert") /\ outcome' = "fail"
Succeed(w) == MailerTo(w, "idle") /\ outcome' = "ok"

Dispatch ==
  /\ mpc["job"] = "route"
  /\ \/ Route = "unroutable" /\ Succeed("job")
     \/ Route = "system" /\ (Succeed("job") \/ FailPlain("job"))
     \/ Route = "specialist" /\ job.agent = "unknown" /\ FailPlain("job")
     \/ Route = "specialist" /\ job.agent = "known"
        /\ \/ MailerTo("job", "turn") /\ UNCHANGED outcome
           \/ FailPlain("job")                                \* prepareSpecialistRunner
     \/ Route \in {"email", "telegram"} /\ MailerTo("job", "turn") /\ UNCHANGED outcome
  /\ UNCHANGED <<fault, authVars>> /\ Rest

\* The job's context ends: its ten minutes are over, or the application is shutting down.
JobTimeout ==
  /\ mpc["job"] \notin {"idle", "alert", "alertMail"} /\ "job" \notin dead
  /\ dead' = dead \union {"job"}
  /\ UNCHANGED <<secret, tokenFile, apc, hand, smap, revoked, granted, expiries, cronVars>>

Shutdown ==
  /\ ~shutdown
  /\ shutdown' = TRUE
  /\ dead' = dead \union {"job"}
  /\ UNCHANGED <<secret, tokenFile, apc, hand, smap, revoked, granted, expiries>>
  /\ UNCHANGED <<n, job, mpc, fault, attempt, outcome, told, briefings, hasEmail>>

\* The agent turn.  Of an answer only this matters: is it empty, and does it
\* pass the briefing's guards (validateMorningBriefingResponse and
\* verifySearchToolProvenance)?
Answers == {"empty", "guarded", "unguarded"}
Faults == {"error", "auth"}

enforceMorningBriefingGuards(a) == a = "guarded"

dispatchEmail(a) ==
  IF isMorningBriefingJob /\ ~enforceMorningBriefingGuards(a)
  THEN fault' = [fault EXCEPT !["job"] = "error"] /\ MailerTo("job", "failMail") /\ UNCHANGED outcome
  ELSE /\ UNCHANGED fault
       /\ IF a = "empty" THEN Succeed("job") ELSE MailerTo("job", "respMail") /\ UNCHANGED outcome

\* dispatchTelegram and dispatchSpecialist
dispatchOther(a) ==
  /\ UNCHANGED fault
  /\ IF a = "empty" \/ (Route = "specialist" /\ job.silent) \/ Carrier(job.silent) = "drop"
     THEN Succeed("job")
     ELSE /\ MailerTo("job", IF Carrier(FALSE) = "mail" THEN "respMail" ELSE "respChat")
          /\ UNCHANGED outcome

RunTurn ==
  /\ mpc["job"] = "turn"
  /\ \/ /\ "job" \notin dead
        /\ \E a \in Answers : IF Route = "email" THEN dispatchEmail(a) ELSE dispatchOther(a)
     \/ \E f \in Faults :
          /\ fault' = [fault EXCEPT !["job"] = f]
          /\ IF Route = "email" THEN MailerTo("job", "failMail") /\ UNCHANGED outcome
             ELSE FailPlain("job")
  /\ UNCHANGED authVars /\ Rest
-----------------------------------------------------------------------------
(***************************************************************************)
(* A mail: newEmailService, then Send.  With a context that is done the    *)
(* first post fails, and Send with it.                                     *)
(***************************************************************************)
mailPcs == {"respMail", "failMail", "alertMail", "retryMail", "retryFail", "retryFailLast"}

newEmailService(w) ==
  /\ mpc[w] \in mailPcs /\ apc[w] = "idle"
  /\ GotoA(w, "load")
  /\ UNCHANGED <<secret, tokenFile, hand, smap, dead, revoked, granted, expiries, cronVars>>

MailOutcomes(w) ==
  IF apc[w] \in {"err", "needsReauth"} \/ w \in dead THEN {NotSent} ELSE SendOutcomes

MailDone(w) == mpc[w] \in mailPcs /\ apc[w] \in {"ok", "err", "needsReauth"}

\* Back from the mail: the token is forgotten.
MailReturns(w) ==
  /\ GotoA(w, "idle")
  /\ hand' = [hand EXCEPT ![w] = None]
  /\ UNCHANGED <<secret, tokenFile, smap, dead, revoked, granted, expiries>>

Took(w, o) == briefings' = [briefings EXCEPT ![RunOf(w)] = @ + o.copies]

(***************************************************************************)
(* A notice: who gives it and what becomes of it.  It is "taken" by the    *)
(* carrier or "failed" there or for want of a token, its context was       *)
(* "over" before, or there was "nobody" to give it to.                     *)
(***************************************************************************)
Givers == {"dispatcher", "scheduler"}
Fates == {"taken", "failed", "over", "nobody"}
Notice(by, fate) == [by |-> by, fate |-> fate]
SendFates(outcomes) == {IF o.ok THEN "taken" ELSE "failed" : o \in outcomes}

MailFates == IF "job" \in dead THEN {"over"} ELSE SendFates(MailOutcomes("job"))

\* sendEmailResponse of a run.
sendEmailResponse ==
  /\ mpc["job"] = "respMail" /\ MailDone("job")
  /\ \E o \in MailOutcomes("job") :
       /\ Took("job", o)
       /\ IF o.ok THEN Succeed("job") ELSE FailPlain("job")
  /\ MailReturns("job")
  /\ UNCHANGED <<n, job, fault, attempt, told, shutdown, hasEmail>>

sendTelegramResponse ==
  /\ mpc["job"] = "respChat"
  /\ IF job.to # "chat" THEN FailPlain("job")           \* parseSessionKey
     ELSE ("job" \notin dead /\ Succeed("job")) \/ FailPlain("job")
  /\ UNCHANGED <<fault, authVars>> /\ Rest

(***************************************************************************)
(* handleMorningBriefingDispatchFailure: the failure mail is tried once,   *)
(* with the context of the failed job, and whatever became of it the       *)
(* caller returns AlreadyNotifiedError, so that no alert follows.  The     *)
(* retry goroutine is started unless the error asks for reauth.            *)
(***************************************************************************)
shouldRetryMorningBriefingAfterError(f) == f # "auth"

\* Mutant: the error is returned without AlreadyNotifiedError.
MutAlreadyNotified == "alert"

AlreadyNotified == "idle"

handleMorningBriefingDispatchFailure ==
  /\ mpc["job"] = "failMail" /\ MailDone("job")
  /\ \E fate \in MailFates : Tell(Notice("dispatcher", fate))
  /\ MailReturns("job")
  /\ outcome' = "fail"
  /\ LET retry == isMorningBriefingJob /\ shouldRetryMorningBriefingAfterError(fault["job"])
     IN  mpc' = [mpc EXCEPT !["job"] = AlreadyNotified,
                          ![Retriers[n]] = IF retry THEN "wait" ELSE @]
  /\ UNCHANGED <<n, job, fault, attempt, briefings, shutdown, hasEmail>>

(***************************************************************************)
(* sendFailureAlert and Alert: with the scheduler's context, which only    *)
(* shutdown ends, by the job's channel and without the agent.  An alert    *)
(* without a recipient, or to a chat that is none, is given to nobody.     *)
(***************************************************************************)
Reachable == Carrier(FALSE) = "mail" \/ (Carrier(FALSE) = "chat" /\ job.to = "chat")

ChatFates ==
  IF ~Reachable THEN {"nobody"} ELSE IF shutdown THEN {"over"} ELSE {"taken", "failed"}

sendFailureAlert ==
  /\ mpc["job"] = "alert"
  /\ dead' = IF shutdown THEN dead ELSE dead \ {"job"}
  /\ IF Carrier(FALSE) = "mail" THEN MailerTo("job", "alertMail") /\ UNCHANGED told
     ELSE MailerTo("job", "idle") /\ \E fate \in ChatFates : Tell(Notice("scheduler", fate))
  /\ UNCHANGED <<secret, tokenFile, apc, hand, smap, revoked, granted, expiries>>
  /\ UNCHANGED <<n, job, fault, attempt, outcome, briefings, shutdown, hasEmail>>

alertMailDone ==
  /\ mpc["job"] = "alertMail" /\ MailDone("job")
  /\ \E fate \in MailFates : Tell(Notice("scheduler", fate))
  /\ MailerTo("job", "idle")
  /\ MailReturns("job")
  /\ UNCHANGED <<n, job, fault, attempt, outcome, briefings, shutdown, hasEmail>>
-----------------------------------------------------------------------------
(***************************************************************************)
(* retryMorningBriefing, a goroutine of its own with contexts of its own.  *)
(* A delay that is already over is not waited for, and when the timer and  *)
(* the shutdown are both ready either may be chosen.                       *)
(***************************************************************************)
waitUntilRetryDelay(w) ==
  /\ mpc[w] = "wait"
  /\ \/ MailerTo(w, "check")
     \/ shutdown /\ MailerTo(w, "done")
  /\ UNCHANGED <<n, job, fault, attempt, outcome, told, briefings, shutdown, hasEmail, authVars>>

\* Mutant: the second look at shutdownCh is dropped.
MutBeforeAttempt(w) ==
  /\ mpc[w] = "check"
  /\ MailerTo(w, "retryTurn")
  /\ UNCHANGED <<n, job, fault, attempt, outcome, told, briefings, shutdown, hasEmail, authVars>>

beforeAttempt(w) ==
  /\ mpc[w] = "check"
  /\ MailerTo(w, IF shutdown THEN "done" ELSE "retryTurn")
  /\ UNCHANGED <<n, job, fault, attempt, outcome, told, briefings, shutdown, hasEmail, authVars>>

\* retryDispatch and retryEnforceGuards.
retryDispatch(w) ==
  /\ mpc[w] = "retryTurn"
  /\ \E a \in Answers \union {"failed"} :
       MailerTo(w, IF enforceMorningBriefingGuards(a) THEN "retryMail" ELSE "retryFail")
  /\ UNCHANGED <<n, job, fault, attempt, outcome, told, briefings, shutdown, hasEmail, authVars>>

\* Mutant: a failed delivery is retried like a failed attempt.
MutRetryDelivery(w) ==
  /\ mpc[w] = "retryMail" /\ MailDone(w)
  /\ \E o \in MailOutcomes(w) :
       Took(w, o) /\ MailerTo(w, IF o.ok THEN "done" ELSE "retryFail")
  /\ MailReturns(w)
  /\ UNCHANGED <<n, job, fault, attempt, outcome, told, shutdown, hasEmail>>

\* A delivery that reported an error ends the retries.
retryDelivery(w) ==
  /\ mpc[w] = "retryMail" /\ MailDone(w)
  /\ \E o \in MailOutcomes(w) :
       Took(w, o) /\ MailerTo(w, IF o.ok THEN "done" ELSE "retryFailLast")
  /\ MailReturns(w)
  /\ UNCHANGED <<n, job, fault, attempt, outcome, told, shutdown, hasEmail>>

sendRetryFailureEmail(w) ==
  /\ mpc[w] \in {"retryFail", "retryFailLast"} /\ MailDone(w)
  /\ MailReturns(w)
  /\ LET again == mpc[w] = "retryFail" /\ attempt[w] + 1 < Delays
     IN  /\ MailerTo(w, IF again THEN "wait" ELSE "done")
         /\ attempt' = [attempt EXCEPT ![w] = IF again THEN @ + 1 ELSE 0]
  /\ UNCHANGED <<n, job, fault, outcome, told, briefings, shutdown, hasEmail>>

retryMorningBriefing(w) ==
  \/ waitUntilRetryDelay(w) \/ beforeAttempt(w) \/ retryDispatch(w)
  \/ retryDelivery(w) \/ sendRetryFailureEmail(w)
-----------------------------------------------------------------------------
CronNext ==
  \/ executeJobStarts \/ Dispatch \/ JobTimeout \/ Shutdown \/ RunTurn
  \/ \E w \in Deliverers : newEmailService(w)
  \/ sendEmailResponse \/ sendTelegramResponse
  \/ handleMorningBriefingDispatchFailure \/ sendFailureAlert \/ alertMailDone
  \/ \E w \in RetryIds : retryMorningBriefing(w)

\* The tokens are everybody's: other goroutines and commands use them too.
DeliveryNext == CronNext \/ (AuthNext /\ UNCHANGED cronVars)

DeliverySpec == AuthInit /\ CronInit /\ [][DeliveryNext]_deliveryVars
-----------------------------------------------------------------------------
JobPcs == {"idle", "route", "turn", "respMail", "respChat", "failMail", "alert", "alertMail"}
RetryPcs == {"idle", "wait", "check", "retryTurn", "retryMail", "retryFail", "retryFailLast", "done"}

CronTypeOK ==
  /\ n \in 0 .. Len(Retriers) /\ job \in Payloads
  /\ mpc \in [Deliverers -> JobPcs \union RetryPcs]
  /\ mpc["job"] \in JobPcs /\ \A w \in RetryIds : mpc[w] \in RetryPcs
  /\ fault \in [Deliverers -> Faults \union {"none"}]
  /\ attempt \in [RetryIds -> 0 .. Delays]
  /\ outcome \in {"none", "ok", "fail"}
  /\ told \in [Runs -> Seq([by : Givers, fate : Fates])] /\ briefings \in [Runs -> Nat]

(***************************************************************************)
(* A run that failed has led to exactly one notice, the dispatcher's own   *)
(* failure mail or the scheduler's alert, and a run that succeeded to      *)
(* none.  Before the shutdown the notice is given to Gmail or Telegram,    *)
(* unless there is nobody to give it to, or it is the dispatcher's: this   *)
(* one goes out in the context of the job and comes to nothing when the    *)
(* job has used up its time, and the alert, which has a context of its     *)
(* own, is left out all the same (sendFailureEmail, AlreadyNotifiedError,  *)
(* sendFailureAlert).                                                      *)
(***************************************************************************)
FailureTold ==
  mpc["job"] = "idle" /\ n > 0 =>
    /\ Len(told[n]) = IF outcome = "fail" THEN 1 ELSE 0
    /\ \A i \in DOMAIN told[n] :
         LET notice == told[n][i]
         IN  /\ notice.fate = "nobody" => notice.by = "scheduler" /\ ~Reachable
             /\ notice.fate = "over" => notice.by = "dispatcher" \/ shutdown

(***************************************************************************)
(* The recipient never gets more copies of the answer of a run than one    *)
(* Send may leave behind, the repetitions of its posts: once Gmail may     *)
(* have taken the answer, no retry of the run sends it again, also when    *)
(* Send reported an error, and with later runs and their retries in        *)
(* between (retryMorningBriefing).                                         *)
(***************************************************************************)
AnswerNotResent == \A i \in Runs : briefings[i] <= MaxAttempts

(***************************************************************************)
(* Once the application is shutting down no retry begins an agent turn,    *)
(* although its timer may win against the shutdown signal.                 *)
(***************************************************************************)
NoTurnAfterShutdown ==
  [][\A w \in RetryIds : shutdown /\ mpc'[w] = "retryTurn" => mpc[w] = "retryTurn"]_deliveryVars
=============================================================================
