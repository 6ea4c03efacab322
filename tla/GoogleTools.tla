----------------------------- MODULE GoogleTools -----------------------------
(***************************************************************************)
(* The Google tools of the agent (internal/app/tool_google.go,             *)
(* tool_email.go, the schedule section of awareness.go) and the listings   *)
(* below them (internal/integrations/google/calendar.go, tasks.go,         *)
(* gmail.go, search.go): one call at a time, by the goroutines "tool"      *)
(* (calendar and tasks, a bearer token) and "mail" (Gmail, token.json).    *)
(*                                                                         *)
(* A listing is fetched in pages.  The server cuts the pages as it likes,  *)
(* may send an empty page, and may repeat a continuation token; any        *)
(* request may fail and the context may end.                               *)
(***************************************************************************)
EXTENDS GoogleAuth, Sequences, SequencesExt

CONSTANTS
  Calendars,   \* sequence of calendars the user can read
  Starts,      \* start times of events; BadStart does not parse
  BadStart,
  MaxEvents,   \* bound on the events of a calendar
  MaxResults,  \* the max_results of the calls
  MaxCalls     \* bound on calls

ASSUME ToolBoundsAssumption == {MaxEvents, MaxResults, MaxCalls} \subseteq Nat

VARIABLES
  events,    \* calendar -> its events in the order of the API
  tasks,     \* the task list: sequence of "open" and "completed"
  mailbox,   \* number of messages that match a search
  call,      \* the kind of the current call
  tpc,       \* where the call is
  page,      \* the listing under way: [pos, seen, got]
  cals,      \* calendars still to be read
  found,     \* events of the calendars read so far
  failed,    \* calendars whose events could not be read
  res,       \* what the last call returned
  executed,  \* has send_email stored its execution id?
  mails,     \* mails of send_email that Gmail took
  calls

toolVars == <<events, tasks, mailbox, call, tpc, page, cals, found, failed, res, executed, mails, calls>>

Changes == {"create_task", "complete_task", "update_task", "create_calendar_event"}
CalendarKinds == {"list_calendar_events", "schedule"}
Kinds == CalendarKinds \union {"list_tasks", "search_gmail", "read_gmail", "send_email",
                                "google_search"} \union Changes
ByMail == {"search_gmail", "read_gmail", "send_email"}
ToolOf(k) == IF k \in ByMail THEN "mail" ELSE "tool"

Key(s) == IF s = BadStart THEN 100 ELSE s
Ordered(s) == \A i \in 1 .. Len(s) - 1 : Key(s[i].start) <= Key(s[i + 1].start)
EventsOf(c) ==
  {s \in UNION {[1 .. m -> [cal : {c}, start : Starts \union {BadStart}]] : m \in 0 .. MaxEvents} : Ordered(s)}

NoPage == [pos |-> 0, seen |-> {}, got |-> <<>>]
NoResult == [status |-> "none", items |-> <<>>]

Nothing == [c \in Range(Calendars) |-> <<>>]

ToolInit ==
  /\ events = Nothing /\ tasks = <<>> /\ mailbox = 0
  /\ call = "none" /\ tpc = "idle" /\ page = NoPage
  /\ cals = <<>> /\ found = <<>> /\ failed = {}
  /\ res = NoResult
  /\ executed = FALSE /\ mails = 0 /\ calls = 0

\* What Google holds while a call of kind k reads it.
Contents(k) ==
  /\ events' \in IF k \in CalendarKinds
                 THEN {f \in [Range(Calendars) -> UNION {EventsOf(c) : c \in Range(Calendars)}] :
                         \A c \in Range(Calendars) : f[c] \in EventsOf(c)}
                 ELSE {Nothing}
  /\ tasks' \in IF k = "list_tasks" THEN UNION {[1 .. m -> {"open", "completed"}] : m \in 0 .. 2} ELSE {<<>>}
  /\ mailbox' \in IF k = "search_gmail" THEN 0 .. MaxResults + 1 ELSE {0}

World == UNCHANGED <<events, tasks, mailbox, calls>>
AuthKept == UNCHANGED authVars
Gone == ToolOf(call) \in dead
Return(status, items) == tpc' = "returned" /\ res' = [status |-> status, items |-> items]
-----------------------------------------------------------------------------
(***************************************************************************)
(* Execute of a tool: missing arguments end it, a stored execution id ends *)
(* a send_email that names it, google_search needs no token, the others    *)
(* get one first.                                                          *)
(***************************************************************************)
MissingArgument == Kinds \ (CalendarKinds \union {"list_tasks"})

Execute(k) ==
  /\ tpc = "idle" /\ calls < MaxCalls
  /\ calls' = calls + 1
  /\ call' = k
  /\ UNCHANGED <<events, tasks, mailbox, page, cals, found, failed, executed, mails>>
  /\ UNCHANGED <<secret, tokenFile, smap, revoked, granted, expiries>>
  /\ \/ /\ k \in MissingArgument
        /\ Return("error", <<>>)
        /\ UNCHANGED <<apc, hand, dead>>
     \/ /\ k = "send_email" /\ executed
        /\ Return("complete", <<>>)
        /\ UNCHANGED <<apc, hand, dead>>
     \/ /\ k = "google_search"
        /\ tpc' = "request" /\ UNCHANGED <<res, dead, apc, hand>>
     \/ /\ k # "google_search"           \* for send_email: no id, or not stored
        /\ tpc' = "auth"
        /\ GotoA(ToolOf(k), IF k \in ByMail THEN "load" ELSE "dpapi")
        /\ UNCHANGED <<res, dead, hand>>

ListCalendarTool == Execute("list_calendar_events")
\* The calendar half of the schedule in the system prompt: a failed listing
\* becomes a notice that the schedule is unknown.
loadScheduleContext == Execute("schedule")
ListTasksTool == Execute("list_tasks")
CreateTaskTool == Execute("create_task")
CompleteTaskTool == Execute("complete_task")
UpdateTaskTool == Execute("update_task")
CreateCalendarEventTool == Execute("create_calendar_event")
WebSearchTool == Execute("google_search")
SendEmailTool == Execute("send_email")
SearchGmailTool == Execute("search_gmail")
ReadGmailTool == Execute("read_gmail")

\* The context of a call ends: a timeout of the tool, or the turn was cancelled.
CallCancelled ==
  /\ tpc \notin {"idle", "returned"} /\ ~Gone
  /\ dead' = dead \union {ToolOf(call)}
  /\ UNCHANGED <<secret, tokenFile, apc, hand, smap, revoked, granted, expiries, toolVars>>

AfterAuth ==
  CASE call \in CalendarKinds -> "list"
    [] call = "list_tasks" -> "tasks"
    [] call = "search_gmail" -> "search"
    [] OTHER -> "request"

Authorized ==
  /\ tpc = "auth" /\ apc[ToolOf(call)] \in {"ok", "err", "needsReauth"}
  /\ IF apc[ToolOf(call)] = "ok"
     THEN tpc' = AfterAuth /\ Contents(call) /\ UNCHANGED res
     ELSE Return("error", <<>>) /\ UNCHANGED <<events, tasks, mailbox>>
  /\ GotoA(ToolOf(call), "idle")
  /\ hand' = [hand EXCEPT ![ToolOf(call)] = None]
  /\ UNCHANGED <<secret, tokenFile, smap, dead, revoked, granted, expiries>>
  /\ UNCHANGED <<call, page, cals, found, failed, executed, mails, calls>>
-----------------------------------------------------------------------------
(***************************************************************************)
(* One page of a listing of `items`: k more of them, and a continuation    *)
(* token unless the server says that this was the last page.  The token of *)
(* a page is the position after it; a server that makes no progress        *)
(* repeats one.                                                            *)
(***************************************************************************)
Pages(items, most) ==
  UNION {LET at == page.pos + k
             next == (IF at = Len(items) THEN {-1} ELSE {at}) \union page.seen
         IN  {[got |-> page.got \o SubSeq(items, page.pos + 1, at), next |-> t] : t \in next}
         : k \in 0 .. IF Len(items) - page.pos < most THEN Len(items) - page.pos ELSE most}

LastPage(p) == p.next = -1
Repeats(p) == p.next \in page.seen
Continue(p) == page' = [pos |-> p.next, seen |-> page.seen \union {p.next}, got |-> p.got]

\* listCalendarsWithClient
listCalendars ==
  /\ tpc = "list"
  /\ \/ Return("error", <<>>) /\ UNCHANGED <<page, cals>>
     \/ /\ ~Gone
        /\ \E p \in Pages(Calendars, Len(Calendars)) :
             IF LastPage(p) THEN tpc' = "events" /\ cals' = p.got /\ page' = NoPage /\ UNCHANGED res
             ELSE IF Repeats(p) THEN Return("error", <<>>) /\ UNCHANGED <<page, cals>>
             ELSE Continue(p) /\ UNCHANGED <<tpc, cals, res>>
  /\ UNCHANGED <<call, found, failed, executed, mails>> /\ World /\ AuthKept

\* listCalendarEventsWithClient, for the calendar at the head of cals.  It
\* publishes a calendar's events all at once or not at all.
NextCalendar == cals' = Tail(cals) /\ page' = NoPage

\* Mutant: the pages read before the failure are kept.
MutCalendarFails ==
  /\ failed' = failed \union {Head(cals)}
  /\ found' = found \o page.got
  /\ NextCalendar

calendarFails ==
  /\ failed' = failed \union {Head(cals)}
  /\ NextCalendar
  /\ UNCHANGED found

listCalendarEvents ==
  /\ tpc = "events" /\ cals # <<>> /\ ~Gone
  /\ \/ calendarFails
     \/ \E p \in Pages(events[Head(cals)], MaxEvents) :
          IF LastPage(p) \/ Len(p.got) >= MaxResults
          THEN found' = found \o p.got /\ NextCalendar /\ UNCHANGED failed
          ELSE IF Repeats(p) THEN calendarFails
          ELSE Continue(p) /\ UNCHANGED <<cals, found, failed>>
  /\ UNCHANGED <<call, tpc, res, executed, mails>> /\ World /\ AuthKept

\* sortCalendarEvents: stable, by start, unreadable starts last.
Insert(s, e) ==
  LET k == Cardinality({i \in DOMAIN s : Key(s[i].start) <= Key(e.start)})
  IN  SubSeq(s, 1, k) \o <<e>> \o SubSeq(s, k + 1, Len(s))

sortCalendarEvents(s) == FoldLeft(Insert, <<>>, s)
First(s, m) == SubSeq(s, 1, IF Len(s) < m THEN Len(s) ELSE m)

\* finishCalendarEvents and formatCalendarResult: a partial list is labelled.
finishCalendarEvents ==
  /\ tpc = "events" /\ (cals = <<>> \/ Gone)
  /\ IF Gone \/ (failed # {} /\ failed = Range(Calendars))
     THEN Return("error", <<>>)
     ELSE Return(IF failed = {} THEN "complete" ELSE "incomplete", First(sortCalendarEvents(found), MaxResults))
  /\ UNCHANGED <<call, page, cals, found, failed, executed, mails>> /\ World /\ AuthKept

\* listTasksWithClient: completed tasks are skipped.
Open(s) == SelectSeq(s, LAMBDA t : t = "open")

listTasks ==
  /\ tpc = "tasks"
  /\ \/ Return("error", <<>>) /\ UNCHANGED page
     \/ /\ ~Gone
        /\ \E p \in Pages(tasks, Len(tasks)) :
             IF LastPage(p) THEN Return("complete", Open(p.got)) /\ UNCHANGED page
             ELSE IF Repeats(p) THEN Return("error", <<>>) /\ UNCHANGED page
             ELSE Continue(p) /\ UNCHANGED <<tpc, res>>
  /\ UNCHANGED <<call, cals, found, failed, executed, mails>> /\ World /\ AuthKept

\* SearchMessages: at most the remaining number per page; fetchDetails then
\* loads each message, and marks the ones it cannot load.
Mailbox == [i \in 1 .. mailbox |-> i]
Details(s) == {[i \in DOMAIN s |-> [id |-> s[i], loaded |-> f[i]]] : f \in [DOMAIN s -> BOOLEAN]}

SearchMessages ==
  /\ tpc = "search"
  /\ \/ Return("error", <<>>) /\ UNCHANGED page
     \/ /\ ~Gone
        /\ \E p \in Pages(Mailbox, MaxResults - Len(page.got)) :
             IF Len(p.got) = MaxResults \/ LastPage(p)
             THEN (\E d \in Details(p.got) : Return("complete", d)) /\ UNCHANGED page
             ELSE IF Repeats(p) THEN Return("error", <<>>) /\ UNCHANGED page
             ELSE Continue(p) /\ UNCHANGED <<tpc, res>>
  /\ UNCHANGED <<call, cals, found, failed, executed, mails>> /\ World /\ AuthKept
-----------------------------------------------------------------------------
(***************************************************************************)
(* ExtractPlainText of read_gmail.  A body is what the parts of the        *)
(* message hold, in the order of the walk: only inline text/plain parts    *)
(* are candidates, and the first readable non-empty one is the answer; a   *)
(* decode error, then a part that is not there, outrank an empty one.      *)
(***************************************************************************)
Parts == {"text", "empty", "undecodable", "unavailable", "other"}

ExtractPlainText(parts) ==
  LET has(p) == \E i \in DOMAIN parts : parts[i] = p
  IN  IF has("text") THEN "text"
      ELSE IF has("undecodable") THEN "decodeErr"
      ELSE IF has("unavailable") \/ ~has("empty") THEN "unavailable"
      ELSE "empty"

(***************************************************************************)
(* Calls of one request.  What a change does to the task list or the       *)
(* calendar is Google's; it may have been done although the call reports   *)
(* an error.  A send_email that fails is saved by FallbackNotify and       *)
(* returns without an error; only a successful one stores its id.          *)
(***************************************************************************)
Request(k) ==
  /\ tpc = "request" /\ call = k
  /\ UNCHANGED <<call, page, cals, found, failed>> /\ World /\ AuthKept

Change(k) ==
  /\ Request(k)
  /\ (~Gone /\ Return("complete", <<>>)) \/ Return("error", <<>>)
  /\ UNCHANGED <<mails, executed>>

CreateTask == Change("create_task")
CompleteTask == Change("complete_task")
UpdateTask == Change("update_task")
CreateEvent == Change("create_calendar_event")
ExecuteSearch == Change("google_search")

GetMessage ==
  /\ Request("read_gmail")
  /\ \/ /\ ~Gone
        /\ \E p \in UNION {[1 .. m -> Parts] : m \in 0 .. 2} :
             Return(IF ExtractPlainText(p) \in {"text", "empty"} THEN "complete" ELSE "error", <<>>)
     \/ Return("error", <<>>)
  /\ UNCHANGED <<mails, executed>>

Send ==
  /\ Request("send_email")
  /\ \E o \in IF Gone THEN {NotSent} ELSE SendOutcomes :
       /\ mails' = mails + o.copies
       /\ \/ o.ok /\ executed' \in {executed, TRUE} /\ Return("complete", <<>>)
          \/ ~o.ok /\ Return("fallback", <<>>) /\ UNCHANGED executed

\* The result goes to the model, and nothing of the call is kept.
Forget ==
  /\ tpc = "returned"
  /\ tpc' = "idle" /\ call' = "none" /\ page' = NoPage
  /\ events' = Nothing /\ tasks' = <<>> /\ mailbox' = 0
  /\ cals' = <<>> /\ found' = <<>> /\ failed' = {}
  /\ res' = NoResult
  /\ dead' = dead \ {"tool", "mail"}
  /\ UNCHANGED <<secret, tokenFile, apc, hand, smap, revoked, granted, expiries>>
  /\ UNCHANGED <<executed, mails, calls>>

ToolNext ==
  \/ ListCalendarTool \/ loadScheduleContext \/ ListTasksTool \/ CreateTaskTool \/ CompleteTaskTool \/ UpdateTaskTool
  \/ CreateCalendarEventTool \/ WebSearchTool \/ SendEmailTool \/ SearchGmailTool \/ ReadGmailTool
  \/ CallCancelled \/ Authorized
  \/ listCalendars \/ listCalendarEvents \/ finishCalendarEvents
  \/ listTasks \/ SearchMessages
  \/ CreateTask \/ CompleteTask \/ UpdateTask \/ CreateEvent \/ ExecuteSearch
  \/ GetMessage \/ Send \/ Forget
-----------------------------------------------------------------------------
ToolTypeOK ==
  /\ tpc \in {"idle", "returned", "auth", "list", "events", "tasks", "search", "request"}
  /\ call \in Kinds \union {"none"}
  /\ res.status \in {"none", "complete", "incomplete", "fallback", "error"}
  /\ calls <= MaxCalls /\ mails <= MaxAttempts * MaxCalls

(***************************************************************************)
(* A list presented without an error is right: without a warning it is     *)
(* the whole truth up to max_results, the earliest events first; with the  *)
(* warning it holds for the calendars that loaded, and none of the others  *)
(* contributed half a calendar.                                            *)
(***************************************************************************)
Earliest(list, pool) ==
  /\ Ordered(list)
  /\ \A e \in Range(list) : e \in UNION {Range(events[c]) : c \in pool}
  /\ \A c \in pool : \A i \in DOMAIN events[c] :
       LET e == events[c][i]
           copies(s) == Cardinality({j \in DOMAIN s : s[j] = e})
       IN  \/ copies(list) = copies(events[c])
           \/ Len(list) = MaxResults /\ Key(list[MaxResults].start) <= Key(e.start)

ListingComplete ==
  tpc = "returned" /\ res.status \in {"complete", "incomplete"} =>
    /\ call \in CalendarKinds =>
         /\ Earliest(res.items, Range(Calendars) \ failed)
         /\ (res.status = "complete") = (failed = {})
         /\ res.status = "complete" => Earliest(res.items, Range(Calendars))
    /\ call = "list_tasks" => res.items = Open(tasks)
    /\ call = "search_gmail" => [i \in DOMAIN res.items |-> res.items[i].id] = First(Mailbox, MaxResults)
=============================================================================
