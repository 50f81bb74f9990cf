-------------------------------- MODULE Console --------------------------------
(***************************************************************************)
(* The console put together: the connection and the list of the event      *)
(* page, the pages of the jobs, their table and the form for one, who is   *)
(* signed in, the numbers of the dashboard and the messages, and the rate  *)
(* limiter its requests pass.  These parts share no state, so that a       *)
(* behaviour exercises one of them, the focus: "socket", "list", "jobs",   *)
(* "session", "numbers", "messages", "paging", "form" or "limit".          *)
(***************************************************************************)
EXTENDS RateLimit

CONSTANTS       \* each is explained in the module of its part
    Sockets, MAX_ATTEMPTS, MaxDrops, MaxVisits,
    MAX_EVENTS, Tables, Operations, Words,
    Jobs, Initial, MaxEvents,
    Tabs, MaxLogins,
    Series, Braced, Bounds, MAX_HISTORY, MaxIngested, MaxRestarts,
    TOAST_LIMIT, MaxToasts,
    PAGE_SIZE, Kinds, Rows, MaxChanges,
    ChangeAt, Changes, Ranges, Speeds, MaxHours, MaxSent

VARIABLES
    focus,
    page, status, shown, sock, owner, attempts, used, current, timerRef, att,
    timer, drops, visits,
    events, isPaused, tables, operations, searchQuery, visited,
    localSearch, debounced, searchTimer, selectedEvent, modalOpen,
    server, pending, view, cache, asked, answer, requests, clicks, moves,
    cookie, storage, valid, issued, store, tabPage, quiet, aged,
    exported, latency, dashboard, metrics, data, previousRef, rate, history, now,
    restarts, ingested, before,
    toasts, toastTimeouts, count,
    rows, changes, statusFilter, pageNo, answers, fresh, reached,
    hour, change, start_time, end_time, speed_factor, button, submissions,
    sent, quick

listVars == <<events, isPaused, tables, operations, searchQuery, visited,
             localSearch, debounced, searchTimer, selectedEvent, modalOpen>>
jobVars == <<server, pending, view, cache, asked, answer, requests, clicks,
             moves>>
sessionVars == <<cookie, storage, valid, issued, store, tabPage, quiet, aged>>
numberVars == <<exported, latency, dashboard, metrics, data, previousRef, rate,
               history, now, restarts, ingested, before>>
toastVars == <<toasts, toastTimeouts, count>>
pagingVars == <<rows, changes, statusFilter, pageNo, answers, fresh, reached>>
formVars == <<hour, change, start_time, end_time, speed_factor, button,
             submissions, sent, quick>>
socketVars == <<page, status, shown, sock, owner, attempts, used, current,
               timerRef, att, timer, drops, visits>>
consoleVars == <<focus, vars, listVars, jobVars, sessionVars, numberVars,
                toastVars, pagingVars, formVars, socketVars>>

Socket == INSTANCE EventSocket
List == INSTANCE EventList WITH timer <- searchTimer
JobPages == INSTANCE JobConsole
Login == INSTANCE Session WITH page <- tabPage
Numbers == INSTANCE Metrics WITH page <- dashboard, answer <- metrics
Messages == INSTANCE Toasts
Paging == INSTANCE JobPaging WITH cache <- answers
Form == INSTANCE JobForm WITH requests <- submissions

ASSUME ConsoleAssumption ==
    /\ Socket!SocketAssumption
    /\ List!ListAssumption
    /\ JobPages!JobsAssumption
    /\ Numbers!MetricsAssumption
    /\ Paging!PagingAssumption
    /\ Form!FormAssumption

ConsoleInit ==
    /\ focus \in {"socket", "list", "jobs", "session", "numbers", "messages", "paging",
                 "form", "limit"}
    /\ Init /\ List!Init /\ JobPages!Init /\ Login!Init
    /\ Numbers!Init /\ Messages!Init /\ Paging!Init /\ Form!Init
    /\ Socket!Init
    /\ focus # "form" => change = CHOOSE c \in Changes : TRUE

ConsoleNext ==
    \/ /\ focus = "socket" /\ Socket!Next
       /\ UNCHANGED <<focus, vars, listVars, jobVars, sessionVars, numberVars, toastVars, pagingVars, formVars>>
    \/ /\ focus = "list" /\ List!Next
       /\ UNCHANGED <<focus, vars, jobVars, sessionVars, numberVars, toastVars, pagingVars, formVars, socketVars>>
    \/ /\ focus = "jobs" /\ JobPages!Next
       /\ UNCHANGED <<focus, vars, listVars, sessionVars, numberVars, toastVars, pagingVars, formVars, socketVars>>
    \/ /\ focus = "session" /\ Login!Next
       /\ UNCHANGED <<focus, vars, listVars, jobVars, numberVars, toastVars, pagingVars, formVars, socketVars>>
    \/ /\ focus = "numbers" /\ Numbers!Next
       /\ UNCHANGED <<focus, vars, listVars, jobVars, sessionVars, toastVars, pagingVars, formVars, socketVars>>
    \/ /\ focus = "messages" /\ Messages!Next
       /\ UNCHANGED <<focus, vars, listVars, jobVars, sessionVars, numberVars, pagingVars, formVars, socketVars>>
    \/ /\ focus = "paging" /\ Paging!Next
       /\ UNCHANGED <<focus, vars, listVars, jobVars, sessionVars, numberVars, toastVars, formVars, socketVars>>
    \/ /\ focus = "form" /\ Form!Next
       /\ UNCHANGED <<focus, vars, listVars, jobVars, sessionVars, numberVars, toastVars, pagingVars, socketVars>>
    \/ /\ focus = "limit" /\ Next
       /\ UNCHANGED <<focus, listVars, jobVars, sessionVars, numberVars, toastVars, pagingVars, formVars, socketVars>>

\* The fairness of each part, which owes nothing while another is the focus.
ConsoleFairness ==
    /\ WF_socketVars(focus = "socket" /\ Socket!CommitStatus)
    /\ WF_socketVars(focus = "socket" /\ Socket!CommitReconnect)
    /\ \A s \in Sockets : /\ WF_socketVars(focus = "socket" /\ Socket!Fire(s))
                          /\ WF_socketVars(focus = "socket" /\ Socket!Opened(s))
                          /\ WF_socketVars(focus = "socket" /\ Socket!Closed(s))
    /\ WF_listVars(focus = "list" /\ List!Effects)
    /\ WF_listVars(focus = "list" /\ List!Debounce)
    /\ WF_jobVars(focus = "jobs" /\ JobPages!Poll)
    /\ \A j \in Jobs : WF_jobVars(focus = "jobs" /\ JobPages!Commit(j))
    /\ SF_jobVars(focus = "jobs" /\ JobPages!Read(view))
    /\ \A k \in JobPages!Keys : WF_jobVars(focus = "jobs" /\ JobPages!Arrive(k))
    /\ \A t \in Tabs : /\ WF_sessionVars(focus = "session" /\ Login!CheckAuth(t))
                         /\ WF_sessionVars(focus = "session" /\ Login!LeaveLogin(t))
                         /\ WF_sessionVars(focus = "session" /\ Login!PollRefused(t))

ConsoleSpec == ConsoleInit /\ [][ConsoleNext]_consoleVars /\ ConsoleFairness

-----------------------------------------------------------------------------
\* The properties of the parts, each stated and explained in its module.
TypesOK ==
    /\ TypeOK /\ Socket!TypeOK /\ List!TypeOK /\ JobPages!TypeOK /\ Login!TypeOK
    /\ Numbers!TypeOK

AutoReconnect == Socket!AutoReconnect
ImplementsConnection == Socket!ImplementsConnection
SearchSettles == List!SearchSettles
RefusedOnlyStale == JobPages!RefusedOnlyStale
ViewCatchesUp == focus = "jobs" => JobPages!ViewCatchesUp
SameSession == Login!SameSession
TabsSettle == Login!TabsSettle
RateIsHonest == Numbers!RateIsHonest
PercentileInBucket == Numbers!PercentileInBucket
TimersMatch == Messages!TimersMatch
ButtonsLeadSomewhere == Paging!ButtonsLeadSomewhere
QuickRangeExact == Form!QuickRangeExact
=============================================================================
