------------------------------ MODULE JobConsole ------------------------------
(***************************************************************************)
(* The pages of the replay jobs: the list and the detail pages, the        *)
(* queries that poll them, and the mutations behind their buttons, against *)
(* a server whose jobs workers and other clients change meanwhile.         *)
(*                                                                         *)
(* A query is known by its key: "list", or a job for its detail page.  The *)
(* server is told from job_service; ReplayJobs has it in full.             *)
(***************************************************************************)
EXTENDS Integers, FiniteSets

CONSTANTS Jobs,
          Initial,        \* bound: the statuses the jobs begin in
          MaxEvents       \* bound: requests of the console and changes by others

VARIABLES
    server,     \* the committed status of each job, "absent" once deleted
    pending,    \* the status a handler has written and not committed, or "none"
    view,       \* the key of the page on display
    cache,      \* per key: the statuses last loaded, "absent" for an error page
    asked,      \* keys asked for and not read yet
    answer,     \* per key: the statuses on their way
    requests,   \* mutations under way
    clicks,     \* requests so far
    moves       \* changes by workers and other clients

fetchVars == <<asked, answer>>
pageVars == <<view, cache, fetchVars>>
serverVars == <<server, pending, moves>>
vars == <<serverVars, pageVars, requests, clicks>>

Statuses == {"pending", "queued", "running", "paused", "completed", "failed", "cancelled"}
Terminal == {"completed", "failed", "cancelled"}
Buttons == {"start", "pause", "resume", "cancel", "delete"}

JobsAssumption == Initial \subseteq Statuses /\ "list" \notin Jobs

Keys == {"list"} \cup Jobs
Scope(k) == IF k = "list" THEN Jobs ELSE {k}
Nothing == <<>>

Init ==
    /\ server \in [Jobs -> Initial] /\ pending = [j \in Jobs |-> "none"]
    /\ view = "list"
    /\ cache = [k \in Keys |-> Nothing]
    /\ asked = {"list"} /\ answer = [k \in Keys |-> Nothing]
    /\ requests = {} /\ clicks = 0 /\ moves = 0

-----------------------------------------------------------------------------
(* The server                                                              *)

\* The statuses in which a handler carries an operation out, and what it writes.
Allowed(op) ==
    CASE op = "start" -> {"pending"}
      [] op = "pause" -> {"running"}
      [] op = "resume" -> {"paused"}
      [] op = "cancel" -> Statuses \ Terminal
      [] op = "delete" -> Terminal

Written(op) ==
    CASE op \in {"start", "resume"} -> "queued"
      [] op = "pause" -> "paused"
      [] op = "cancel" -> "cancelled"
      [] op = "delete" -> "absent"

\* A refused or unknown job is an error.  Handlers of one job at a time: how they
\* interleave is ReplayJobs' matter.
Handle(r) ==
    /\ r.outcome = "sent" /\ pending[r.job] = "none"
    /\ LET allowed == server[r.job] \in Allowed(r.op)
       IN  /\ pending' = IF allowed THEN [pending EXCEPT ![r.job] = Written(r.op)] ELSE pending
           /\ requests' = (requests \ {r}) \cup
                              {[r EXCEPT !.outcome = IF allowed THEN "ok" ELSE "refused"]}
    /\ UNCHANGED <<server, moves, pageVars, clicks>>

\* get_db commits when the handler is done, before or after the answer is out.
Commit(j) ==
    /\ pending[j] # "none"
    /\ server' = [server EXCEPT ![j] = pending[j]] /\ pending' = [pending EXCEPT ![j] = "none"]
    /\ UNCHANGED <<moves, pageVars, requests, clicks>>

\* A worker or another client.
Move(j) ==
    /\ clicks + moves < MaxEvents /\ pending[j] = "none"
    /\ \/ server[j] = "queued" /\ server' = [server EXCEPT ![j] = "running"]
       \/ server[j] = "running"
          /\ \E s \in {"completed", "failed"} : server' = [server EXCEPT ![j] = s]
       \/ \E op \in Buttons :
              server[j] \in Allowed(op) /\ server' = [server EXCEPT ![j] = Written(op)]
    /\ moves' = moves + 1
    /\ UNCHANGED <<pending, pageVars, requests, clicks>>

-----------------------------------------------------------------------------
(* The queries                                                             *)

Idle(k) == k \notin asked /\ answer[k] = Nothing

\* A page that is mounted asks for what was never loaded and, depending on its age
\* and on whether it was invalidated, for the rest.
Mounted(k) ==
    /\ view' = k
    /\ \/ Idle(k) /\ asked' = asked \cup {k}
       \/ ~Idle(k) /\ UNCHANGED asked
       \/ cache[k] # Nothing /\ UNCHANGED asked
    /\ UNCHANGED answer

\* The requests once the detail page that sent them is gone.
Left == {IF r.by = "detail" THEN [r EXCEPT !.by = "left"] ELSE r : r \in requests}

Open(k) ==
    /\ view # k
    /\ k = "list" \/ (view = "list" /\ cache["list"] # Nothing /\ cache["list"][k] # "absent")
    /\ Mounted(k)
    /\ requests' = Left
    /\ UNCHANGED <<cache, serverVars, clicks>>

\* Mutant: only a page that shows a job that is not over polls.
PollActive ==
    /\ Idle(view)
    /\ IF cache[view] = Nothing THEN TRUE
       ELSE \E j \in Scope(view) : cache[view][j] \notin Terminal
    /\ asked' = asked \cup {view}
    /\ UNCHANGED <<answer, view, cache, serverVars, requests, clicks>>

\* refetchInterval, the Refresh and the Retry buttons.
Poll ==
    /\ Idle(view)
    /\ asked' = asked \cup {view}
    /\ UNCHANGED <<answer, view, cache, serverVars, requests, clicks>>

Read(k) ==
    /\ k \in asked
    /\ asked' = asked \ {k}
    /\ answer' = [answer EXCEPT ![k] = [j \in Scope(k) |-> server[j]]]
    /\ UNCHANGED <<view, cache, serverVars, requests, clicks>>

Arrive(k) ==
    /\ answer[k] # Nothing
    /\ cache' = [cache EXCEPT ![k] = answer[k]]
    /\ answer' = [answer EXCEPT ![k] = Nothing]
    /\ UNCHANGED <<asked, view, serverVars, requests, clicks>>

\* After its retries the list keeps what it shows, the detail page shows the error.
FetchFails(k) ==
    /\ k \in asked
    /\ cache' = IF k = "list" THEN cache ELSE [cache EXCEPT ![k] = [j \in {k} |-> "absent"]]
    /\ asked' = asked \ {k}
    /\ UNCHANGED <<answer, view, serverVars, requests, clicks>>

-----------------------------------------------------------------------------
(* The buttons and the mutations                                           *)

\* Mutant: the resume button is there for a running job.
OfferedEarly(op, status) ==
    CASE op = "start" -> status = "pending"
      [] op = "pause" -> status = "running"
      [] op = "resume" -> status \in {"running", "paused"}
      [] op = "cancel" -> status \in Statuses \ Terminal
      [] op = "delete" -> status \in Terminal

Offered(op, status) ==
    CASE op = "start" -> status = "pending"
      [] op = "pause" -> status = "running"
      [] op = "resume" -> status = "paused"
      [] op = "cancel" -> status \in Statuses \ Terminal
      [] op = "delete" -> status \in Terminal

\* JobActions disables its buttons while one of its mutations is under way, the
\* menu of the list does not.
Click(op, j) ==
    /\ clicks + moves < MaxEvents
    /\ j \in Scope(view) /\ cache[view] # Nothing /\ Offered(op, cache[view][j])
    /\ view = "list" \/ \A r \in requests : r.by # "detail"
    /\ clicks' = clicks + 1
    /\ requests' = requests \cup
           {[id |-> clicks', op |-> op, job |-> j, seen |-> cache[view][j], outcome |-> "sent",
             by |-> IF view = "list" THEN "list" ELSE "detail"]}
    /\ UNCHANGED <<pageVars, serverVars>>

\* onSuccess invalidates every query of the jobs: the one on display is asked for
\* again at once, a request it has under way is dropped.  Then the toast (Toasts); the
\* detail page of a job it has deleted goes to the list, wherever the user is.
Answer(r) ==
    /\ r.outcome = "ok"
    /\ IF r.op = "delete" /\ r.by # "list" /\ view # "list"
       THEN /\ view' = "list"
            /\ asked' = asked \cup {view} \cup {k \in {"list"} : Idle(k)}
            /\ requests' = {q \in Left : q.id # r.id}
       ELSE /\ asked' = asked \cup {view}
            /\ requests' = requests \ {r}
            /\ UNCHANGED view
    /\ answer' = [answer EXCEPT ![view] = Nothing]
    /\ UNCHANGED <<cache, serverVars, clicks>>

\* The server refuses, or the request or its answer is lost.
AnswerFails(r) ==
    /\ requests' = requests \ {r}
    /\ UNCHANGED <<pageVars, serverVars, clicks>>

-----------------------------------------------------------------------------
Next ==
    \/ \E j \in Jobs : Commit(j) \/ Move(j) \/ \E op \in Buttons : Click(op, j)
    \/ \E k \in Keys : Open(k) \/ Read(k) \/ Arrive(k) \/ FetchFails(k)
    \/ Poll
    \/ \E r \in requests : Handle(r) \/ Answer(r) \/ AnswerFails(r)

(* The pages poll, the server commits and answers, and of the polls of the *)
(* page on display some succeed.                                           *)
Fairness ==
    /\ WF_vars(Poll) /\ \A j \in Jobs : WF_vars(Commit(j))
    /\ SF_vars(Read(view)) /\ \A k \in Keys : WF_vars(Arrive(k))

Spec == Init /\ [][Next]_vars /\ Fairness

-----------------------------------------------------------------------------
(* The values of the variables.                                            *)
TypeOK ==
    LET Shown(k) == [Scope(k) -> Statuses \cup {"absent"}]
    IN  /\ server \in Shown("list")
        /\ pending \in [Jobs -> {"none", "queued", "paused", "cancelled", "absent"}]
        /\ view \in Keys /\ DOMAIN cache = Keys /\ DOMAIN answer = Keys
        /\ \A k \in Keys : cache[k] = Nothing \/ cache[k] \in Shown(k)
        /\ \A k \in Keys : k \in asked => answer[k] = Nothing
        /\ \A k \in Keys : answer[k] = Nothing \/ answer[k] \in Shown(k)
        /\ \A r \in requests : r.seen \in Statuses /\ r.id <= clicks

(* The buttons and the server agree on what a job in each status allows:   *)
(* the console is refused only because the status changed after it was     *)
(* loaded.                                                                 *)
RefusedOnlyStale ==
    [][\A r \in requests : \A q \in requests' :
         q.id = r.id /\ r.outcome = "sent" /\ q.outcome = "refused"
             => server[r.job] # r.seen]_vars

(* A page the user stays on catches up with the server once the jobs       *)
(* change no more, although answers overtake commits, are dropped or lost  *)
(* (a poll that fails may blank the detail page until the next).           *)
ViewCatchesUp ==
    \A k \in Keys :
        []<>(view = k => /\ cache[k] # Nothing
                         /\ \A j \in Scope(k) : cache[k][j] = server[j])
=============================================================================
