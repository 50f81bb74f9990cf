----------------------------- MODULE ReplayJobs -----------------------------
(***************************************************************************)
(* Replay jobs of the control service: the replay_jobs table, the REST     *)
(* handlers that move a job through its life cycle, and the job workers    *)
(* that lease a job, stream its events to the replayer and checkpoint.     *)
(*                                                                         *)
(* All actors meet in the table and nowhere else.  Every transaction of    *)
(* the code is "SELECT the row, compute, UPDATE the columns that changed": *)
(* sessions run at READ COMMITTED, take no row lock when they read and     *)
(* keep no version number, so each one is two steps here, and what it      *)
(* writes is the set of columns its assignments changed with respect to    *)
(* the row it read (SQLAlchemy's unit of work).  The two single-statement  *)
(* UPDATEs, acquiring and renewing a lease, are one step each.             *)
(*                                                                         *)
(* The events in a job's window are 1 .. NEvents in source order; the      *)
(* replayer is reduced to what a worker sees of it (RpcSucceeds,           *)
(* RpcDuplicate, RpcFails).                                                *)
(***************************************************************************)
EXTENDS Integers, FiniteSets

CONSTANTS
    Jobs,            \* rows that may be created
    Workers,         \* worker ids ("worker-0", "worker-1", ...)
    Clients,         \* API requests that can be in flight at the same time
    NoJob, NoWorker, \* NULL for current_job_id and worker_id
    NEvents,         \* events in the window of a job
    LeaseDuration,   \* job_lease_duration_seconds, in clock ticks
    MaxRetries,      \* max_event_retries
    ApiOps,          \* the requests clients send, a subset of AllOps
    FaultKinds,      \* the faults that can happen, a subset of AllFaults
    MaxCalls,        \* bound on API requests that reach their write
    MaxFaults,       \* bound on faults
    Timely           \* TRUE: a live renewal loop is never late for its lease

AllOps    == {"start", "pause", "resume", "cancel", "update", "delete"}
AllFaults == {"crash", "stop", "error"}

ASSUME JobsAssumption     == NoJob \notin Jobs
ASSUME WorkersAssumption  == NoWorker \notin Workers
ASSUME EventsAssumption   == NEvents \in Nat
ASSUME LeaseAssumption    == LeaseDuration \in Nat \ {0}
ASSUME RetriesAssumption  == MaxRetries \in Nat
ASSUME BoundsAssumption   == MaxCalls \in Nat /\ MaxFaults \in Nat
ASSUME OpsAssumption      == ApiOps \subseteq AllOps /\ FaultKinds \subseteq AllFaults
ASSUME TimelyAssumption   == Timely \in BOOLEAN

VARIABLES
    row,        \* the table replay_jobs
    delivered,  \* events the target database has received, from any worker
    pc,         \* where a worker's event loop is
    exec,       \* the job a worker is executing
    cur,        \* current_job_id, what the renewal loop renews
    running,    \* self.running
    last,       \* last_processed_id of the worker's copy of the job, which
                \* is also how far its event stream has been consumed
    attempt,    \* attempts made at the current event
    write,      \* columns a worker's open transaction will write
    req,        \* the request an API handler is serving
    calls,      \* API requests left
    faults      \* faults left

jobVars    == <<pc, exec, last, attempt, write>>
workerVars == <<pc, exec, cur, running, last, attempt, write>>
vars       == <<row, delivered, workerVars, req, calls, faults>>

-----------------------------------------------------------------------------
(* The table *)

JobStatus == {"PENDING", "QUEUED", "RUNNING", "PAUSED",
              "COMPLETED", "FAILED", "CANCELLED"}
NoRow     == {"ABSENT", "DELETED"}   \* an id not used yet, a row deleted
Terminal  == {"COMPLETED", "FAILED", "CANCELLED"}

NullLease == -1                      \* lease_expires_at IS NULL; 0: it is past
NullId    == -1                      \* last_processed_id IS NULL; 0: it is ""
Ids       == NullId .. NEvents
Leases    == NullLease .. LeaseDuration

Columns == {"status", "worker", "lease", "lastId"}
Row     == [status : JobStatus \cup NoRow, worker : Workers \cup {NoWorker},
            lease : Leases, lastId : Ids]

EmptyRow(s) == [status |-> s, worker |-> NoWorker,
                lease |-> NullLease, lastId |-> NullId]
Exists(j)   == row[j].status \in JobStatus

\* The events a job with this last_processed_id counts as done: a stream
\* opened from "" or NULL starts at the first event of the window.
OrEmpty(id) == IF id = NullId THEN 0 ELSE id
Done(id)    == 1 .. OrEmpty(id)

\* What a flush sends: the attributes whose value differs from the loaded one.
Changes(old, new) == [c \in {c \in Columns : old[c] # new[c]} |-> new[c]]
Nothing           == [c \in {} |-> NullId]

Merge(old, w) ==
    LET value(c) == IF c \in DOMAIN w THEN w[c] ELSE old[c]
    IN  [status |-> value("status"), worker |-> value("worker"),
         lease |-> value("lease"), lastId |-> value("lastId")]

Released(r, s) == [r EXCEPT !.status = s, !.worker = NoWorker, !.lease = NullLease]
Leased(r, w)   == [r EXCEPT !.status = "RUNNING", !.worker = w, !.lease = LeaseDuration]

-----------------------------------------------------------------------------
(* The API: a handler reads the row and checks it, then writes.            *)

ValidTransitions ==
    [s \in JobStatus |->
        CASE s = "PENDING" -> {"QUEUED", "CANCELLED"}
          [] s = "QUEUED"  -> {"CANCELLED"}
          [] s = "RUNNING" -> {"PAUSED", "CANCELLED"}
          [] s = "PAUSED"  -> {"QUEUED", "CANCELLED"}
          [] OTHER         -> {}]

NoRequest == [job |-> NoJob, sql |-> "NONE", write |-> Nothing]

\* The rest of every handler: compute the new row, keep what changed until
\* the flush and commit at the end of the request.
Submit(c, j, sql, new) ==
    /\ req[c] = NoRequest
    /\ calls > 0
    /\ calls' = calls - 1
    /\ req' = [req EXCEPT ![c] = [job |-> j, sql |-> sql,
                                  write |-> Changes(row[j], new)]]
    /\ UNCHANGED <<row, delivered, workerVars, faults>>

CreateJob(j) ==
    /\ row[j].status = "ABSENT"
    /\ row' = [row EXCEPT ![j] = EmptyRow("PENDING")]
    /\ UNCHANGED <<delivered, workerVars, req, calls, faults>>

StartJob(c, j) ==
    /\ "start" \in ApiOps
    /\ row[j].status = "PENDING"
    /\ Submit(c, j, "UPDATE", [row[j] EXCEPT !.status = "QUEUED"])

PauseJob(c, j) ==
    /\ "pause" \in ApiOps
    /\ row[j].status = "RUNNING"
    /\ Submit(c, j, "UPDATE", Released(row[j], "PAUSED"))

ResumeJob(c, j) ==
    /\ "resume" \in ApiOps
    /\ row[j].status = "PAUSED"
    /\ Submit(c, j, "UPDATE", [row[j] EXCEPT !.status = "QUEUED"])

CancelJob(c, j) ==
    /\ "cancel" \in ApiOps
    /\ Exists(j) /\ row[j].status \notin Terminal
    /\ Submit(c, j, "UPDATE", Released(row[j], "CANCELLED"))

\* PATCH with a target status (_transition_status).
UpdateJob(c, j) ==
    /\ "update" \in ApiOps
    /\ Exists(j)
    /\ \E target \in ValidTransitions[row[j].status] :
         Submit(c, j, "UPDATE",
                IF target = "QUEUED" THEN [row[j] EXCEPT !.status = target]
                                     ELSE Released(row[j], target))

DeleteJob(c, j) ==
    /\ "delete" \in ApiOps
    /\ row[j].status \in Terminal
    /\ Submit(c, j, "DELETE", row[j])

\* Flush and commit, and the end of the request.  An UPDATE that finds no
\* row raises StaleDataError: the client gets a 500 and nothing changes.
ApiCommit(c) ==
    /\ req[c] # NoRequest
    /\ LET j == req[c].job IN
         row' = [row EXCEPT ![j] =
                   IF ~ Exists(j) THEN row[j]
                   ELSE IF req[c].sql = "DELETE" THEN EmptyRow("DELETED")
                   ELSE Merge(row[j], req[c].write)]
    /\ req' = [req EXCEPT ![c] = NoRequest]
    /\ UNCHANGED <<delivered, workerVars, calls, faults>>

-----------------------------------------------------------------------------
(* Workers: the main loop.                                                 *)

\* _execute_job is over, by return or by an exception that escapes it, and
\* the loop polls again.
Leave(w) ==
    /\ pc' = [pc EXCEPT ![w] = "idle"]
    /\ exec' = [exec EXCEPT ![w] = NoJob]
    /\ last' = [last EXCEPT ![w] = NullId]
    /\ attempt' = [attempt EXCEPT ![w] = 0]
    /\ write' = [write EXCEPT ![w] = Nothing]

Goto(w, label) ==
    /\ pc' = [pc EXCEPT ![w] = label]
    /\ UNCHANGED <<exec, last, attempt, write>>

\* Mutations: a RUNNING row taken without regard to its lease; no recovery of
\* RUNNING rows at all.
EligibleAnyLease(j) ==
    \/ row[j].status = "QUEUED" /\ row[j].lease \in {NullLease, 0}
    \/ row[j].status = "RUNNING"
EligibleQueuedOnly(j) == row[j].status = "QUEUED" /\ row[j].lease \in {NullLease, 0}

Eligible(j) ==
    \/ row[j].status = "QUEUED" /\ row[j].lease \in {NullLease, 0}
    \/ row[j].status = "RUNNING" /\ row[j].lease = 0

\* Mutation: the lease column is forgotten.
AcquireNoLease(w) ==
    /\ pc[w] = "idle" /\ running[w]
    /\ \E j \in Jobs :
         /\ Eligible(j)
         /\ row' = [row EXCEPT ![j] = [@ EXCEPT !.status = "RUNNING", !.worker = w]]
         /\ exec' = [exec EXCEPT ![w] = j]
    /\ pc' = [pc EXCEPT ![w] = "fetch"]
    /\ UNCHANGED <<delivered, cur, running, last, attempt, write, req, calls, faults>>

\* _acquire_job up to its commit.  FOR UPDATE SKIP LOCKED passes over the
\* rows of concurrent transactions, so any eligible row can be the one taken.
Acquire(w) ==
    /\ pc[w] = "idle" /\ running[w]
    /\ \E j \in Jobs :
         /\ Eligible(j)
         /\ row' = [row EXCEPT ![j] = Leased(@, w)]
         /\ exec' = [exec EXCEPT ![w] = j]
    /\ pc' = [pc EXCEPT ![w] = "fetch"]
    /\ UNCHANGED <<delivered, cur, running, last, attempt, write, req, calls, faults>>

\* The re-fetch after that commit; scalar_one raises if the row is gone.
Fetch(w) ==
    /\ pc[w] = "fetch"
    /\ IF Exists(exec[w])
         THEN /\ Goto(w, "prepare")
              /\ cur' = [cur EXCEPT ![w] = exec[w]]
         ELSE /\ Leave(w)
              /\ UNCHANGED cur
    /\ UNCHANGED <<row, delivered, running, req, calls, faults>>

\* Mutation: the stream is opened without the checkpoint.
PrepareFromStart(w) ==
    /\ pc[w] = "prepare"
    /\ IF Exists(exec[w]) THEN Goto(w, "stream") ELSE Leave(w)
    /\ UNCHANGED <<row, delivered, cur, running, req, calls, faults>>

\* The first transaction of _execute_job: reload the job, from whose
\* last_processed_id the stream is opened.  With the row gone the exception
\* handler dereferences None, so _fail_job never runs and current_job_id stays.
Prepare(w) ==
    /\ pc[w] = "prepare"
    /\ IF Exists(exec[w])
         THEN /\ pc' = [pc EXCEPT ![w] = "stream"]
              /\ last' = [last EXCEPT ![w] = row[exec[w]].lastId]
              /\ UNCHANGED <<exec, attempt, write>>
         ELSE Leave(w)
    /\ UNCHANGED <<row, delivered, cur, running, req, calls, faults>>

Position(w) == OrEmpty(last[w])      \* last event consumed
Event(w)    == Position(w) + 1       \* the event being replayed

\* Mutation: shutdown breaks out of the loop into the code after it.
NextEventBreak(w) ==
    /\ pc[w] = "stream"
    /\ Goto(w, IF Position(w) < NEvents /\ running[w] THEN "check" ELSE "complete")
    /\ UNCHANGED <<row, delivered, cur, running, req, calls, faults>>

\* async for: the next event, or the end of the stream; on an event the
\* shutdown flag is looked at first.
NextEvent(w) ==
    /\ pc[w] = "stream"
    /\ Goto(w, IF Position(w) = NEvents THEN "complete"
               ELSE IF running[w] THEN "check" ELSE "checkpoint")
    /\ UNCHANGED <<row, delivered, cur, running, req, calls, faults>>

\* The look at the row before each event.  Only the status is looked at: not
\* worker_id, nor the lease; and only two statuses stop the loop.
CheckStatus(w) ==
    /\ pc[w] = "check"
    /\ \/ /\ ~ Exists(exec[w])                       \* None has no status
          /\ Goto(w, "fail") /\ UNCHANGED cur
       \/ /\ row[exec[w]].status = "PAUSED"
          /\ Goto(w, "checkpoint") /\ UNCHANGED cur
       \/ /\ row[exec[w]].status = "CANCELLED"
          /\ Leave(w) /\ cur' = [cur EXCEPT ![w] = NoJob]
       \/ /\ Exists(exec[w])
          /\ row[exec[w]].status \notin {"PAUSED", "CANCELLED"}
          /\ pc' = [pc EXCEPT ![w] = "replay"]
          /\ attempt' = [attempt EXCEPT ![w] = 1]
          /\ UNCHANGED <<exec, last, write, cur>>
    /\ UNCHANGED <<row, delivered, running, req, calls, faults>>

-----------------------------------------------------------------------------
(* Workers: one attempt at the replayer's ReplayEvent.                     *)

Replayed(w) ==
    /\ pc' = [pc EXCEPT ![w] = "record"]
    /\ attempt' = [attempt EXCEPT ![w] = 0]
    /\ UNCHANGED <<row, exec, cur, running, last, write, req, calls, faults>>

RpcSucceeds(w) ==
    /\ pc[w] = "replay"
    /\ delivered' = delivered \cup {Event(w)}
    /\ Replayed(w)

\* The replayer marks an event only after it applied it.
RpcDuplicate(w) ==
    /\ pc[w] = "replay"
    /\ Event(w) \in delivered
    /\ UNCHANGED delivered
    /\ Replayed(w)

\* Mutations: one attempt too many; the loop goes on past a failed event.
RpcFailsOnceMore(w) ==
    /\ pc[w] = "replay"
    /\ delivered' \in {delivered, delivered \cup {Event(w)}}
    /\ IF attempt[w] <= MaxRetries + 1
         THEN attempt' = [attempt EXCEPT ![w] = @ + 1] /\ UNCHANGED pc
         ELSE attempt' = [attempt EXCEPT ![w] = 0] /\ pc' = [pc EXCEPT ![w] = "fail"]
    /\ UNCHANGED <<row, exec, cur, running, last, write, req, calls, faults>>
RpcFailsAndSkips(w) ==
    /\ pc[w] = "replay"
    /\ delivered' \in {delivered, delivered \cup {Event(w)}}
    /\ IF attempt[w] < MaxRetries + 1
         THEN attempt' = [attempt EXCEPT ![w] = @ + 1] /\ UNCHANGED pc
         ELSE attempt' = [attempt EXCEPT ![w] = 0] /\ pc' = [pc EXCEPT ![w] = "record"]
    /\ UNCHANGED <<row, exec, cur, running, last, write, req, calls, faults>>

\* A refusal, an RpcError or a timeout: the event may have been applied.
RpcFails(w) ==
    /\ pc[w] = "replay"
    /\ delivered' \in {delivered, delivered \cup {Event(w)}}
    /\ IF attempt[w] < MaxRetries + 1
         THEN attempt' = [attempt EXCEPT ![w] = @ + 1] /\ UNCHANGED pc
         ELSE attempt' = [attempt EXCEPT ![w] = 0] /\ pc' = [pc EXCEPT ![w] = "fail"]
    /\ UNCHANGED <<row, exec, cur, running, last, write, req, calls, faults>>

-----------------------------------------------------------------------------
(* Workers: the transactions that write the job, each a read and a commit. *)

\* Reload the job, count the event and move its checkpoint.  If the row is
\* gone the worker's copy is None from here on: see Prepare.
Record(w) ==
    /\ pc[w] = "record"
    /\ IF Exists(exec[w])
         THEN /\ pc' = [pc EXCEPT ![w] = "recordCommit"]
              /\ write' = [write EXCEPT ![w] =
                    Changes(row[exec[w]], [row[exec[w]] EXCEPT !.lastId = Event(w)])]
              /\ last' = [last EXCEPT ![w] = Event(w)]
              /\ UNCHANGED <<exec, attempt>>
         ELSE Leave(w)
    /\ UNCHANGED <<row, delivered, cur, running, req, calls, faults>>

\* Mutation: the checkpoint of a paused job is the event at hand.
ClosedAtEvent(w) ==
    LET r == row[exec[w]] IN
    CASE pc[w] = "complete"   -> Released(r, "COMPLETED")
      [] pc[w] = "fail"       -> Released(r, "FAILED")
      [] pc[w] = "checkpoint" -> [Released(r, "PAUSED") EXCEPT !.lastId = Event(w)]

\* What _complete_job, _fail_job and _checkpoint_job make of the row they read.
Closed(w) ==
    LET r == row[exec[w]] IN
    CASE pc[w] = "complete"   -> Released(r, "COMPLETED")
      [] pc[w] = "fail"       -> Released(r, "FAILED")
      [] pc[w] = "checkpoint" -> [Released(r, "PAUSED") EXCEPT !.lastId = Position(w)]

CommitOf == [complete |-> "completeCommit", fail |-> "failCommit",
             checkpoint |-> "checkpointCommit"]
Closing  == {"completeCommit", "failCommit", "checkpointCommit"}

\* Their read.  On a missing row the assignment to None raises: out of
\* _fail_job itself the exception escapes, else _fail_job is what runs next.
Close(w) ==
    /\ pc[w] \in DOMAIN CommitOf
    /\ IF Exists(exec[w])
         THEN /\ pc' = [pc EXCEPT ![w] = CommitOf[pc[w]]]
              /\ write' = [write EXCEPT ![w] = Changes(row[exec[w]], Closed(w))]
              /\ UNCHANGED <<exec, last, attempt>>
         ELSE IF pc[w] = "fail" THEN Leave(w) ELSE Goto(w, "fail")
    /\ UNCHANGED <<row, delivered, cur, running, req, calls, faults>>

\* What an exception does that is raised in a worker's transaction.  Rolling back the
\* one that reloads the worker's own copy expires that copy, so that the handler fails
\* on its id and the exception escapes, as it does out of _fail_job.
Raise(w) ==
    \/ pc[w] \in {"prepare", "recordCommit", "fail", "failCommit"} /\ Leave(w)
    \/ /\ pc[w] \notin {"recordCommit", "fail", "failCommit"}
       /\ pc' = [pc EXCEPT ![w] = "fail"]
       /\ attempt' = [attempt EXCEPT ![w] = 0]
       /\ write' = [write EXCEPT ![w] = Nothing]
       /\ UNCHANGED <<exec, last>>

Flush(w) == row' = [row EXCEPT ![exec[w]] = Merge(@, write[w])]

Commit(w) ==
    /\ pc[w] \in Closing \cup {"recordCommit"}
    /\ \/ /\ ~ Exists(exec[w])                       \* StaleDataError
          /\ Raise(w) /\ UNCHANGED <<row, cur>>
       \/ /\ Exists(exec[w]) /\ pc[w] = "recordCommit"
          /\ Flush(w)
          /\ pc' = [pc EXCEPT ![w] = "stream"]
          /\ write' = [write EXCEPT ![w] = Nothing]
          /\ UNCHANGED <<exec, last, attempt, cur>>
       \/ /\ Exists(exec[w]) /\ pc[w] \in Closing
          /\ Flush(w)
          /\ Leave(w)
          /\ cur' = [cur EXCEPT ![w] = NoJob]
    /\ UNCHANGED <<delivered, running, req, calls, faults>>

-----------------------------------------------------------------------------
(* Leases, time, and the ways a worker can go away.                        *)

\* _renew_lease: one UPDATE, conditional on worker_id and on nothing else.
Renew(w) ==
    /\ running[w] /\ cur[w] # NoJob
    /\ row[cur[w]].worker = w
    /\ row[cur[w]].lease # LeaseDuration
    /\ row' = [row EXCEPT ![cur[w]] = [@ EXCEPT !.lease = LeaseDuration]]
    /\ UNCHANGED <<delivered, workerVars, req, calls, faults>>

\* The holder of the lease of j is alive.  With the shipped settings (a lease
\* of 300 s, renewed every 10 s, tasks cancelled 30 s after a stop) its lease
\* does not run out, unless the event loop or the database stalls: Timely.
Held(j) == \E w \in Workers : /\ row[j].worker = w
                              /\ exec[w] = j \/ (running[w] /\ cur[w] = j)

Tick ==
    /\ \E j \in Jobs : row[j].lease > 0
    /\ Timely => \A j \in Jobs : row[j].lease = 1 => ~ Held(j)
    /\ row' = [j \in Jobs |->
                 [row[j] EXCEPT !.lease = IF @ > 0 THEN @ - 1 ELSE @]]
    /\ UNCHANGED <<delivered, workerVars, req, calls, faults>>

Fault(kind) ==
    /\ kind \in FaultKinds /\ faults > 0
    /\ faults' = faults - 1

\* WorkerManager.stop: the loops end at their next look at the flag, the
\* renewal loop first of all.
Stop(w) ==
    /\ running[w]
    /\ Fault("stop")
    /\ running' = [running EXCEPT ![w] = FALSE]
    /\ UNCHANGED <<row, delivered, jobVars, cur, req, calls>>

Halt(w) ==
    /\ Leave(w)
    /\ cur' = [cur EXCEPT ![w] = NoJob]
    /\ UNCHANGED <<row, delivered, req, calls>>

\* The while loop sees the flag between two jobs.
Exit(w) ==
    /\ pc[w] = "idle" /\ ~ running[w] /\ cur[w] # NoJob
    /\ Halt(w)
    /\ UNCHANGED <<running, faults>>

\* The process dies, or its tasks are cancelled 30 s after stop.
Crash(w) ==
    /\ running[w] \/ pc[w] # "idle"
    /\ Fault("crash")
    /\ running' = [running EXCEPT ![w] = FALSE]
    /\ Halt(w)

\* The container comes back; worker ids are the same in every process.
Restart(w) ==
    /\ pc[w] = "idle" /\ ~ running[w] /\ cur[w] = NoJob
    /\ running' = [running EXCEPT ![w] = TRUE]
    /\ UNCHANGED <<row, delivered, jobVars, cur, req, calls, faults>>

\* A database, source or decoding error wherever the worker awaits or parses.
\* An error on commit can hide a commit that took place.
Error(w) ==
    /\ pc[w] # "idle"
    /\ Fault("error")
    /\ IF pc[w] = "fetch" THEN Leave(w) ELSE Raise(w)
    /\ \/ UNCHANGED row
       \/ /\ pc[w] \in Closing \cup {"recordCommit"} /\ Exists(exec[w])
          /\ Flush(w)
    /\ UNCHANGED <<delivered, cur, running, req, calls>>

-----------------------------------------------------------------------------
Init ==
    /\ row = [j \in Jobs |-> EmptyRow("ABSENT")]
    /\ delivered = {}
    /\ pc = [w \in Workers |-> "idle"]
    /\ exec = [w \in Workers |-> NoJob]
    /\ cur = [w \in Workers |-> NoJob]
    /\ running = [w \in Workers |-> TRUE]
    /\ last = [w \in Workers |-> NullId]
    /\ attempt = [w \in Workers |-> 0]
    /\ write = [w \in Workers |-> Nothing]
    /\ req = [c \in Clients |-> NoRequest]
    /\ calls = MaxCalls
    /\ faults = MaxFaults

Request(c) ==
    \E j \in Jobs : \/ StartJob(c, j)  \/ PauseJob(c, j)  \/ ResumeJob(c, j)
                    \/ CancelJob(c, j) \/ UpdateJob(c, j) \/ DeleteJob(c, j)

Rpc(w) == RpcSucceeds(w) \/ RpcDuplicate(w) \/ RpcFails(w)

\* One step of the coroutine start() of a worker.
Step(w) ==
    \/ Acquire(w) \/ Fetch(w) \/ Prepare(w) \/ NextEvent(w) \/ CheckStatus(w)
    \/ Rpc(w) \/ Record(w) \/ Close(w) \/ Commit(w) \/ Exit(w)

Mishap(w) == Stop(w) \/ Crash(w) \/ Error(w)

Next ==
    \/ \E j \in Jobs : CreateJob(j)
    \/ \E c \in Clients : Request(c) \/ ApiCommit(c)
    \/ \E w \in Workers : Step(w) \/ Renew(w) \/ Mishap(w) \/ Restart(w)
    \/ Tick

Spec == Init /\ [][Next]_vars
-----------------------------------------------------------------------------
(* Properties                                                              *)

\* Every column holds what its type allows, a pending write assigns only
\* such values, and the workers' local state is of the shape start() and
\* _execute_job keep it in.
WriteOK(x) ==
    /\ DOMAIN x \subseteq Columns
    /\ "status" \in DOMAIN x => x["status"] \in JobStatus
    /\ "worker" \in DOMAIN x => x["worker"] = NoWorker
    /\ "lease"  \in DOMAIN x => x["lease"] = NullLease
    /\ "lastId" \in DOMAIN x => x["lastId"] \in Ids

Labels == {"idle", "fetch", "prepare", "stream", "check", "replay", "record",
           "recordCommit", "complete", "fail", "checkpoint"} \cup Closing

CoroutinesOK ==
    /\ pc \in [Workers -> Labels]
    /\ exec \in [Workers -> Jobs \cup {NoJob}]
    /\ last \in [Workers -> Ids]
    /\ attempt \in [Workers -> 0 .. MaxRetries + 1]
    /\ write = [w \in Workers |-> write[w]]
    /\ \A w \in Workers : /\ WriteOK(write[w])
                          /\ (exec[w] = NoJob <=> pc[w] = "idle")
                          /\ pc[w] \in {"check", "replay", "record"} => Position(w) < NEvents

RequestsOK ==
    /\ req = [c \in Clients |-> req[c]]
    /\ \A c \in Clients : /\ req[c].job \in Jobs \cup {NoJob}
                          /\ req[c].job = NoJob => req[c] = NoRequest
                          /\ WriteOK(req[c].write)
                          /\ "lastId" \notin DOMAIN req[c].write

RestOK ==
    /\ row \in [Jobs -> Row]
    /\ delivered \subseteq 1 .. NEvents
    /\ cur \in [Workers -> Jobs \cup {NoJob}]
    /\ running \in [Workers -> BOOLEAN]
    /\ calls \in 0 .. MaxCalls /\ faults \in 0 .. MaxFaults

TypeOK == CoroutinesOK /\ RequestsOK /\ RestOK

\* A checkpoint never runs ahead of the target: whatever the order of stale
\* reads, late commits, take-overs and crashes, all events up to the saved
\* last_processed_id have reached the target, so a resume skips none of them
\* ("checkpoint at the last *processed* event", _execute_job).
CheckpointSafe == \A j \in Jobs : Done(row[j].lastId) \subseteq delivered

\* A job is COMPLETED only when its whole window has reached the target, even
\* if the status was written by a worker that had lost the job long before.
CompletedSafe ==
    \A j \in Jobs : row[j].status = "COMPLETED" => 1 .. NEvents \subseteq delivered

\* worker_id and lease_expires_at are set and cleared together, although
\* every flush writes columns one by one against a row it read earlier.
LeaseHasOwner ==
    \A j \in Jobs : row[j].worker = NoWorker <=> row[j].lease = NullLease

\* A RUNNING row has a lease, without which no worker can ever recover it
\* (the second disjunct of the eligibility test of _acquire_job).
RunningIsLeased ==
    \A j \in Jobs : row[j].status = "RUNNING" => row[j].lease # NullLease

\* At most one worker executes a job at a time.
OneExecutor ==
    \A v, w \in Workers : exec[v] = exec[w] /\ exec[v] # NoJob => v = w

\* No two workers are sending events of the same job at the same time.
NeverBothReplaying ==
    \A v, w \in Workers :
        exec[v] = exec[w] /\ pc[v] = "replay" /\ pc[w] = "replay" => v = w

\* The saved checkpoint of a job never moves back.
CheckpointAdvances ==
    [][\A j \in Jobs : row'[j].status # "DELETED" =>
            OrEmpty(row[j].lastId) <= OrEmpty(row'[j].lastId)]_vars

\* Why the two hold: everything that may still be written is covered already.
\* A worker's position, a checkpoint it is about to write and a completion it
\* is about to write are all below what the target has; requests write neither
\* a checkpoint nor a completion; a pending write clears both lease columns or
\* none of them.
Paired(x) == "worker" \in DOMAIN x <=> "lease" \in DOMAIN x

WorkerCovered(w) ==
    /\ 1 .. Position(w) \subseteq delivered
    /\ pc[w] = "record" => Event(w) \in delivered
    /\ pc[w] = "complete" => Position(w) = NEvents
    /\ "lastId" \in DOMAIN write[w] => Done(write[w]["lastId"]) \subseteq delivered
    /\ "status" \in DOMAIN write[w] =>
         (write[w]["status"] = "COMPLETED" => 1 .. NEvents \subseteq delivered)
    /\ Paired(write[w])

RequestCovered(c) ==
    /\ "status" \in DOMAIN req[c].write => req[c].write["status"] # "COMPLETED"
    /\ Paired(req[c].write)

RowsCovered == CheckpointSafe /\ CompletedSafe /\ LeaseHasOwner

Covered ==
    /\ RowsCovered
    /\ \A w \in Workers : WorkerCovered(w)
    /\ \A c \in Clients : RequestCovered(c)

\* A job that has ended stays as it ended until it is deleted: the table of
\* transitions has none from a terminal status (_VALID_TRANSITIONS).
EndedStays ==
    [][\A j \in Jobs : row[j].status \in Terminal =>
            row'[j].status \in {row[j].status, "DELETED"}]_vars

\* The refinement: see ReplayProgress.
Progress == INSTANCE ReplayProgress
              WITH saved <- [j \in Jobs |-> OrEmpty(row[j].lastId)],
                   done  <- [j \in Jobs |-> row[j].status = "COMPLETED"]
ProgressSpec == Progress!Spec

-----------------------------------------------------------------------------
\* Workers, renewal loops, open requests and the clock go on; clients,
\* faults and restarts may stop.
Fairness ==
    /\ \A w \in Workers : WF_vars(Step(w)) /\ WF_vars(Renew(w))
    /\ \A c \in Clients : WF_vars(ApiCommit(c))
    /\ WF_vars(Tick)

FairSpec == Spec /\ Fairness

\* The two ways in which no worker can ever take a job again: it runs without a lease,
\* or its lease is renewed by a worker that no longer executes it.
Unleased(j) == row[j].status = "RUNNING" /\ row[j].lease = NullLease
Forgotten(j) == \E w \in Workers : running[w] /\ cur[w] = j /\ exec[w] # j /\ row[j].worker = w

\* No job is left in the hands of the workers for ever, but in these two ways.
Settled(j) == row[j].status \notin {"QUEUED", "RUNNING"}
EventuallySettled ==
    \A j \in Jobs : <>[]Settled(j) \/ <>[]Unleased(j) \/ <>[]Forgotten(j)
=============================================================================
