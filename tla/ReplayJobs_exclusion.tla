------------------------ MODULE ReplayJobs_exclusion ------------------------
(***************************************************************************)
(* A job has one executor, as long as renewals are in time, requests are   *)
(* handled one at a time and none pauses a job: the conditions of the     *)
(* run jobs_exclusive, for any number of jobs, workers, events and faults. *)
(***************************************************************************)
EXTENDS ReplayJobs_proofs

Exclusive ==
    /\ Timely
    /\ ApiOps \subseteq {"start", "cancel", "delete"}
    /\ \A c, d \in Clients : c = d

-----------------------------------------------------------------------------
(* The invariant.  A job that is being executed has left the queue and does *)
(* not come back to it: no request writes QUEUED unless the row is PENDING, *)
(* and no worker does.  If it is RUNNING, it is its executor who holds it,  *)
(* and its lease is not past.                                               *)

Taken == {"RUNNING", "PAUSED", "DELETED"} \cup Terminal

Writing == Closing \cup {"recordCommit"}

\* Row r agrees with the worker w that executes it.
Suits(r, w) ==
    /\ r.status \in Taken
    /\ r.status = "RUNNING" => r.worker = w /\ r.lease >= 1
    /\ r.status = "RUNNING" /\ pc[w] \in Closing => "status" \in DOMAIN write[w]
    /\ pc[w] \notin {"fetch", "prepare", "fail", "failCommit"} => OrEmpty(r.lastId) <= Position(w)
    /\ pc[w] \in Writing /\ "lastId" \in DOMAIN write[w]
         => OrEmpty(r.lastId) <= OrEmpty(write[w]["lastId"])

\* What a worker is about to write.
Writes(w) ==
    /\ pc[w] = "recordCommit" => DOMAIN write[w] \subseteq {"lastId"}
    /\ pc[w] = "recordCommit" /\ "lastId" \in DOMAIN write[w]
         => OrEmpty(write[w]["lastId"]) <= Position(w)
    /\ pc[w] \in Closing /\ "status" \in DOMAIN write[w]
         => write[w]["status"] \in {"COMPLETED", "FAILED", "PAUSED"}

Executes(w) == exec[w] # NoJob => Suits(row[exec[w]], w) /\ Writes(w)

\* What the request in flight is about to write.
Requests(c) ==
    req[c] # NoRequest /\ req[c].sql # "DELETE" =>
        /\ "status" \in DOMAIN req[c].write
        /\ \/ req[c].write["status"] = "CANCELLED"
           \/ req[c].write["status"] = "QUEUED" /\ row[req[c].job].status = "PENDING"

Excl ==
    /\ \A w \in Workers : Executes(w)
    /\ \A c \in Clients : Requests(c)
    /\ \A j \in Jobs : row[j].status = "ABSENT" => row[j].lastId = NullId
    /\ OneExecutor
    /\ RunningIsLeased

\* No checkpoint moves back: what CheckpointAdvances asks of a step.
Steady ==
    \A j \in Jobs :
        row'[j].status # "DELETED" => OrEmpty(row[j].lastId) <= OrEmpty(row'[j].lastId)

-----------------------------------------------------------------------------
(* Steps that leave the table alone                                        *)

\* What the types say of one job and one worker.
LEMMA Types ==
    ASSUME TypeOK
    PROVE  /\ \A j \in Jobs : row[j] \in Row /\ OrEmpty(row[j].lastId) \in Nat
           /\ \A w \in Workers : Position(w) \in Nat
           /\ row = [j \in Jobs |-> row[j]]
           /\ \A w \in Workers : exec[w] \in Jobs \cup {NoJob} /\ WriteOK(write[w])
           /\ \A w \in Workers : exec[w] # NoJob <=> pc[w] # "idle"
BY IdFacts, RowFields DEF TypeOK, CoroutinesOK, RestOK, Position

\* Only worker w moves, and within its job or out of it.
OnlyMoves(w) ==
    /\ UNCHANGED <<row, req>>
    /\ \A v \in Workers \ {w} :
         /\ pc'[v] = pc[v] /\ exec'[v] = exec[v]
         /\ last'[v] = last[v] /\ write'[v] = write[v]
    /\ exec'[w] \in {exec[w], NoJob}

\* What the mover itself keeps is enough.
LEMMA MoveExcl ==
    ASSUME Excl, TypeOK, NEW w \in Workers, OnlyMoves(w), Executes(w)'
    PROVE  Excl' /\ Steady
<1>1. ASSUME NEW v \in Workers PROVE Executes(v)'
  BY <1>1 DEF OnlyMoves, Excl, Executes, Suits, Writes, Position
<1>2. \A c \in Clients : Requests(c)'
  BY DEF OnlyMoves, Excl, Requests
<1>3. OneExecutor'
  BY DEF OnlyMoves, Excl, OneExecutor
<1>4. Steady
  BY Types DEF OnlyMoves, Steady
<1> QED
  BY <1>1, <1>2, <1>3, <1>4 DEF OnlyMoves, Excl, RunningIsLeased

\* What a flush writes when only the checkpoint changed.
LEMMA OnlyLastId ==
    ASSUME NEW old \in Row, NEW new \in Row, new.status = old.status,
           new.worker = old.worker, new.lease = old.lease
    PROVE  /\ DOMAIN Changes(old, new) \subseteq {"lastId"}
           /\ "lastId" \in DOMAIN Changes(old, new) => Changes(old, new)["lastId"] = new.lastId
BY ChangesFacts DEF Columns

\* A jump, and the way out of a job.
LEMMA LeaveExcl ==
    ASSUME Excl, TypeOK, NEW w \in Workers, Leave(w), UNCHANGED <<row, req>>
    PROVE  Excl' /\ Steady
<1>1. OnlyMoves(w) /\ exec'[w] = NoJob
  BY DEF Leave, OnlyMoves, TypeOK, CoroutinesOK
<1> QED
  BY <1>1, MoveExcl DEF Executes

\* A jump to a label at which nothing is written.
LEMMA GotoExcl ==
    ASSUME Excl, TypeOK, NEW w \in Workers, NEW label, Goto(w, label), UNCHANGED <<row, req>>,
           label \notin Writing,
           pc[w] \in {"fetch", "prepare", "fail", "failCommit"}
             => label \in {"fetch", "prepare", "fail", "failCommit"}
    PROVE  Excl' /\ Steady
<1>1. OnlyMoves(w) /\ pc'[w] = label /\ UNCHANGED <<exec, last, write>>
  BY DEF Goto, OnlyMoves, TypeOK, CoroutinesOK
<1>2. Executes(w)'
  BY <1>1 DEF Excl, Executes, Suits, Writes, Writing, Closing, Position
<1> QED
  BY <1>1, <1>2, MoveExcl

\* An exception: on to _fail_job, or out.
LEMMA RaiseExcl ==
    ASSUME Excl, TypeOK, NEW w \in Workers, pc[w] # "idle", Raise(w), UNCHANGED <<row, req>>
    PROVE  Excl' /\ Steady
<1>1. CASE Leave(w)
  BY <1>1, LeaveExcl
<1>2. CASE ~ Leave(w)
  <2>1. OnlyMoves(w) /\ pc'[w] = "fail" /\ UNCHANGED <<exec, last>>
    BY <1>2 DEF Raise, OnlyMoves, TypeOK, CoroutinesOK
  <2>2. Executes(w)'
    BY <2>1 DEF OnlyMoves, Excl, Executes, Suits, Writes, Writing, Closing
  <2> QED
    BY <2>1, <2>2, MoveExcl
<1> QED
  BY <1>1, <1>2

\* The steps of a coroutine that do not write the table.
LEMMA LocalExcl ==
    ASSUME Excl, TypeOK, NEW w \in Workers,
           \/ Fetch(w) \/ Prepare(w) \/ NextEvent(w) \/ CheckStatus(w)
           \/ Rpc(w) \/ Record(w) \/ Close(w) \/ Exit(w)
    PROVE  Excl' /\ Steady
<1> DEFINE j == exec[w]
<1>0. pc \in [Workers -> Labels] /\ pc[w] \in Labels
  BY DEF TypeOK, CoroutinesOK
<1>1. CASE Fetch(w)
  BY <1>1, LeaveExcl, GotoExcl DEF Fetch, Writing, Closing
<1>2. CASE Prepare(w)
  <2>1. CASE Exists(j)
    <3>1. /\ OnlyMoves(w) /\ pc'[w] = "stream" /\ last'[w] = row[j].lastId
          /\ UNCHANGED <<exec, write>>
      BY <1>2, <2>1, <1>0 DEF Prepare, OnlyMoves, TypeOK, CoroutinesOK
    <3>2. Executes(w)'
      <4>1. j # NoJob => Position(w)' = OrEmpty(row[j].lastId) /\ OrEmpty(row[j].lastId) \in Nat
        BY <3>1, Types DEF Position
      <4> QED
        BY <3>1, <4>1 DEF OnlyMoves, Excl, Executes, Suits, Writes, Writing, Closing
    <3> QED
      BY <3>1, <3>2, MoveExcl
  <2>2. CASE ~ Exists(j)
    BY <1>2, <2>2, LeaveExcl DEF Prepare
  <2> QED
    BY <2>1, <2>2
<1>3. CASE NextEvent(w)
  BY <1>3, GotoExcl DEF NextEvent, Writing, Closing
<1>4. CASE CheckStatus(w)
  <2>1. CASE Leave(w)
    BY <1>4, <2>1, LeaveExcl DEF CheckStatus
  <2>2. CASE \E label \in {"fail", "checkpoint"} : Goto(w, label)
    BY <1>4, <2>2, GotoExcl DEF CheckStatus, Writing, Closing
  <2>3. CASE pc' = [pc EXCEPT ![w] = "replay"] /\ UNCHANGED <<exec, last, write>>
    <3>1. OnlyMoves(w) /\ pc'[w] = "replay"
      BY <1>4, <2>3, <1>0 DEF CheckStatus, OnlyMoves
    <3>2. Executes(w)'
      BY <1>4, <2>3, <3>1 DEF CheckStatus, OnlyMoves, Excl, Executes, Suits, Writes, Writing,
         Closing, Position
    <3> QED
      BY <3>1, <3>2, MoveExcl
  <2> QED
    BY <1>4, <2>1, <2>2, <2>3 DEF CheckStatus
<1>5. CASE Rpc(w)
  <2>1. /\ OnlyMoves(w) /\ pc[w] = "replay" /\ pc'[w] \in {"replay", "record", "fail"}
        /\ UNCHANGED <<row, exec, last, write>>
    BY <1>5, <1>0 DEF Rpc, RpcSucceeds, RpcDuplicate, RpcFails, Replayed, OnlyMoves
  <2>2. Executes(w)'
    BY <2>1 DEF Excl, Executes, Suits, Writes, Writing, Closing, Position
  <2> QED
    BY <2>1, <2>2, MoveExcl
<1>6. CASE Record(w)
  <2>1. CASE Exists(j)
    <3>0. j \in Jobs /\ row[j] \in Row /\ Event(w) \in 1 .. NEvents /\ Event(w) = Position(w) + 1
          /\ Suits(row[j], w)
      BY <1>6, Types, IdFacts, JobsAssumption, EventsAssumption
         DEF Record, TypeOK, CoroutinesOK, Position, Event, Excl, Executes
    <3> DEFINE new == [row[j] EXCEPT !.lastId = Event(w)]
    <3>1. /\ OnlyMoves(w) /\ pc'[w] = "recordCommit" /\ last'[w] = Event(w)
          /\ write'[w] = Changes(row[j], new) /\ exec'[w] = j
      BY <1>6, <2>1, <1>0 DEF Record, OnlyMoves, TypeOK, CoroutinesOK
    <3>2. new \in Row /\ new.lastId = Event(w) /\ new.status = row[j].status
          /\ new.worker = row[j].worker /\ new.lease = row[j].lease
      BY <3>0, IdFacts, EventsAssumption DEF Row
    <3>3. DOMAIN Changes(row[j], new) \subseteq {"lastId"}
          /\ ("lastId" \in DOMAIN Changes(row[j], new) => Changes(row[j], new)["lastId"] = Event(w))
      BY <3>0, <3>2, OnlyLastId
    <3>4. OrEmpty(Event(w)) = Event(w) /\ Position(w)' = Event(w) /\ Position(w) \in Nat
      BY <3>0, <3>1, IdFacts, EventsAssumption, Types DEF Position
    <3>5. OrEmpty(row[j].lastId) <= Position(w) /\ OrEmpty(row[j].lastId) \in Nat
      BY <1>6, <3>0, Types DEF Record, Suits
    <3>6. OrEmpty(row[j].lastId) <= Event(w)
      BY <3>0, <3>4, <3>5
    <3>7. Suits(row[j], w)'
      <4>1. row'[j] = row[j] /\ (row[j])' = row[j]
        BY <3>1 DEF OnlyMoves
      <4> QED
        BY <3>0, <3>1, <3>3, <3>4, <3>6, <4>1 DEF Suits, Closing
    <3>8. Writes(w)'
      BY <3>0, <3>1, <3>3, <3>4 DEF Writes, Closing
    <3>9. Executes(w)'
      BY <3>1, <3>7, <3>8 DEF Executes, OnlyMoves
    <3> QED
      BY <3>1, <3>9, MoveExcl
  <2>2. CASE ~ Exists(j)
    BY <1>6, <2>2, LeaveExcl DEF Record
  <2> QED
    BY <2>1, <2>2
<1>7. CASE Close(w)
  <2>1. CASE Exists(j)
    <3>0. j \in Jobs /\ row[j] \in Row /\ Position(w) \in 0 .. NEvents /\ Suits(row[j], w)
          /\ pc[w] \in {"complete", "fail", "checkpoint"}
      BY <1>7, Types, IdFacts, JobsAssumption
         DEF Close, CommitOf, TypeOK, CoroutinesOK, Position, Excl, Executes
    <3>1. /\ OnlyMoves(w) /\ pc'[w] = CommitOf[pc[w]] /\ UNCHANGED last
          /\ write'[w] = Changes(row[j], Closed(w)) /\ exec'[w] = j
      BY <1>7, <2>1, <1>0 DEF Close, OnlyMoves, TypeOK, CoroutinesOK
    <3>2. /\ Closed(w) \in Row
          /\ Closed(w).status \in {"COMPLETED", "FAILED", "PAUSED"}
          /\ Closed(w).lastId = IF pc[w] = "checkpoint" THEN Position(w) ELSE row[j].lastId
      BY <3>0, ReleasedType, IdFacts DEF Closed, Row, JobStatus
    <3>3. /\ row[j].status = "RUNNING" => "status" \in DOMAIN write'[w]
          /\ "status" \in DOMAIN write'[w] => write'[w]["status"] = Closed(w).status
          /\ "lastId" \in DOMAIN write'[w] => /\ pc[w] = "checkpoint"
                                              /\ write'[w]["lastId"] = Position(w)
      BY <3>0, <3>1, <3>2, ChangesFacts
    <3>4. pc'[w] \in Closing /\ (pc'[w] = "failCommit" <=> pc[w] = "fail")
      BY <3>0, <3>1 DEF CommitOf, Closing
    <3>5. pc[w] # "fail" => OrEmpty(row[j].lastId) <= Position(w)
      BY <3>0 DEF Suits
    <3>6. Position(w)' = Position(w) /\ OrEmpty(Position(w)) = Position(w)
      BY <3>0, <3>1, IdFacts DEF Position
    <3>7. Suits(row[j], w)'
      <4>1. row'[j] = row[j] /\ (row[j])' = row[j]
        BY <3>1 DEF OnlyMoves
      <4> QED
        BY <3>0, <3>1, <3>3, <3>4, <3>5, <3>6, <4>1 DEF Suits, Closing
    <3>8. Writes(w)'
      BY <3>2, <3>3, <3>4 DEF Writes, Closing
    <3>9. Executes(w)'
      BY <3>1, <3>7, <3>8 DEF Executes, OnlyMoves
    <3> QED
      BY <3>1, <3>9, MoveExcl
  <2>2. CASE ~ Exists(j)
    BY <1>7, <2>2, LeaveExcl, GotoExcl DEF Close, Writing, Closing
  <2> QED
    BY <2>1, <2>2
<1>8. CASE Exit(w)
  BY <1>8, LeaveExcl DEF Exit, Halt
<1> QED
  BY <1>1, <1>2, <1>3, <1>4, <1>5, <1>6, <1>7, <1>8

-----------------------------------------------------------------------------
(* Steps that write the table                                              *)

\* A row that changes under its executor stays one that suits it.
LEMMA SuitsStill ==
    ASSUME NEW r, NEW s, NEW w \in Workers, Suits(r, w),
           s.status \in Taken,
           s.status = "RUNNING" => /\ r.status = "RUNNING" /\ s.worker = r.worker
                                   /\ s.lease >= 1,
           OrEmpty(s.lastId) \in Nat, OrEmpty(r.lastId) \in Nat, OrEmpty(s.lastId) <= OrEmpty(r.lastId),
           TypeOK
    PROVE  Suits(s, w)
<1>1. Position(w) \in Nat
  BY Types
<1>2. pc[w] \in Writing /\ "lastId" \in DOMAIN write[w] => OrEmpty(write[w]["lastId"]) \in Nat
  BY IdFacts DEF TypeOK, CoroutinesOK, WriteOK
<1> QED
  BY <1>1, <1>2 DEF Suits

\* One row changes, no worker moves.
LEMMA RowExcl ==
    ASSUME Excl, TypeOK, TypeOK', NEW j \in Jobs, NEW s \in Row, row' = [row EXCEPT ![j] = s],
           UNCHANGED jobVars,
           \A w \in Workers : exec[w] = j => Suits(s, w),
           \A c \in Clients : Requests(c)',
           s.status = "ABSENT" => s.lastId = NullId,
           s.status = "RUNNING" => s.lease # NullLease
    PROVE  Excl'
<1>1. row'[j] = s /\ \A k \in Jobs \ {j} : row'[k] = row[k]
  BY Types
<1>2. ASSUME NEW w \in Workers PROVE Executes(w)'
  <2>1. exec[w] # NoJob => Suits(row'[exec[w]], w)
    BY <1>1, Types DEF Excl, Executes
  <2>2. exec[w] # NoJob => Suits(row[exec[w]], w)' /\ Writes(w)'
    <3>1. exec' = exec /\ pc' = pc /\ write' = write /\ last' = last
      BY DEF jobVars
    <3>2. exec[w] # NoJob => Writes(w)
      BY DEF Excl, Executes
    <3> QED
      BY <2>1, <3>1, <3>2 DEF Suits, Writes, Position
  <2> QED
    BY <2>2 DEF Executes, jobVars
<1>3. OneExecutor'
  BY DEF Excl, OneExecutor, jobVars
<1> QED
  BY <1>1, <1>2, <1>3 DEF Excl, RunningIsLeased

\* A row that is created is executed by nobody.
LEMMA CreateExcl ==
    ASSUME Excl, TypeOK, TypeOK', NEW j \in Jobs, CreateJob(j)
    PROVE  Excl' /\ Steady
<1> DEFINE s == EmptyRow("PENDING")
<1>1. /\ s \in Row /\ s.status = "PENDING" /\ s.lastId = NullId
      /\ row' = [row EXCEPT ![j] = s] /\ row[j].status = "ABSENT" /\ row[j].lastId = NullId
  BY EmptyRowType DEF CreateJob, JobStatus, Excl
<1>2. \A w \in Workers : exec[w] # j
  BY <1>1, JobsAssumption DEF Excl, Executes, Suits, Taken, Terminal
<1>3. \A c \in Clients : Requests(c)'
  BY <1>1, Types DEF Excl, Requests, CreateJob
<1>4. UNCHANGED jobVars
  BY DEF CreateJob, workerVars, jobVars
<1>5. Steady
  <2>1. row'[j] = s /\ \A k \in Jobs \ {j} : row'[k] = row[k]
    BY <1>1, Types
  <2> HIDE DEF s
  <2> QED
    BY <1>1, <2>1, Types DEF Steady
<1> HIDE DEF s
<1> QED
  BY <1>1, <1>2, <1>3, <1>4, <1>5, RowExcl

\* A request that starts or cancels, and one that deletes.
LEMMA RequestExcl ==
    ASSUME Exclusive, Excl, TypeOK, NEW c \in Clients, Request(c)
    PROVE  Excl' /\ Steady
<1>1. PICK j \in Jobs : StartJob(c, j) \/ CancelJob(c, j) \/ DeleteJob(c, j)
  BY DEF Request, Exclusive, PauseJob, ResumeJob, UpdateJob
<1>2. PICK sql \in {"UPDATE", "DELETE"}, new \in Row :
        /\ Submit(c, j, sql, new)
        /\ \/ sql = "DELETE"
           \/ row[j].status # "CANCELLED" /\ new.status = "CANCELLED"
           \/ row[j].status = "PENDING" /\ new.status = "QUEUED"
  <2> DEFINE queued    == [row[j] EXCEPT !.status = "QUEUED"]
             cancelled == Released(row[j], "CANCELLED")
  <2>1. /\ row[j] \in Row
        /\ queued \in Row /\ queued.status = "QUEUED"
        /\ cancelled \in Row /\ cancelled.status = "CANCELLED"
    BY Types, ReleasedType DEF Row, JobStatus
  <2>2. \/ row[j].status = "PENDING" /\ Submit(c, j, "UPDATE", queued)
        \/ row[j].status # "CANCELLED" /\ Submit(c, j, "UPDATE", cancelled)
        \/ Submit(c, j, "DELETE", row[j])
    BY <1>1, Zenon DEF StartJob, CancelJob, DeleteJob, Terminal
  <2> HIDE DEF queued, cancelled
  <2> QED
    BY <2>1, <2>2, Zenon
<1>3. /\ UNCHANGED <<row, workerVars>>
      /\ req' = [req EXCEPT ![c] = [job |-> j, sql |-> sql, write |-> Changes(row[j], new)]]
  BY <1>2 DEF Submit
<1>4. req'[c] = [job |-> j, sql |-> sql, write |-> Changes(row[j], new)]
  BY <1>3 DEF TypeOK, RequestsOK
<1>5. ASSUME NEW d \in Clients PROVE Requests(d)'
  <2>1. d = c
    BY DEF Exclusive
  <2>2. /\ "status" \in DOMAIN Changes(row[j], new) <=> row[j].status # new.status
        /\ "status" \in DOMAIN Changes(row[j], new) => Changes(row[j], new)["status"] = new.status
    BY <1>2, Types, ChangesFacts
  <2> QED
    BY <1>2, <1>3, <1>4, <2>1, <2>2 DEF Requests
<1>6. \A w \in Workers : Executes(w)'
  BY <1>3 DEF Excl, Executes, Suits, Writes, Position, workerVars
<1>7. Steady
  BY <1>3, Types DEF Steady
<1> QED
  BY <1>3, <1>5, <1>6, <1>7 DEF Excl, OneExecutor, RunningIsLeased, workerVars

\* A request's commit leaves an executed row to its executor, or ends the job.
LEMMA ApiCommitExcl ==
    ASSUME Exclusive, Excl, TypeOK, TypeOK', NEW c \in Clients, ApiCommit(c)
    PROVE  Excl' /\ Steady
<1> DEFINE j == req[c].job
           x == req[c].write
           s == IF ~ Exists(j) THEN row[j]
                ELSE IF req[c].sql = "DELETE" THEN EmptyRow("DELETED")
                ELSE Merge(row[j], x)
<1>1. /\ j \in Jobs /\ WriteOK(x) /\ "lastId" \notin DOMAIN x /\ row[j] \in Row
      /\ Requests(c) /\ req[c] # NoRequest
  BY Types DEF ApiCommit, TypeOK, RequestsOK, Excl
<1>2. row' = [row EXCEPT ![j] = s] /\ req' = [req EXCEPT ![c] = NoRequest] /\ UNCHANGED jobVars
  BY DEF ApiCommit, workerVars, jobVars
<1>3. \/ s = row[j]
      \/ s \in Row /\ s.status = "DELETED" /\ s.lastId = NullId
      \/ /\ s \in Row /\ s.lastId = row[j].lastId
         /\ \/ s.status = "CANCELLED"
            \/ s.status = "QUEUED" /\ row[j].status = "PENDING"
  <2>1. CASE ~ Exists(j)
    BY <2>1
  <2>2. CASE Exists(j) /\ req[c].sql = "DELETE"
    BY <2>2, EmptyRowType DEF NoRow
  <2>3. CASE Exists(j) /\ req[c].sql # "DELETE"
    <3>1. s = Merge(row[j], x)
      BY <2>3
    <3>2. row[j].status \in JobStatus
      BY <2>3 DEF Exists
    <3> HIDE DEF s
    <3> QED
      BY <1>1, <2>3, <3>1, <3>2, MergeFacts DEF Requests
  <2> QED
    BY <2>1, <2>2, <2>3
<1> HIDE DEF s
<1>4. s \in Row /\ OrEmpty(s.lastId) \in Nat
  BY <1>1, <1>3, IdFacts, RowFields
<1>5. ASSUME NEW w \in Workers, exec[w] = j PROVE Suits(s, w)
  <2>1. Suits(row[j], w)
    BY <1>1, <1>5, JobsAssumption DEF Excl, Executes
  <2>2. s = row[j] \/ s.status \in {"DELETED", "CANCELLED"}
    BY <1>3, <2>1 DEF Suits, Taken, Terminal
  <2>3. OrEmpty(s.lastId) <= OrEmpty(row[j].lastId)
    <3>1. OrEmpty(NullId) = 0 /\ OrEmpty(row[j].lastId) \in Nat
      BY <1>1, Types DEF OrEmpty
    <3> QED
      BY <1>3, <3>1
  <2> QED
    BY <1>1, <1>4, <2>1, <2>2, <2>3, SuitsStill, Types DEF Taken, Terminal, Suits
<1>6. \A d \in Clients : Requests(d)'
  <2>1. req'[c] = NoRequest
    BY <1>2 DEF TypeOK, RequestsOK
  <2> QED
    BY <2>1 DEF Exclusive, Requests
<1>7. s.status = "ABSENT" => s.lastId = NullId
  BY <1>1, <1>3 DEF Excl
<1>8. s.status = "RUNNING" => s.lease # NullLease
  BY <1>1, <1>3 DEF Excl, RunningIsLeased
<1>9. Steady
  <2>1. row'[j] = s /\ \A k \in Jobs \ {j} : row'[k] = row[k]
    BY <1>1, <1>2, Types
  <2> QED
    BY <1>1, <1>3, <2>1, Types DEF Steady
<1> QED
  BY <1>1, <1>2, <1>4, <1>5, <1>6, <1>7, <1>8, <1>9, RowExcl

\* A row that is eligible is executed by nobody.
LEMMA AcquireExcl ==
    ASSUME Excl, TypeOK, TypeOK', NEW w \in Workers, Acquire(w)
    PROVE  Excl' /\ Steady
<1>1. PICK j \in Jobs : /\ Eligible(j)
                        /\ row' = [row EXCEPT ![j] = Leased(@, w)]
                        /\ exec' = [exec EXCEPT ![w] = j]
  BY DEF Acquire
<1> DEFINE s == Leased(row[j], w)
<1>2. /\ s.status = "RUNNING" /\ s.worker = w /\ s.lease = LeaseDuration
      /\ s.lastId = row[j].lastId
  BY Types, LeasedType
<1>3. row'[j] = s /\ \A k \in Jobs \ {j} : row'[k] = row[k]
  BY <1>1, Types
<1> HIDE DEF s
<1>4. row[j].status \in {"QUEUED", "RUNNING"} /\ \A v \in Workers : exec[v] # j
  BY <1>1, JobsAssumption DEF Eligible, Excl, Executes, Suits, Taken, Terminal
<1>5. /\ exec'[w] = j /\ pc'[w] = "fetch" /\ UNCHANGED <<last, write, req>>
      /\ \A v \in Workers \ {w} : pc'[v] = pc[v] /\ exec'[v] = exec[v]
  BY <1>1 DEF Acquire, TypeOK, CoroutinesOK
<1>6. Executes(w)'
  BY <1>2, <1>3, <1>5, LeaseAssumption DEF Executes, Suits, Writes, Taken, Writing, Closing
<1>7. ASSUME NEW v \in Workers \ {w} PROVE Executes(v)'
  <2>1. exec[v] # NoJob => row'[exec[v]] = row[exec[v]]
    BY <1>3, <1>4, Types
  <2> QED
    BY <1>5, <2>1 DEF Excl, Executes, Suits, Writes, Position
<1>8. \A c \in Clients : Requests(c)'
  <2>1. ASSUME NEW c \in Clients PROVE Requests(c)'
    <3>1. req[c] # NoRequest => req[c].job \in Jobs
      BY DEF TypeOK, RequestsOK
    <3> QED
      BY <1>3, <1>4, <1>5, <3>1 DEF Excl, Requests
  <2> QED
    BY <2>1
<1>9. OneExecutor'
  BY <1>4, <1>5 DEF Excl, OneExecutor
<1>10. RunningIsLeased' /\ \A k \in Jobs : row'[k].status = "ABSENT" => row'[k].lastId = NullId
  BY <1>2, <1>3, LeaseAssumption DEF Excl, RunningIsLeased, NullLease
<1>11. Steady
  BY <1>2, <1>3, <1>4, Types DEF Steady
<1> QED
  BY <1>6, <1>7, <1>8, <1>9, <1>10, <1>11 DEF Excl

\* A commit of the executor, after which it goes on, fails or leaves.
LEMMA FlushExcl ==
    ASSUME Excl, TypeOK, NEW w \in Workers, pc[w] \in Writing, Exists(exec[w]),
           Flush(w), UNCHANGED req,
           \A v \in Workers \ {w} :
              /\ pc'[v] = pc[v] /\ exec'[v] = exec[v]
              /\ last'[v] = last[v] /\ write'[v] = write[v],
           \/ exec'[w] = NoJob
           \/ /\ exec'[w] = exec[w] /\ last'[w] = last[w]
              /\ pc'[w] \in {"fail", "stream"}
              /\ pc'[w] = "stream" => pc[w] = "recordCommit"
    PROVE  Excl' /\ Steady
<1> DEFINE j == exec[w]
           s == Merge(row[j], write[w])
<1>1. j \in Jobs /\ row[j] \in Row /\ WriteOK(write[w]) /\ row[j].status \in JobStatus
  BY Types DEF Writing, Closing, Exists
<1>2. Suits(row[j], w) /\ Writes(w)
  BY <1>1, JobsAssumption DEF Excl, Executes
<1>3. row'[j] = s /\ \A k \in Jobs \ {j} : row'[k] = row[k]
  BY <1>1, Types DEF Flush
<1>4. /\ s \in Row /\ s.status \in JobStatus
      /\ s.status = IF "status" \in DOMAIN write[w] THEN write[w]["status"] ELSE row[j].status
      /\ s.worker = IF "worker" \in DOMAIN write[w] THEN NoWorker ELSE row[j].worker
      /\ s.lease = IF "lease" \in DOMAIN write[w] THEN NullLease ELSE row[j].lease
      /\ s.lastId = IF "lastId" \in DOMAIN write[w] THEN write[w]["lastId"] ELSE row[j].lastId
  BY <1>1, MergeFacts
<1> HIDE DEF s, j
<1>5. s.status = row[j].status \/ s.status \in {"COMPLETED", "FAILED", "PAUSED"}
  <2>1. CASE pc[w] = "recordCommit"
    BY <1>2, <1>4, <2>1 DEF Writes
  <2>2. CASE pc[w] \in Closing
    BY <1>2, <1>4, <2>2 DEF Writes
  <2> QED
    BY <2>1, <2>2 DEF Writing
<1>6. s.status = "RUNNING" => /\ row[j].status = "RUNNING" /\ s.worker = row[j].worker
                              /\ s.lease = row[j].lease
  <2>1. CASE pc[w] = "recordCommit"
    BY <1>2, <1>4, <2>1 DEF Writes
  <2>2. CASE pc[w] \in Closing
    BY <1>2, <1>4, <1>5, <2>2 DEF Writes, Suits
  <2> QED
    BY <2>1, <2>2 DEF Writing
<1>7. OrEmpty(row[j].lastId) <= OrEmpty(s.lastId)
  <2>1. OrEmpty(row[j].lastId) \in Nat
    BY <1>1, Types
  <2> QED
    BY <1>2, <1>4, <2>1 DEF Suits
<1>8. Executes(w)'
  <2>1. CASE exec'[w] = NoJob
    BY <2>1 DEF Executes
  <2>2. CASE exec'[w] = j /\ last'[w] = last[w]
    <3>1. pc'[w] = "fail" \/ (pc[w] = "recordCommit" /\ pc'[w] = "stream")
      BY <1>1, <2>2, JobsAssumption
    <3>2. pc'[w] = "stream" => OrEmpty(s.lastId) <= Position(w)
      BY <1>2, <1>4, <3>1 DEF Suits, Writes
    <3>3. Position(w)' = Position(w)
      BY <2>2 DEF Position
    <3>4. s.status \in Taken
      BY <1>2, <1>5 DEF Suits, Taken, Terminal
    <3>5. s.status = "RUNNING" => s.worker = w /\ s.lease >= 1
      BY <1>2, <1>6 DEF Suits
    <3>6. Suits(row[j], w)'
      <4>1. (row[j])' = s
        BY <1>3, <2>2 DEF j
      <4> QED
        BY <3>1, <3>2, <3>3, <3>4, <3>5, <4>1 DEF Suits, Writing, Closing
    <3>7. Writes(w)'
      BY <3>1 DEF Writes, Closing
    <3> QED
      BY <2>2, <3>6, <3>7 DEF Executes, j
  <2> QED
    BY <2>1, <2>2 DEF j
<1>9. ASSUME NEW v \in Workers \ {w} PROVE Executes(v)'
  <2>1. exec[v] # NoJob => exec[v] # j /\ row'[exec[v]] = row[exec[v]]
    BY <1>3, Types DEF Excl, OneExecutor, j
  <2> QED
    BY <2>1 DEF Excl, Executes, Suits, Writes, Position
<1>10. ASSUME NEW c \in Clients PROVE Requests(c)'
  <2>1. req[c] # NoRequest => req[c].job \in Jobs
    BY DEF TypeOK, RequestsOK
  <2>2. row[j].status # "PENDING"
    BY <1>2 DEF Suits, Taken, Terminal
  <2> QED
    BY <1>3, <2>1, <2>2 DEF Excl, Requests
<1>11. OneExecutor'
  BY DEF Excl, OneExecutor
<1>12. RunningIsLeased' /\ \A k \in Jobs : row'[k].status = "ABSENT" => row'[k].lastId = NullId
  BY <1>3, <1>4, <1>6 DEF Excl, RunningIsLeased, JobStatus
<1>13. Steady
  BY <1>3, <1>5, <1>7, Types DEF Steady
<1> QED
  BY <1>8, <1>9, <1>10, <1>11, <1>12, <1>13 DEF Excl

\* The commits of a worker.
LEMMA CommitExcl ==
    ASSUME Excl, TypeOK, NEW w \in Workers, Commit(w)
    PROVE  Excl' /\ Steady
<1>0. pc[w] \in Writing /\ pc[w] # "idle" /\ UNCHANGED req
  BY DEF Commit, Writing, Closing
<1>1. CASE ~ Exists(exec[w])
  BY <1>0, <1>1, RaiseExcl DEF Commit
<1>2. CASE Exists(exec[w]) /\ pc[w] = "recordCommit"
  <2>1. /\ Flush(w) /\ pc'[w] = "stream" /\ UNCHANGED <<exec, last>>
        /\ \A v \in Workers \ {w} : pc'[v] = pc[v] /\ write'[v] = write[v]
    BY <1>2 DEF Commit, Closing, TypeOK, CoroutinesOK
  <2> QED
    BY <1>0, <1>2, <2>1, FlushExcl
<1>3. CASE Exists(exec[w]) /\ pc[w] \in Closing
  <2>1. /\ Flush(w) /\ exec'[w] = NoJob
        /\ \A v \in Workers \ {w} : /\ pc'[v] = pc[v] /\ exec'[v] = exec[v]
                                    /\ last'[v] = last[v] /\ write'[v] = write[v]
    BY <1>3 DEF Commit, Closing, Leave, TypeOK, CoroutinesOK
  <2> QED
    BY <1>0, <1>3, <2>1, FlushExcl
<1> QED
  BY <1>0, <1>1, <1>2, <1>3 DEF Writing

\* An error, which may hide a commit.
LEMMA ErrorExcl ==
    ASSUME Excl, TypeOK, NEW w \in Workers, Error(w)
    PROVE  Excl' /\ Steady
<1>1. CASE UNCHANGED row
  BY <1>1, LeaveExcl, RaiseExcl DEF Error
<1>2. CASE pc[w] \in Writing /\ Exists(exec[w]) /\ Flush(w)
  <2>1. Raise(w) /\ UNCHANGED req
    BY <1>2 DEF Error, Writing, Closing
  <2>2. /\ \/ exec'[w] = NoJob
           \/ exec'[w] = exec[w] /\ last'[w] = last[w] /\ pc'[w] = "fail"
        /\ \A v \in Workers \ {w} : /\ pc'[v] = pc[v] /\ exec'[v] = exec[v]
                                    /\ last'[v] = last[v] /\ write'[v] = write[v]
    BY <2>1 DEF Raise, Leave, TypeOK, CoroutinesOK
  <2> QED
    BY <1>2, <2>1, <2>2, FlushExcl
<1> QED
  BY <1>1, <1>2 DEF Error, Writing

\* A renewal gives time to whoever holds the row.
LEMMA RenewExcl ==
    ASSUME Excl, TypeOK, TypeOK', NEW w \in Workers, Renew(w)
    PROVE  Excl' /\ Steady
<1> DEFINE j == cur[w]
           s == [row[j] EXCEPT !.lease = LeaseDuration]
<1>1. /\ j \in Jobs /\ row[j] \in Row /\ row' = [row EXCEPT ![j] = s]
      /\ UNCHANGED jobVars /\ UNCHANGED req
  BY Types DEF Renew, TypeOK, RestOK, workerVars, jobVars
<1>2. /\ s \in Row /\ s.status = row[j].status /\ s.worker = row[j].worker
      /\ s.lease = LeaseDuration /\ s.lastId = row[j].lastId
  BY <1>1, IdFacts DEF Row
<1>3. row'[j] = s /\ \A k \in Jobs \ {j} : row'[k] = row[k]
  BY <1>1, Types
<1> HIDE DEF s, j
<1>4. ASSUME NEW v \in Workers, exec[v] = j PROVE Suits(s, v)
  <2>1. Suits(row[j], v)
    BY <1>1, <1>4, JobsAssumption DEF Excl, Executes
  <2> QED
    BY <1>2, <2>1, LeaseAssumption DEF Suits
<1>5. ASSUME NEW c \in Clients PROVE Requests(c)'
  <2>1. req[c] # NoRequest => req[c].job \in Jobs
    BY DEF TypeOK, RequestsOK
  <2> QED
    BY <1>1, <1>2, <1>3, <2>1 DEF Excl, Requests
<1>6. Steady
  BY <1>2, <1>3, Types DEF Steady
<1>7. s.lease # NullLease /\ (s.status = "ABSENT" => s.lastId = NullId)
  BY <1>1, <1>2, LeaseAssumption DEF NullLease, Excl
<1> QED
  BY <1>1, <1>2, <1>4, <1>5, <1>6, <1>7, RowExcl

\* Time: the lease of an executor does not run out under it.
LEMMA TickExcl ==
    ASSUME Exclusive, Excl, TypeOK, Tick
    PROVE  Excl' /\ Steady
<1>0. UNCHANGED <<pc, exec, last, write, req>>
  BY DEF Tick, workerVars
<1>1. ASSUME NEW j \in Jobs
      PROVE  /\ row'[j].status = row[j].status /\ row'[j].worker = row[j].worker
             /\ row'[j].lastId = row[j].lastId
             /\ row'[j].lease = IF row[j].lease > 0 THEN row[j].lease - 1 ELSE row[j].lease
             /\ row[j].lease \in Int
  <2>1. row[j] \in Row /\ row'[j] = [row[j] EXCEPT !.lease = IF @ > 0 THEN @ - 1 ELSE @]
    BY Types DEF Tick
  <2> QED
    BY <2>1, LeaseAssumption DEF Row, Leases, NullLease
<1>2. ASSUME NEW w \in Workers PROVE Executes(w)'
  <2>1. CASE exec[w] = NoJob
    BY <1>0, <2>1 DEF Executes
  <2>2. CASE exec[w] # NoJob
    <3> DEFINE j == exec[w]
    <3>1. j \in Jobs /\ Suits(row[j], w) /\ Writes(w)
      BY <2>2, Types DEF Excl, Executes
    <3>2. row[j].worker = w => row[j].lease # 1
      BY <3>1 DEF Exclusive, Tick, Held
    <3>3. row'[j].status = "RUNNING" => row'[j].worker = w /\ row'[j].lease >= 1
      BY <1>1, <3>1, <3>2 DEF Suits
    <3>4. Suits(row[j], w)' /\ Writes(w)'
      <4>1. row'[exec'[w]] = row'[j]
        BY <1>0
      <4>2. row'[j].status = row[j].status /\ row'[j].lastId = row[j].lastId
        BY <1>1, <3>1
      <4> QED
        BY <1>0, <3>1, <3>3, <4>1, <4>2 DEF Suits, Writes, Position
    <3> QED
      BY <3>4 DEF Executes
  <2> QED
    BY <2>1, <2>2
<1>3. ASSUME NEW c \in Clients PROVE Requests(c)'
  <2>1. req[c] # NoRequest => req[c].job \in Jobs
    BY DEF TypeOK, RequestsOK
  <2> QED
    BY <1>0, <1>1, <2>1 DEF Excl, Requests
<1>4. Steady
  BY <1>1, Types DEF Steady
<1> QED
  BY <1>0, <1>1, <1>2, <1>3, <1>4 DEF Excl, OneExecutor, RunningIsLeased, NullLease

-----------------------------------------------------------------------------
(* The theorems                                                            *)

\* Every step keeps the invariant and is steady.
LEMMA StepExcl ==
    ASSUME Exclusive, Excl, TypeOK, TypeOK', [Next]_vars
    PROVE  Excl' /\ Steady
<1>1. ASSUME NEW w \in Workers, Step(w) PROVE Excl' /\ Steady
  BY <1>1, LocalExcl, AcquireExcl, CommitExcl DEF Step
<1>2. ASSUME NEW w \in Workers, Mishap(w) \/ Restart(w) PROVE Excl' /\ Steady
  <2>1. CASE Stop(w) \/ Restart(w)
    <3>1. UNCHANGED <<row, req, jobVars>>
      BY <2>1 DEF Stop, Restart
    <3>2. OnlyMoves(w) /\ Executes(w)'
      BY <3>1 DEF OnlyMoves, jobVars, Excl, Executes, Suits, Writes, Position
    <3> QED
      BY <3>2, MoveExcl
  <2>2. CASE Crash(w)
    BY <2>2, LeaveExcl DEF Crash, Halt
  <2> QED
    BY <1>2, <2>1, <2>2, ErrorExcl DEF Mishap
<1>3. CASE UNCHANGED vars
  <2>1. UNCHANGED <<row, req, pc, exec, last, write>>
    BY <1>3 DEF vars, workerVars
  <2> QED
    BY <2>1, Types DEF Excl, Executes, Suits, Writes, Position, Requests, OneExecutor,
       RunningIsLeased, Steady
<1> QED
  BY <1>1, <1>2, <1>3, CreateExcl, RequestExcl, ApiCommitExcl, RenewExcl, TickExcl DEF Next

\* No job is executed at first.
LEMMA InitExcl == Init => Excl
<1> SUFFICES ASSUME Init PROVE Excl
  OBVIOUS
<1>1. \A j \in Jobs : row[j].status = "ABSENT" /\ row[j].lastId = NullId
  BY EmptyRowType DEF Init, NoRow
<1> QED
  BY <1>1 DEF Init, Excl, Executes, Requests, OneExecutor, RunningIsLeased

\* The invariant holds of every behaviour: whoever executes a job has taken it
\* out of the queue, and holds its lease while it is RUNNING.
THEOREM ExclAlways ==
    ASSUME Exclusive
    PROVE  Spec => [](TypeOK /\ Excl)
<1>1. Init => Excl
  BY InitExcl
<1>2. TypeOK /\ TypeOK' /\ Excl /\ [Next]_vars => Excl'
  BY StepExcl
<1> QED
  BY <1>1, <1>2, TypeCorrect, PTL DEF Spec

\* No two workers execute one job, across crashes, restarts, stops, errors
\* and leases that run out.
THEOREM OneExecutorAlways ==
    ASSUME Exclusive
    PROVE  Spec => []OneExecutor
<1>1. Excl => OneExecutor
  BY DEF Excl
<1> QED
  BY <1>1, ExclAlways, PTL

\* A RUNNING row has a lease, so that it can be recovered when that is past.
THEOREM RunningIsLeasedAlways ==
    ASSUME Exclusive
    PROVE  Spec => []RunningIsLeased
<1>1. Excl => RunningIsLeased
  BY DEF Excl
<1> QED
  BY <1>1, ExclAlways, PTL

\* No checkpoint moves back, even when a commit comes late.
THEOREM CheckpointAdvancesAlways ==
    ASSUME Exclusive
    PROVE  Spec => CheckpointAdvances
<1>1. TypeOK /\ TypeOK' /\ Excl /\ [Next]_vars
        => [\A j \in Jobs : row'[j].status # "DELETED" =>
              OrEmpty(row[j].lastId) <= OrEmpty(row'[j].lastId)]_vars
  BY StepExcl DEF Steady
<1> QED
  BY <1>1, ExclAlways, TypeCorrect, PTL DEF Spec, CheckpointAdvances
=============================================================================
