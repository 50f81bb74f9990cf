-------------------------- MODULE ReplayJobs_proofs --------------------------
(***************************************************************************)
(* Proofs about ReplayJobs, for any number of jobs, workers, clients,      *)
(* events, retries, requests and faults.                                   *)
(***************************************************************************)
EXTENDS ReplayJobs, TLAPS

-----------------------------------------------------------------------------
(* Rows and writes                                                         *)

\* The set Ids, and what is done at an id, as arithmetic.
LEMMA IdFacts ==
    /\ NullId \in Ids
    /\ \A id \in Ids : OrEmpty(id) \in 0 .. NEvents /\ OrEmpty(id) \in Ids
    /\ \A e \in 0 .. NEvents : e \in Ids /\ OrEmpty(e) = e
    /\ Done(NullId) = {}
    /\ NullLease \in Leases /\ LeaseDuration \in Leases
BY EventsAssumption, LeaseAssumption DEF Ids, NullId, OrEmpty, Done, Leases, NullLease

\* A row is what its four columns say.
LEMMA RowFields ==
    ASSUME NEW r \in Row
    PROVE  /\ r.status \in JobStatus \cup NoRow /\ r.worker \in Workers \cup {NoWorker}
           /\ r.lease \in Leases /\ r.lastId \in Ids
BY DEF Row

LEMMA EmptyRowType ==
    ASSUME NEW s \in JobStatus \cup NoRow
    PROVE  /\ EmptyRow(s) \in Row
           /\ EmptyRow(s).status = s /\ EmptyRow(s).worker = NoWorker
           /\ EmptyRow(s).lease = NullLease /\ EmptyRow(s).lastId = NullId
BY IdFacts DEF EmptyRow, Row

LEMMA ReleasedType ==
    ASSUME NEW r \in Row, NEW s \in JobStatus
    PROVE  /\ Released(r, s) \in Row
           /\ Released(r, s).status = s /\ Released(r, s).worker = NoWorker
           /\ Released(r, s).lease = NullLease /\ Released(r, s).lastId = r.lastId
BY IdFacts DEF Released, Row

LEMMA LeasedType ==
    ASSUME NEW r \in Row, NEW w \in Workers
    PROVE  /\ Leased(r, w) \in Row
           /\ Leased(r, w).status = "RUNNING" /\ Leased(r, w).worker = w
           /\ Leased(r, w).lease = LeaseDuration /\ Leased(r, w).lastId = r.lastId
BY IdFacts DEF Leased, Row, JobStatus

\* Nothing writes nothing.
LEMMA NothingOK == WriteOK(Nothing) /\ DOMAIN Nothing = {}
BY DEF Nothing, WriteOK

\* The columns of a flush are the ones that changed, with their new values.
LEMMA ChangesFacts ==
    ASSUME NEW old \in Row, NEW new \in Row
    PROVE  LET x == Changes(old, new) IN
           /\ DOMAIN x \subseteq Columns
           /\ "status" \in DOMAIN x <=> old.status # new.status
           /\ "worker" \in DOMAIN x <=> old.worker # new.worker
           /\ "lease"  \in DOMAIN x <=> old.lease # new.lease
           /\ "lastId" \in DOMAIN x <=> old.lastId # new.lastId
           /\ "status" \in DOMAIN x => x["status"] = new.status
           /\ "worker" \in DOMAIN x => x["worker"] = new.worker
           /\ "lease"  \in DOMAIN x => x["lease"] = new.lease
           /\ "lastId" \in DOMAIN x => x["lastId"] = new.lastId
BY DEF Changes, Columns

\* Such a flush is well typed when only nulls go to the lease columns.
LEMMA ChangesOK ==
    ASSUME NEW old \in Row, NEW new \in Row,
           new.status \in JobStatus,
           new.worker \in {old.worker, NoWorker},
           new.lease \in {old.lease, NullLease}
    PROVE  WriteOK(Changes(old, new))
BY ChangesFacts, RowFields DEF WriteOK

\* The columns of a merged row come from the write or else from the row.
LEMMA MergeFacts ==
    ASSUME NEW r \in Row, NEW x, WriteOK(x), r.status \in JobStatus
    PROVE  /\ Merge(r, x) \in Row
           /\ Merge(r, x).status \in JobStatus
           /\ Merge(r, x).status = IF "status" \in DOMAIN x THEN x["status"] ELSE r.status
           /\ Merge(r, x).worker = IF "worker" \in DOMAIN x THEN NoWorker ELSE r.worker
           /\ Merge(r, x).lease = IF "lease" \in DOMAIN x THEN NullLease ELSE r.lease
           /\ Merge(r, x).lastId = IF "lastId" \in DOMAIN x THEN x["lastId"] ELSE r.lastId
BY IdFacts DEF Merge, WriteOK, Row

-----------------------------------------------------------------------------
(* Type correctness                                                        *)

\* A worker that executes something executes a job.
LEMMA Busy ==
    ASSUME TypeOK, NEW w \in Workers, pc[w] # "idle"
    PROVE  exec[w] \in Jobs /\ row[exec[w]] \in Row
BY DEF TypeOK, CoroutinesOK, RestOK, RequestsOK

\* Going back to polling keeps the coroutines' types.
LEMMA LeaveOK ==
    ASSUME CoroutinesOK, NEW w \in Workers, Leave(w)
    PROVE  CoroutinesOK'
<1>1. write' = [write EXCEPT ![w] = Nothing]
  BY DEF Leave
<1>2. ASSUME NEW v \in Workers
      PROVE  WriteOK(write[v])'
  BY <1>1, NothingOK DEF CoroutinesOK, WriteOK
<1>3. QED
  BY <1>2, IdFacts, RetriesAssumption DEF CoroutinesOK, Leave, Position, Labels

\* So does a jump to a label that asks for nothing more.
LEMMA GotoOK ==
    ASSUME CoroutinesOK, NEW w \in Workers, pc[w] # "idle",
           NEW label \in Labels \ {"idle", "check", "replay", "record"},
           Goto(w, label)
    PROVE  CoroutinesOK'
BY DEF CoroutinesOK, Goto, Position

LEMMA RaiseOK ==
    ASSUME CoroutinesOK, NEW w \in Workers, pc[w] # "idle", Raise(w)
    PROVE  CoroutinesOK'
<1>1. CASE Leave(w)
  BY <1>1, LeaveOK
<1>2. CASE ~ Leave(w)
  <2>1. \A v \in Workers : WriteOK(write'[v]) /\ write' = [u \in Workers |-> write'[u]]
    BY <1>2, NothingOK DEF Raise, CoroutinesOK
  <2>2. QED
    BY <1>2, <2>1, RetriesAssumption DEF Raise, CoroutinesOK, Position, Labels
<1>3. QED
  BY <1>1, <1>2

\* A request that reaches its write holds a well-typed one.
LEMMA SubmitOK ==
    ASSUME TypeOK, NEW c \in Clients, NEW j \in Jobs, NEW sql, NEW new \in Row,
           new.status \in JobStatus,
           new.worker \in {row[j].worker, NoWorker},
           new.lease \in {row[j].lease, NullLease},
           new.lastId = row[j].lastId,
           Submit(c, j, sql, new)
    PROVE  TypeOK'
<1>1. row[j] \in Row
  BY DEF TypeOK, CoroutinesOK, RequestsOK, RestOK
<1>2. WriteOK(Changes(row[j], new)) /\ "lastId" \notin DOMAIN Changes(row[j], new)
  BY <1>1, ChangesOK, ChangesFacts
<1>3. RequestsOK'
  BY <1>2, JobsAssumption DEF TypeOK, RequestsOK, Submit, CoroutinesOK, RestOK
<1>4. CoroutinesOK' /\ RestOK'
  BY BoundsAssumption DEF TypeOK, CoroutinesOK, RestOK, Submit, workerVars, Position, RequestsOK
<1>5. QED
  BY <1>3, <1>4 DEF TypeOK, CoroutinesOK, RequestsOK, RestOK

LEMMA RequestOK ==
    ASSUME TypeOK, NEW c \in Clients, Request(c)
    PROVE  TypeOK'
<1>1. PICK j \in Jobs : \/ StartJob(c, j)  \/ PauseJob(c, j)  \/ ResumeJob(c, j)
                        \/ CancelJob(c, j) \/ UpdateJob(c, j) \/ DeleteJob(c, j)
  BY DEF Request
<1>2. row[j] \in Row
  BY DEF TypeOK, CoroutinesOK, RequestsOK, RestOK
<1> DEFINE queued == [row[j] EXCEPT !.status = "QUEUED"]
<1>3. /\ queued \in Row /\ queued.status = "QUEUED" /\ queued.worker = row[j].worker
      /\ queued.lease = row[j].lease /\ queued.lastId = row[j].lastId
  BY <1>2 DEF Row, JobStatus
<1>4. CASE StartJob(c, j) \/ ResumeJob(c, j)
  BY <1>3, <1>4, SubmitOK DEF StartJob, ResumeJob, JobStatus
<1>5. CASE PauseJob(c, j)
  BY <1>2, <1>5, SubmitOK, ReleasedType DEF PauseJob, JobStatus
<1>6. CASE CancelJob(c, j)
  BY <1>2, <1>6, SubmitOK, ReleasedType DEF CancelJob, JobStatus
<1>7. CASE UpdateJob(c, j)
  <2>1. PICK target \in ValidTransitions[row[j].status] :
          Submit(c, j, "UPDATE", IF target = "QUEUED" THEN [row[j] EXCEPT !.status = target]
                                                      ELSE Released(row[j], target))
    BY <1>7 DEF UpdateJob
  <2>2. target \in {"QUEUED", "CANCELLED", "PAUSED"}
    BY <2>1, <1>7 DEF ValidTransitions, UpdateJob, Exists, JobStatus
  <2>3. CASE target = "QUEUED"
    BY <2>1, <2>3, <1>3, SubmitOK DEF JobStatus
  <2>4. CASE target \in {"CANCELLED", "PAUSED"}
    BY <2>1, <2>4, <1>2, SubmitOK, ReleasedType DEF JobStatus
  <2>5. QED
    BY <2>2, <2>3, <2>4
<1>8. CASE DeleteJob(c, j)
  BY <1>2, <1>8, SubmitOK DEF DeleteJob, Terminal, JobStatus
<1>9. QED
  BY <1>1, <1>4, <1>5, <1>6, <1>7, <1>8

\* A worker's flush leaves a well-typed table.
LEMMA FlushOK ==
    ASSUME TypeOK, NEW w \in Workers, pc[w] # "idle", Exists(exec[w]), Flush(w)
    PROVE  row' \in [Jobs -> Row]
<1>1. exec[w] \in Jobs /\ row[exec[w]] \in Row
  BY Busy
<1>2. Merge(row[exec[w]], write[w]) \in Row
  BY <1>1, MergeFacts DEF TypeOK, Exists, CoroutinesOK, RequestsOK, RestOK
<1>3. QED
  BY <1>1, <1>2 DEF Flush, TypeOK, CoroutinesOK, RequestsOK, RestOK

LEMMA ApiCommitOK ==
    ASSUME TypeOK, NEW c \in Clients, ApiCommit(c)
    PROVE  TypeOK'
<1> DEFINE j == req[c].job
<1>1. j \in Jobs /\ row[j] \in Row
  BY DEF TypeOK, ApiCommit, CoroutinesOK, RequestsOK, RestOK
<1>2. Exists(j) => Merge(row[j], req[c].write) \in Row
  BY <1>1, MergeFacts DEF TypeOK, Exists, CoroutinesOK, RequestsOK, RestOK
<1>3. row' \in [Jobs -> Row]
  BY <1>1, <1>2, EmptyRowType DEF ApiCommit, TypeOK, NoRow, CoroutinesOK, RequestsOK, RestOK
<1>4. RequestsOK'
  BY NothingOK DEF ApiCommit, TypeOK, RequestsOK, NoRequest, CoroutinesOK, RestOK
<1>5. CoroutinesOK'
  BY DEF ApiCommit, TypeOK, CoroutinesOK, workerVars, Position, RequestsOK, RestOK
<1>6. QED
  BY <1>3, <1>4, <1>5 DEF ApiCommit, TypeOK, CoroutinesOK, RequestsOK, workerVars, RestOK

\* What a closing transaction makes of the row it read.
LEMMA ClosedType ==
    ASSUME CoroutinesOK, NEW w \in Workers, row[exec[w]] \in Row,
           pc[w] \in {"complete", "fail", "checkpoint"}
    PROVE  /\ Closed(w) \in Row /\ Closed(w).status \in JobStatus
           /\ Closed(w).worker = NoWorker /\ Closed(w).lease = NullLease
           /\ Closed(w).lastId \in {row[exec[w]].lastId, Position(w)}
           /\ Closed(w).status = "COMPLETED" => pc[w] = "complete"
<1>1. Position(w) \in Ids
  BY IdFacts DEF CoroutinesOK, Position
<1>2. CASE pc[w] = "complete"
  BY <1>2, ReleasedType DEF Closed, JobStatus
<1>3. CASE pc[w] = "fail"
  BY <1>3, ReleasedType DEF Closed, JobStatus
<1>4. CASE pc[w] = "checkpoint"
  <2>1. Closed(w) = [Released(row[exec[w]], "PAUSED") EXCEPT !.lastId = Position(w)]
    BY <1>4 DEF Closed
  <2>2. /\ Released(row[exec[w]], "PAUSED") \in Row
        /\ Released(row[exec[w]], "PAUSED").status = "PAUSED"
        /\ Released(row[exec[w]], "PAUSED").worker = NoWorker
        /\ Released(row[exec[w]], "PAUSED").lease = NullLease
    BY ReleasedType DEF JobStatus
  <2>3. QED
    BY <1>1, <2>1, <2>2 DEF Row, JobStatus
<1>5. QED
  BY <1>2, <1>3, <1>4

\* A step of a worker's coroutine keeps every type.
LEMMA StepOK ==
    ASSUME TypeOK, NEW w \in Workers, Step(w)
    PROVE  TypeOK'
<1> USE DEF TypeOK
<1>1. CASE Acquire(w)
  <2>1. PICK j \in Jobs :
           /\ row' = [row EXCEPT ![j] = Leased(@, w)]
           /\ exec' = [exec EXCEPT ![w] = j]
    BY <1>1 DEF Acquire
  <2>2. Leased(row[j], w) \in Row
    BY LeasedType DEF RestOK
  <2>3. RestOK'
    BY <1>1, <2>1, <2>2 DEF Acquire, RestOK
  <2>4. CoroutinesOK'
    BY <1>1, <2>1, JobsAssumption DEF Acquire, CoroutinesOK, Labels, Position
  <2>5. RequestsOK'
    BY <1>1 DEF Acquire, RequestsOK
  <2>6. QED
    BY <2>3, <2>4, <2>5
<1>2. CASE Fetch(w)
  <2>1. CoroutinesOK'
    BY <1>2, LeaveOK, GotoOK DEF Fetch, Labels
  <2>2. QED
    BY <1>2, <2>1, Busy DEF Fetch, RestOK, RequestsOK
<1>3. CASE Prepare(w)
  <2>1. CASE Exists(exec[w])
    <3>1. row[exec[w]].lastId \in Ids
      BY <1>3, Busy, RowFields DEF Prepare
    <3>2. CoroutinesOK'
      BY <1>3, <2>1, <3>1 DEF Prepare, CoroutinesOK, Labels, Position
    <3>3. QED
      BY <1>3, <3>2 DEF Prepare, RestOK, RequestsOK
  <2>2. CASE ~ Exists(exec[w])
    BY <1>3, <2>2, LeaveOK DEF Prepare, RestOK, RequestsOK
  <2>3. QED
    BY <2>1, <2>2
<1>4. CASE NextEvent(w)
  <2>1. Position(w) \in 0 .. NEvents
    BY IdFacts DEF CoroutinesOK, Position
  <2>2. CoroutinesOK'
    BY <1>4, <2>1, EventsAssumption DEF NextEvent, CoroutinesOK, Goto, Labels, Position
  <2>3. QED
    BY <1>4, <2>2 DEF NextEvent, RestOK, RequestsOK
<1>5. CASE CheckStatus(w)
  <2>1. CoroutinesOK'
    <3>1. CASE Goto(w, "fail") \/ Goto(w, "checkpoint")
      BY <1>5, <3>1, GotoOK DEF CheckStatus, Labels
    <3>2. CASE Leave(w)
      BY <3>2, LeaveOK
    <3>3. CASE /\ pc' = [pc EXCEPT ![w] = "replay"]
               /\ attempt' = [attempt EXCEPT ![w] = 1]
               /\ UNCHANGED <<exec, last, write>>
      BY <1>5, <3>3, RetriesAssumption DEF CheckStatus, CoroutinesOK, Labels, Position
    <3>4. QED
      BY <1>5, <3>1, <3>2, <3>3 DEF CheckStatus
  <2>2. cur' \in [Workers -> Jobs \cup {NoJob}]
    BY <1>5 DEF CheckStatus, RestOK
  <2>3. QED
    BY <1>5, <2>1, <2>2 DEF CheckStatus, RestOK, RequestsOK
<1>6. CASE Rpc(w)
  <2>1. Event(w) \in 1 .. NEvents /\ pc[w] = "replay"
    BY <1>6, IdFacts, EventsAssumption
    DEF Rpc, RpcSucceeds, RpcDuplicate, RpcFails, CoroutinesOK, Position, Event
  <2>2. delivered' \subseteq 1 .. NEvents
    BY <1>6, <2>1 DEF Rpc, RpcSucceeds, RpcDuplicate, RpcFails, RestOK
  <2>3. CoroutinesOK'
    BY <1>6, <2>1, RetriesAssumption
    DEF Rpc, RpcSucceeds, RpcDuplicate, RpcFails, Replayed, CoroutinesOK, Labels, Position
  <2>4. QED
    BY <1>6, <2>2, <2>3
    DEF Rpc, RpcSucceeds, RpcDuplicate, RpcFails, Replayed, RestOK, RequestsOK
<1>7. CASE Record(w)
  <2>1. CASE Exists(exec[w])
    <3> DEFINE new == [row[exec[w]] EXCEPT !.lastId = Event(w)]
    <3>1. row[exec[w]] \in Row /\ row[exec[w]].status \in JobStatus
      BY <1>7, <2>1, Busy DEF Record, Exists
    <3>2. Event(w) \in 1 .. NEvents /\ Event(w) \in Ids
      BY <1>7, IdFacts, EventsAssumption DEF Record, CoroutinesOK, Position, Event
    <3>3. /\ new \in Row /\ new.status = row[exec[w]].status
          /\ new.worker = row[exec[w]].worker /\ new.lease = row[exec[w]].lease
      BY <3>1, <3>2 DEF Row
    <3>4. WriteOK(Changes(row[exec[w]], new))
      BY <3>1, <3>3, ChangesOK
    <3>5. CoroutinesOK'
      BY <1>7, <2>1, <3>2, <3>4 DEF Record, CoroutinesOK, Labels, Closing, Position
    <3>6. QED
      BY <1>7, <3>5 DEF Record, RestOK, RequestsOK
  <2>2. CASE ~ Exists(exec[w])
    BY <1>7, <2>2, LeaveOK DEF Record, RestOK, RequestsOK
  <2>3. QED
    BY <2>1, <2>2
<1>8. CASE Close(w)
  <2>1. pc[w] \in {"complete", "fail", "checkpoint"}
    BY <1>8 DEF Close, CommitOf
  <2>2. CASE Exists(exec[w])
    <3>1. row[exec[w]] \in Row
      BY <2>1, Busy
    <3>2. /\ Closed(w) \in Row /\ Closed(w).status \in JobStatus
          /\ Closed(w).worker = NoWorker /\ Closed(w).lease = NullLease
      BY <2>1, <3>1, ClosedType
    <3>3. WriteOK(Changes(row[exec[w]], Closed(w)))
      BY <3>1, <3>2, ChangesOK
    <3>4. CommitOf[pc[w]] \in Closing
      BY <2>1 DEF CommitOf, Closing
    <3>5. CoroutinesOK'
      BY <1>8, <2>1, <2>2, <3>3, <3>4 DEF Close, CoroutinesOK, Labels, Closing, Position
    <3>6. QED
      BY <1>8, <3>5 DEF Close, RestOK, RequestsOK
  <2>3. CASE ~ Exists(exec[w])
    <3>1. CoroutinesOK'
      BY <1>8, <2>1, <2>3, LeaveOK, GotoOK DEF Close, Labels
    <3>2. QED
      BY <1>8, <3>1 DEF Close, RestOK, RequestsOK
  <2>4. QED
    BY <2>2, <2>3
<1>9. CASE Commit(w)
  <2>1. pc[w] # "idle"
    BY <1>9 DEF Commit, Closing
  <2>2. CoroutinesOK'
    <3>1. CASE Raise(w)
      BY <2>1, <3>1, RaiseOK
    <3>2. CASE Leave(w)
      BY <3>2, LeaveOK
    <3>3. CASE /\ pc' = [pc EXCEPT ![w] = "stream"]
               /\ write' = [write EXCEPT ![w] = Nothing]
               /\ UNCHANGED <<exec, last, attempt>>
      <4>1. /\ \A v \in Workers : WriteOK(write'[v])
            /\ write' = [u \in Workers |-> write'[u]]
        BY <3>3, NothingOK DEF CoroutinesOK
      <4>2. QED
        BY <2>1, <3>3, <4>1 DEF CoroutinesOK, Labels, Position
    <3>4. QED
      BY <1>9, <3>1, <3>2, <3>3 DEF Commit
  <2>3. row' \in [Jobs -> Row] /\ cur' \in [Workers -> Jobs \cup {NoJob}]
    BY <1>9, <2>1, FlushOK DEF Commit, RestOK
  <2>4. QED
    BY <1>9, <2>2, <2>3 DEF Commit, RestOK, RequestsOK
<1>10. CASE Exit(w)
  BY <1>10, LeaveOK DEF Exit, Halt, RestOK, RequestsOK
<1>11. QED
  BY <1>1, <1>2, <1>3, <1>4, <1>5, <1>6, <1>7, <1>8, <1>9, <1>10 DEF Step

\* Renewals, the clock, creation of jobs, and the ways a worker goes away.
LEMMA OtherOK ==
    ASSUME TypeOK,
           \/ \E j \in Jobs : CreateJob(j)
           \/ \E w \in Workers : Renew(w) \/ Mishap(w) \/ Restart(w)
           \/ Tick
    PROVE  TypeOK'
<1> USE DEF TypeOK
<1>1. ASSUME NEW j \in Jobs, CreateJob(j)
      PROVE  TypeOK'
  <2>1. EmptyRow("PENDING") \in Row
    BY EmptyRowType DEF JobStatus
  <2>2. QED
    BY <1>1, <2>1
    DEF CreateJob, CoroutinesOK, RequestsOK, RestOK, workerVars, Position
<1>2. ASSUME NEW w \in Workers, Renew(w)
      PROVE  TypeOK'
  <2>1. cur[w] \in Jobs /\ row[cur[w]] \in Row
    BY <1>2 DEF Renew, RestOK
  <2>2. [row[cur[w]] EXCEPT !.lease = LeaseDuration] \in Row
    BY <2>1, IdFacts DEF Row
  <2>3. QED
    BY <1>2, <2>1, <2>2
    DEF Renew, CoroutinesOK, RequestsOK, RestOK, workerVars, Position
<1>3. ASSUME NEW w \in Workers, Stop(w) \/ Restart(w)
      PROVE  TypeOK'
  <2>1. CoroutinesOK'
    BY <1>3 DEF Stop, Restart, jobVars, CoroutinesOK, Position
  <2>2. RequestsOK'
    BY <1>3 DEF Stop, Restart, RequestsOK
  <2>3. RestOK'
    <3>1. running' \in [Workers -> BOOLEAN]
      <4>1. PICK b \in BOOLEAN : running' = [running EXCEPT ![w] = b]
        BY <1>3, Zenon DEF Stop, Restart
      <4>2. QED
        BY <4>1, Zenon DEF RestOK
    <3>2. faults' \in 0 .. MaxFaults
      BY <1>3, BoundsAssumption DEF Stop, Restart, Fault, RestOK
    <3>3. QED
      BY <1>3, <3>1, <3>2 DEF Stop, Restart, RestOK
  <2>4. QED
    BY <2>1, <2>2, <2>3
<1>4. ASSUME NEW w \in Workers, Crash(w)
      PROVE  TypeOK'
  <2>1. CoroutinesOK'
    BY <1>4, LeaveOK DEF Crash, Halt
  <2>2. QED
    BY <1>4, <2>1, BoundsAssumption DEF Crash, Halt, Fault, RequestsOK, RestOK
<1>5. ASSUME NEW w \in Workers, Error(w)
      PROVE  TypeOK'
  <2>1. CoroutinesOK'
    BY <1>5, LeaveOK, RaiseOK DEF Error
  <2>2. row' \in [Jobs -> Row]
    BY <1>5, FlushOK DEF Error, RestOK
  <2>3. QED
    BY <1>5, <2>1, <2>2, BoundsAssumption DEF Error, Fault, RequestsOK, RestOK
<1>6. ASSUME Tick
      PROVE  TypeOK'
  <2>1. ASSUME NEW j \in Jobs
        PROVE  [row[j] EXCEPT !.lease = IF @ > 0 THEN @ - 1 ELSE @] \in Row
    <3>1. row[j] \in Row /\ row[j].lease \in Leases
      BY RowFields DEF RestOK
    <3>2. (IF row[j].lease > 0 THEN row[j].lease - 1 ELSE row[j].lease) \in Leases
      BY <3>1, LeaseAssumption DEF Leases, NullLease
    <3>3. QED
      BY <3>1, <3>2 DEF Row
  <2>2. row' \in [Jobs -> Row]
    BY <1>6, <2>1 DEF Tick
  <2>3. QED
    BY <1>6, <2>2 DEF Tick, CoroutinesOK, RequestsOK, RestOK, workerVars, Position
<1>7. QED
  BY <1>1, <1>2, <1>3, <1>4, <1>5, <1>6 DEF Mishap

\* Every column and every local variable always holds what its type allows.
THEOREM TypeCorrect == Spec => []TypeOK
<1>1. Init => TypeOK
  BY IdFacts, EmptyRowType, NothingOK, EventsAssumption, RetriesAssumption, BoundsAssumption,
     JobsAssumption
  DEF Init, TypeOK, CoroutinesOK, RequestsOK, RestOK, Labels, NoRow, NoRequest, Position
<1>2. TypeOK /\ [Next]_vars => TypeOK'
  <2> SUFFICES ASSUME TypeOK, [Next]_vars
               PROVE  TypeOK'
    OBVIOUS
  <2>1. CASE Next
    BY <2>1, RequestOK, ApiCommitOK, StepOK, OtherOK DEF Next
  <2>2. CASE UNCHANGED vars
    BY <2>2 DEF vars, workerVars, TypeOK, CoroutinesOK, RequestsOK, RestOK, Position
  <2>3. QED
    BY <2>1, <2>2
<1>3. QED
  BY <1>1, <1>2, PTL DEF Spec

-----------------------------------------------------------------------------
(* Nothing is claimed that was not delivered                               *)

\* What a row may claim.
RowCovered(r) ==
    /\ Done(r.lastId) \subseteq delivered
    /\ r.status = "COMPLETED" => 1 .. NEvents \subseteq delivered
    /\ r.worker = NoWorker <=> r.lease = NullLease

LEMMA RowsAreCovered == RowsCovered <=> \A j \in Jobs : RowCovered(row[j])
BY DEF RowsCovered, CheckpointSafe, CompletedSafe, LeaseHasOwner, RowCovered

\* A write to one row keeps the table covered.
LEMMA RowWritten ==
    ASSUME TypeOK, RowsCovered, NEW j \in Jobs, NEW r,
           row' = [row EXCEPT ![j] = r], UNCHANGED delivered, RowCovered(r)
    PROVE  RowsCovered'
BY RowsAreCovered
DEF TypeOK, RestOK, RowsCovered, CheckpointSafe, CompletedSafe, LeaseHasOwner, RowCovered

\* A flush that is covered, on a row that is, leaves it so.
LEMMA MergeCovered ==
    ASSUME NEW r \in Row, r.status \in JobStatus, RowCovered(r),
           NEW x, WriteOK(x), Paired(x),
           "lastId" \in DOMAIN x => Done(x["lastId"]) \subseteq delivered,
           "status" \in DOMAIN x =>
             (x["status"] = "COMPLETED" => 1 .. NEvents \subseteq delivered)
    PROVE  RowCovered(Merge(r, x))
BY MergeFacts DEF RowCovered, Paired

LEMMA FlushCovered ==
    ASSUME TypeOK, Covered, NEW w \in Workers, pc[w] # "idle", Exists(exec[w]),
           Flush(w), UNCHANGED delivered
    PROVE  RowsCovered'
<1>1. exec[w] \in Jobs /\ row[exec[w]] \in Row
  BY Busy
<1>2. RowCovered(row[exec[w]])
  BY <1>1, RowsAreCovered DEF Covered
<1>3. RowCovered(Merge(row[exec[w]], write[w]))
  BY <1>1, <1>2, MergeCovered
  DEF Covered, WorkerCovered, Exists, TypeOK, CoroutinesOK
<1>4. QED
  BY <1>1, <1>3, RowWritten DEF Flush, Covered

\* What a worker's step leaves to check: the worker itself.
LEMMA OnlyWorker ==
    ASSUME TypeOK, Covered, NEW w \in Workers, delivered \subseteq delivered',
           UNCHANGED req, RowsCovered', WorkerCovered(w)',
           \A v \in Workers \ {w} : /\ pc'[v] = pc[v] /\ last'[v] = last[v]
                                    /\ write'[v] = write[v]
    PROVE  Covered'
<1>1. \A v \in Workers \ {w} : WorkerCovered(v)'
  BY DEF Covered, WorkerCovered, Position, Event
<1>2. \A c \in Clients : RequestCovered(c)'
  BY DEF Covered, RequestCovered
<1>3. QED
  BY <1>1, <1>2 DEF Covered

LEMMA OnlyRows ==
    ASSUME Covered, RowsCovered', UNCHANGED <<delivered, pc, last, write, req>>
    PROVE  Covered'
BY DEF Covered, WorkerCovered, RequestCovered, Position, Event

\* A worker that has nothing in hand is covered.
LEMMA LeaveCovered ==
    ASSUME TypeOK, NEW w \in Workers, Leave(w)
    PROVE  /\ WorkerCovered(w)'
           /\ \A v \in Workers \ {w} : /\ pc'[v] = pc[v] /\ last'[v] = last[v]
                                       /\ write'[v] = write[v]
<1>1. pc'[w] = "idle" /\ last'[w] = NullId /\ write'[w] = Nothing
  BY DEF Leave, TypeOK, CoroutinesOK
<1>2. 1 .. Position(w)' = {}
  BY <1>1 DEF Position, OrEmpty
<1>3. WorkerCovered(w)'
  BY <1>1, <1>2, NothingOK DEF WorkerCovered, Paired
<1>4. QED
  BY <1>3 DEF Leave, TypeOK, CoroutinesOK

LEMMA GotoCovered ==
    ASSUME TypeOK, Covered, NEW w \in Workers, NEW label, Goto(w, label),
           label \notin {"record", "complete"}, UNCHANGED delivered
    PROVE  /\ WorkerCovered(w)'
           /\ \A v \in Workers \ {w} : /\ pc'[v] = pc[v] /\ last'[v] = last[v]
                                       /\ write'[v] = write[v]
BY DEF Goto, TypeOK, CoroutinesOK, Covered, WorkerCovered, Position, Event

LEMMA RaiseCovered ==
    ASSUME TypeOK, Covered, NEW w \in Workers, Raise(w), UNCHANGED delivered
    PROVE  /\ WorkerCovered(w)'
           /\ \A v \in Workers \ {w} : /\ pc'[v] = pc[v] /\ last'[v] = last[v]
                                       /\ write'[v] = write[v]
<1>1. CASE Leave(w)
  BY <1>1, LeaveCovered
<1>2. CASE ~ Leave(w)
  <2>1. pc'[w] = "fail" /\ last'[w] = last[w] /\ write'[w] = Nothing
    BY <1>2 DEF Raise, TypeOK, CoroutinesOK
  <2>2. WorkerCovered(w)'
    BY <2>1, NothingOK DEF Covered, WorkerCovered, Paired, Position
  <2>3. QED
    BY <1>2, <2>2 DEF Raise, TypeOK, CoroutinesOK
<1>3. QED
  BY <1>1, <1>2

\* A worker's step that writes no row and delivers nothing.
LEMMA LocalStep ==
    ASSUME TypeOK, Covered, NEW w \in Workers,
           \/ Fetch(w) \/ Prepare(w) \/ NextEvent(w) \/ CheckStatus(w)
           \/ Record(w) \/ Close(w) \/ Exit(w)
    PROVE  Covered'
<1> DEFINE Others == \A v \in Workers \ {w} : /\ pc'[v] = pc[v] /\ last'[v] = last[v]
                                              /\ write'[v] = write[v]
<1>1. UNCHANGED <<row, delivered, req>>
  BY DEF Fetch, Prepare, NextEvent, CheckStatus, Record, Close, Exit, Halt
<1>2. RowsCovered'
  BY <1>1 DEF Covered, RowsCovered, CheckpointSafe, CompletedSafe, LeaseHasOwner
<1>3. WorkerCovered(w)' /\ Others
  <2>1. CASE Leave(w)
    BY <2>1, LeaveCovered
  <2>2. CASE Fetch(w)
    BY <1>1, <2>1, <2>2, GotoCovered DEF Fetch
  <2>3. CASE Prepare(w)
    <3>1. CASE Exists(exec[w])
      <4>1. exec[w] \in Jobs
        BY <2>3, Busy DEF Prepare
      <4>2. /\ pc'[w] = "stream" /\ last'[w] = row[exec[w]].lastId /\ write'[w] = write[w]
            /\ Others
        BY <2>3, <3>1 DEF Prepare, TypeOK, CoroutinesOK
      <4>3. 1 .. Position(w)' \subseteq delivered
        BY <4>1, <4>2 DEF Covered, RowsCovered, CheckpointSafe, Done, Position
      <4>4. QED
        BY <1>1, <4>2, <4>3 DEF Covered, WorkerCovered
    <3>2. QED
      BY <2>1, <2>3, <3>1 DEF Prepare
  <2>4. CASE NextEvent(w)
    BY <1>1, <2>4 DEF NextEvent, Goto, TypeOK, CoroutinesOK, Covered, WorkerCovered, Position
  <2>5. CASE CheckStatus(w)
    <3>1. CASE /\ pc' = [pc EXCEPT ![w] = "replay"]
               /\ UNCHANGED <<last, write>>
      BY <1>1, <3>1 DEF TypeOK, CoroutinesOK, Covered, WorkerCovered, Position
    <3>2. QED
      BY <1>1, <2>1, <2>5, <3>1, GotoCovered DEF CheckStatus
  <2>6. CASE Record(w)
    <3>1. CASE Exists(exec[w])
      <4> DEFINE new == [row[exec[w]] EXCEPT !.lastId = Event(w)]
      <4>1. row[exec[w]] \in Row
        BY <2>6, Busy DEF Record
      <4>2. Event(w) \in 1 .. NEvents /\ Event(w) \in Ids /\ OrEmpty(Event(w)) = Event(w)
        BY <2>6, IdFacts, EventsAssumption
        DEF Record, TypeOK, CoroutinesOK, Position, Event
      <4>3. 1 .. Event(w) \subseteq delivered
        <5>1. 1 .. Position(w) \subseteq delivered /\ Event(w) \in delivered
          BY <2>6 DEF Covered, WorkerCovered, Record
        <5>2. Position(w) \in 0 .. NEvents
          BY IdFacts DEF TypeOK, CoroutinesOK, Position
        <5>3. QED
          BY <5>1, <5>2, EventsAssumption DEF Event
      <4>4. /\ new \in Row /\ new.status = row[exec[w]].status /\ new.lastId = Event(w)
            /\ new.worker = row[exec[w]].worker /\ new.lease = row[exec[w]].lease
        BY <4>1, <4>2 DEF Row
      <4> HIDE DEF new
      <4>5. /\ pc'[w] = "recordCommit" /\ last'[w] = Event(w)
            /\ write'[w] = Changes(row[exec[w]], new) /\ Others
        BY <2>6, <3>1 DEF Record, TypeOK, CoroutinesOK, new
      <4>6. Position(w)' = Event(w)
        BY <4>2, <4>5 DEF Position
      <4>7. QED
        BY <1>1, <4>1, <4>2, <4>3, <4>4, <4>5, <4>6, ChangesFacts
        DEF WorkerCovered, Paired, Done
    <3>2. QED
      BY <2>1, <2>6, <3>1 DEF Record
  <2>7. CASE Close(w)
    <3>1. CASE Exists(exec[w])
      <4> DEFINE new == Closed(w)
      <4>1. /\ pc[w] \in {"complete", "fail", "checkpoint"}
            /\ CommitOf[pc[w]] \notin {"record", "complete"}
        BY <2>7 DEF Close, CommitOf
      <4>2. exec[w] \in Jobs /\ row[exec[w]] \in Row
        BY <4>1, Busy
      <4>3. /\ new \in Row /\ new.worker = NoWorker /\ new.lease = NullLease
            /\ new.lastId \in {row[exec[w]].lastId, Position(w)}
            /\ new.status = "COMPLETED" => pc[w] = "complete"
        BY <4>1, <4>2, ClosedType DEF TypeOK
      <4> HIDE DEF new
      <4>4. /\ pc'[w] = CommitOf[pc[w]] /\ last'[w] = last[w]
            /\ write'[w] = Changes(row[exec[w]], new) /\ Others
        BY <2>7, <3>1 DEF Close, TypeOK, CoroutinesOK, new
      <4>5. Done(new.lastId) \subseteq delivered
        <5>1. Done(Position(w)) = 1 .. Position(w)
          BY IdFacts DEF TypeOK, CoroutinesOK, Position, Done
        <5>2. QED
          BY <4>2, <4>3, <5>1 DEF Covered, WorkerCovered, RowsCovered, CheckpointSafe
      <4>6. new.status = "COMPLETED" => 1 .. NEvents \subseteq delivered
        BY <4>3 DEF Covered, WorkerCovered
      <4>7. row[exec[w]].worker = NoWorker <=> row[exec[w]].lease = NullLease
        BY <4>2 DEF Covered, RowsCovered, LeaseHasOwner
      <4>8. Paired(Changes(row[exec[w]], new))
        BY <4>2, <4>3, <4>7, ChangesFacts DEF Paired
      <4>9. 1 .. Position(w)' \subseteq delivered
        BY <4>4 DEF Covered, WorkerCovered, Position
      <4>10. QED
        BY <1>1, <4>1, <4>2, <4>3, <4>4, <4>5, <4>6, <4>8, <4>9, ChangesFacts
        DEF WorkerCovered
    <3>2. CASE ~ Exists(exec[w])
      BY <1>1, <2>1, <2>7, <3>2, GotoCovered DEF Close
    <3>3. QED
      BY <3>1, <3>2
  <2>8. CASE Exit(w)
    BY <2>1, <2>8 DEF Exit, Halt
  <2>9. QED
    BY <2>2, <2>3, <2>4, <2>5, <2>6, <2>7, <2>8
<1>4. QED
  BY <1>1, <1>2, <1>3, OnlyWorker

\* An attempt at the replayer can only add the worker's event.
LEMMA RpcCovered ==
    ASSUME TypeOK, Covered, NEW w \in Workers, Rpc(w)
    PROVE  Covered'
<1>1. UNCHANGED <<row, req, last, write>> /\ delivered \subseteq delivered'
  BY DEF Rpc, RpcSucceeds, RpcDuplicate, RpcFails, Replayed
<1>2. RowsCovered'
  BY <1>1 DEF Covered, RowsCovered, CheckpointSafe, CompletedSafe, LeaseHasOwner
<1>3. /\ pc'[w] \in {"replay", "record", "fail"}
      /\ pc'[w] = "record" => Event(w) \in delivered'
      /\ \A v \in Workers \ {w} : pc'[v] = pc[v]
  BY DEF Rpc, RpcSucceeds, RpcDuplicate, RpcFails, Replayed, TypeOK, CoroutinesOK
<1>4. WorkerCovered(w)'
  BY <1>1, <1>3 DEF Covered, WorkerCovered, Position, Event
<1>5. QED
  BY <1>1, <1>2, <1>3, <1>4, OnlyWorker

LEMMA CommitCovered ==
    ASSUME TypeOK, Covered, NEW w \in Workers, Commit(w)
    PROVE  Covered'
<1> DEFINE Others == \A v \in Workers \ {w} : /\ pc'[v] = pc[v] /\ last'[v] = last[v]
                                              /\ write'[v] = write[v]
<1>1. UNCHANGED <<delivered, req>> /\ pc[w] # "idle"
  BY DEF Commit, Closing
<1>2. RowsCovered'
  BY <1>1, FlushCovered
  DEF Commit, Covered, RowsCovered, CheckpointSafe, CompletedSafe, LeaseHasOwner
<1>3. WorkerCovered(w)' /\ Others
  <2>1. CASE Raise(w)
    BY <1>1, <2>1, RaiseCovered
  <2>2. CASE Leave(w)
    BY <2>2, LeaveCovered
  <2>3. CASE /\ pc' = [pc EXCEPT ![w] = "stream"]
             /\ write' = [write EXCEPT ![w] = Nothing]
             /\ UNCHANGED last
    <3>1. pc'[w] = "stream" /\ write'[w] = Nothing /\ last'[w] = last[w] /\ Others
      BY <2>3 DEF TypeOK, CoroutinesOK
    <3>2. QED
      BY <1>1, <3>1, NothingOK DEF Covered, WorkerCovered, Paired, Position
  <2>4. QED
    BY <2>1, <2>2, <2>3 DEF Commit
<1>4. QED
  BY <1>1, <1>2, <1>3, OnlyWorker

LEMMA AcquireCovered ==
    ASSUME TypeOK, Covered, NEW w \in Workers, Acquire(w)
    PROVE  Covered'
<1>1. PICK j \in Jobs : row' = [row EXCEPT ![j] = Leased(@, w)]
  BY DEF Acquire
<1>2. row[j] \in Row
  BY DEF TypeOK, RestOK
<1>3. RowCovered(Leased(row[j], w))
  <2>1. RowCovered(row[j])
    BY RowsAreCovered DEF Covered
  <2>2. w # NoWorker /\ LeaseDuration # NullLease
    BY WorkersAssumption, LeaseAssumption DEF NullLease
  <2>3. QED
    BY <1>2, <2>1, <2>2, LeasedType DEF RowCovered
<1>4. RowsCovered'
  BY <1>1, <1>3, RowWritten DEF Acquire, Covered
<1>5. /\ pc'[w] = "fetch" /\ UNCHANGED <<delivered, last, write, req>>
      /\ \A v \in Workers \ {w} : pc'[v] = pc[v]
  BY DEF Acquire, TypeOK, CoroutinesOK
<1>6. WorkerCovered(w)'
  BY <1>5 DEF Covered, WorkerCovered, Position
<1>7. QED
  BY <1>4, <1>5, <1>6, OnlyWorker

\* A request's write is fixed when the row is read.
LEMMA SubmitCovered ==
    ASSUME TypeOK, Covered, NEW c \in Clients, NEW j \in Jobs, NEW sql, NEW new \in Row,
           \/ new = row[j]
           \/ new.status = "QUEUED" /\ new.worker = row[j].worker /\ new.lease = row[j].lease
           \/ /\ new.status # "COMPLETED" 
              /\ new.worker = NoWorker /\ new.lease = NullLease,
           Submit(c, j, sql, new)
    PROVE  Covered'
<1>1. row[j] \in Row /\ (row[j].worker = NoWorker <=> row[j].lease = NullLease)
  BY DEF TypeOK, RestOK, Covered, RowsCovered, LeaseHasOwner
<1> DEFINE x == Changes(row[j], new)
<1>2. /\ "status" \in DOMAIN x => x["status"] # "COMPLETED"
      /\ Paired(x)
  BY <1>1, ChangesFacts DEF Paired
<1> HIDE DEF x
<1>3. /\ req'[c].write = x
      /\ \A d \in Clients \ {c} : req'[d] = req[d]
      /\ UNCHANGED <<row, delivered, pc, last, write>>
  BY DEF Submit, TypeOK, RequestsOK, workerVars, x
<1>4. \A d \in Clients : RequestCovered(d)'
  BY <1>2, <1>3 DEF Covered, RequestCovered
<1>5. \A w \in Workers : WorkerCovered(w)'
  BY <1>3 DEF Covered, WorkerCovered, Position, Event
<1>6. RowsCovered'
  BY <1>3 DEF Covered, RowsCovered, CheckpointSafe, CompletedSafe, LeaseHasOwner
<1>7. QED
  BY <1>4, <1>5, <1>6 DEF Covered

LEMMA RequestIsCovered ==
    ASSUME TypeOK, Covered, NEW c \in Clients, Request(c)
    PROVE  Covered'
<1>1. PICK j \in Jobs : \/ StartJob(c, j)  \/ PauseJob(c, j)  \/ ResumeJob(c, j)
                        \/ CancelJob(c, j) \/ UpdateJob(c, j) \/ DeleteJob(c, j)
  BY DEF Request
<1>2. row[j] \in Row
  BY DEF TypeOK, RestOK
<1> DEFINE queued == [row[j] EXCEPT !.status = "QUEUED"]
<1>3. /\ queued \in Row /\ queued.status = "QUEUED" /\ queued.worker = row[j].worker
      /\ queued.lease = row[j].lease
  BY <1>2 DEF Row, JobStatus
<1>4. ASSUME NEW s \in {"PAUSED", "CANCELLED"}
      PROVE  /\ Released(row[j], s) \in Row /\ Released(row[j], s).status # "COMPLETED"
             /\ Released(row[j], s).worker = NoWorker /\ Released(row[j], s).lease = NullLease
  BY <1>2, ReleasedType DEF JobStatus
<1>5. CASE StartJob(c, j) \/ ResumeJob(c, j)
  BY <1>3, <1>5, SubmitCovered DEF StartJob, ResumeJob
<1>6. CASE PauseJob(c, j)
  BY <1>4, <1>6, SubmitCovered DEF PauseJob
<1>7. CASE CancelJob(c, j)
  BY <1>4, <1>7, SubmitCovered DEF CancelJob
<1>8. CASE UpdateJob(c, j)
  <2>1. PICK target \in ValidTransitions[row[j].status] :
          Submit(c, j, "UPDATE", IF target = "QUEUED" THEN [row[j] EXCEPT !.status = target]
                                                      ELSE Released(row[j], target))
    BY <1>8 DEF UpdateJob
  <2>2. target \in {"QUEUED", "CANCELLED", "PAUSED"}
    BY <2>1, <1>8 DEF ValidTransitions, UpdateJob, Exists, JobStatus
  <2>3. QED
    BY <2>1, <2>2, <1>3, <1>4, SubmitCovered
<1>9. CASE DeleteJob(c, j)
  BY <1>2, <1>9, SubmitCovered DEF DeleteJob
<1>10. QED
  BY <1>1, <1>5, <1>6, <1>7, <1>8, <1>9

LEMMA ApiCommitCovered ==
    ASSUME TypeOK, Covered, NEW c \in Clients, ApiCommit(c)
    PROVE  Covered'
<1> DEFINE j == req[c].job
<1>1. j \in Jobs /\ row[j] \in Row /\ RowCovered(row[j])
  BY RowsAreCovered DEF TypeOK, RestOK, RequestsOK, ApiCommit, Covered
<1>2. RowCovered(EmptyRow("DELETED"))
  BY EmptyRowType, IdFacts DEF RowCovered, NoRow
<1>3. Exists(j) => RowCovered(Merge(row[j], req[c].write))
  BY <1>1, MergeCovered DEF TypeOK, RequestsOK, Covered, RequestCovered, Exists
<1> DEFINE r == IF ~ Exists(j) THEN row[j]
                ELSE IF req[c].sql = "DELETE" THEN EmptyRow("DELETED")
                ELSE Merge(row[j], req[c].write)
<1>4. row' = [row EXCEPT ![j] = r] /\ RowCovered(r)
  <2>1. row' = [row EXCEPT ![j] = r]
    BY DEF ApiCommit
  <2>2. r \in {row[j], EmptyRow("DELETED"), Merge(row[j], req[c].write)}
    OBVIOUS
  <2>3. r = Merge(row[j], req[c].write) /\ r # row[j] /\ r # EmptyRow("DELETED") => Exists(j)
    OBVIOUS
  <2> HIDE DEF r
  <2>4. QED
    BY <1>1, <1>2, <1>3, <2>1, <2>2, <2>3
<1>5. RowsCovered'
  BY <1>1, <1>4, RowWritten DEF ApiCommit, Covered
<1>6. \A w \in Workers : WorkerCovered(w)'
  BY DEF ApiCommit, workerVars, Covered, WorkerCovered, Position, Event
<1>7. \A d \in Clients : RequestCovered(d)'
  BY NothingOK
  DEF ApiCommit, TypeOK, RequestsOK, Covered, RequestCovered, NoRequest, Paired
<1>8. QED
  BY <1>5, <1>6, <1>7 DEF Covered

LEMMA OtherCovered ==
    ASSUME TypeOK, Covered,
           \/ \E j \in Jobs : CreateJob(j)
           \/ \E w \in Workers : Renew(w) \/ Mishap(w) \/ Restart(w)
           \/ Tick
    PROVE  Covered'
<1>1. ASSUME NEW j \in Jobs, CreateJob(j)
      PROVE  Covered'
  <2>1. RowCovered(EmptyRow("PENDING"))
    BY EmptyRowType, IdFacts DEF RowCovered, JobStatus
  <2>2. RowsCovered'
    BY <1>1, <2>1, RowWritten DEF CreateJob, Covered
  <2>3. QED
    BY <1>1, <2>2, OnlyRows DEF CreateJob, workerVars
<1>2. ASSUME NEW w \in Workers, Renew(w)
      PROVE  Covered'
  <2> DEFINE r == [row[cur[w]] EXCEPT !.lease = LeaseDuration]
  <2>1. cur[w] \in Jobs /\ row[cur[w]] \in Row /\ RowCovered(row[cur[w]])
    BY <1>2, RowsAreCovered DEF Renew, TypeOK, RestOK, Covered
  <2>2. /\ r.status = row[cur[w]].status /\ r.worker = w
        /\ r.lease = LeaseDuration /\ r.lastId = row[cur[w]].lastId
    BY <1>2, <2>1 DEF Renew, Row
  <2>3. RowCovered(r)
    <3>1. w # NoWorker /\ LeaseDuration # NullLease
      BY WorkersAssumption, LeaseAssumption DEF NullLease
    <3>2. QED
      BY <2>1, <2>2, <3>1 DEF RowCovered
  <2>4. RowsCovered'
    BY <1>2, <2>1, <2>3, RowWritten DEF Renew, Covered
  <2>5. QED
    BY <1>2, <2>4, OnlyRows DEF Renew, workerVars
<1>3. ASSUME NEW w \in Workers, Stop(w) \/ Restart(w)
      PROVE  Covered'
  BY <1>3, OnlyRows
  DEF Stop, Restart, jobVars, Covered, RowsCovered, CheckpointSafe, CompletedSafe, LeaseHasOwner
<1>4. ASSUME NEW w \in Workers, Crash(w)
      PROVE  Covered'
  <2>1. RowsCovered' /\ UNCHANGED <<delivered, req>>
    BY <1>4 DEF Crash, Halt, Covered, RowsCovered, CheckpointSafe, CompletedSafe, LeaseHasOwner
  <2>2. QED
    BY <1>4, <2>1, LeaveCovered, OnlyWorker DEF Crash, Halt
<1>5. ASSUME NEW w \in Workers, Error(w)
      PROVE  Covered'
  <2>1. RowsCovered' /\ UNCHANGED <<delivered, req>>
    BY <1>5, FlushCovered
    DEF Error, Covered, RowsCovered, CheckpointSafe, CompletedSafe, LeaseHasOwner
  <2>2. QED
    BY <1>5, <2>1, LeaveCovered, RaiseCovered, OnlyWorker DEF Error
<1>6. ASSUME Tick
      PROVE  Covered'
  <2>1. ASSUME NEW j \in Jobs
        PROVE  RowCovered(row'[j])
    <3>1. row[j] \in Row /\ RowCovered(row[j])
      BY RowsAreCovered DEF TypeOK, RestOK, Covered
    <3>2. row'[j] = [row[j] EXCEPT !.lease = IF @ > 0 THEN @ - 1 ELSE @]
      BY <1>6 DEF Tick
    <3>3. /\ row'[j].status = row[j].status /\ row'[j].worker = row[j].worker
          /\ row'[j].lastId = row[j].lastId
          /\ row'[j].lease = IF row[j].lease > 0 THEN row[j].lease - 1 ELSE row[j].lease
      BY <3>1, <3>2 DEF Row
    <3>4. row'[j].lease = NullLease <=> row[j].lease = NullLease
      BY <3>1, <3>3, LeaseAssumption DEF Row, Leases, NullLease
    <3>5. QED
      BY <3>1, <3>3, <3>4 DEF RowCovered
  <2>2. RowsCovered'
    BY <1>6, <2>1 DEF Tick, RowsCovered, CheckpointSafe, CompletedSafe, LeaseHasOwner, RowCovered
  <2>3. QED
    BY <1>6, <2>2, OnlyRows DEF Tick, workerVars
<1>7. QED
  BY <1>1, <1>2, <1>3, <1>4, <1>5, <1>6 DEF Mishap

\* Everything written, or about to be, is covered by what the target has.
THEOREM CoveredAlways == Spec => []Covered
<1>1. Init => Covered
  BY EmptyRowType, IdFacts, NothingOK
  DEF Init, Covered, RowsCovered, CheckpointSafe, CompletedSafe, LeaseHasOwner, NoRow,
      WorkerCovered, RequestCovered, Paired, Position, OrEmpty, NoRequest
<1>2. TypeOK /\ Covered /\ [Next]_vars => Covered'
  <2> SUFFICES ASSUME TypeOK, Covered, [Next]_vars
               PROVE  Covered'
    OBVIOUS
  <2>1. CASE \E w \in Workers : Step(w)
    BY <2>1, LocalStep, RpcCovered, CommitCovered, AcquireCovered DEF Step
  <2>2. CASE \E c \in Clients : Request(c) \/ ApiCommit(c)
    BY <2>2, RequestIsCovered, ApiCommitCovered
  <2>3. CASE \/ \E j \in Jobs : CreateJob(j)
             \/ \E w \in Workers : Renew(w) \/ Mishap(w) \/ Restart(w)
             \/ Tick
    BY <2>3, OtherCovered
  <2>4. CASE UNCHANGED vars
    BY <2>4, OnlyRows
    DEF vars, workerVars, Covered, RowsCovered, CheckpointSafe, CompletedSafe, LeaseHasOwner
  <2>5. QED
    BY <2>1, <2>2, <2>3, <2>4 DEF Next
<1>3. QED
  BY <1>1, <1>2, TypeCorrect, PTL DEF Spec

\* A checkpoint never runs ahead of the target.
THEOREM CheckpointIsSafe == Spec => []CheckpointSafe
BY CoveredAlways, PTL DEF Covered, RowsCovered

\* COMPLETED means that the whole window reached the target.
THEOREM CompletedIsSafe == Spec => []CompletedSafe
BY CoveredAlways, PTL DEF Covered, RowsCovered

\* The two lease columns are set and cleared together.
THEOREM LeaseIsOwned == Spec => []LeaseHasOwner
BY CoveredAlways, PTL DEF Covered, RowsCovered

-----------------------------------------------------------------------------
(* ReplayJobs implements ReplayProgress                                    *)

Saved == [j \in Jobs |-> OrEmpty(row[j].lastId)]
Completed == [j \in Jobs |-> row[j].status = "COMPLETED"]

\* Apart from the clock a step writes at most one row.
LEMMA OneRowAtATime ==
    ASSUME TypeOK, Next
    PROVE  \/ UNCHANGED row
           \/ Tick
           \/ \E j \in Jobs : \E r : row' = [row EXCEPT ![j] = r]
<1>1. CASE \E j \in Jobs : CreateJob(j)
  BY <1>1 DEF CreateJob
<1>2. CASE \E c \in Clients : Request(c)
  BY <1>2 DEF Request, StartJob, PauseJob, ResumeJob, CancelJob, UpdateJob, DeleteJob, Submit
<1>3. ASSUME NEW c \in Clients, ApiCommit(c)
      PROVE  \E j \in Jobs : \E r : row' = [row EXCEPT ![j] = r]
  <2>1. req[c].job \in Jobs
    BY <1>3 DEF ApiCommit, TypeOK, RequestsOK
  <2>2. QED
    BY <1>3, <2>1 DEF ApiCommit
<1>4. ASSUME NEW w \in Workers, Step(w)
      PROVE  UNCHANGED row \/ \E j \in Jobs : \E r : row' = [row EXCEPT ![j] = r]
  <2>1. CASE Acquire(w)
    BY <2>1 DEF Acquire
  <2>2. CASE Commit(w)
    <3>1. exec[w] \in Jobs
      BY <2>2, Busy DEF Commit, Closing
    <3>2. QED
      BY <2>2, <3>1 DEF Commit, Flush
  <2>3. QED
    BY <1>4, <2>1, <2>2
    DEF Step, Fetch, Prepare, NextEvent, CheckStatus, Rpc, RpcSucceeds, RpcDuplicate,
        RpcFails, Replayed, Record, Close, Exit, Halt
<1>5. ASSUME NEW w \in Workers, Renew(w)
      PROVE  \E j \in Jobs : \E r : row' = [row EXCEPT ![j] = r]
  BY <1>5 DEF Renew, TypeOK, RestOK
<1>6. ASSUME NEW w \in Workers, Mishap(w) \/ Restart(w)
      PROVE  UNCHANGED row \/ \E j \in Jobs : \E r : row' = [row EXCEPT ![j] = r]
  <2>1. CASE Error(w)
    <3>1. exec[w] \in Jobs
      BY <2>1, Busy DEF Error
    <3>2. QED
      BY <2>1, <3>1 DEF Error, Flush
  <2>2. QED
    BY <1>6, <2>1 DEF Mishap, Stop, Crash, Halt, Restart
<1>7. QED
  BY <1>1, <1>2, <1>3, <1>4, <1>5, <1>6 DEF Next

\* The target only ever receives the next event of a covered worker.
LEMMA InOrder ==
    ASSUME TypeOK, Covered, Next
    PROVE  \/ UNCHANGED delivered
           \/ /\ UNCHANGED row
              /\ \E e \in 1 .. NEvents : /\ 1 .. (e - 1) \subseteq delivered
                                         /\ delivered' = delivered \cup {e}
<1>1. CASE \E w \in Workers : Rpc(w)
  <2>1. PICK w \in Workers : Rpc(w)
    BY <1>1
  <2>2. Event(w) \in 1 .. NEvents /\ Event(w) - 1 = Position(w)
    BY <2>1, IdFacts, EventsAssumption
    DEF Rpc, RpcSucceeds, RpcDuplicate, RpcFails, TypeOK, CoroutinesOK, Position, Event
  <2>3. 1 .. (Event(w) - 1) \subseteq delivered
    BY <2>2 DEF Covered, WorkerCovered
  <2>4. QED
    BY <2>1, <2>2, <2>3 DEF Rpc, RpcSucceeds, RpcDuplicate, RpcFails, Replayed
<1>2. CASE ~ \E w \in Workers : Rpc(w)
  BY <1>2
  DEF Next, CreateJob, Request, StartJob, PauseJob, ResumeJob, CancelJob, UpdateJob,
      DeleteJob, Submit, ApiCommit, Step, Acquire, Fetch, Prepare, NextEvent, CheckStatus,
      Record, Close, Commit, Exit, Halt, Renew, Mishap, Stop, Crash, Error, Restart, Tick
<1>3. QED
  BY <1>1, <1>2

LEMMA StepRefines ==
    ASSUME TypeOK, TypeOK', Covered, Covered', Next
    PROVE  [Progress!Next]_(Progress!vars)
<1>1. CASE delivered' # delivered
  <2>1. PICK e \in 1 .. NEvents : /\ 1 .. (e - 1) \subseteq delivered
                                  /\ delivered' = delivered \cup {e}
    BY <1>1, InOrder
  <2>2. UNCHANGED row
    BY <1>1, InOrder
  <2>3. Progress!Deliver(e)
    BY <2>1, <2>2 DEF Progress!Deliver
  <2>4. QED
    BY <2>3 DEF Progress!Next
<1>2. CASE UNCHANGED <<delivered, row>>
  BY <1>2 DEF Progress!vars
<1>3. CASE UNCHANGED delivered /\ Tick
  <2>1. ASSUME NEW j \in Jobs
        PROVE  row'[j].status = row[j].status /\ row'[j].lastId = row[j].lastId
    <3>1. row[j] \in Row /\ row'[j] = [row[j] EXCEPT !.lease = IF @ > 0 THEN @ - 1 ELSE @]
      BY <1>3 DEF Tick, TypeOK, RestOK
    <3>2. QED
      BY <3>1 DEF Row
  <2>2. Saved' = Saved /\ Completed' = Completed
    BY <2>1 DEF Saved, Completed
  <2>3. QED
    BY <1>3, <2>2 DEF Progress!vars, Saved, Completed
<1>4. ASSUME UNCHANGED delivered, NEW j \in Jobs, NEW r, row' = [row EXCEPT ![j] = r]
      PROVE  [Progress!Next]_(Progress!vars)
  <2>1. row'[j] = r /\ row \in [Jobs -> Row]
    BY <1>4 DEF TypeOK, RestOK
  <2>2. r \in Row /\ OrEmpty(r.lastId) \in 0 .. NEvents
    BY <2>1, IdFacts, RowFields DEF TypeOK, RestOK
  <2>3. 1 .. OrEmpty(r.lastId) \subseteq delivered
    BY <1>4, <2>1 DEF Covered, RowsCovered, CheckpointSafe, Done
  <2>4. r.status = "COMPLETED" => 1 .. NEvents \subseteq delivered
    BY <1>4, <2>1 DEF Covered, RowsCovered, CompletedSafe
  <2>5. Saved' = [Saved EXCEPT ![j] = OrEmpty(r.lastId)]
    BY <1>4, <2>1 DEF Saved
  <2>6. Completed' = [Completed EXCEPT ![j] = (r.status = "COMPLETED")]
    BY <1>4, <2>1, Zenon DEF Completed
  <2>7. Progress!Save(j)
    <3>1. \E k \in 0 .. NEvents : 1 .. k \subseteq delivered
                                  /\ Saved' = [Saved EXCEPT ![j] = k]
      BY <2>2, <2>3, <2>5
    <3>2. \E d \in BOOLEAN : /\ d => Completed[j] \/ 1 .. NEvents \subseteq delivered
                             /\ Completed' = [Completed EXCEPT ![j] = d]
      BY <2>4, <2>6, Zenon
    <3>3. QED
      BY <1>4, <3>1, <3>2 DEF Progress!Save, Saved, Completed
  <2>8. QED
    BY <2>7 DEF Progress!Next
<1>5. QED
  BY <1>1, <1>2, <1>3, <1>4, OneRowAtATime

\* Whatever workers, requests and faults do, the target receives the window
\* in order, and neither checkpoints nor completions claim more than it has.
THEOREM Refinement == Spec => ProgressSpec
<1>1. Init => Progress!Init
  <2> SUFFICES ASSUME Init
               PROVE  Progress!Init
    OBVIOUS
  <2>1. \A j \in Jobs : row[j].status = "ABSENT" /\ OrEmpty(row[j].lastId) = 0
    BY EmptyRowType, IdFacts DEF Init, NoRow, OrEmpty
  <2>2. \A j \in Jobs : ~ (row[j].status = "COMPLETED")
    BY <2>1
  <2>3. Completed = [j \in Jobs |-> FALSE]
    BY <2>2, Zenon DEF Completed
  <2>4. Saved = [j \in Jobs |-> 0] /\ delivered = {}
    BY <2>1 DEF Saved, Init
  <2>5. QED
    BY <2>3, <2>4 DEF Progress!Init, Saved, Completed
<1>2. TypeOK /\ TypeOK' /\ Covered /\ Covered' /\ [Next]_vars
        => [Progress!Next]_(Progress!vars)
  <2>1. ASSUME UNCHANGED vars
        PROVE  UNCHANGED Progress!vars
    BY <2>1 DEF vars, Progress!vars
  <2>2. QED
    BY <2>1, StepRefines
<1>3. QED
  BY <1>1, <1>2, TypeCorrect, CoveredAlways, PTL DEF Spec, ProgressSpec, Progress!Spec
=============================================================================
