------------------------------- MODULE MCJobs -------------------------------
(* Two instances of ReplayJobs, of which a behaviour is one: the one of the  *)
(* constants, under the conditions of ReplayJobs_exclusion, and one job with *)
(* all the requests of several clients, under none.                          *)
EXTENDS ReplayJobs, TLC

CONSTANTS LifeJobs, LifeClients, LifeMaxCalls, LifeMaxFaults

VARIABLES instance, lifeRow, lifeDelivered, lifePc, lifeExec, lifeCur, lifeRunning,
          lifeLast, lifeAttempt, lifeWrite, lifeReq, lifeCalls, lifeFaults

lifeVars == <<lifeRow, lifeDelivered, lifePc, lifeExec, lifeCur, lifeRunning, lifeLast,
              lifeAttempt, lifeWrite, lifeReq, lifeCalls, lifeFaults>>

Life == INSTANCE ReplayJobs
          WITH Jobs <- LifeJobs, Clients <- LifeClients, LeaseDuration <- 1,
               MaxRetries <- 0, ApiOps <- AllOps, FaultKinds <- AllFaults,
               MaxCalls <- LifeMaxCalls, MaxFaults <- LifeMaxFaults, Timely <- FALSE,
               row <- lifeRow, delivered <- lifeDelivered, pc <- lifePc,
               exec <- lifeExec, cur <- lifeCur, running <- lifeRunning,
               last <- lifeLast, attempt <- lifeAttempt, write <- lifeWrite,
               req <- lifeReq, calls <- lifeCalls, faults <- lifeFaults

BothInit == instance \in {"exclusive", "life"} /\ Init /\ Life!Init

BothNext ==
    /\ UNCHANGED instance
    /\ \/ instance = "exclusive" /\ Next /\ UNCHANGED lifeVars
       \/ instance = "life" /\ Life!Next /\ UNCHANGED vars

BothSpec == BothInit /\ [][BothNext]_<<instance, vars, lifeVars>>

\* Workers and clients are interchangeable: nothing in the code orders them.
Interchangeable == Permutations(Workers) \cup Permutations(LifeClients)

\* The safety of the second instance: concurrent requests that overwrite each other and
\* the workers' writes, lost leases and shutdowns leave no checkpoint ahead of the
\* target and no job COMPLETED before its window was delivered.
LifeSafe == Life!TypeOK /\ Life!CheckpointSafe /\ Life!CompletedSafe
=============================================================================
