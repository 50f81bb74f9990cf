--------------------------- MODULE ReplayProgress ---------------------------
(***************************************************************************)
(* What replay jobs promise, whatever workers and requests do: the target  *)
(* receives the events of the window in order, a saved checkpoint and a    *)
(* COMPLETED status never claim more than the target has received.         *)
(***************************************************************************)
EXTENDS Naturals

CONSTANTS Jobs, NEvents

VARIABLES delivered,  \* events the target has received
          saved,      \* the checkpoint of each job
          done        \* whether a job counts as completed

vars == <<delivered, saved, done>>

Init ==
    /\ delivered = {}
    /\ saved = [j \in Jobs |-> 0]
    /\ done = [j \in Jobs |-> FALSE]

\* Again, or for the first time: then the events before it came first.
Deliver(e) ==
    /\ 1 .. (e - 1) \subseteq delivered
    /\ delivered' = delivered \cup {e}
    /\ UNCHANGED <<saved, done>>

\* A job's row is written: the checkpoint may fall back, and is covered.
Save(j) ==
    /\ \E k \in 0 .. NEvents :
         1 .. k \subseteq delivered /\ saved' = [saved EXCEPT ![j] = k]
    /\ \E d \in BOOLEAN :
         /\ d => done[j] \/ 1 .. NEvents \subseteq delivered
         /\ done' = [done EXCEPT ![j] = d]
    /\ UNCHANGED delivered

Next == \/ \E e \in 1 .. NEvents : Deliver(e)
        \/ \E j \in Jobs : Save(j)

Spec == Init /\ [][Next]_vars
=============================================================================
