---------------------------- MODULE MCReplayJobs ----------------------------
(* ReplayJobs on small instances. *)
EXTENDS ReplayJobs, TLC

\* Workers and clients are interchangeable: nothing in the code orders them.
Interchangeable == Permutations(Workers) \cup Permutations(Clients)
=============================================================================
