---------------------------- MODULE MCReplaySource ----------------------------
(* Windows for TLC: one that is read from Redis at first and from Kafka     *)
(* when the job begins late, one so long that it is always read from Kafka. *)
EXTENDS ReplaySource

MCWindows == {<<1, 2>>, <<1, 3>>}
=============================================================================
