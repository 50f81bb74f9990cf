----------------------------- MODULE TargetCopy -----------------------------
(***************************************************************************)
(* What replaying a log into an empty target promises: the target follows  *)
(* the log, change by change and never back.                               *)
(***************************************************************************)
EXTENDS TargetTable

CONSTANT Log    \* the changes, in source order

VARIABLES table, pos

Init == table = Empty /\ pos = 0

Follow ==
    /\ pos < Len(Log)
    /\ ~ Refused(Log[pos + 1], table)
    /\ table' = Effect(Log[pos + 1], table)
    /\ pos' = pos + 1

Spec == Init /\ [][Follow]_<<table, pos>>
=============================================================================
