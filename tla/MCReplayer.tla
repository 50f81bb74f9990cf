----------------------------- MODULE MCReplayer -----------------------------
(* Replayer on small instances: logs and symmetry. *)
EXTENDS Replayer, TLC

LOCAL Insert(n, p, v)    == [lsn |-> n, op |-> "INSERT", old |-> NoPk, pk |-> p, val |-> v]
LOCAL Update(n, p, q, v) == [lsn |-> n, op |-> "UPDATE", old |-> p, pk |-> q, val |-> v]
LOCAL Delete(n, p)       == [lsn |-> n, op |-> "DELETE", old |-> p, pk |-> NoPk, val |-> NoVal]
LOCAL Bare(n, op)        == [lsn |-> n, op |-> op, old |-> NoPk, pk |-> NoPk, val |-> NoVal]

\* A row that is inserted, moved to another key, deleted and inserted anew,
\* a table that is emptied, and an action that is not a row change.
LogOfRow ==
    <<Insert(1, 1, "a"), Update(2, 1, 2, "b"), Delete(3, 2), Insert(4, 1, "b"),
      Bare(5, "TRUNCATE"), Insert(6, 2, "a"), Bare(7, "OTHER")>>

\* An insert and the delete of the row.
LogOfTwo == <<Insert(1, 1, "a"), Delete(2, 1)>>

\* Two changes of one WAL message whose keys collide: an insert, and an update that
\* leaves the row as it is.
LogOfClash == <<Insert(1, 1, "a"), Update(1, 1, 1, "a")>>

Interchangeable == Permutations(Callers) \cup Permutations(Handlers)
=============================================================================
