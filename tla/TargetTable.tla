---------------------------- MODULE TargetTable -----------------------------
(***************************************************************************)
(* The target of a replay, one table with a primary key, and what applying *)
(* a change record does to it (PostgreSQLTargetApplier).  A row is its     *)
(* primary key and one value; the identity columns of a change (old) are   *)
(* its primary key, as REPLICA IDENTITY DEFAULT sends them.                *)
(***************************************************************************)
EXTENDS Integers, Sequences

CONSTANTS
    Pks, Vals,     \* primary keys and the values of the other columns
    NoPk, NoVal,   \* no key, no value: an empty old or new
    NoRow          \* the table has no row with a primary key

ASSUME ColumnsAssumption == NoPk \notin Pks /\ NoRow \notin Vals

Operations == {"INSERT", "UPDATE", "DELETE", "TRUNCATE"}

\* lsn, old (a key) and new (a key and a value, or neither); wal2json has
\* other actions than the four operations, which arrive here as "OTHER".
Change == {e \in [lsn : Nat, op : Operations \cup {"OTHER"}, old : Pks \cup {NoPk},
                  pk : Pks \cup {NoPk}, val : Vals \cup {NoVal}] :
             e.pk \in Pks <=> e.val \in Vals}

Table == [Pks -> Vals \cup {NoRow}]
Empty == [p \in Pks |-> NoRow]

HasNew(e) == e.pk \in Pks
HasOld(e) == e.old \in Pks

\* INSERT ... ON CONFLICT DO NOTHING
Inserted(e, t) ==
    [p \in Pks |-> IF p = e.pk /\ t[p] = NoRow THEN e.val ELSE t[p]]

\* UPDATE ... SET new WHERE old
Updated(e, t) ==
    [p \in Pks |-> CASE t[e.old] = NoRow -> t[p]
                     [] t[e.old] # NoRow /\ p = e.pk -> e.val
                     [] t[e.old] # NoRow /\ p # e.pk /\ p = e.old -> NoRow
                     [] OTHER -> t[p]]

Deleted(e, t) == [p \in Pks |-> IF p = e.old THEN NoRow ELSE t[p]]

\* The table after a change was applied.  A change without the columns its
\* statement needs is applied as nothing.
Effect(e, t) ==
    CASE e.op = "INSERT" /\ HasNew(e)               -> Inserted(e, t)
      [] e.op = "UPDATE" /\ HasNew(e) /\ HasOld(e)  -> Updated(e, t)
      [] e.op = "DELETE" /\ HasOld(e)               -> Deleted(e, t)
      [] e.op = "TRUNCATE"                          -> Empty
      [] OTHER                                      -> t

\* A change that apply answers with False whatever happens: an operation it
\* does not know, or an update that runs into the primary key of another row.
Refused(e, t) ==
    \/ e.op = "OTHER"
    \/ /\ e.op = "UPDATE" /\ HasNew(e) /\ HasOld(e)
       /\ t[e.old] # NoRow /\ e.pk # e.old /\ t[e.pk] # NoRow

\* _compute_idempotency_key: {lsn}:{table}:{hash of new, else of old}.  The
\* operation is not part of it.
Key(e) == <<e.lsn, IF HasNew(e) THEN <<e.pk, e.val>> ELSE <<e.old>>>>
=============================================================================
