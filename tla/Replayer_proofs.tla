-------------------------- MODULE Replayer_proofs ---------------------------
(***************************************************************************)
(* Theorems about Replayer and their proofs.  They hold for any number of  *)
(* callers, handlers, changes and reruns, and for any log.                 *)
(***************************************************************************)
EXTENDS Replayer, FiniteSetTheorems, TLAPS

-----------------------------------------------------------------------------
(* The target table *)

\* Applying a change leaves a table.
LEMMA EffectType ==
    ASSUME NEW e \in Change, NEW t \in Table
    PROVE  Effect(e, t) \in Table
<1>1. HasNew(e) => Inserted(e, t) \in Table
  BY DEF HasNew, Inserted, Table, Change
<1>2. HasNew(e) => Updated(e, t) \in Table
  BY DEF HasNew, Updated, Table, Change
<1>3. Deleted(e, t) \in Table /\ Empty \in Table
  BY DEF Deleted, Empty, Table
<1> QED
  BY <1>1, <1>2, <1>3 DEF Effect

\* Applying a change a second time, right after the first, changes nothing
\* and is not refused: what the retry of an event relies on.
LEMMA Idempotent ==
    ASSUME NEW e \in Change, NEW t \in Table, ~ Refused(e, t)
    PROVE  /\ Effect(e, Effect(e, t)) = Effect(e, t)
           /\ ~ Refused(e, Effect(e, t))
<1>1. CASE e.op = "INSERT" /\ HasNew(e)
  <2>1. Effect(e, t) = Inserted(e, t) /\ Effect(e, Inserted(e, t)) = Inserted(e, Inserted(e, t))
    BY <1>1 DEF Effect
  <2>2. Inserted(e, Inserted(e, t)) = Inserted(e, t)
    BY <1>1, ColumnsAssumption DEF Inserted, HasNew, Change
  <2> QED
    BY <1>1, <2>1, <2>2 DEF Refused
<1>2. CASE e.op = "UPDATE" /\ HasNew(e) /\ HasOld(e)
  <2>1. Effect(e, t) = Updated(e, t) /\ Effect(e, Updated(e, t)) = Updated(e, Updated(e, t))
    BY <1>2 DEF Effect
  <2>2. Updated(e, t)[e.old] # NoRow => e.pk = e.old /\ t[e.old] # NoRow
    BY <1>2 DEF Updated, HasOld
  <2>3. ~ Refused(e, Updated(e, t))
    BY <1>2, <2>2 DEF Refused
  <2>4. Updated(e, Updated(e, t)) = Updated(e, t)
    BY <2>2, <1>2, ColumnsAssumption DEF Updated, HasOld, HasNew
  <2> QED
    BY <2>1, <2>3, <2>4
<1>3. CASE e.op = "DELETE" /\ HasOld(e)
  <2>1. Effect(e, t) = Deleted(e, t) /\ Effect(e, Deleted(e, t)) = Deleted(e, Deleted(e, t))
    BY <1>3 DEF Effect
  <2>2. Deleted(e, Deleted(e, t)) = Deleted(e, t)
    BY DEF Deleted
  <2> QED
    BY <1>3, <2>1, <2>2 DEF Refused
<1>4. CASE e.op = "TRUNCATE"
  BY <1>4 DEF Effect, Refused
<1>5. CASE ~ (e.op = "INSERT" /\ HasNew(e)) /\ ~ (e.op = "UPDATE" /\ HasNew(e) /\ HasOld(e))
           /\ ~ (e.op = "DELETE" /\ HasOld(e)) /\ e.op # "TRUNCATE"
  <2>1. \A u : Effect(e, u) = u
    BY <1>5 DEF Effect
  <2> QED
    BY <1>5, <2>1 DEF Refused
<1> QED
  BY <1>1, <1>2, <1>3, <1>4, <1>5

LEMMA LogType == \A i \in Events : Log[i] \in Change
  BY LogAssumption DEF Events

LEMMA KeyType == Probe \in Keys /\ \A i \in Events : KeyOf(i) \in Keys /\ KeyOf(i) # Probe
  BY ProbeAssumption DEF Keys

-----------------------------------------------------------------------------
(* Type correctness *)

\* A statement that may or may not take effect leaves the stores well-typed.
LEMMA InFlightType ==
    ASSUME TypeOK, NEW h \in Handlers, pc[h] # "free", InFlight(h)
    PROVE  /\ table' \in Table
           /\ marks' \in [Keys -> Absent .. TTL]
           /\ delivered' \subseteq Events
<1>1. event[h] \in Events
  BY DEF TypeOK
<1>2. CASE pc[h] = "apply" /\ ApplyStatement(h)
  BY <1>1, <1>2, LogType, EffectType DEF ApplyStatement, TypeOK
<1>3. CASE pc[h] = "mark" /\ MarkStatement(h)
  BY <1>1, <1>3, KeyType, TTLAssumption DEF MarkStatement, TypeOK, Absent
<1>4. CASE UNCHANGED storeVars
  BY <1>4 DEF storeVars, TypeOK
<1> QED
  BY <1>2, <1>3, <1>4 DEF InFlight

LEMMA TypeInit == Init => TypeOK
<1>1. Empty \in Table
  BY DEF Empty, Table
<1> QED
  BY <1>1, HandlersAssumption, RerunsAssumption, LogAssumption, TTLAssumption
     DEF Init, TypeOK, Absent

LEMMA TypeStep == TypeOK /\ [Next]_vars => TypeOK'
<1> SUFFICES ASSUME TypeOK, [Next]_vars
             PROVE  TypeOK'
  OBVIOUS
<1>1. ASSUME NEW h \in Handlers, Exists(h) PROVE TypeOK'
  BY <1>1 DEF TypeOK, Exists, Goto, storeVars, Statements, Responses
<1>2. ASSUME NEW h \in Handlers, Apply(h) PROVE TypeOK'
  <2>1. InFlight(h) /\ pc[h] # "free"
    BY <1>2 DEF Apply, InFlight
  <2> QED
    BY <1>2, <2>1, InFlightType DEF TypeOK, Apply, Goto, Statements, Responses
<1>3. ASSUME NEW h \in Handlers, Mark(h) PROVE TypeOK'
  <2>1. InFlight(h) /\ pc[h] # "free"
    BY <1>3 DEF Mark, InFlight
  <2> QED
    BY <1>3, <2>1, InFlightType DEF TypeOK, Mark, Goto, Statements, Responses
<1>4. ASSUME NEW h \in Handlers, Fail(h) PROVE TypeOK'
  <2>1. InFlight(h) /\ pc[h] # "free"
    BY <1>4 DEF Fail, Statements
  <2> QED
    BY <1>4, <2>1, InFlightType DEF TypeOK, Fail, Goto, Statements, Responses
<1>5. ASSUME NEW h \in Handlers, Reply(h) PROVE TypeOK'
  <2>1. \A c \in Callers : rpc[c] = h => next[c] \in Events
    BY <1>5, HandlersAssumption DEF TypeOK, Reply, Responses
  <2>2. next' \in [Callers -> 1 .. Len(Log) + 1]
    BY <1>5, <2>1, LogAssumption DEF TypeOK, Reply, Events
  <2> QED
    BY <1>5, <2>2, HandlersAssumption
       DEF TypeOK, Reply, Return, Goto, storeVars, Statements, Responses
<1>6. ASSUME NEW h \in Handlers, Cancel(h) PROVE TypeOK'
  <2>1. InFlight(h) /\ pc[h] # "free"
    BY <1>6 DEF Cancel
  <2> QED
    BY <1>6, <2>1, InFlightType, HandlersAssumption
       DEF TypeOK, Cancel, Return, Goto, Statements, Responses
<1>7. ASSUME NEW c \in Callers, NEW h \in Handlers, Call(c, h) PROVE TypeOK'
  <2>1. \A d \in Callers : rpc[d] # h
    BY <1>7, HandlersAssumption, LogAssumption DEF TypeOK, Call, Events
  <2> QED
    BY <1>7, <2>1, HandlersAssumption, LogAssumption
       DEF TypeOK, Call, Goto, storeVars, Statements, Responses, Events
<1>8. ASSUME NEW c \in Callers, Abandon(c) PROVE TypeOK'
  BY <1>8, HandlersAssumption DEF TypeOK, Abandon, storeVars
<1>9. ASSUME NEW c \in Callers, Rerun(c) PROVE TypeOK'
  BY <1>9, LogAssumption DEF TypeOK, Rerun, storeVars
<1>10. CASE Tick \/ CleanupExpired \/ Health
  <2>1. marks' \in [Keys -> Absent .. TTL]
    <3>1. CASE Tick
      BY <3>1, TTLAssumption DEF TypeOK, Tick, Absent
    <3>2. CASE CleanupExpired
      BY <3>2, TTLAssumption DEF TypeOK, CleanupExpired, Absent
    <3>3. CASE Health
      BY <3>3, KeyType, TTLAssumption DEF TypeOK, Health, Absent
    <3> QED
      BY <1>10, <3>1, <3>2, <3>3
  <2> QED
    BY <1>10, <2>1 DEF TypeOK, Tick, CleanupExpired, Health
<1>11. CASE UNCHANGED vars
  BY <1>11 DEF TypeOK, vars
<1> QED
  BY <1>1, <1>2, <1>3, <1>4, <1>5, <1>6, <1>7, <1>8, <1>9, <1>10, <1>11
     DEF Next, ReplayEvent

\* The replayer's tables, its handlers and their callers keep their types.
THEOREM TypeCorrect == Spec => []TypeOK
  BY TypeInit, TypeStep, PTL DEF Spec

-----------------------------------------------------------------------------
(* Marked events were delivered, and callers only pass delivered events    *)

\* Statements add to what is known and mark nothing else.
LEMMA InFlightKnown ==
    ASSUME TypeOK, Justified, NEW h \in Handlers, pc[h] # "free", InFlight(h)
    PROVE  /\ MarkedIsDelivered'
           /\ delivered \subseteq delivered'
           /\ pc[h] = "apply" /\ ApplyStatement(h) => event[h] \in delivered'
<1>1. event[h] \in Events
  BY DEF TypeOK
<1>2. CASE pc[h] = "apply" /\ ApplyStatement(h)
  BY <1>2 DEF ApplyStatement, Justified, MarkedIsDelivered, Known
<1>3. CASE pc[h] = "mark" /\ MarkStatement(h)
  <2>1. Known(event[h])
    BY <1>3 DEF Justified
  <2>2. \A i \in Events : marks'[KeyOf(i)] # Absent => Known(i)
    BY <1>3, <2>1, KeyType DEF MarkStatement, TypeOK, Justified, MarkedIsDelivered, Known
  <2> QED
    BY <1>3, <2>2 DEF MarkStatement, MarkedIsDelivered, Known
<1>4. CASE UNCHANGED storeVars
  BY <1>4 DEF storeVars, Justified, MarkedIsDelivered, Known, ApplyStatement
<1> QED
  BY <1>2, <1>3, <1>4 DEF InFlight

LEMMA JustifiedInit == Init => Justified
  BY HandlersAssumption, KeyType
     DEF Init, Justified, MarkedIsDelivered, AckedIsDelivered, Known, Absent

LEMMA JustifiedStep == TypeOK /\ Justified /\ [Next]_vars => Justified'
<1> SUFFICES ASSUME TypeOK, Justified, [Next]_vars
             PROVE  Justified'
  OBVIOUS
<1> USE DEF Justified, AckedIsDelivered, Known
<1>1. ASSUME NEW h \in Handlers, Exists(h) PROVE Justified'
  <2>1. event[h] \in Events /\ (marks[KeyOf(event[h])] > 0 => Known(event[h]))
    BY <1>1 DEF TypeOK, Exists, MarkedIsDelivered, Absent
  <2> QED
    BY <1>1, <2>1 DEF TypeOK, Exists, Goto, storeVars, MarkedIsDelivered
<1>2. ASSUME NEW h \in Handlers, Apply(h) PROVE Justified'
  <2>1. InFlight(h) /\ pc[h] = "apply"
    BY <1>2 DEF Apply, InFlight
  <2> QED
    BY <1>2, <2>1, InFlightKnown DEF TypeOK, Apply, Goto
<1>3. ASSUME NEW h \in Handlers, Mark(h) PROVE Justified'
  <2>1. InFlight(h) /\ pc[h] = "mark"
    BY <1>3 DEF Mark, InFlight
  <2> QED
    BY <1>3, <2>1, InFlightKnown DEF TypeOK, Mark, Goto
<1>4. ASSUME NEW h \in Handlers, Fail(h) PROVE Justified'
  <2>1. InFlight(h) /\ pc[h] # "free"
    BY <1>4 DEF Fail, Statements
  <2> QED
    BY <1>4, <2>1, InFlightKnown DEF TypeOK, Fail, Goto
<1>5. ASSUME NEW h \in Handlers, Reply(h) PROVE Justified'
  <2>1. \A c \in Callers : rpc[c] = h => event[h] = next[c]
    BY <1>5, HandlersAssumption DEF TypeOK, Reply
  <2>2. \A c \in Callers : \A i \in 1 .. next'[c] - 1 : Known(i)
    BY <1>5, <2>1 DEF TypeOK, Reply, Responses
  <2> QED
    BY <1>5, <2>2 DEF TypeOK, Reply, Return, Goto, storeVars, MarkedIsDelivered
<1>6. ASSUME NEW h \in Handlers, Cancel(h) PROVE Justified'
  <2>1. InFlight(h) /\ pc[h] # "free"
    BY <1>6 DEF Cancel
  <2> QED
    BY <1>6, <2>1, InFlightKnown DEF TypeOK, Cancel, Return, Goto
<1>7. ASSUME NEW c \in Callers, NEW h \in Handlers, Call(c, h) PROVE Justified'
  BY <1>7 DEF TypeOK, Call, Goto, storeVars, MarkedIsDelivered
<1>8. ASSUME NEW c \in Callers, Abandon(c) PROVE Justified'
  BY <1>8 DEF Abandon, storeVars, MarkedIsDelivered
<1>9. ASSUME NEW c \in Callers, Rerun(c) PROVE Justified'
  <2>1. \A d \in Callers : next'[d] - 1 <= next[d] - 1
    BY <1>9 DEF TypeOK, Rerun
  <2> QED
    BY <1>9, <2>1 DEF TypeOK, Rerun, storeVars, MarkedIsDelivered
<1>10. CASE Tick \/ CleanupExpired \/ Health
  <2>1. \A i \in Events : marks'[KeyOf(i)] # Absent => marks[KeyOf(i)] # Absent
    BY <1>10, KeyType DEF TypeOK, Tick, CleanupExpired, Health, Absent
  <2> QED
    BY <1>10, <2>1 DEF Tick, CleanupExpired, Health, MarkedIsDelivered
<1>11. CASE UNCHANGED vars
  BY <1>11 DEF vars, MarkedIsDelivered
<1> QED
  BY <1>1, <1>2, <1>3, <1>4, <1>5, <1>6, <1>7, <1>8, <1>9, <1>10, <1>11
     DEF Next, ReplayEvent

\* The inductive invariant behind the two theorems that follow.
THEOREM JustifiedAlways == Spec => []Justified
  BY JustifiedInit, JustifiedStep, TypeCorrect, PTL DEF Spec

\* exists -> apply -> mark_processed: no key is marked before a change with
\* that key was applied.
THEOREM MarkedWasDelivered == Spec => []MarkedIsDelivered
<1>1. Justified => MarkedIsDelivered
  BY DEF Justified
<1> QED
  BY <1>1, JustifiedAlways, PTL

\* A success or a duplicate advances a caller past an event only when a
\* change with its key was applied.
THEOREM AckedWasDelivered == Spec => []AckedIsDelivered
<1>1. Justified => AckedIsDelivered
  BY DEF Justified
<1> QED
  BY <1>1, JustifiedAlways, PTL

\* If keys tell the events of the log apart, delivery is at least once.
UniqueKeys == \A i, j \in Events : KeyOf(i) = KeyOf(j) => i = j

THEOREM AtLeastOnce ==
    ASSUME UniqueKeys
    PROVE  Spec => []NothingSkipped
<1>1. TypeOK /\ Justified => NothingSkipped
  BY LogAssumption DEF TypeOK, Justified, AckedIsDelivered, Known, NothingSkipped,
     UniqueKeys, Events
<1> QED
  BY <1>1, TypeCorrect, JustifiedAlways, PTL

-----------------------------------------------------------------------------
(* One caller at a time: the target follows the log                        *)

\* The conditions of the claim: one caller, whose handlers end with its
\* calls, replays that end before the TTL, and keys that tell events apart.
Sequential == /\ \E c \in Callers : Callers = {c}
              /\ Prompt = TRUE /\ Expiry = FALSE
              /\ UniqueKeys

\* Only the event at the end of what was delivered can be unmarked, and then
\* the caller has yet to pass it; applying it again would change nothing.
Frontier(p) ==
    /\ delivered = 1 .. p
    /\ \A i \in 1 .. p : marks[KeyOf(i)] > 0 \/ i = p
    /\ \A c \in Callers : /\ next[c] <= p + 1
                          /\ next[c] = p + 1 /\ p > 0 => marks[KeyOf(p)] > 0
    /\ p > 0 => /\ Effect(Log[p], table) = table
                /\ ~ Refused(Log[p], table)

Pending ==
    /\ \A h \in Handlers, c \in Callers : pc[h] # "free" => rpc[c] = h
    /\ \A h \in Handlers :
        /\ pc[h] = "apply" => ~ (marks[KeyOf(event[h])] > 0)
        /\ pc[h] \in {"applied", "duplicate"} => marks[KeyOf(event[h])] > 0

InStep == /\ \E p \in 0 .. Len(Log) : Frontier(p)
          /\ Pending

\* What a statement in flight does to the target and to the log's frontier.
LEMMA InFlightFollows ==
    ASSUME Sequential, TypeOK, Justified, InStep,
           NEW h \in Handlers, pc[h] # "free", InFlight(h), UNCHANGED next
    PROVE  /\ \E p \in 0 .. Len(Log) : Frontier(p)'
           /\ \A i \in Events : marks[KeyOf(i)] > 0 => marks'[KeyOf(i)] > 0
           /\ Copy!Follow \/ UNCHANGED <<table, Cardinality(delivered)>>
<1>1. PICK c \in Callers : Callers = {c}
  BY DEF Sequential
<1>2. PICK p \in 0 .. Len(Log) : Frontier(p)
  BY DEF InStep
<1>3. event[h] \in Events /\ event[h] = next[c] /\ Len(Log) \in Nat
  BY HandlersAssumption, LogAssumption DEF TypeOK, InStep, Pending
<1>4. CASE pc[h] = "apply" /\ ApplyStatement(h)
  <2>1. ~ (marks[KeyOf(event[h])] > 0)
    BY <1>4 DEF InStep, Pending
  <2>2. CASE event[h] <= p
    <3>1. event[h] = p
      BY <1>2, <1>3, <2>1, <2>2 DEF Frontier, Events
    <3>2. UNCHANGED storeVars
      BY <1>2, <1>3, <1>4, <3>1 DEF Frontier, ApplyStatement, storeVars, Events
    <3> QED
      BY <1>2, <3>2 DEF Frontier, storeVars
  <2>3. CASE event[h] > p
    <3>1. event[h] = p + 1 /\ next[c] = p + 1 /\ p + 1 \in 0 .. Len(Log)
      BY <1>2, <1>3, <2>3 DEF Frontier, Events
    <3>2. /\ delivered' = 1 .. p + 1 /\ marks' = marks
          /\ table' = Effect(Log[p + 1], table) /\ ~ Refused(Log[p + 1], table)
      BY <1>2, <1>4, <3>1 DEF Frontier, ApplyStatement
    <3>3. /\ Effect(Log[p + 1], table') = table'
          /\ ~ Refused(Log[p + 1], table')
      BY <1>3, <3>1, <3>2, Idempotent, LogType DEF TypeOK
    <3>4. Frontier(p + 1)'
      BY <1>1, <1>2, <3>1, <3>2, <3>3 DEF Frontier
    <3>5. Cardinality(delivered) = p /\ Cardinality(delivered') = p + 1
      BY <1>2, <3>2, FS_Interval DEF Frontier
    <3>6. Copy!Follow
      BY <1>3, <3>1, <3>2, <3>5
         DEF Copy!Follow, Copy!Refused, Copy!Effect, Copy!Inserted, Copy!Updated,
             Copy!Deleted, Copy!Empty, Copy!HasNew, Copy!HasOld,
             Refused, Effect, Inserted, Updated, Deleted, Empty, HasNew, HasOld
    <3> QED
      BY <3>1, <3>2, <3>4, <3>6
  <2> QED
    BY <1>2, <1>3, <2>2, <2>3 DEF Events
<1>5. CASE pc[h] = "mark" /\ MarkStatement(h)
  <2>1. \A i \in Events : marks[KeyOf(i)] > 0 => marks'[KeyOf(i)] > 0
    BY <1>3, <1>5, KeyType, TTLAssumption DEF MarkStatement, TypeOK
  <2>2. Frontier(p)'
    BY <1>2, <1>3, <1>5, <2>1 DEF Frontier, MarkStatement, Events
  <2> QED
    BY <1>5, <2>1, <2>2 DEF MarkStatement
<1>6. CASE UNCHANGED storeVars
  BY <1>2, <1>6 DEF Frontier, storeVars
<1> QED
  BY <1>4, <1>5, <1>6 DEF InFlight

LEMMA InStepInit == ASSUME Sequential PROVE Init => InStep
<1>1. Init => Frontier(0)
  BY LogAssumption DEF Init, Frontier
<1> QED
  BY <1>1, LogAssumption DEF Init, InStep, Pending

\* Every step keeps the target at the frontier and follows the log.
LEMMA InStepStep ==
    ASSUME Sequential
    PROVE  TypeOK /\ Justified /\ InStep /\ [Next]_vars
             => InStep' /\ [Copy!Follow]_<<table, Cardinality(delivered)>>
<1> SUFFICES ASSUME TypeOK, Justified, InStep, [Next]_vars
             PROVE  InStep' /\ [Copy!Follow]_<<table, Cardinality(delivered)>>
  OBVIOUS
<1>c. PICK c \in Callers : Callers = {c}
  BY DEF Sequential
<1>p. PICK p \in 0 .. Len(Log) : Frontier(p)
  BY DEF InStep
<1>n. Len(Log) \in Nat
  BY LogAssumption
<1>1. ASSUME NEW h \in Handlers, Exists(h) PROVE InStep' /\ UNCHANGED <<table, delivered>>
  BY <1>1, <1>p DEF InStep, Frontier, Pending, Exists, Goto, storeVars, TypeOK
<1>2. ASSUME NEW h \in Handlers, Apply(h) \/ Mark(h) \/ Fail(h) \/ Cancel(h)
      PROVE  InStep' /\ [Copy!Follow]_<<table, Cardinality(delivered)>>
  <2>1. InFlight(h) /\ pc[h] # "free" /\ UNCHANGED next
    BY <1>2 DEF Apply, Mark, Fail, Cancel, InFlight, Statements
  <2>2. rpc[c] = h /\ \A g \in Handlers : pc[g] # "free" => g = h
    BY <1>c, <2>1 DEF InStep, Pending
  <2>3. event[h] \in Events
    BY <2>1 DEF TypeOK
  <2>4. Pending'
    <3>1. CASE Apply(h) \/ Fail(h)
      BY <1>c, <2>2, <3>1 DEF InStep, Pending, Apply, Fail, Goto, TypeOK
    <3>2. CASE Mark(h)
      BY <2>2, <2>3, <3>2, KeyType, TTLAssumption
         DEF InStep, Pending, Mark, MarkStatement, Goto, TypeOK
    <3>3. CASE Cancel(h)
      BY <2>2, <3>3 DEF InStep, Pending, Cancel, Return, Goto, TypeOK
    <3> QED
      BY <1>2, <3>1, <3>2, <3>3
  <2> QED
    BY <2>1, <2>4, InFlightFollows DEF InStep
<1>3. ASSUME NEW h \in Handlers, Reply(h) PROVE InStep' /\ UNCHANGED <<table, delivered>>
  <2>1. rpc[c] = h /\ event[h] = next[c] /\ event[h] \in Events
    BY <1>3, <1>c, HandlersAssumption DEF InStep, Pending, Reply, Responses, TypeOK
  <2>2. \A g \in Handlers : pc'[g] = "free"
    BY <1>3, <1>c DEF InStep, Pending, Reply, Return, Goto, Responses, TypeOK
  <2>3. CASE pc[h] = "failed"
    <3>1. next' = next
      BY <1>3, <2>3 DEF Reply, TypeOK
    <3>2. Frontier(p)'
      BY <1>3, <1>p, <3>1 DEF Frontier, Reply, storeVars
    <3> QED
      BY <1>3, <2>2, <3>2 DEF InStep, Pending, Reply, storeVars
  <2>4. CASE pc[h] # "failed"
    <3>1. pc[h] \in {"applied", "duplicate"}
      BY <1>3, <2>4 DEF Reply, Responses
    <3>2. marks[KeyOf(event[h])] > 0 /\ Known(event[h])
      BY <3>1 DEF InStep, Pending, Justified
    <3>3. event[h] \in 1 .. p
      BY <1>p, <2>1, <3>2, <1>n DEF Known, Frontier, Sequential, UniqueKeys, Events
    <3>4. next'[c] = event[h] + 1
      BY <1>3, <2>1, <2>4, <1>c DEF Reply
    <3>5. Frontier(p)'
      BY <1>3, <1>p, <1>c, <3>2, <3>3, <3>4 DEF Frontier, Reply, storeVars
    <3> QED
      BY <1>3, <2>2, <3>5 DEF InStep, Pending, Reply, storeVars
  <2> QED
    BY <2>3, <2>4
<1>4. ASSUME NEW d \in Callers, NEW h \in Handlers, Call(d, h)
      PROVE  InStep' /\ UNCHANGED <<table, delivered>>
  <2>1. \A g \in Handlers : pc[g] = "free"
    BY <1>4, <1>c, HandlersAssumption DEF Call, InStep, Pending, TypeOK
  <2>2. Pending'
    BY <1>4, <1>c, <2>1 DEF Call, Pending, Goto, TypeOK
  <2>3. Frontier(p)'
    BY <1>4, <1>p DEF Call, Frontier, storeVars
  <2> QED
    BY <1>4, <2>2, <2>3 DEF InStep, Call, storeVars
<1>5. ASSUME NEW d \in Callers, Rerun(d) PROVE InStep' /\ UNCHANGED <<table, delivered>>
  <2>1. next'[c] < next[c] /\ next[c] \in Nat /\ next'[c] \in Nat
    BY <1>5, <1>c, <1>n DEF Rerun, TypeOK
  <2>2. Frontier(p)'
    BY <1>5, <1>p, <1>c, <2>1 DEF Rerun, Frontier, storeVars
  <2> QED
    BY <1>5, <2>2 DEF InStep, Pending, Rerun, storeVars
<1>6. CASE CleanupExpired \/ Health
  <2>1. \A i \in Events : marks[KeyOf(i)] > 0 <=> marks'[KeyOf(i)] > 0
    BY <1>6, KeyType DEF CleanupExpired, Health, TypeOK, Absent
  <2>2. Frontier(p)'
    BY <1>6, <1>p, <1>n, <2>1 DEF Frontier, CleanupExpired, Health, Events, TypeOK
  <2>3. Pending'
    BY <1>6, <2>1 DEF InStep, Pending, CleanupExpired, Health, TypeOK
  <2> QED
    BY <1>6, <2>2, <2>3 DEF InStep, CleanupExpired, Health
<1>7. ASSUME NEW d \in Callers PROVE ~ Abandon(d) /\ ~ Tick
  BY DEF Abandon, Tick, Sequential
<1>8. CASE UNCHANGED vars
  BY <1>8, <1>p DEF vars, InStep, Frontier, Pending
<1> QED
  BY <1>1, <1>2, <1>3, <1>4, <1>5, <1>6, <1>7, <1>8, <1>c DEF Next, ReplayEvent, vars

\* Through retries, cancelled calls, failing statements and reruns from any
\* earlier event, the target follows the log and never goes back.
THEOREM TargetFollowsLog ==
    ASSUME Sequential
    PROVE  Spec => FollowsLog
<1>1. Init => Copy!Init
  BY FS_EmptySet DEF Init, Copy!Init, Copy!Empty, Empty
<1>2. Init => InStep
  BY InStepInit
<1>3. TypeOK /\ Justified /\ InStep /\ [Next]_vars
        => InStep' /\ [Copy!Follow]_<<table, Cardinality(delivered)>>
  BY InStepStep
<1> QED
  BY <1>1, <1>2, <1>3, TypeCorrect, JustifiedAlways, PTL DEF Spec, FollowsLog, Copy!Spec
=============================================================================
