------------------------------ MODULE Replayer ------------------------------
(***************************************************************************)
(* The replayer: gRPC handlers that check the dedup table, apply a change  *)
(* to the target and mark it, each in a transaction of its own, and the    *)
(* callers (job workers) that send the changes of a log in order.          *)
(*                                                                         *)
(* Log is the window of a job in source order; an event is its position in *)
(* Log.  Several callers replay the same window: two workers that execute  *)
(* one job, or two jobs over one window.                                   *)
(***************************************************************************)
EXTENDS TargetTable, FiniteSets

CONSTANTS
    Callers,          \* workers in the middle of a job
    Handlers,         \* ReplayEvent coroutines that can be open at once
    NoHandler,        \* a caller awaits no response
    Probe,            \* the idempotency key of the health check
    Log,              \* the changes of the window
    TTL,              \* DEDUP_TTL_DAYS, in clock ticks
    MaxReruns,        \* bound on how often a caller starts anew
    Prompt,           \* TRUE: a caller's RPC ends no earlier than its handler
    Expiry            \* TRUE: replays go on for longer than the TTL

ASSUME LogAssumption      == Log \in Seq(Change)
ASSUME HandlersAssumption == NoHandler \notin Handlers
ASSUME TTLAssumption      == TTL \in Nat \ {0}
ASSUME RerunsAssumption   == MaxReruns \in Nat
ASSUME SwitchAssumption   == Prompt \in BOOLEAN /\ Expiry \in BOOLEAN

VARIABLES
    table,      \* the target
    marks,      \* the table processed_events: ticks until a row expires
    delivered,  \* events applied to the target so far
    pc,         \* where a handler is, or what it is about to answer
    event,      \* the event a handler serves
    rpc,        \* the handler whose response a caller awaits
    next,       \* the event a caller sends next
    reruns      \* reruns left

storeVars == <<table, marks, delivered>>
vars      == <<table, marks, delivered, pc, event, rpc, next, reruns>>

Events == 1 .. Len(Log)
KeyOf(i) == Key(Log[i])
Keys   == {KeyOf(i) : i \in Events} \cup {Probe}
Absent == -1

ASSUME ProbeAssumption == \A i \in Events : KeyOf(i) # Probe

Statements == {"exists", "apply", "mark"}            \* the awaits of a handler
Responses  == {"applied", "duplicate", "failed"}

-----------------------------------------------------------------------------
(* A handler.  What a statement does is one definition, because a handler  *)
(* that fails or is cancelled may or may not have had its effect.          *)

ApplyStatement(h) ==
    /\ ~ Refused(Log[event[h]], table)
    /\ table' = Effect(Log[event[h]], table)
    /\ delivered' = delivered \cup {event[h]}
    /\ UNCHANGED marks

\* mark_processed is an upsert: an old row gets a new expiry.
MarkStatement(h) ==
    /\ marks' = [marks EXCEPT ![KeyOf(event[h])] = TTL]
    /\ UNCHANGED <<table, delivered>>

InFlight(h) == \/ pc[h] = "apply" /\ ApplyStatement(h)
               \/ pc[h] = "mark" /\ MarkStatement(h)
               \/ UNCHANGED storeVars

Goto(h, p) == pc' = [pc EXCEPT ![h] = p]

\* Mutation: the key is claimed before the event is applied.
ExistsClaims(h) ==
    /\ pc[h] = "exists"
    /\ Goto(h, IF marks[KeyOf(event[h])] > 0 THEN "duplicate" ELSE "apply")
    /\ marks' = [marks EXCEPT ![KeyOf(event[h])] = TTL]
    /\ UNCHANGED <<table, delivered, event, rpc, next, reruns>>

\* Mutation: whether the key is there is not looked at.
ExistsNever(h) ==
    /\ pc[h] = "exists"
    /\ Goto(h, "apply")
    /\ UNCHANGED <<storeVars, event, rpc, next, reruns>>

Exists(h) ==
    /\ pc[h] = "exists"
    /\ Goto(h, IF marks[KeyOf(event[h])] > 0 THEN "duplicate" ELSE "apply")
    /\ UNCHANGED <<storeVars, event, rpc, next, reruns>>

Apply(h) ==
    /\ pc[h] = "apply"
    /\ ApplyStatement(h)
    /\ Goto(h, "mark")
    /\ UNCHANGED <<event, rpc, next, reruns>>

Mark(h) ==
    /\ pc[h] = "mark"
    /\ MarkStatement(h)
    /\ Goto(h, "applied")
    /\ UNCHANGED <<event, rpc, next, reruns>>

\* A statement raises, or apply returns False.
Fail(h) ==
    /\ pc[h] \in Statements
    /\ InFlight(h)
    /\ Goto(h, "failed")
    /\ UNCHANGED <<event, rpc, next, reruns>>

Awaiting(h) == {c \in Callers : rpc[c] = h}

Return(h) ==
    /\ Goto(h, "free")
    /\ event' = [event EXCEPT ![h] = 0]
    /\ rpc' = [c \in Callers |-> IF rpc[c] = h THEN NoHandler ELSE rpc[c]]

\* Mutation: any response ends the event.
ReplyIsSuccess(h) ==
    /\ pc[h] \in Responses
    /\ Return(h)
    /\ next' = [c \in Callers |-> IF rpc[c] = h THEN next[c] + 1 ELSE next[c]]
    /\ UNCHANGED <<storeVars, reruns>>

\* The response reaches the caller, if there still is one: success and
\* duplicate advance it, a failure makes it try again.
Reply(h) ==
    /\ pc[h] \in Responses
    /\ Return(h)
    /\ next' = [c \in Callers |-> IF rpc[c] = h /\ pc[h] # "failed"
                                    THEN next[c] + 1 ELSE next[c]]
    /\ UNCHANGED <<storeVars, reruns>>

\* The handler is cancelled (deadline, lost connection, server restart) and
\* its caller gets an RpcError.
Cancel(h) ==
    /\ pc[h] # "free"
    /\ InFlight(h)
    /\ Return(h)
    /\ UNCHANGED <<next, reruns>>

-----------------------------------------------------------------------------
(* Callers *)

Call(c, h) ==
    /\ rpc[c] = NoHandler /\ next[c] \in Events
    /\ pc[h] = "free"
    /\ Goto(h, "exists")
    /\ event' = [event EXCEPT ![h] = next[c]]
    /\ rpc' = [rpc EXCEPT ![c] = h]
    /\ UNCHANGED <<storeVars, next, reruns>>

\* The caller sees its RPC fail while the server has not noticed.
Abandon(c) ==
    /\ ~ Prompt
    /\ rpc[c] # NoHandler
    /\ rpc' = [rpc EXCEPT ![c] = NoHandler]
    /\ UNCHANGED <<storeVars, pc, event, next, reruns>>

\* Mutation: the checkpoint is one event too far back.
RerunBefore(c) ==
    /\ rpc[c] = NoHandler /\ reruns > 0
    /\ \E i \in 0 .. next[c] - 1 : next' = [next EXCEPT ![c] = i]
    /\ reruns' = reruns - 1
    /\ UNCHANGED <<storeVars, pc, event, rpc>>

\* The job fails and is taken up again from its checkpoint, or another job
\* replays the same window.
Rerun(c) ==
    /\ rpc[c] = NoHandler /\ reruns > 0
    /\ \E i \in 1 .. next[c] - 1 : next' = [next EXCEPT ![c] = i]
    /\ reruns' = reruns - 1
    /\ UNCHANGED <<storeVars, pc, event, rpc>>

-----------------------------------------------------------------------------
(* Time and upkeep of the dedup table *)

Tick ==
    /\ Expiry
    /\ \E k \in Keys : marks[k] > 0
    /\ marks' = [k \in Keys |-> IF marks[k] > 0 THEN marks[k] - 1 ELSE marks[k]]
    /\ UNCHANGED <<table, delivered, pc, event, rpc, next, reruns>>

CleanupExpired ==
    /\ \E k \in Keys : marks[k] = 0
    /\ marks' = [k \in Keys |-> IF marks[k] = 0 THEN Absent ELSE marks[k]]
    /\ UNCHANGED <<table, delivered, pc, event, rpc, next, reruns>>

\* Health calls check_and_mark with a key of its own.
Health ==
    /\ marks[Probe] = Absent
    /\ marks' = [marks EXCEPT ![Probe] = TTL]
    /\ UNCHANGED <<table, delivered, pc, event, rpc, next, reruns>>

-----------------------------------------------------------------------------
Init ==
    /\ table = Empty
    /\ marks = [k \in Keys |-> Absent]
    /\ delivered = {}
    /\ pc = [h \in Handlers |-> "free"]
    /\ event = [h \in Handlers |-> 0]
    /\ rpc = [c \in Callers |-> NoHandler]
    /\ next = [c \in Callers |-> 1]
    /\ reruns = MaxReruns

ReplayEvent(h) ==
    Exists(h) \/ Apply(h) \/ Mark(h) \/ Fail(h) \/ Reply(h) \/ Cancel(h)

Next ==
    \/ \E h \in Handlers : ReplayEvent(h)
    \/ \E c \in Callers : \/ \E h \in Handlers : Call(c, h)
                          \/ Abandon(c)
                          \/ Rerun(c)
    \/ Tick \/ CleanupExpired \/ Health

Spec == Init /\ [][Next]_vars
-----------------------------------------------------------------------------
(* Properties *)

\* Every variable is of the shape ReplayEvent and its callers give it; a
\* free handler serves nothing and nobody, an open one serves an event.
TypeOK ==
    /\ table \in Table
    /\ marks \in [Keys -> Absent .. TTL]
    /\ delivered \subseteq Events
    /\ pc \in [Handlers -> {"free"} \cup Statements \cup Responses]
    /\ event \in [Handlers -> {0} \cup Events]
    /\ rpc \in [Callers -> Handlers \cup {NoHandler}]
    /\ next \in [Callers -> 1 .. Len(Log) + 1]
    /\ reruns \in Nat
    /\ \A h \in Handlers : pc[h] = "free" <=> event[h] = 0
    /\ \A c \in Callers : rpc[c] # NoHandler => event[rpc[c]] = next[c]

\* An event with the same idempotency key has been applied.
Known(i) == \E j \in delivered : KeyOf(j) = KeyOf(i)

\* No key is in the dedup table before a change with that key has been
\* applied to the target, whatever fails or is cancelled in between: a retry
\* is never taken for a duplicate of something that did not happen.
MarkedIsDelivered == \A i \in Events : marks[KeyOf(i)] # Absent => Known(i)

\* A caller never gets past a change, on a success or a duplicate, unless a
\* change with its key has been applied, by this caller or by another.
AckedIsDelivered == \A c \in Callers : \A i \in 1 .. next[c] - 1 : Known(i)

\* The inductive invariant behind the two.
Justified ==
    /\ MarkedIsDelivered
    /\ AckedIsDelivered
    /\ \A h \in Handlers : pc[h] \in {"mark", "applied", "duplicate"} => Known(event[h])

\* At-least-once delivery: what a caller got past has itself been applied.
NothingSkipped == \A c \in Callers : 1 .. next[c] - 1 \subseteq delivered

\* One caller at a time, handlers that end with their calls and no expiry:
\* the target follows the log, event by event, through retries, cancelled
\* calls and reruns from any checkpoint, and never goes back.
Copy == INSTANCE TargetCopy WITH pos <- Cardinality(delivered)
FollowsLog == Copy!Spec

\* The target after the first i changes.
Replica[i \in 0 .. Len(Log)] ==
    IF i = 0 THEN Empty ELSE Effect(Log[i], Replica[i - 1])

\* Replaying is idempotent: when every caller has got to the end, the target
\* holds what the log says, however often events were sent.
Converged ==
    (\A c \in Callers : next[c] = Len(Log) + 1 /\ rpc[c] = NoHandler)
        /\ (\A h \in Handlers : pc[h] = "free")
            => table = Replica[Len(Log)]
=============================================================================
