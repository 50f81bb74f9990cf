------------------------------ MODULE Ingestor ------------------------------
(***************************************************************************)
(* The ingestor: it reads the replication slot message by message, writes  *)
(* each change to the Redis stream and then to the Kafka topic, and sends  *)
(* the slot feedback, which acknowledges the message and all before it.    *)
(*                                                                         *)
(* A message is its position in Wal, a record <<m, k>> the k-th change of  *)
(* message m.  The slot, the producer's buffer and the brokers are outside *)
(* the code and modelled from how it uses them.                            *)
(***************************************************************************)
EXTENDS Integers, Sequences, FiniteSets

CONSTANTS
    Wal,         \* the messages the slot has to send
    FaultKinds,  \* the faults that can happen, a subset of AllFaults
    MaxFaults    \* bound on faults

\* What the JSON of a message looks like: a list of changes under "change",
\* one change at the top level as format-version 2 sends it, or no JSON.
Shapes    == {"listed", "flat", "garbled"}
AllFaults == {"redis", "send", "timeout", "expire", "feedback",
              "connect", "stream", "stop", "crash"}

Message == [shape : Shapes, changes : Nat]

IngestorAssumption ==
    Wal \in Seq(Message) /\ FaultKinds \subseteq AllFaults /\ MaxFaults \in Nat

VARIABLES
    pc,         \* where start() and process_message are
    at, k,      \* the message received last, and the record in hand
    port,       \* the metrics port: taken once this process serves it
    confirmed,  \* confirmed_flush_lsn of the slot
    streamed,   \* records that were added to the Redis stream
    outbox,     \* records in the producer's buffer
    archived,   \* records in the Kafka topic
    errors,     \* messages whose processing raised (INGEST_ERRORS)
    faults      \* faults left

vars == <<pc, at, k, port, confirmed, streamed, outbox, archived, errors, faults>>

Messages   == 1 .. Len(Wal)
Changes(m) == {<<m, j>> : j \in 1 .. Wal[m].changes}
Records    == UNION {Changes(m) : m \in Messages}

\* parse_wal2json_v2 looks for the changes under payload["change"] only.
Parsed(m) == IF Wal[m].shape = "listed" THEN Wal[m].changes ELSE 0

Fault(kind) ==
    /\ kind \in FaultKinds /\ faults > 0
    /\ faults' = faults - 1

-----------------------------------------------------------------------------
(* start() and the loop in main() around it *)

\* Connect and start replication.  The slot goes on behind what it knows to
\* be confirmed; after a crash of the database that may be an older position.
Start ==
    /\ pc = "down" /\ port = "free"
    /\ port' = "taken"
    /\ pc' = "idle"
    /\ at' \in 0 .. confirmed
    /\ UNCHANGED <<k, confirmed, streamed, outbox, archived, errors, faults>>

\* One of the connections cannot be made: main() calls start() again, whose
\* first call, start_http_server, raises from now on as the port is taken.
ConnectFails ==
    /\ pc = "down" /\ port = "free"
    /\ Fault("connect")
    /\ port' = "taken"
    /\ UNCHANGED <<pc, at, k, confirmed, streamed, outbox, archived, errors>>

\* consume_stream raises; the producer of this process lives on.
StreamError ==
    /\ pc = "idle"
    /\ Fault("stream")
    /\ pc' = "down" /\ at' = 0 /\ k' = 0
    /\ UNCHANGED <<port, confirmed, streamed, outbox, archived, errors>>

Down ==
    /\ pc' = "down" /\ at' = 0 /\ k' = 0
    /\ port' = "free"
    /\ outbox' = {}
    /\ UNCHANGED <<confirmed, streamed, errors>>

\* SIGTERM: flush() waits for the producer's buffer, then the process exits.
Stop ==
    /\ port = "taken"
    /\ Fault("stop")
    /\ archived' = archived \cup outbox
    /\ Down

\* The process dies with its buffer, of which some may have been sent.
Crash ==
    /\ port = "taken"
    /\ Fault("crash")
    /\ \E sent \in SUBSET outbox : archived' = archived \cup sent
    /\ Down

-----------------------------------------------------------------------------
(* process_message *)

\* Parse the payload.  A JSON error ends the message: consume_stream takes no
\* notice of the False that comes back.
Receive ==
    /\ pc = "idle" /\ at < Len(Wal)
    /\ at' = at + 1
    /\ IF Wal[at + 1].shape = "garbled"
         THEN /\ errors' = errors \cup {at + 1} /\ k' = 0
              /\ UNCHANGED pc
         ELSE /\ pc' = IF Parsed(at + 1) = 0 THEN "feedback" ELSE "redis"
              /\ k' = 1
              /\ UNCHANGED errors
    /\ UNCHANGED <<port, confirmed, streamed, outbox, archived, faults>>

\* An exception in process_message: counted, and on to the next message.
Raise ==
    /\ errors' = errors \cup {at}
    /\ pc' = "idle" /\ k' = 0
    /\ UNCHANGED <<at, port, confirmed>>

PublishToRedis ==
    /\ pc = "redis"
    /\ streamed' = streamed \cup {<<at, k>>}
    /\ pc' = "send"
    /\ UNCHANGED <<at, k, port, confirmed, outbox, archived, errors, faults>>

\* xadd raises, whether or not the entry was added.
RedisFails ==
    /\ pc = "redis"
    /\ Fault("redis")
    /\ streamed' \in {streamed, streamed \cup {<<at, k>>}}
    /\ Raise
    /\ UNCHANGED <<outbox, archived>>

Awaited(r) == pc = "await" /\ r = <<at, k>>

\* Mutation: one record too many.
ProceedOneMore ==
    /\ IF k <= Parsed(at) THEN pc' = "redis" /\ k' = k + 1
                          ELSE pc' = "feedback" /\ UNCHANGED k
    /\ UNCHANGED <<at, port, confirmed, errors>>

\* The awaited record is in the topic: the next one, or the feedback.
Proceed ==
    /\ IF k < Parsed(at) THEN pc' = "redis" /\ k' = k + 1
                         ELSE pc' = "feedback" /\ UNCHANGED k
    /\ UNCHANGED <<at, port, confirmed, errors>>

\* Mutation: the future is not waited for.
SendAsync ==
    /\ pc = "send"
    /\ outbox' = outbox \cup {<<at, k>>}
    /\ Proceed
    /\ UNCHANGED <<streamed, archived, faults>>

Send ==
    /\ pc = "send"
    /\ outbox' = outbox \cup {<<at, k>>}
    /\ pc' = "await"
    /\ UNCHANGED <<at, k, port, confirmed, streamed, archived, errors, faults>>

\* send() itself raises, on its metadata or on a full buffer.
SendFails ==
    /\ pc = "send"
    /\ Fault("send")
    /\ Raise
    /\ UNCHANGED <<streamed, outbox, archived>>

\* The broker has a record, the awaited one or one given up earlier; records
\* of different partitions do not wait for each other.
Deliver(r) ==
    /\ r \in outbox
    /\ outbox' = outbox \ {r}
    /\ archived' = archived \cup {r}
    /\ IF Awaited(r) THEN Proceed
                     ELSE UNCHANGED <<pc, at, k, port, confirmed, errors>>
    /\ UNCHANGED <<streamed, faults>>

\* The producer gives a record up, though the broker may have it.
Expire(r) ==
    /\ r \in outbox
    /\ Fault("expire")
    /\ outbox' = outbox \ {r}
    /\ archived' \in {archived, archived \cup {r}}
    /\ IF Awaited(r) THEN Raise
                     ELSE UNCHANGED <<pc, at, k, port, confirmed, errors>>
    /\ UNCHANGED streamed

\* Mutation: a record that is still on its way counts as archived.
TimeoutProceeds ==
    /\ pc = "await"
    /\ Fault("timeout")
    /\ Proceed
    /\ UNCHANGED <<streamed, outbox, archived>>

\* future.get(timeout=10) raises and leaves the record in the buffer.
Timeout ==
    /\ pc = "await"
    /\ Fault("timeout")
    /\ Raise
    /\ UNCHANGED <<streamed, outbox, archived>>

\* Mutation: the position before the message.
FeedbackBehind ==
    /\ pc = "feedback"
    /\ confirmed' = at - 1
    /\ pc' = "idle" /\ k' = 0
    /\ UNCHANGED <<at, port, streamed, outbox, archived, errors, faults>>

\* Feedback goes to the slot as it is; on PostgreSQL 16 it may move it back.
Feedback ==
    /\ pc = "feedback"
    /\ confirmed' = at
    /\ pc' = "idle" /\ k' = 0
    /\ UNCHANGED <<at, port, streamed, outbox, archived, errors, faults>>

FeedbackFails ==
    /\ pc = "feedback"
    /\ Fault("feedback")
    /\ Raise
    /\ UNCHANGED <<streamed, outbox, archived>>

-----------------------------------------------------------------------------
Init ==
    /\ pc = "down" /\ at = 0 /\ k = 0
    /\ port = "free"
    /\ confirmed = 0
    /\ streamed = {} /\ outbox = {} /\ archived = {}
    /\ errors = {}
    /\ faults = MaxFaults

ProcessMessage == Receive \/ PublishToRedis \/ Send \/ Feedback

Failure == RedisFails \/ SendFails \/ Timeout \/ FeedbackFails

Next ==
    \/ Start \/ ConnectFails \/ StreamError \/ Stop \/ Crash
    \/ ProcessMessage \/ Failure
    \/ \E r \in Records : Deliver(r) \/ Expire(r)

Spec == Init /\ [][Next]_vars

\* main() calls start(), the loop goes on, and the brokers accept what the
\* producer keeps sending; faults need not happen.  That a process which has exited
\* is started again is left to the deployment.
FairSpec ==
    /\ Spec
    /\ WF_vars(Start)
    /\ WF_vars(ProcessMessage)
    /\ \A r \in Records : WF_vars(Deliver(r))
-----------------------------------------------------------------------------
(* Properties *)

\* Sets of records and messages of the log, positions within it, and the
\* coroutine's place agreeing with what it has in hand.
TypeOK ==
    /\ pc \in {"down", "idle", "redis", "send", "await", "feedback"}
    /\ at \in 0 .. Len(Wal) /\ k \in Nat
    /\ port \in {"free", "taken"}
    /\ confirmed \in 0 .. Len(Wal)
    /\ streamed \subseteq Records /\ outbox \subseteq Records
    /\ archived \subseteq Records
    /\ errors \subseteq Messages
    /\ faults \in Nat
    /\ pc \in {"redis", "send", "await"} => at \in Messages /\ k \in 1 .. Parsed(at)
    /\ pc = "feedback" => at \in Messages
    /\ pc = "await" => <<at, k>> \in outbox

\* All changes of a message are in the topic, or its processing has raised.
Handled(m) == Changes(m) \subseteq archived \/ m \in errors

\* The parser passes over what a message brings: a change at its top level.
Unread(m) == Wal[m].shape = "flat" /\ Wal[m].changes > 0

\* No message the parser can read is acknowledged in silence: if the slot has
\* moved past it, its changes are in Kafka or an error was counted for it.
AckedOrCounted == \A m \in 1 .. confirmed : Handled(m) \/ Unread(m)

\* Kafka has a change only if it has every change before it, or an error was
\* counted, or the parser did not see it: crashes, redelivery, records that
\* arrive after they were given up and a slot that moves back leave no gap.
NoGap ==
    \A r \in archived :
        /\ \A i \in 1 .. r[1] - 1 : Handled(i) \/ Unread(i)
        /\ \A i \in 1 .. r[2] - 1 : <<r[1], i>> \in archived

\* What process_message says of itself: feedback is sent after the dual write,
\* so that whatever was not written will be sent again.
AtLeastOnce == \A m \in 1 .. confirmed : Handled(m)

\* Nothing is in Kafka, or on its way there, that was not added to Redis.
RedisFirst == archived \cup outbox \subseteq streamed

\* The restart loop no longer gets past start_http_server.
Stuck == pc = "down" /\ port = "taken"

\* The slot is drained: through restarts and redelivery every message is
\* acknowledged in the end and stays so, or its error was counted.  The one
\* way to stop for good is the restart loop behind its own metrics port.
EventuallyDrained ==
    \/ <>[]Stuck
    \/ \A m \in Messages : <>[](m <= confirmed \/ m \in errors)
=============================================================================
