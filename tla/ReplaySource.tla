------------------------------ MODULE ReplaySource ------------------------------
(***************************************************************************)
(* Where the events of a replay come from: the Redis stream, read in       *)
(* batches behind a cursor, or the Kafka topic, read per partition from a  *)
(* seek to an end; the router that picks one of them for a job, and the    *)
(* position the worker saves for it.  ReplayJobs has the job, which it     *)
(* replays from a source reduced to a list.                                *)
(*                                                                         *)
(* Times are those of the two stores, which the ingestor writes one after  *)
(* the other.  Offsets and places in the stream count from 1, None is no   *)
(* position.  The Kafka consumer is told from the calls the source makes.  *)
(***************************************************************************)
EXTENDS Integers, Sequences, FiniteSets

CONSTANTS Partitions,
          Windows,            \* the windows a job may have, as pairs of times
          Threshold,          \* redis_replay_threshold_ms
          BATCH_SIZE,         \* entries of one XRANGE (100)
          MAXLEN,             \* of the stream (100000)
          MaxEvents, MaxTime, MaxStops    \* bounds

None == 0

SourceAssumption ==
    /\ IsFiniteSet(Partitions) /\ Partitions # {}
    /\ \A w \in Windows : {w[1], w[2]} \subseteq Nat /\ w[1] < w[2]
    /\ {BATCH_SIZE, MAXLEN} \subseteq Nat \ {0}
    /\ Threshold \in Int /\ {MaxEvents, MaxTime, MaxStops} \subseteq Nat

VARIABLES
    now,
    topic,      \* per partition: the times of its records
    begin,      \* per partition: the first offset retention has left
    stream,     \* the stream: time and record of each entry ever added
    trimmed,    \* entries MAXLEN has removed
    window,         \* of the job
    replaySource,   \* of the job: "none", "redis" or "kafka"
    checkpoint,     \* of the job, per partition: the offset saved
    lastId,         \* last_processed_id of a Redis job, as a place
    mode,       \* "idle", "open", "done"; of Kafka before its ends are known also
                \* "looking" (assigned) and "seeking" (the lookup was answered)
    cursor,     \* Redis: the place last yielded
    batch,      \* Redis: what is left of the entries read, as places
    more,       \* Redis: "no" after a batch that was not full
    position,   \* Kafka, per partition: the next offset
    unfound,    \* Kafka: partitions still to be sought to their end
    ends,       \* Kafka, per partition: end_offsets
    completed,  \* Kafka: completed_partitions
    inHand,     \* the record yielded and not yet recorded, as a set
    \* history
    delivered,  \* records handed to the replayer
    opened,     \* when a stream was opened first
    promised,   \* records of the window its source held when it was opened last
    skipped,    \* records of the window a seek to the end has passed over
    repeats,    \* records delivered again
    stops       \* streams that were interrupted

storeVars == <<now, topic, begin, stream, trimmed>>
jobVars == <<window, replaySource, checkpoint, lastId>>
redisVars == <<cursor, batch, more>>
kafkaVars == <<position, unfound, ends, completed>>
historyVars == <<delivered, opened, promised, skipped, repeats, stops>>
vars == <<storeVars, jobVars, mode, redisVars, kafkaVars, inHand, historyVars>>

StartMs == window[1]
EndMs == window[2]
InWindow(time) == StartMs <= time /\ time <= EndMs
Time(e) == topic[e[1]][e[2]]
Records == UNION {{p} \X DOMAIN topic[p] : p \in Partitions}

Init ==
    /\ now = 0 /\ stream = <<>> /\ trimmed = 0
    /\ topic = [p \in Partitions |-> <<>>] /\ begin = [p \in Partitions |-> 1]
    /\ window \in Windows /\ replaySource = "none" /\ lastId = None
    /\ checkpoint = [p \in Partitions |-> None]
    /\ mode = "idle" /\ inHand = {}
    /\ cursor = None /\ batch = {} /\ more = "yes"
    /\ position = [p \in Partitions |-> 1] /\ ends = [p \in Partitions |-> 1]
    /\ unfound = {} /\ completed = {}
    /\ delivered = {} /\ opened = 0 /\ promised = {} /\ skipped = {}
    /\ repeats = 0 /\ stops = 0

-----------------------------------------------------------------------------
(* The stores                                                              *)

Tick ==
    /\ now < MaxTime
    /\ now' = now + 1
    /\ UNCHANGED <<topic, begin, stream, trimmed, jobVars, mode, redisVars, kafkaVars,
                   inHand, historyVars>>

Publish(p) ==
    /\ Len(stream) < MaxEvents
    /\ topic' = [topic EXCEPT ![p] = Append(@, now)]
    /\ stream' = Append(stream, [time |-> now, record |-> <<p, Len(topic'[p])>>])
    /\ UNCHANGED <<now, begin, trimmed, jobVars, mode, redisVars, kafkaVars, inHand,
                   historyVars>>

\* MAXLEN is approximate: what exceeds it goes at some time.
Trim ==
    /\ Len(stream) - trimmed > MAXLEN
    /\ trimmed' = trimmed + 1
    /\ UNCHANGED <<now, topic, begin, stream, jobVars, mode, redisVars, kafkaVars, inHand,
                   historyVars>>

\* The retention of the topic.
Expire(p) ==
    /\ begin[p] <= Len(topic[p]) /\ topic[p][begin[p]] < now
    /\ begin' = [begin EXCEPT ![p] = @ + 1]
    /\ UNCHANGED <<now, topic, stream, trimmed, jobVars, mode, redisVars, kafkaVars, inHand,
                   historyVars>>

Held == IF replaySource' = "kafka"
        THEN {e \in Records : e[2] >= begin[e[1]]}
        ELSE {stream[i].record : i \in (trimmed + 1)..Len(stream)}

-----------------------------------------------------------------------------
(* Opening a stream                                                        *)

\* Mutant: the router picks anew when a job resumes.
GetSourceAnew ==
    IF now - StartMs < Threshold /\ EndMs - StartMs < Threshold THEN "redis" ELSE "kafka"

\* A job that has a source keeps it, for its position means nothing to the other.
GetSource ==
    IF replaySource # "none" THEN replaySource
    ELSE IF now - StartMs < Threshold /\ EndMs - StartMs < Threshold THEN "redis" ELSE "kafka"

\* Mutant: a partition with nothing at or after the time is read from its beginning.
OffsetOrEarliest(p, time) ==
    LET later == {o \in begin[p]..Len(topic[p]) : topic[p][o] >= time}
    IN  IF later = {} THEN begin[p] ELSE CHOOSE o \in later : \A x \in later : o <= x

\* offsets_for_times: the first offset at or after a time, or else the end.
OffsetForTime(p, time) ==
    LET later == {o \in begin[p]..Len(topic[p]) : topic[p][o] >= time}
    IN  IF later = {} THEN Len(topic[p]) + 1
        ELSE CHOOSE o \in later : \A x \in later : o <= x

\* Mutant: a saved partition is sought to the offset saved.
SeekToSaved(p) == IF checkpoint[p] # None THEN checkpoint[p] ELSE OffsetForTime(p, StartMs)

SeekTo(p) == IF checkpoint[p] # None THEN checkpoint[p] + 1 ELSE OffsetForTime(p, StartMs)

Open ==
    /\ mode = "idle"
    /\ replaySource' = GetSource
    /\ mode' = IF replaySource' = "redis" THEN "open" ELSE "looking"
    /\ promised' = {e \in Held : InWindow(Time(e))}
    /\ opened' = IF replaySource = "none" THEN now ELSE opened
    /\ cursor' = lastId /\ batch' = {} /\ more' = "yes"
    /\ UNCHANGED <<storeVars, window, checkpoint, lastId, kafkaVars, inHand, delivered,
                   skipped, repeats, stops>>

\* partitions_for_topic knows of none, as long as nothing was published: the
\* stream ends, with no partition to wait for.
NoTopic ==
    /\ mode = "looking" /\ \A p \in Partitions : topic[p] = <<>>
    /\ mode' = "open"
    /\ position' = [p \in Partitions |-> 1] /\ ends' = position'
    /\ unfound' = {} /\ completed' = Partitions
    /\ UNCHANGED <<storeVars, jobVars, redisVars, inHand, historyVars>>

\* One call of offsets_for_times for all partitions without a saved offset; those
\* with one are sought behind it.  Until it is sought, a partition in which nothing
\* was found has no position in the consumer; here it has the end the lookup saw.
Lookup ==
    /\ mode = "looking"
    /\ mode' = "seeking"
    /\ position' = [p \in Partitions |-> SeekTo(p)]
    /\ unfound' = {p \in Partitions : checkpoint[p] = None /\ SeekTo(p) > Len(topic[p])}
    /\ UNCHANGED <<storeVars, jobVars, redisVars, ends, completed, inHand, historyVars>>

Between(p, from, to) == {<<p, o>> : o \in {x \in from..to : InWindow(topic[p][x])}}

\* Each of these is sought to the end it has by then, which end_offsets([tp]) tells:
\* a record published since the lookup is passed over.
SeekToEnd(p) ==
    /\ mode = "seeking" /\ p \in unfound
    /\ unfound' = unfound \ {p}
    /\ position' = [position EXCEPT ![p] = Len(topic[p]) + 1]
    /\ skipped' = skipped \cup Between(p, position[p], Len(topic[p]))
    /\ UNCHANGED <<storeVars, jobVars, mode, redisVars, ends, completed, inHand, delivered,
                   opened, promised, repeats, stops>>

\* mark_completed_if_at_end
AtEnd(p, end) == position'[p] >= end

\* Mutant: partitions that are at their end already are not marked.
SnapshotUnmarked ==
    /\ mode = "seeking" /\ unfound = {}
    /\ mode' = "open"
    /\ ends' = [p \in Partitions |-> Len(topic[p]) + 1]
    /\ completed' = {}
    /\ UNCHANGED <<storeVars, jobVars, redisVars, position, unfound, inHand, historyVars>>

\* The high-water marks, which records published since the seeks are below.
SnapshotEnds ==
    /\ mode = "seeking" /\ unfound = {}
    /\ mode' = "open"
    /\ ends' = [p \in Partitions |-> Len(topic[p]) + 1]
    /\ UNCHANGED <<position, unfound>>
    /\ completed' = {p \in Partitions : AtEnd(p, ends'[p])}
    /\ UNCHANGED <<storeVars, jobVars, redisVars, inHand, historyVars>>

-----------------------------------------------------------------------------
(* Redis                                                                   *)

EntriesAfter(from) == {i \in (trimmed + 1)..Len(stream) : i > from /\ InWindow(stream[i].time)}

\* XRANGE, from behind the cursor: the first entries, up to the count.
XRange ==
    /\ mode = "open" /\ replaySource = "redis" /\ inHand = {} /\ batch = {} /\ more = "yes"
    /\ LET all == EntriesAfter(cursor)
       IN  /\ batch' = {i \in all : Cardinality({k \in all : k < i}) < BATCH_SIZE}
           /\ more' = IF Cardinality(all) < BATCH_SIZE THEN "no" ELSE "yes"
    /\ UNCHANGED <<storeVars, jobVars, mode, cursor, kafkaVars, inHand, historyVars>>

\* Mutant: the position is saved before the event is replayed.
YieldSaved ==
    /\ mode = "open" /\ inHand = {}
    /\ \E i \in batch :
         /\ \A k \in batch : i <= k
         /\ cursor' = i /\ batch' = batch \ {i} /\ lastId' = i
         /\ inHand' = {stream[i].record}
    /\ UNCHANGED <<storeVars, window, replaySource, checkpoint, mode, more, kafkaVars, historyVars>>

YieldRedis ==
    /\ mode = "open" /\ inHand = {}
    /\ \E i \in batch :
         /\ \A k \in batch : i <= k
         /\ cursor' = i /\ batch' = batch \ {i}
         /\ inHand' = {stream[i].record}
    /\ UNCHANGED <<storeVars, jobVars, mode, more, kafkaVars, historyVars>>

-----------------------------------------------------------------------------
(* Kafka                                                                   *)

\* Mutant: a record beyond the window ends the stream.
PollStops(p) ==
    /\ mode = "open" /\ replaySource = "kafka" /\ inHand = {} /\ completed # Partitions
    /\ LET o == IF position[p] < begin[p] THEN begin[p] ELSE position[p]
           beyond == topic[p][o] > EndMs
       IN  /\ o <= Len(topic[p])
           /\ position' = [position EXCEPT ![p] = o + 1]
           /\ inHand' = IF p \in completed \/ beyond THEN {} ELSE {<<p, o>>}
           /\ completed' = IF beyond THEN Partitions
                           ELSE IF AtEnd(p, ends[p]) THEN completed \cup {p} ELSE completed
    /\ UNCHANGED <<storeVars, jobVars, mode, redisVars, unfound, ends, historyVars>>

\* The next record of a partition; a position retention has overtaken is reset
\* to the earliest record.  One of a partition completed before is passed over;
\* one beyond the window completes its own partition only.
Poll(p) ==
    /\ mode = "open" /\ replaySource = "kafka" /\ inHand = {} /\ completed # Partitions
    /\ LET o == IF position[p] < begin[p] THEN begin[p] ELSE position[p]
           beyond == topic[p][o] > EndMs
       IN  /\ o <= Len(topic[p])
           /\ position' = [position EXCEPT ![p] = o + 1]
           /\ inHand' = IF p \in completed \/ beyond THEN {} ELSE {<<p, o>>}
           /\ completed' = IF beyond \/ AtEnd(p, ends[p]) THEN completed \cup {p} ELSE completed
    /\ UNCHANGED <<storeVars, jobVars, mode, redisVars, unfound, ends, historyVars>>

-----------------------------------------------------------------------------
(* The worker                                                              *)

Again(e) == IF e \in delivered THEN repeats + 1 ELSE repeats

\* The event is replayed and its position saved.
Record ==
    /\ \E e \in inHand :
          /\ delivered' = delivered \cup {e} /\ repeats' = Again(e)
          /\ IF replaySource = "kafka"
             THEN checkpoint' = [checkpoint EXCEPT ![e[1]] = e[2]] /\ UNCHANGED lastId
             ELSE lastId' = cursor /\ UNCHANGED checkpoint
    /\ inHand' = {}
    /\ UNCHANGED <<storeVars, window, replaySource, mode, redisVars, kafkaVars, opened,
                   promised, skipped, stops>>

\* The job pauses, fails or loses its worker, perhaps with the event delivered and
\* its position not saved; it may be taken up again.
Interrupt ==
    /\ mode \in {"looking", "seeking", "open"} /\ stops < MaxStops
    /\ mode' = "idle" /\ inHand' = {} /\ stops' = stops + 1
    /\ \/ UNCHANGED <<delivered, repeats>>
       \/ \E e \in inHand : delivered' = delivered \cup {e} /\ repeats' = Again(e)
    /\ UNCHANGED <<storeVars, jobVars, redisVars, kafkaVars, opened, promised, skipped>>

\* The stream ends and the job completes.
Finish ==
    /\ mode = "open" /\ inHand = {}
    /\ \/ replaySource = "redis" /\ batch = {} /\ more = "no"
       \/ replaySource = "kafka" /\ completed = Partitions
    /\ mode' = "done"
    /\ UNCHANGED <<storeVars, jobVars, redisVars, kafkaVars, inHand, historyVars>>

Next ==
    \/ Tick \/ Trim \/ \E p \in Partitions : Publish(p) \/ Expire(p)
    \/ Open \/ NoTopic \/ Lookup \/ \E p \in Partitions : SeekToEnd(p)
    \/ SnapshotEnds \/ XRange \/ YieldRedis \/ \E p \in Partitions : Poll(p)
    \/ Record \/ Interrupt \/ Finish

(* An open stream is read on; the brokers serve what there is.             *)
Fairness ==
    /\ WF_vars(Lookup) /\ WF_vars(\E p \in Partitions : SeekToEnd(p))
    /\ WF_vars(SnapshotEnds) /\ WF_vars(XRange) /\ WF_vars(YieldRedis)
    /\ WF_vars(\E p \in Partitions : Poll(p))
    /\ WF_vars(Record) /\ WF_vars(Finish)

Spec == Init /\ [][Next]_vars /\ Fairness

-----------------------------------------------------------------------------
Gone(e) ==
    IF replaySource = "kafka" THEN e[2] < begin[e[1]]
    ELSE \A i \in (trimmed + 1)..Len(stream) : stream[i].record # e

(* The values of the variables; there are positions in the job only for    *)
(* the source it keeps, and they lie within it.                            *)
TypeOK ==
    /\ replaySource \in {"none", "redis", "kafka"}
    /\ mode \in {"idle", "looking", "seeking", "open", "done"}
    /\ \A p \in Partitions : checkpoint[p] \in 0..Len(topic[p])
    /\ lastId \in 0..Len(stream)
    /\ replaySource # "kafka" => \A p \in Partitions : checkpoint[p] = None
    /\ replaySource # "redis" => lastId = None
    /\ Cardinality(inHand) <= 1 /\ inHand \subseteq Records /\ delivered \subseteq Records
    /\ unfound \subseteq Partitions /\ (mode = "open" => unfound = {})

(* A replay that completes has delivered every event of its window that    *)
(* its source held when it was last opened, in all its runs together; what *)
(* is missing was removed by MAXLEN or retention before it was read, or    *)
(* passed over by an earlier opening (see NothingPassedOver).              *)
DoneIsComplete ==
    mode = "done" => \A e \in promised \ delivered : Gone(e) \/ e \in skipped

(* What a position claims: up to it, every event of the window in that     *)
(* partition, or in the stream, was delivered or is gone, or was published *)
(* between the lookup of an opening and the seek to the end after it.      *)
PositionCovers ==
    /\ \A p \in Partitions : \A o \in 1..checkpoint[p] :
          InWindow(topic[p][o]) =>
              <<p, o>> \in delivered \/ Gone(<<p, o>>) \/ <<p, o>> \in skipped
    /\ \A i \in 1..lastId :
          InWindow(stream[i].time) => stream[i].record \in delivered \/ i <= trimmed

(* What the comment at the seek to the end says: a partition that is moved *)
(* to its end has no records in the range, so that no saved position is    *)
(* above an event of the window that was passed over.                      *)
NothingPassedOver == \A e \in skipped : e[2] > checkpoint[e[1]] \/ e \in delivered

(* At most one event again for each interruption: the one in hand.         *)
OneRepeatPerStop == repeats <= stops

(* Nothing from after the window is delivered, and nothing from before it  *)
(* but by a replay opened before its window began: a record that came      *)
(* after its partition was sought to the end is above that position.       *)
OnlyTheWindow ==
    [][\A e \in delivered' \ delivered :
         InWindow(Time(e)) \/ (opened <= Time(e) /\ Time(e) < StartMs)]_vars

(* A stream that was opened ends or is interrupted, however much is        *)
(* published to the topic.  It waits on, perhaps for ever, when retention  *)
(* has taken all a partition held between its position and its end.        *)
Starved == \E p \in Partitions \ completed : position[p] < begin[p] /\ begin[p] > Len(topic[p])
Streaming == mode \in {"looking", "seeking", "open"}
StreamEnds ==
    Streaming ~> (~ Streaming \/ (mode = "open" /\ replaySource = "kafka" /\ Starved))
=============================================================================
