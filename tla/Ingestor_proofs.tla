-------------------------- MODULE Ingestor_proofs ---------------------------
(***************************************************************************)
(* Theorems about Ingestor and their proofs, for any log, any faults and   *)
(* any number of them.                                                     *)
(***************************************************************************)
EXTENDS Ingestor, TLAPS

LEMMA WalType ==
    ASSUME IngestorAssumption
    PROVE  /\ Len(Wal) \in Nat
           /\ \A m \in Messages : Wal[m].changes \in Nat /\ Parsed(m) \in Nat
<1>1. Len(Wal) \in Nat /\ \A m \in Messages : Wal[m] \in Message
  BY DEF IngestorAssumption, Messages
<1> QED
  BY <1>1 DEF Message, Parsed

\* The parser finds changes that are there.
LEMMA ParsedRecords ==
    ASSUME IngestorAssumption
    PROVE  \A m \in Messages : \A j \in 1 .. Parsed(m) : <<m, j>> \in Records
<1> SUFFICES ASSUME NEW m \in Messages, NEW j \in 1 .. Parsed(m)
             PROVE  <<m, j>> \in Records
  OBVIOUS
<1>1. <<m, j>> \in Changes(m)
  BY WalType DEF Changes, Parsed
<1> QED
  BY <1>1 DEF Records

LEMMA RecordShape ==
    ASSUME IngestorAssumption
    PROVE  \A r \in Records : r[1] \in Messages /\ r[2] \in Nat /\ r = <<r[1], r[2]>>
<1> SUFFICES ASSUME NEW r \in Records
             PROVE  r[1] \in Messages /\ r[2] \in Nat /\ r = <<r[1], r[2]>>
  OBVIOUS
<1>1. PICK m \in Messages : r \in Changes(m)
  BY DEF Records
<1>2. PICK j \in 1 .. Wal[m].changes : r = <<m, j>>
  BY <1>1 DEF Changes
<1> QED
  BY <1>2, WalType

\* A message of which all that was parsed has arrived has arrived, or was not read.
LEMMA AllParsed ==
    ASSUME IngestorAssumption, NEW m \in Messages, Wal[m].shape # "garbled",
           NEW S, \A j \in 1 .. Parsed(m) : <<m, j>> \in S
    PROVE  Changes(m) \subseteq S \/ Unread(m)
<1>1. Wal[m].shape \in {"listed", "flat"} /\ Wal[m].changes \in Nat
  <2>1. Wal[m] \in Message
    BY DEF IngestorAssumption, Messages
  <2> QED
    BY <2>1 DEF Message, Shapes
<1>2. CASE Wal[m].shape = "listed"
  BY <1>2 DEF Parsed, Changes
<1>3. CASE Wal[m].shape = "flat"
  BY <1>1, <1>3 DEF Changes, Unread
<1> QED
  BY <1>1, <1>2, <1>3

-----------------------------------------------------------------------------
(* Type correctness *)

LEMMA TypeInit ==
    ASSUME IngestorAssumption
    PROVE  Init => TypeOK
  BY WalType DEF IngestorAssumption, Init, TypeOK

LEMMA RaiseType ==
    ASSUME IngestorAssumption, TypeOK, Raise, at \in Messages,
           streamed' \subseteq Records, outbox' \subseteq Records,
           archived' \subseteq Records, faults' \in Nat, pc # "down"
    PROVE  TypeOK'
  BY DEF Raise, TypeOK

LEMMA ProceedType ==
    ASSUME IngestorAssumption, TypeOK, Proceed, pc = "await",
           streamed' \subseteq Records, outbox' \subseteq Records,
           archived' \subseteq Records, faults' \in Nat
    PROVE  TypeOK'
<1>1. at \in Messages /\ k \in 1 .. Parsed(at) /\ Parsed(at) \in Nat
  BY WalType DEF TypeOK
<1>2. CASE k < Parsed(at)
  BY <1>1, <1>2 DEF Proceed, TypeOK, Parsed
<1>3. CASE ~ (k < Parsed(at))
  BY <1>1, <1>3 DEF Proceed, TypeOK
<1> QED
  BY <1>2, <1>3

LEMMA TypeStep ==
    ASSUME IngestorAssumption
    PROVE  TypeOK /\ [Next]_vars => TypeOK'
<1> SUFFICES ASSUME TypeOK, [Next]_vars
             PROVE  TypeOK'
  OBVIOUS
<1> USE WalType
<1>a. pc \in {"redis", "send", "await"} => at \in Messages /\ <<at, k>> \in Records
  BY ParsedRecords DEF TypeOK
<1>1. CASE Start \/ ConnectFails \/ StreamError
  BY <1>1 DEF Start, ConnectFails, StreamError, Fault, TypeOK
<1>2. CASE Stop \/ Crash
  BY <1>2 DEF Stop, Crash, Down, Fault, TypeOK
<1>3. CASE Receive
  <2>1. at + 1 \in Messages
    BY <1>3 DEF Receive, TypeOK, Messages
  <2>2. CASE Wal[at + 1].shape = "garbled"
    <3>1. pc' = "idle" /\ at' = at + 1 /\ k' = 0 /\ errors' \subseteq Messages
      BY <1>3, <2>1, <2>2 DEF Receive, TypeOK
    <3>2. UNCHANGED <<port, confirmed, streamed, outbox, archived, faults>>
      BY <1>3 DEF Receive
    <3> QED
      BY <2>1, <3>1, <3>2 DEF TypeOK, Messages
  <2>3. CASE Wal[at + 1].shape # "garbled" /\ Parsed(at + 1) = 0
    <3>1. /\ pc' = "feedback" /\ at' = at + 1 /\ k' = 1
          /\ UNCHANGED <<port, confirmed, streamed, outbox, archived, errors, faults>>
      BY <1>3, <2>1, <2>3 DEF Receive
    <3> QED
      BY <2>1, <3>1 DEF TypeOK, Messages
  <2>4. CASE Wal[at + 1].shape # "garbled" /\ Parsed(at + 1) # 0
    <3>1. pc' = "redis" /\ at' = at + 1 /\ k' = 1 /\ Parsed(at + 1) \in Nat /\ UNCHANGED errors
      BY <1>3, <2>1, <2>4 DEF Receive
    <3>2. 1 \in 1 .. Parsed(at + 1) /\ Parsed(at + 1) = Parsed(at')
      BY <2>4, <3>1
    <3> QED
      BY <1>3, <2>1, <3>1, <3>2 DEF Receive, TypeOK, Messages, Parsed
  <2> QED
    BY <2>2, <2>3, <2>4
<1>4. CASE PublishToRedis
  BY <1>4, <1>a DEF PublishToRedis, TypeOK, Parsed
<1>5. CASE Send
  BY <1>5, <1>a DEF Send, TypeOK, Parsed
<1>6. CASE Feedback
  BY <1>6 DEF Feedback, TypeOK, Messages
<1>7. CASE Failure
  <2>1. /\ Raise /\ at \in Messages /\ pc # "down"
        /\ streamed' \subseteq Records /\ outbox' \subseteq Records
        /\ archived' \subseteq Records /\ faults' \in Nat
    BY <1>7, <1>a DEF Failure, RedisFails, SendFails, Timeout, FeedbackFails, Fault, TypeOK
  <2> QED
    BY <2>1, RaiseType
<1>8. ASSUME NEW r \in Records, Deliver(r) PROVE TypeOK'
  <2>1. /\ streamed' \subseteq Records /\ outbox' \subseteq Records
        /\ archived' \subseteq Records /\ faults' \in Nat
    BY <1>8 DEF Deliver, TypeOK
  <2>2. CASE Awaited(r)
    BY <1>8, <2>1, <2>2, ProceedType DEF Deliver, Awaited, TypeOK
  <2>3. CASE ~ Awaited(r)
    BY <1>8, <2>1, <2>3 DEF Deliver, Awaited, TypeOK, Parsed
  <2> QED
    BY <2>2, <2>3
<1>9. ASSUME NEW r \in Records, Expire(r) PROVE TypeOK'
  <2>1. /\ streamed' \subseteq Records /\ outbox' \subseteq Records
        /\ archived' \subseteq Records /\ faults' \in Nat
    BY <1>9 DEF Expire, Fault, TypeOK
  <2>2. CASE Awaited(r)
    BY <1>9, <1>a, <2>1, <2>2, RaiseType DEF Expire, Awaited
  <2>3. CASE ~ Awaited(r)
    BY <1>9, <2>1, <2>3 DEF Expire, Awaited, TypeOK, Parsed
  <2> QED
    BY <2>2, <2>3
<1>10. CASE UNCHANGED vars
  BY <1>10 DEF vars, TypeOK, Parsed
<1> QED
  BY <1>1, <1>2, <1>3, <1>4, <1>5, <1>6, <1>7, <1>8, <1>9, <1>10
     DEF Next, ProcessMessage

\* The ingestor's position, its sets of records and the slot keep their types.
THEOREM TypeCorrect ==
    ASSUME IngestorAssumption
    PROVE  Spec => []TypeOK
  BY TypeInit, TypeStep, PTL DEF Spec

-----------------------------------------------------------------------------
(* No silent loss, no gap                                                  *)

\* A message the parser could read is handled.
Dealt(m) == Handled(m) \/ Unread(m)

\* Everything before a record is handled and, in its own message, archived.
Preceded(m, j) == /\ \A i \in 1 .. m - 1 : Dealt(i)
                  /\ \A i \in 1 .. j - 1 : <<m, i>> \in archived

\* The inductive invariant: what the three properties say of the topic and
\* the slot, extended to the record in hand and to the producer's buffer.
Sound ==
    /\ RedisFirst
    /\ \A r \in archived \cup outbox : Preceded(r[1], r[2])
    /\ \A m \in 1 .. confirmed : Dealt(m)
    /\ \A m \in 1 .. at : Dealt(m) \/ (m = at /\ pc # "idle")
    /\ pc \in {"redis", "send", "await"} => \A i \in 1 .. k - 1 : <<at, i>> \in archived
    /\ pc \in {"send", "await"} => <<at, k>> \in streamed
    /\ pc = "feedback" => Dealt(at)

\* What is handled or preceded stays so: the topic and the errors only grow.
LEMMA HandledGrows ==
    ASSUME archived \subseteq archived', errors \subseteq errors'
    PROVE  /\ \A m \in Nat : Dealt(m) => Dealt(m)'
           /\ \A m, j \in Nat : Preceded(m, j) => Preceded(m, j)'
  BY DEF Dealt, Handled, Preceded

LEMMA SoundInit ==
    ASSUME IngestorAssumption
    PROVE  Init => Sound
  BY DEF Init, Sound, RedisFirst

\* An error leaves the message in hand handled.
LEMMA RaiseSound ==
    ASSUME IngestorAssumption, TypeOK, Sound, Raise, at \in Messages,
           archived \subseteq archived', archived' \subseteq archived \cup outbox,
           outbox' \subseteq outbox, streamed \subseteq streamed'
    PROVE  Sound'
<1>1. errors \subseteq errors' /\ at \in errors' /\ pc' = "idle" /\ UNCHANGED <<at, confirmed>>
  BY DEF Raise
<1>2. Dealt(at)'
  BY <1>1 DEF Dealt, Handled
<1>3. /\ \A m \in 1 .. confirmed : Dealt(m)'
      /\ \A m \in 1 .. at : m # at => Dealt(m)'
  <2>1. \A m \in Nat : Dealt(m) => Dealt(m)'
    BY <1>1, HandledGrows
  <2>2. /\ \A m \in 1 .. confirmed : Dealt(m)
        /\ \A m \in 1 .. at : m # at => Dealt(m)
    BY DEF Sound
  <2> QED
    BY <2>1, <2>2, WalType DEF TypeOK
<1>5. \A m \in 1 .. at : Dealt(m)'
  BY <1>1, <1>2, <1>3 DEF Dealt, Handled
<1>4. \A r \in archived' \cup outbox' : Preceded(r[1], r[2])'
  BY <1>1, HandledGrows, RecordShape DEF Sound, TypeOK, Messages
<1> QED
  BY <1>1, <1>3, <1>4, <1>5 DEF Sound, RedisFirst

\* The awaited record arrives: its message is done, or the next record is due.
LEMMA ProceedSound ==
    ASSUME IngestorAssumption, TypeOK, Sound, Proceed, pc = "await",
           archived' = archived \cup {<<at, k>>}, outbox' \subseteq outbox,
           UNCHANGED streamed
    PROVE  Sound'
<1>1. /\ at \in Messages /\ k \in 1 .. Parsed(at) /\ Parsed(at) \in Nat
      /\ errors' = errors /\ UNCHANGED <<at, confirmed>> /\ <<at, k>> \in outbox
  BY WalType DEF TypeOK, Proceed
<1>2. \A r \in archived' \cup outbox' : Preceded(r[1], r[2])'
  BY <1>1, HandledGrows, RecordShape DEF Sound, TypeOK, Messages
<1>3. \A i \in 1 .. k : <<at, i>> \in archived'
  BY <1>1 DEF Sound
<1>4. \A m \in 1 .. confirmed : Dealt(m)'
  BY <1>1, WalType, HandledGrows DEF Sound, TypeOK
<1>5. \A m \in 1 .. at - 1 : Dealt(m)'
  BY <1>1, HandledGrows DEF Sound, Messages
<1>6. CASE k < Parsed(at)
  BY <1>1, <1>2, <1>3, <1>4, <1>5, <1>6 DEF Proceed, Sound, RedisFirst, Messages
<1>7. CASE ~ (k < Parsed(at))
  <2>1. k = Parsed(at) /\ pc' = "feedback"
    BY <1>1, <1>7 DEF Proceed
  <2>2. Dealt(at)'
    <3>1. Wal[at].shape # "garbled"
      BY <1>1 DEF Parsed
    <3> QED
      BY <1>1, <1>3, <2>1, <3>1, AllParsed DEF Dealt, Handled
  <2> QED
    BY <1>1, <1>2, <1>4, <1>5, <2>1, <2>2 DEF Sound, RedisFirst, Messages
<1> QED
  BY <1>6, <1>7

LEMMA SoundStep ==
    ASSUME IngestorAssumption
    PROVE  TypeOK /\ Sound /\ [Next]_vars => Sound'
<1> SUFFICES ASSUME TypeOK, Sound, [Next]_vars
             PROVE  Sound'
  OBVIOUS
<1> USE WalType
<1>1. CASE Start
  <2>1. /\ pc' = "idle" /\ at' \in 0 .. confirmed
        /\ UNCHANGED <<k, confirmed, streamed, outbox, archived, errors>>
    BY <1>1 DEF Start
  <2> QED
    BY <2>1 DEF TypeOK, Sound, RedisFirst, Preceded, Dealt, Handled
<1>2. CASE ConnectFails \/ StreamError
  BY <1>2 DEF ConnectFails, StreamError, TypeOK, Sound, RedisFirst, Preceded, Dealt, Handled
<1>3. CASE Stop \/ Crash
  <2>1. /\ archived \subseteq archived' /\ archived' \subseteq archived \cup outbox
        /\ outbox' = {} /\ pc' = "down" /\ at' = 0
        /\ UNCHANGED <<confirmed, streamed, errors>>
    BY <1>3 DEF Stop, Crash, Down
  <2>2. \A r \in archived' \cup outbox' : Preceded(r[1], r[2])'
    BY <2>1, HandledGrows, RecordShape DEF Sound, TypeOK, Messages
  <2>3. \A m \in 1 .. confirmed : Dealt(m)'
    BY <2>1, HandledGrows DEF Sound, TypeOK
  <2> QED
    BY <2>1, <2>2, <2>3 DEF Sound, RedisFirst
<1>4. CASE Receive
  <2>1. /\ at' = at + 1 /\ at \in Nat /\ errors \subseteq errors' /\ pc = "idle"
        /\ UNCHANGED <<confirmed, streamed, outbox, archived>>
    BY <1>4 DEF Receive, TypeOK
  <2>2. \A m \in 1 .. at : Dealt(m)'
    BY <2>1, HandledGrows DEF Sound, TypeOK
  <2>3. \A m \in 1 .. confirmed : Dealt(m)'
    BY <2>1, HandledGrows DEF Sound, TypeOK
  <2>4. \A r \in archived' \cup outbox' : Preceded(r[1], r[2])'
    BY <2>1, HandledGrows, RecordShape DEF Sound, TypeOK, Messages
  <2>5. pc' = "idle" => Dealt(at)'
    BY <1>4, <2>1 DEF Receive, Dealt, Handled
  <2>6. pc' = "feedback" => Parsed(at + 1) = 0
    BY <1>4, <2>1 DEF Receive
  <2>7. pc' = "feedback" => Dealt(at)'
    <3>1. pc' = "feedback" => at + 1 \in Messages /\ Wal[at + 1].shape # "garbled"
      BY <1>4, <2>1 DEF Receive, TypeOK, Messages
    <3> QED
      BY <2>1, <2>6, <3>1, AllParsed DEF Dealt, Handled
  <2>8. pc' \in {"redis", "idle", "feedback"} /\ (pc' = "redis" => k' = 1)
    BY <1>4, <2>1 DEF Receive
  <2> QED
    BY <2>1, <2>2, <2>3, <2>4, <2>5, <2>7, <2>8 DEF Sound, RedisFirst
<1>5. CASE PublishToRedis
  BY <1>5 DEF PublishToRedis, TypeOK, Sound, RedisFirst, Preceded, Dealt, Handled
<1>6. CASE Send
  <2>1. at \in Messages /\ k \in Nat /\ Preceded(at, k)
    BY <1>6 DEF Send, TypeOK, Sound, Preceded, Messages
  <2>2. /\ outbox' = outbox \cup {<<at, k>>} /\ pc' = "await" /\ pc = "send"
        /\ UNCHANGED <<at, k, confirmed, streamed, archived, errors>>
    BY <1>6 DEF Send
  <2> QED
    BY <2>1, <2>2 DEF Sound, RedisFirst, Preceded, Dealt, Handled
<1>7. CASE Feedback
  BY <1>7 DEF Feedback, TypeOK, Sound, RedisFirst, Preceded, Dealt, Handled
<1>8. CASE Failure
  <2>1. /\ Raise /\ at \in Messages /\ UNCHANGED <<outbox, archived>>
        /\ streamed \subseteq streamed'
    BY <1>8 DEF Failure, RedisFails, SendFails, Timeout, FeedbackFails, TypeOK
  <2> QED
    BY <2>1, RaiseSound
<1>9. ASSUME NEW r \in Records, Deliver(r) \/ Expire(r), ~ Awaited(r)
      PROVE  Sound'
  <2>1. /\ archived \subseteq archived' /\ archived' \subseteq archived \cup outbox
        /\ outbox' \subseteq outbox
        /\ UNCHANGED <<pc, at, k, confirmed, streamed, errors>>
    BY <1>9 DEF Deliver, Expire
  <2>2. \A s \in archived' \cup outbox' : Preceded(s[1], s[2])'
    BY <2>1, HandledGrows, RecordShape DEF Sound, TypeOK, Messages
  <2>3. \A m \in Nat : Dealt(m) => Dealt(m)'
    BY <2>1, HandledGrows
  <2>4. at \in Nat /\ confirmed \in Nat
    BY DEF TypeOK
  <2> QED
    BY <2>1, <2>2, <2>3, <2>4 DEF Sound, RedisFirst
<1>10. ASSUME NEW r \in Records, Deliver(r), Awaited(r) PROVE Sound'
  BY <1>10, ProceedSound DEF Deliver, Awaited
<1>11. ASSUME NEW r \in Records, Expire(r), Awaited(r) PROVE Sound'
  <2>1. /\ Raise /\ at \in Messages /\ UNCHANGED streamed
        /\ archived \subseteq archived' /\ archived' \subseteq archived \cup outbox
        /\ outbox' \subseteq outbox
    BY <1>11 DEF Expire, Awaited, TypeOK
  <2> QED
    BY <2>1, RaiseSound
<1>12. CASE UNCHANGED vars
  BY <1>12 DEF vars, Sound, RedisFirst, Preceded, Dealt, Handled
<1> QED
  BY <1>1, <1>2, <1>3, <1>4, <1>5, <1>6, <1>7, <1>8, <1>9, <1>10, <1>11, <1>12
     DEF Next, ProcessMessage

LEMMA SoundAlways ==
    ASSUME IngestorAssumption
    PROVE  Spec => []Sound
  BY SoundInit, SoundStep, TypeCorrect, PTL DEF Spec

\* The slot never moves past a message with a change that is not in Kafka unless
\* an error was counted for that message or the parser does not read its shape.
THEOREM NoSilentLoss ==
    ASSUME IngestorAssumption
    PROVE  Spec => []AckedOrCounted
<1>1. Sound => AckedOrCounted
  BY DEF Sound, Dealt, AckedOrCounted
<1> QED
  BY <1>1, SoundAlways, PTL

\* The topic holds a change only with everything before it, but for messages with
\* an error and those of a shape the parser does not read.
THEOREM TopicHasNoGap ==
    ASSUME IngestorAssumption
    PROVE  Spec => []NoGap
<1>1. Sound => NoGap
  BY DEF Sound, Preceded, Dealt, NoGap
<1> QED
  BY <1>1, SoundAlways, PTL

\* The Redis stream has received whatever Kafka has or will have.
THEOREM RedisIsFirst ==
    ASSUME IngestorAssumption
    PROVE  Spec => []RedisFirst
<1>1. Sound => RedisFirst
  BY DEF Sound
<1> QED
  BY <1>1, SoundAlways, PTL
=============================================================================
