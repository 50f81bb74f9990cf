------------------------- MODULE ReplaySource_proofs -------------------------
(***************************************************************************)
(* What a replay has read of its source, for any partitions, windows,      *)
(* sizes of batch and stream, publications, retention and interruptions.   *)
(***************************************************************************)
EXTENDS ReplaySource, FiniteSetTheorems, WellFoundedInduction, TLAPS

-----------------------------------------------------------------------------
(* Types                                                                   *)

StoreTypes ==
    /\ now \in Nat /\ trimmed \in Nat
    /\ topic \in [Partitions -> Seq(Nat)]
    /\ begin \in [Partitions -> Nat \ {0}]
    /\ stream \in Seq([time : Nat, record : Partitions \X Nat])

JobTypes ==
    /\ window \in Windows
    /\ replaySource \in {"none", "redis", "kafka"}
    /\ mode \in {"idle", "looking", "seeking", "open", "done"}
    /\ mode # "idle" => replaySource # "none"
    /\ mode \in {"looking", "seeking"} => replaySource = "kafka"
    /\ checkpoint \in [Partitions -> Nat]
    /\ \A p \in Partitions : checkpoint[p] <= Len(topic[p])
    /\ lastId \in 0..Len(stream)
    /\ replaySource # "kafka" => \A p \in Partitions : checkpoint[p] = None
    /\ replaySource # "redis" => lastId = None
    /\ more \in {"yes", "no"}

ReaderTypes ==
    /\ cursor \in 0..Len(stream)
    /\ batch \subseteq 1..Len(stream)
    /\ batch # {} => replaySource = "redis"
    /\ position \in [Partitions -> Nat \ {0}]
    /\ \A p \in Partitions : position[p] <= Len(topic[p]) + 1
    /\ ends \in [Partitions -> Nat]
    /\ completed \subseteq Partitions
    /\ unfound \subseteq Partitions /\ (mode = "open" \/ replaySource # "kafka" => unfound = {})

HistoryTypes ==
    /\ inHand \subseteq Records /\ delivered \subseteq Records /\ promised \subseteq Records
    /\ inHand = {} \/ \E e \in Records : inHand = {e}
    /\ inHand # {} => mode = "open"
    /\ IsFiniteSet(delivered)
    /\ replaySource = "none" => delivered = {}
    /\ opened \in Nat /\ opened <= now
    /\ repeats \in Nat /\ stops \in Nat

\* The records of a topic are in the order of time; the stream has each once.
TopicsOK ==
    \A p \in Partitions : \A a, b \in 1..Len(topic[p]) :
        topic[p][a] <= now /\ (a <= b => topic[p][a] <= topic[p][b])

StreamOK ==
    /\ \A i \in 1..Len(stream) :
         stream[i].record \in Records /\ stream[i].time = Time(stream[i].record)
    /\ \A i, k \in 1..Len(stream) : stream[i].record = stream[k].record => i = k

Types == StoreTypes /\ JobTypes /\ ReaderTypes /\ HistoryTypes /\ TopicsOK /\ StreamOK

\* The records as pairs.
RecordFacts ==
    /\ \A p \in Partitions : Len(topic[p]) \in Nat /\ topic[p] \in Seq(Nat)
    /\ \A p \in Partitions : \A o \in 1..Len(topic[p]) :
         topic[p][o] \in Nat /\ <<p, o>> \in Records /\ Time(<<p, o>>) = topic[p][o]
    /\ \A e \in Records : /\ e[1] \in Partitions /\ e[2] \in 1..Len(topic[e[1]])
                          /\ e = <<e[1], e[2]>> /\ Time(e) = topic[e[1]][e[2]]
    /\ Len(stream) \in Nat

\* A record is a partition and an offset the topic has.
LEMMA RecordsAre == StoreTypes => RecordFacts
<1> SUFFICES ASSUME StoreTypes PROVE RecordFacts
  OBVIOUS
<1>1. \A p \in Partitions : topic[p] \in Seq(Nat) /\ DOMAIN topic[p] = 1..Len(topic[p])
                            /\ Len(topic[p]) \in Nat
  BY DEF StoreTypes
<1>2. \A p \in Partitions : \A o \in 1..Len(topic[p]) : topic[p][o] \in Nat
  BY <1>1
<1>3. Len(stream) \in Nat
  BY DEF StoreTypes
<1>4. ASSUME NEW p \in Partitions, NEW o \in 1..Len(topic[p])
      PROVE  <<p, o>> \in Records
  <2>1. <<p, o>> \in {p} \X DOMAIN topic[p]
    BY <1>1
  <2> QED
    BY <2>1, Zenon DEF Records
<1>5. ASSUME NEW e \in Records
      PROVE  e[1] \in Partitions /\ e[2] \in 1..Len(topic[e[1]]) /\ e = <<e[1], e[2]>>
  <2>1. PICK p \in Partitions : e \in {p} \X DOMAIN topic[p]
    BY Zenon DEF Records
  <2> QED
    BY <1>1, <2>1
<1> QED
  BY <1>1, <1>2, <1>3, <1>4, <1>5 DEF Time, RecordFacts

\* And so after a step.
LEMMA RecordsAreNext == StoreTypes' => RecordFacts'
BY RecordsAre, PTL

\* What the stores do beside the job: they grow, and lose their oldest.
Grown ==
    /\ now <= now' /\ trimmed <= trimmed'
    /\ \A p \in Partitions :
         /\ begin[p] <= begin'[p]
         /\ Len(topic[p]) <= Len(topic'[p])
         /\ \A o \in 1..Len(topic[p]) : topic'[p][o] = topic[p][o]
         /\ \A o \in (Len(topic[p]) + 1)..Len(topic'[p]) : topic'[p][o] = now
    /\ Len(stream) <= Len(stream')
    /\ \A i \in 1..Len(stream) : stream'[i] = stream[i]
    /\ \A i \in (Len(stream) + 1)..Len(stream') : stream'[i].record \notin Records
    /\ Records \subseteq Records'
    /\ \A e \in Records : Time(e)' = Time(e)

StoreStep == Tick \/ Trim \/ \E p \in Partitions : Publish(p) \/ Expire(p)

\* What Append leaves and adds.
LEMMA Append1 ==
    ASSUME NEW S, NEW q \in Seq(S), NEW x \in S
    PROVE  /\ Append(q, x) \in Seq(S) /\ Len(Append(q, x)) = Len(q) + 1 /\ Len(q) \in Nat
           /\ \A i \in 1..Len(q) : Append(q, x)[i] = q[i] /\ q[i] \in S
           /\ Append(q, x)[Len(q) + 1] = x
  OBVIOUS

\* Publication, retention and MAXLEN leave the records that are there as they were.
LEMMA StoreGrows ==
    ASSUME Types, StoreStep
    PROVE  StoreTypes' /\ TopicsOK' /\ StreamOK' /\ Grown
<1>t. StoreTypes /\ TopicsOK /\ StreamOK
  BY DEF Types
<1>r. /\ \A p \in Partitions : Len(topic[p]) \in Nat
      /\ Len(stream) \in Nat
      /\ \A e \in Records : e[1] \in Partitions /\ e[2] \in 1..Len(topic[e[1]]) /\ e = <<e[1], e[2]>>
  BY <1>t, RecordsAre DEF RecordFacts
<1>1. CASE Tick \/ Trim \/ \E p \in Partitions : Expire(p)
  <2>1. /\ UNCHANGED <<topic, stream>> /\ now \in Nat /\ now' \in Nat /\ now <= now'
        /\ trimmed' \in Nat /\ trimmed <= trimmed'
    BY <1>1, <1>t DEF StoreTypes, Tick, Trim, Expire
  <2>2. begin' \in [Partitions -> Nat \ {0}] /\ \A p \in Partitions : begin[p] <= begin'[p]
    <3>1. begin \in [Partitions -> Nat \ {0}]
      BY <1>t DEF StoreTypes
    <3>2. CASE Tick \/ Trim
      BY <3>1, <3>2 DEF Tick, Trim
    <3>3. ASSUME NEW p \in Partitions, Expire(p)
          PROVE  begin' \in [Partitions -> Nat \ {0}] /\ \A q \in Partitions : begin[q] <= begin'[q]
      BY <3>1, <3>3 DEF Expire
    <3> QED
      BY <1>1, <3>2, <3>3
  <2>3. Records' = Records /\ \A e : Time(e)' = Time(e)
    BY <2>1 DEF Records, Time
  <2>4. StoreTypes'
    BY <2>1, <2>2, <1>t DEF StoreTypes
  <2>5. TopicsOK'
    <3>1. \A p \in Partitions : \A a \in 1..Len(topic[p]) : topic[p][a] \in Nat
      BY <1>t, RecordsAre DEF RecordFacts
    <3> QED
      BY <1>t, <2>1, <3>1 DEF TopicsOK
  <2>6. StreamOK'
    BY <1>t, <2>1, <2>3 DEF StreamOK
  <2>7. Grown
    BY <1>r, <2>1, <2>2, <2>3 DEF Grown
  <2> QED
    BY <2>4, <2>5, <2>6, <2>7
<1>2. ASSUME NEW p \in Partitions, Publish(p)
      PROVE  StoreTypes' /\ TopicsOK' /\ StreamOK' /\ Grown
  <2> DEFINE R == [time : Nat, record : Partitions \X Nat]
             n == Len(topic[p]) + 1
             x == [time |-> now, record |-> <<p, n>>]
  <2>0. /\ topic[p] \in Seq(Nat) /\ stream \in Seq(R) /\ now \in Nat /\ topic \in [Partitions -> Seq(Nat)]
    BY <1>t DEF StoreTypes
  <2>1. topic' = [topic EXCEPT ![p] = Append(topic[p], now)] /\ UNCHANGED <<now, begin, trimmed>>
    BY <1>2 DEF Publish
  <2>2. topic'[p] = Append(topic[p], now) /\ \A q \in Partitions \ {p} : topic'[q] = topic[q]
    BY <2>0, <2>1
  <2>3. /\ topic'[p] \in Seq(Nat) /\ Len(topic'[p]) = n /\ topic'[p][n] = now
        /\ \A o \in 1..Len(topic[p]) : topic'[p][o] = topic[p][o] /\ topic[p][o] \in Nat
    BY <2>0, <2>2, Append1
  <2>4. stream' = Append(stream, x)
    BY <1>2, <2>3 DEF Publish
  <2>5. x \in R /\ x.record = <<p, n>> /\ x.time = now
    BY <2>0, <1>r
  <2> HIDE DEF R, x
  <2>6. /\ stream' \in Seq(R) /\ Len(stream') = Len(stream) + 1 /\ stream'[Len(stream) + 1] = x
        /\ \A i \in 1..Len(stream) : stream'[i] = stream[i] /\ stream[i] \in R
    BY <2>0, <2>4, <2>5, Append1
  <2>7. StoreTypes'
    BY <2>0, <2>1, <2>3, <2>6, <1>t DEF StoreTypes, R
  <2>8. /\ \A q \in Partitions : Len(topic'[q]) \in Nat
        /\ \A q \in Partitions : \A o \in 1..Len(topic'[q]) :
             <<q, o>> \in Records' /\ Time(<<q, o>>)' = topic'[q][o]
        /\ \A e \in Records' : e[1] \in Partitions /\ e[2] \in 1..Len(topic'[e[1]])
    BY <2>7, RecordsAreNext DEF RecordFacts
  <2>9. Records \subseteq Records' /\ \A e \in Records : Time(e)' = Time(e)
    <3>1. ASSUME NEW e \in Records PROVE e \in Records' /\ Time(e)' = Time(e)
      <4>1. e[1] \in Partitions /\ e[2] \in 1..Len(topic[e[1]]) /\ e = <<e[1], e[2]>>
        BY <1>r
      <4>2. e[2] \in 1..Len(topic'[e[1]]) /\ topic'[e[1]][e[2]] = topic[e[1]][e[2]]
        <5>1. CASE e[1] = p
          BY <1>r, <2>3, <4>1, <5>1
        <5>2. CASE e[1] # p
          BY <2>2, <4>1, <5>2
        <5> QED
          BY <5>1, <5>2
      <4> QED
        BY <2>8, <4>1, <4>2 DEF Time
    <3> QED
      BY <3>1
  <2>10. <<p, n>> \notin Records /\ <<p, n>> \in Records' /\ topic'[p][n] = now
    <3>1. n \in 1..Len(topic'[p]) /\ n \in Nat /\ ~ (n \in 1..Len(topic[p]))
      BY <1>r, <2>3
    <3>2. <<p, n>> \notin Records
      <4> SUFFICES ASSUME <<p, n>> \in Records PROVE FALSE
        OBVIOUS
      <4>1. <<p, n>>[2] \in 1..Len(topic[<<p, n>>[1]])
        BY <1>r
      <4> HIDE DEF n
      <4> QED
        BY <3>1, <4>1
    <3> HIDE DEF n
    <3> QED
      BY <2>3, <2>8, <3>1, <3>2
  <2>11. Grown
    <3>1. \A q \in Partitions :
            /\ begin[q] <= begin'[q]
            /\ Len(topic[q]) <= Len(topic'[q])
            /\ \A o \in 1..Len(topic[q]) : topic'[q][o] = topic[q][o]
            /\ \A o \in (Len(topic[q]) + 1)..Len(topic'[q]) : topic'[q][o] = now
      <4>1. begin \in [Partitions -> Nat \ {0}]
        BY <1>t DEF StoreTypes
      <4> QED
        BY <1>r, <2>1, <2>2, <2>3, <4>1
    <3>2. \A i \in (Len(stream) + 1)..Len(stream') : stream'[i].record \notin Records
      BY <1>r, <2>5, <2>6, <2>10
    <3>3. now <= now' /\ trimmed <= trimmed' /\ Len(stream) <= Len(stream')
      BY <1>t, <1>r, <2>1, <2>6 DEF StoreTypes
    <3> QED
      BY <2>6, <2>9, <3>1, <3>2, <3>3 DEF Grown
  <2>12. TopicsOK'
    <3>1. ASSUME NEW q \in Partitions, NEW a \in 1..Len(topic'[q]), NEW b \in 1..Len(topic'[q])
          PROVE  topic'[q][a] <= now /\ (a <= b => topic'[q][a] <= topic'[q][b])
      <4>1. CASE q = p
        <5>1. /\ \A o \in 1..Len(topic[p]) : topic'[p][o] \in Nat /\ topic'[p][o] <= now
              /\ \A c, d \in 1..Len(topic[p]) : c <= d => topic'[p][c] <= topic'[p][d]
          BY <1>t, <2>3 DEF TopicsOK
        <5>2. \A o \in 1..Len(topic'[p]) : o \in 1..Len(topic[p]) \/ o = n
          BY <1>r, <2>3
        <5>3. topic'[p][n] = now /\ n > Len(topic[p]) /\ n \in Nat
          BY <1>r, <2>3
        <5> HIDE DEF n
        <5>4. a \in 1..Len(topic'[p]) /\ b \in 1..Len(topic'[p])
          BY <4>1
        <5>5. topic'[p][a] <= now
          BY <2>0, <5>1, <5>2, <5>3, <5>4
        <5>6. CASE b = n
          BY <2>0, <4>1, <5>3, <5>5, <5>6
        <5>7. CASE b \in 1..Len(topic[p]) /\ a <= b
          BY <1>r, <4>1, <5>1, <5>2, <5>3, <5>4, <5>5, <5>7
        <5> QED
          BY <4>1, <5>2, <5>4, <5>5, <5>6, <5>7
      <4>2. CASE q # p
        BY <1>t, <2>2, <3>1, <4>2 DEF TopicsOK
      <4> QED
        BY <4>1, <4>2
    <3> QED
      BY <2>1, <3>1 DEF TopicsOK
  <2>13. StreamOK'
    <3>1. ASSUME NEW i \in 1..Len(stream')
          PROVE  stream'[i].record \in Records' /\ stream'[i].time = Time(stream[i].record)'
      <4>1. CASE i \in 1..Len(stream)
        BY <1>t, <2>6, <2>9, <4>1 DEF StreamOK
      <4>2. CASE i = Len(stream) + 1
        BY <2>5, <2>6, <2>10, <4>2 DEF Time
      <4> QED
        BY <1>r, <2>6, <4>1, <4>2
    <3>2. ASSUME NEW i \in 1..Len(stream'), NEW k \in 1..Len(stream'),
                 stream'[i].record = stream'[k].record
          PROVE  i = k
      <4>1. \A h \in 1..Len(stream) : stream'[h].record = stream[h].record /\ stream[h].record \in Records
        BY <1>t, <2>6 DEF StreamOK
      <4>2. stream'[Len(stream) + 1].record \notin Records
        BY <2>5, <2>6, <2>10
      <4>3. \A h \in 1..Len(stream') : h \in 1..Len(stream) \/ h = Len(stream) + 1
        BY <1>r, <2>6
      <4> QED
        BY <1>t, <3>2, <4>1, <4>2, <4>3 DEF StreamOK
    <3> QED
      BY <3>1, <3>2 DEF StreamOK
  <2> QED
    BY <2>7, <2>11, <2>12, <2>13
<1> QED
  BY <1>1, <1>2 DEF StoreStep

-----------------------------------------------------------------------------
(* The invariant                                                           *)

\* Below offset n, partition p owes nothing of the window but what is in S.
Below(p, n, S) ==
    \A o \in 1..(n - 1) :
        InWindow(topic[p][o]) => <<p, o>> \in S \/ o < begin[p]

\* What was delivered, or passed over by a seek to the end.
Passed == delivered \cup skipped

\* Up to place c, nor does the stream.
UpTo(c, S) ==
    \A i \in 1..c : InWindow(stream[i].time) => stream[i].record \in S \/ i <= trimmed

\* From offset n on, what precedes the window came after the job was opened.
Late(p, n) ==
    \A o \in n..Len(topic[p]) : topic[p][o] >= StartMs \/ opened <= topic[p][o]

\* What is saved.
Saved ==
    /\ \A p \in Partitions : Below(p, checkpoint[p] + 1, Passed)
    /\ \A p \in Partitions : checkpoint[p] # None => Late(p, checkpoint[p] + 1)
    /\ UpTo(lastId, delivered)

RedisRead ==
    mode \in {"open", "done"} /\ replaySource = "redis" =>
        /\ lastId <= cursor /\ UpTo(cursor, delivered \cup inHand)
        /\ \A i \in batch : /\ i > cursor /\ InWindow(stream[i].time)
                            /\ \A k \in (cursor + 1)..i :
                                 InWindow(stream[k].time) => k \in batch \/ k <= trimmed
        /\ more = "no" => \A i \in 1..Len(stream) :
             stream[i].record \in promised => i <= cursor \/ i \in batch \/ i <= trimmed
        /\ inHand # {} => lastId < cursor /\ inHand = {stream[cursor].record}
        /\ mode = "done" => batch = {} /\ more = "no" /\ inHand = {}

\* Where a partition is, once it was sought.
Sought(p) == position[p] > checkpoint[p] /\ Late(p, position[p])

KafkaRead ==
    mode \in {"seeking", "open", "done"} /\ replaySource = "kafka" =>
        /\ \A p \in Partitions : Sought(p)
        /\ \A p \in Partitions :
             mode = "seeking" \/ p \notin completed => Below(p, position[p], Passed \cup inHand)
        /\ \A e \in inHand : /\ Below(e[1], e[2], Passed) /\ Late(e[1], e[2])
                             /\ checkpoint[e[1]] < e[2] /\ e[2] < position[e[1]]
        /\ mode # "seeking" => \A e \in promised :
             /\ e[2] < ends[e[1]]
             /\ e[1] \in completed => e \in Passed \cup inHand \/ e[2] < begin[e[1]]
        /\ mode = "done" => completed = Partitions

\* What is handed over belongs to the window, or came late.
HandOK == \A e \in inHand : InWindow(Time(e)) \/ (opened <= Time(e) /\ Time(e) < StartMs)

PromiseOK == \A e \in promised : InWindow(Time(e))

Reading == Saved /\ RedisRead /\ KafkaRead /\ HandOK /\ PromiseOK

\* What was delivered and is above what is saved: it will be delivered again.
Unsaved ==
    IF replaySource = "redis"
    THEN {e \in delivered : \A i \in 1..lastId : stream[i].record # e}
    ELSE {e \in delivered : e[2] > checkpoint[e[1]]}

Budget == repeats + Cardinality(Unsaved) <= stops

Inv == Types /\ Reading /\ Budget

-----------------------------------------------------------------------------
(* Steps of the stores                                                     *)

\* They leave the types of the reader and the job.
LEMMA StoreKeepsTypes ==
    ASSUME Types, StoreStep
    PROVE  Types'
<1>1. StoreTypes' /\ TopicsOK' /\ StreamOK' /\ Grown
  BY StoreGrows
<1>2. UNCHANGED <<jobVars, mode, redisVars, kafkaVars, inHand, historyVars>>
  BY DEF StoreStep, Tick, Trim, Publish, Expire
<1>3. RecordFacts /\ RecordFacts'
  BY <1>1, RecordsAre, RecordsAreNext DEF Types
<1>4. /\ \A p \in Partitions : Len(topic[p]) <= Len(topic'[p]) /\ Len(topic[p]) \in Nat
                               /\ Len(topic'[p]) \in Nat
      /\ Len(stream) <= Len(stream') /\ Len(stream) \in Nat /\ Len(stream') \in Nat
      /\ now \in Nat /\ now' \in Nat /\ now <= now'
  BY <1>1, <1>3 DEF Types, StoreTypes, RecordFacts, Grown
<1>5. JobTypes'
  <2>1. JobTypes
    BY DEF Types
  <2>2. \A p \in Partitions : checkpoint[p] \in Nat /\ checkpoint[p] <= Len(topic'[p])
    BY <1>4, <2>1 DEF JobTypes
  <2>3. lastId \in 0..Len(stream')
    BY <1>4, <2>1 DEF JobTypes
  <2>4. UNCHANGED <<window, replaySource, checkpoint, lastId, mode, more>>
    BY <1>2 DEF jobVars, redisVars
  <2> QED
    BY <2>1, <2>2, <2>3, <2>4 DEF JobTypes
<1>6. ReaderTypes'
  <2>1. ReaderTypes
    BY DEF Types
  <2>2. \A p \in Partitions : position[p] <= Len(topic'[p]) + 1
    <3>1. \A p \in Partitions : position[p] \in Nat /\ position[p] <= Len(topic[p]) + 1
      BY <2>1 DEF ReaderTypes
    <3> QED
      BY <1>4, <3>1
  <2>3. cursor \in 0..Len(stream') /\ batch \subseteq 1..Len(stream')
    BY <1>4, <2>1 DEF ReaderTypes
  <2>4. UNCHANGED <<mode, cursor, batch, replaySource, position, unfound, ends, completed>>
    BY <1>2 DEF jobVars, redisVars, kafkaVars
  <2> QED
    BY <2>1, <2>2, <2>3, <2>4 DEF ReaderTypes
<1>7. HistoryTypes'
  BY <1>1, <1>2, <1>4 DEF Types, HistoryTypes, Grown, jobVars, historyVars
<1> QED
  BY <1>1, <1>5, <1>6, <1>7 DEF Types

\* A store that grows or loses its oldest under an open stream keeps the invariant.
LEMMA StoreKeeps ==
    ASSUME Inv, StoreStep
    PROVE  Inv'
<1>t. Types' /\ Types
  BY StoreKeepsTypes DEF Inv
<1>1. Grown
  BY <1>t, StoreGrows
<1>2. /\ UNCHANGED <<window, replaySource, checkpoint, lastId, mode, cursor, batch, more>>
      /\ UNCHANGED <<position, unfound, ends, completed, inHand, delivered, opened, promised, skipped, repeats, stops>>
  BY DEF StoreStep, Tick, Trim, Publish, Expire, jobVars, redisVars, kafkaVars, historyVars
<1>3. RecordFacts /\ RecordFacts'
  BY <1>t, RecordsAre, RecordsAreNext DEF Types
<1>4. \A p \in Partitions :
        /\ Len(topic[p]) \in Nat /\ Len(topic'[p]) \in Nat /\ Len(topic[p]) <= Len(topic'[p])
        /\ begin[p] \in Nat /\ begin'[p] \in Nat /\ begin[p] <= begin'[p]
        /\ \A o \in 1..Len(topic[p]) : topic'[p][o] = topic[p][o]
        /\ \A o \in (Len(topic[p]) + 1)..Len(topic'[p]) : topic'[p][o] = now
  BY <1>t, <1>1, <1>3 DEF RecordFacts, Grown, Types, StoreTypes
<1>5. /\ Len(stream) \in Nat /\ Len(stream') \in Nat /\ Len(stream) <= Len(stream')
      /\ trimmed \in Nat /\ trimmed' \in Nat /\ trimmed <= trimmed'
      /\ \A i \in 1..Len(stream) : stream'[i] = stream[i]
      /\ \A i \in (Len(stream) + 1)..Len(stream') : stream'[i].record \notin Records
  BY <1>t, <1>1, <1>3 DEF RecordFacts, Grown, Types, StoreTypes
<1>6. \A p \in Partitions : checkpoint[p] \in Nat /\ checkpoint[p] <= Len(topic[p])
  BY <1>t DEF Types, JobTypes
<1>7. \A p \in Partitions : position[p] \in Nat \ {0} /\ position[p] <= Len(topic[p]) + 1
  BY <1>t DEF Types, ReaderTypes
<1>b. ASSUME NEW p \in Partitions, NEW n \in Nat, n <= Len(topic[p]) + 1, NEW S, Below(p, n, S)
      PROVE  \A o \in 1..(n - 1) : InWindow(topic'[p][o]) => <<p, o>> \in S \/ o < begin'[p]
  <2> SUFFICES ASSUME NEW o \in 1..(n - 1), InWindow(topic'[p][o])
               PROVE  <<p, o>> \in S \/ o < begin'[p]
    OBVIOUS
  <2>1. o \in 1..Len(topic[p]) /\ topic'[p][o] = topic[p][o]
    BY <1>4, <1>b
  <2> QED
    BY <1>4, <1>b, <2>1 DEF Passed, Below
<1>l. ASSUME NEW p \in Partitions, NEW n \in Nat \ {0}, n <= Len(topic[p]) + 1, Late(p, n)
      PROVE  \A o \in n..Len(topic'[p]) : topic'[p][o] >= StartMs \/ opened <= topic'[p][o]
  <2> SUFFICES ASSUME NEW o \in n..Len(topic'[p])
               PROVE  topic'[p][o] >= StartMs \/ opened <= topic'[p][o]
    OBVIOUS
  <2>1. CASE o \in 1..Len(topic[p])
    BY <1>4, <1>l, <2>1 DEF Late
  <2>2. CASE o \in (Len(topic[p]) + 1)..Len(topic'[p])
    BY <1>t, <1>4, <2>2 DEF Types, HistoryTypes
  <2> QED
    BY <1>4, <1>l, <2>1, <2>2
<1>u. ASSUME NEW c \in 0..Len(stream), NEW S, UpTo(c, S)
      PROVE  \A i \in 1..c : InWindow(stream'[i].time) => stream'[i].record \in S \/ i <= trimmed'
  BY <1>5, <1>u DEF UpTo
<1>8. Saved'
  <2>1. \A p \in Partitions : checkpoint[p] + 1 \in Nat \ {0} /\ checkpoint[p] + 1 <= Len(topic[p]) + 1
    BY <1>4, <1>6
  <2>2. \A p \in Partitions : Below(p, checkpoint[p] + 1, Passed)'
    BY <1>2, <1>b, <2>1 DEF Inv, Reading, Saved, Passed, Below, InWindow, StartMs, EndMs
  <2>3. \A p \in Partitions : checkpoint'[p] # None => Late(p, checkpoint[p] + 1)'
    BY <1>2, <1>l, <2>1 DEF Inv, Reading, Saved, Late, StartMs
  <2>4. UpTo(lastId, delivered)'
    BY <1>2, <1>t, <1>u DEF Inv, Reading, Saved, UpTo, InWindow, StartMs, EndMs, Types, JobTypes
  <2> QED
    BY <2>2, <2>3, <2>4 DEF Saved
<1>9. RedisRead'
  <2> SUFFICES ASSUME mode \in {"open", "done"}, replaySource = "redis"
               PROVE  RedisRead'
    BY <1>2 DEF RedisRead
  <2>0. RedisRead /\ cursor \in 0..Len(stream) /\ batch \subseteq 1..Len(stream) /\ promised \subseteq Records
    BY <1>t DEF Inv, Reading, Types, ReaderTypes, HistoryTypes
  <2>1. UpTo(cursor, delivered \cup inHand)'
    BY <1>2, <1>u, <2>0 DEF RedisRead, UpTo, InWindow, StartMs, EndMs
  <2>2. \A i \in batch : /\ i > cursor /\ InWindow(stream'[i].time)
                         /\ \A k \in (cursor + 1)..i :
                              InWindow(stream'[k].time) => k \in batch \/ k <= trimmed'
    <3>1. ASSUME NEW i \in batch
          PROVE  /\ i \in 1..Len(stream) /\ i > cursor /\ InWindow(stream[i].time)
                 /\ \A k \in (cursor + 1)..i :
                      InWindow(stream[k].time) => k \in batch \/ k <= trimmed
      BY <2>0 DEF RedisRead
    <3>2. ASSUME NEW i \in batch, NEW k \in (cursor + 1)..i
          PROVE  stream'[k] = stream[k] /\ (k <= trimmed => k <= trimmed')
      <4>1. i \in 1..Len(stream)
        BY <3>1
      <4>2. k \in 1..Len(stream)
        BY <1>5, <2>0, <4>1
      <4> QED
        BY <1>5, <4>2
    <3> QED
      BY <1>5, <3>1, <3>2
  <2>3. more = "no" => \A i \in 1..Len(stream') :
          stream'[i].record \in promised => i <= cursor \/ i \in batch \/ i <= trimmed'
    BY <1>5, <2>0 DEF RedisRead
  <2>4. inHand # {} => lastId < cursor /\ inHand = {stream'[cursor].record}
    <3>1. inHand # {} => cursor \in 1..Len(stream)
      BY <1>t, <2>0 DEF RedisRead, Types, JobTypes
    <3> QED
      BY <1>5, <2>0, <3>1 DEF RedisRead
  <2>5. \A x : InWindow(x)' <=> InWindow(x)
    BY <1>2 DEF InWindow, StartMs, EndMs
  <2> QED
    BY <1>2, <2>0, <2>1, <2>2, <2>3, <2>4 DEF RedisRead, InWindow, StartMs, EndMs
<1>10. KafkaRead'
  <2> SUFFICES ASSUME mode \in {"seeking", "open", "done"}, replaySource = "kafka"
               PROVE  KafkaRead'
    BY <1>2 DEF KafkaRead
  <2>0. KafkaRead /\ inHand \subseteq Records /\ promised \subseteq Records
    BY <1>t DEF Inv, Reading, Types, HistoryTypes
  <2>1. \A p \in Partitions : Sought(p)'
    BY <1>2, <1>l, <1>7, <2>0 DEF KafkaRead, Sought, Late, StartMs
  <2>2. \A p \in Partitions :
          mode' = "seeking" \/ p \notin completed' => Below(p, position[p], Passed \cup inHand)'
    BY <1>2, <1>b, <1>7, <2>0 DEF KafkaRead, Passed, Below, InWindow, StartMs, EndMs
  <2>3. ASSUME NEW e \in inHand
        PROVE  Below(e[1], e[2], Passed)' /\ Late(e[1], e[2])'
    <3>1. e[1] \in Partitions /\ e[2] \in Nat \ {0} /\ e[2] <= Len(topic[e[1]]) + 1
      BY <1>3, <1>4, <2>0 DEF RecordFacts
    <3>2. Below(e[1], e[2], Passed) /\ Late(e[1], e[2])
      BY <2>0 DEF KafkaRead
    <3> QED
      BY <1>2, <1>b, <1>l, <3>1, <3>2 DEF Passed, Below, Late, InWindow, StartMs, EndMs
  <2>4. ASSUME NEW e \in promised, mode # "seeking"
        PROVE  /\ e[2] < ends[e[1]]
               /\ e[1] \in completed => e \in Passed \cup inHand \/ e[2] < begin'[e[1]]
    <3>1. e[1] \in Partitions /\ e[2] \in Nat
      BY <1>3, <1>4, <2>0 DEF RecordFacts
    <3> QED
      BY <1>4, <2>0, <2>4, <3>1 DEF KafkaRead
  <2> QED
    BY <1>2, <2>0, <2>1, <2>2, <2>3, <2>4 DEF KafkaRead, Passed
<1>11. HandOK' /\ PromiseOK'
  <2>1. \A e \in inHand \cup promised : Time(e)' = Time(e)
    BY <1>t, <1>1 DEF Types, HistoryTypes, Grown
  <2> QED
    BY <1>2, <2>1 DEF Inv, Reading, HandOK, PromiseOK, InWindow, StartMs, EndMs
<1>12. Budget'
  <2>1. Unsaved' = Unsaved
    <3>1. \A i \in 1..lastId : stream'[i] = stream[i]
      BY <1>5, <1>t DEF Types, JobTypes
    <3>2. ASSUME NEW e PROVE e \in Unsaved' <=> e \in Unsaved
      BY <1>2, <3>1 DEF Unsaved
    <3> QED
      BY <3>2
  <2> QED
    BY <1>2, <2>1 DEF Inv, Budget
<1> QED
  BY <1>t, <1>8, <1>9, <1>10, <1>11, <1>12 DEF Inv, Reading

-----------------------------------------------------------------------------
(* Opening                                                                 *)

\* A step that leaves the stores alone.
LEMMA SameStore ==
    ASSUME Types, UNCHANGED storeVars
    PROVE  /\ StoreTypes' /\ TopicsOK' /\ StreamOK' /\ Records' = Records
           /\ \A e : Time(e)' = Time(e)
<1>1. UNCHANGED <<now, topic, begin, stream, trimmed>>
  BY DEF storeVars
<1>2. Records' = Records
  BY <1>1 DEF Records
<1>3. StoreTypes' /\ TopicsOK'
  BY <1>1 DEF Types, StoreTypes, TopicsOK
<1>4. \A i : stream'[i].record = stream[i].record /\ Time(stream[i].record)' = Time(stream[i].record)
  BY <1>1 DEF Time
<1>5. StreamOK'
  BY <1>1, <1>2, <1>4 DEF Types, StreamOK
<1> QED
  BY <1>1, <1>2, <1>3, <1>5 DEF Time

\* A set of numbers that is not empty has a least one.
LEMMA Least ==
    ASSUME NEW S \in SUBSET Nat, S # {}
    PROVE  \E m \in S : \A k \in S : m <= k
<1> DEFINE R == OpToRel(<, Nat)
<1>1. IsWellFoundedOn(R, Nat)
  BY NatLessThanWellFounded
<1>2. \A x, y \in Nat : <<y, x>> \in R <=> y < x
  BY DEF OpToRel
<1> HIDE DEF R
<1>3. PICK x \in S : \A y \in S : ~ (<<y, x>> \in R)
  BY <1>1, WFMin
<1>4. ASSUME NEW k \in S PROVE x <= k
  <2>1. x \in Nat /\ k \in Nat
    OBVIOUS
  <2>2. ~ (k < x)
    BY <1>2, <1>3, <2>1
  <2> QED
    BY <2>1, <2>2
<1> QED
  BY <1>4

\* Below the offset of a time, records are older or gone; from it on, none is.
LEMMA OffsetIs ==
    ASSUME Types, NEW p \in Partitions, NEW time \in Nat
    PROVE  /\ OffsetForTime(p, time) \in 1..(Len(topic[p]) + 1)
           /\ \A o \in 1..(OffsetForTime(p, time) - 1) : o < begin[p] \/ topic[p][o] < time
           /\ \A o \in OffsetForTime(p, time)..Len(topic[p]) : topic[p][o] >= time
<1> DEFINE later == {o \in begin[p]..Len(topic[p]) : topic[p][o] >= time}
           n == OffsetForTime(p, time)
<1>1. /\ RecordFacts /\ Len(topic[p]) \in Nat /\ begin[p] \in Nat \ {0}
      /\ \A o \in 1..Len(topic[p]) : topic[p][o] \in Nat
      /\ \A a, b \in 1..Len(topic[p]) : a <= b => topic[p][a] <= topic[p][b]
  BY RecordsAre DEF Types, StoreTypes, RecordFacts, TopicsOK
<1>2. CASE later = {}
  <2>1. n = Len(topic[p]) + 1
    BY <1>2 DEF OffsetForTime
  <2>2. \A o \in 1..Len(topic[p]) : o < begin[p] \/ topic[p][o] < time
    BY <1>1, <1>2
  <2> QED
    BY <1>1, <2>1, <2>2
<1>3. CASE later # {}
  <2>1. later \in SUBSET Nat
    BY <1>1
  <2>2. \E o \in later : \A x \in later : o <= x
    BY <1>3, <2>1, Least
  <2>3. n = CHOOSE o \in later : \A x \in later : o <= x
    BY <1>3 DEF OffsetForTime
  <2>4. n \in later /\ \A x \in later : n <= x
    BY <2>2, <2>3
  <2> HIDE DEF n
  <2>5. n \in 1..Len(topic[p]) /\ topic[p][n] >= time
    BY <1>1, <2>4
  <2>6. \A o \in 1..(n - 1) : o < begin[p] \/ topic[p][o] < time
    BY <1>1, <2>4, <2>5
  <2>7. \A o \in n..Len(topic[p]) : topic[p][o] >= time
    BY <1>1, <2>5
  <2> QED
    BY <1>1, <2>5, <2>6, <2>7 DEF n
<1> QED
  BY <1>2, <1>3

\* A partition is sought to where its checkpoint or the window begins.
LEMMA SeekIs ==
    ASSUME SourceAssumption, Inv, NEW p \in Partitions
    PROVE  /\ SeekTo(p) \in 1..(Len(topic[p]) + 1) /\ SeekTo(p) > checkpoint[p]
           /\ Below(p, SeekTo(p), Passed)
           /\ checkpoint[p] # None => Late(p, SeekTo(p))
           /\ checkpoint[p] = None => \A o \in SeekTo(p)..Len(topic[p]) : topic[p][o] >= StartMs
<1>1. /\ Types /\ Saved /\ checkpoint[p] \in Nat /\ checkpoint[p] <= Len(topic[p])
      /\ Len(topic[p]) \in Nat
  BY RecordsAre DEF Inv, Reading, Types, JobTypes, RecordFacts
<1>2. CASE checkpoint[p] # None
  <2>1. SeekTo(p) = checkpoint[p] + 1
    BY <1>2 DEF SeekTo
  <2> QED
    BY <1>1, <1>2, <2>1 DEF Saved
<1>3. CASE checkpoint[p] = None
  <2>1. SeekTo(p) = OffsetForTime(p, StartMs) /\ StartMs \in Nat
    BY <1>1, <1>3 DEF SourceAssumption, SeekTo, StartMs, Types, JobTypes
  <2>2. /\ SeekTo(p) \in 1..(Len(topic[p]) + 1)
        /\ \A o \in 1..(SeekTo(p) - 1) : o < begin[p] \/ topic[p][o] < StartMs
        /\ \A o \in SeekTo(p)..Len(topic[p]) : topic[p][o] >= StartMs
    BY <1>1, <2>1, OffsetIs
  <2>3. \A o \in 1..(SeekTo(p) - 1) : topic[p][o] \in Nat
    BY <1>1, <2>2, RecordsAre DEF Types, RecordFacts
  <2>4. Below(p, SeekTo(p), Passed)
    BY <2>1, <2>2, <2>3 DEF Passed, Below, InWindow
  <2> QED
    BY <1>1, <1>3, <2>2, <2>4 DEF None
<1> QED
  BY <1>2, <1>3

\* Opening a stream: the source is chosen, and what it holds is promised.
LEMMA OpenKeeps ==
    ASSUME Inv, Open
    PROVE  Inv'
<1>0. Types /\ Reading /\ Saved
  BY DEF Inv, Reading
<1>1. StoreTypes' /\ TopicsOK' /\ StreamOK' /\ Records' = Records /\ \A e : Time(e)' = Time(e)
  BY <1>0, SameStore DEF Open
<1>2. /\ UNCHANGED <<now, topic, begin, stream, trimmed, window, checkpoint, lastId, position, ends>>
      /\ UNCHANGED <<unfound, completed, inHand, delivered, skipped, repeats, stops>>
      /\ mode = "idle" /\ replaySource' = GetSource
      /\ cursor' = lastId /\ batch' = {} /\ more' = "yes"
      /\ promised' = {e \in Held : InWindow(Time(e))}
      /\ opened' = IF replaySource = "none" THEN now ELSE opened
  BY DEF Open, storeVars, kafkaVars
<1>3. inHand = {}
  BY <1>0, <1>2 DEF Types, HistoryTypes
<1>4. /\ replaySource' \in {"redis", "kafka"}
      /\ replaySource # "none" => replaySource' = replaySource /\ opened' = opened
      /\ replaySource = "none" => lastId = None /\ \A p \in Partitions : checkpoint[p] = None
  BY <1>0, <1>2 DEF GetSource, Types, JobTypes
<1>5. mode' = IF replaySource' = "redis" THEN "open" ELSE "looking"
  BY DEF Open
<1>6. JobTypes'
  <2>1. JobTypes
    BY <1>0 DEF Types
  <2>2. replaySource' # "redis" => lastId = None
    BY <1>4, <2>1 DEF JobTypes
  <2>3. replaySource' # "kafka" => \A p \in Partitions : checkpoint[p] = None
    BY <1>4, <2>1 DEF JobTypes
  <2> QED
    BY <1>2, <1>4, <1>5, <2>1, <2>2, <2>3 DEF JobTypes
<1>7. ReaderTypes'
  BY <1>0, <1>2, <1>4, <1>5 DEF Types, ReaderTypes, JobTypes
<1>8. promised' \subseteq Records
  <2>1. Held \subseteq Records
    BY <1>0, <1>2 DEF Held, Types, StreamOK, StoreTypes
  <2> QED
    BY <1>2, <2>1
<1>9. HistoryTypes'
  <2>1. HistoryTypes /\ now \in Nat
    BY <1>0 DEF Types, StoreTypes
  <2>2. opened' \in Nat /\ opened' <= now
    BY <1>2, <2>1 DEF HistoryTypes
  <2> QED
    BY <1>1, <1>2, <1>3, <1>4, <1>8, <2>1, <2>2 DEF HistoryTypes
<1>10. \A x : InWindow(x)' <=> InWindow(x)
  BY <1>2 DEF InWindow, StartMs, EndMs
<1>11. Saved'
  <2>1. \A p \in Partitions : Below(p, checkpoint[p] + 1, Passed)'
    BY <1>0, <1>2 DEF Saved, Passed, Below, InWindow, StartMs, EndMs
  <2>2. \A p \in Partitions : checkpoint'[p] # None => Late(p, checkpoint[p] + 1)'
    BY <1>0, <1>2, <1>4 DEF Saved, Late, StartMs
  <2>3. UpTo(lastId, delivered)'
    BY <1>0, <1>2 DEF Saved, UpTo, InWindow, StartMs, EndMs
  <2> QED
    BY <2>1, <2>2, <2>3 DEF Saved
<1>12. RedisRead'
  <2>1. lastId \in Nat
    BY <1>0, RecordsAre DEF Types, JobTypes, RecordFacts
  <2>2. UpTo(cursor, delivered \cup inHand)'
    BY <1>0, <1>2, <1>3 DEF Saved, UpTo, InWindow, StartMs, EndMs
  <2> QED
    BY <1>2, <1>3, <1>5, <2>1, <2>2 DEF RedisRead
<1>13. KafkaRead'
  BY <1>5 DEF KafkaRead
<1>14. HandOK' /\ PromiseOK'
  BY <1>1, <1>2, <1>3, <1>10 DEF HandOK, PromiseOK, InWindow, StartMs, EndMs
<1>15. Budget'
  <2>1. CASE replaySource = "none"
    <3>1. Unsaved = {} /\ Unsaved' = {}
      BY <1>0, <1>2, <2>1 DEF Types, HistoryTypes, Unsaved
    <3> QED
      BY <1>2, <3>1 DEF Inv, Budget
  <2>2. CASE replaySource # "none"
    <3>1. Unsaved' = Unsaved
      BY <1>2, <1>4, <2>2 DEF Unsaved
    <3> QED
      BY <1>2, <3>1 DEF Inv, Budget
  <2> QED
    BY <2>1, <2>2
<1> QED
  BY <1>1, <1>6, <1>7, <1>9, <1>11, <1>12, <1>13, <1>14, <1>15 DEF Inv, Types, Reading

-----------------------------------------------------------------------------
(* Reading                                                                 *)

\* A step of the reader leaves what is saved alone, and the history.
Reads == UNCHANGED <<storeVars, jobVars, historyVars>>

\* A step of the reader keeps what is saved and what was promised.
LEMMA ReadsKeep ==
    ASSUME Inv, Reads
    PROVE  /\ StoreTypes' /\ TopicsOK' /\ StreamOK' /\ Saved' /\ PromiseOK' /\ Budget'
           /\ Records' = Records /\ \A e : Time(e)' = Time(e)
           /\ UNCHANGED <<now, topic, begin, stream, trimmed, window, replaySource, checkpoint,
                          lastId, delivered, opened, promised, skipped, repeats, stops>>
<1>1. UNCHANGED <<now, topic, begin, stream, trimmed, window, replaySource, checkpoint,
                  lastId, delivered, opened, promised, skipped, repeats, stops>>
  BY DEF Reads, storeVars, jobVars, historyVars
<1>2. StoreTypes' /\ TopicsOK' /\ StreamOK' /\ Records' = Records /\ \A e : Time(e)' = Time(e)
  BY SameStore DEF Inv, Reads
<1>3. Saved'
  <2>1. \A p \in Partitions : Below(p, checkpoint[p] + 1, Passed)'
    BY <1>1 DEF Inv, Reading, Saved, Passed, Below, InWindow, StartMs, EndMs
  <2>2. \A p \in Partitions : checkpoint'[p] # None => Late(p, checkpoint[p] + 1)'
    BY <1>1 DEF Inv, Reading, Saved, Late, StartMs
  <2>3. UpTo(lastId, delivered)'
    BY <1>1 DEF Inv, Reading, Saved, UpTo, InWindow, StartMs, EndMs
  <2> QED
    BY <2>1, <2>2, <2>3 DEF Saved
<1>4. PromiseOK'
  BY <1>1, <1>2 DEF Inv, Reading, PromiseOK, InWindow, StartMs, EndMs
<1>5. Unsaved' = Unsaved
  BY <1>1 DEF Unsaved
<1> QED
  BY <1>1, <1>2, <1>3, <1>4, <1>5 DEF Inv, Budget

\* A topic without partitions is a stream without records.
LEMMA NoTopicKeeps ==
    ASSUME Inv, NoTopic
    PROVE  Inv'
<1>1. Reads /\ Types /\ Reading
  BY DEF NoTopic, Reads, Inv
<1>2. /\ StoreTypes' /\ TopicsOK' /\ StreamOK' /\ Saved' /\ PromiseOK' /\ Budget'
      /\ Records' = Records /\ \A e : Time(e)' = Time(e)
      /\ UNCHANGED <<now, topic, begin, stream, trimmed, window, replaySource, checkpoint,
                     lastId, delivered, opened, promised, skipped, repeats, stops>>
  BY <1>1, ReadsKeep
<1>3. /\ mode = "looking" /\ mode' = "open" /\ unfound' = {} /\ completed' = Partitions
      /\ position' = [p \in Partitions |-> 1] /\ ends' = [p \in Partitions |-> 1]
      /\ UNCHANGED <<cursor, batch, more, inHand>>
      /\ \A p \in Partitions : topic[p] = <<>>
  BY DEF NoTopic, redisVars
<1>4. /\ replaySource = "kafka" /\ inHand = {}
      /\ \A p \in Partitions : Len(topic[p]) = 0 /\ checkpoint[p] = 0
  BY <1>1, <1>3 DEF Types, JobTypes, HistoryTypes
<1>5. promised = {}
  BY <1>1, <1>4, RecordsAre DEF Types, HistoryTypes, RecordFacts
<1>6. JobTypes' /\ ReaderTypes' /\ HistoryTypes'
  BY <1>1, <1>2, <1>3, <1>4 DEF Types, JobTypes, ReaderTypes, HistoryTypes
<1>7. RedisRead' /\ HandOK'
  BY <1>2, <1>3, <1>4 DEF RedisRead, HandOK
<1>8. KafkaRead'
  BY <1>2, <1>3, <1>4, <1>5 DEF KafkaRead, Sought, Late
<1> QED
  BY <1>2, <1>6, <1>7, <1>8 DEF Inv, Types, Reading

\* A partition is sought behind its checkpoint, or to where the window begins.
LEMMA LookupKeeps ==
    ASSUME SourceAssumption, Inv, Lookup
    PROVE  Inv'
<1>1. Reads /\ Types /\ Reading
  BY DEF Lookup, Reads, Inv
<1>2. /\ StoreTypes' /\ TopicsOK' /\ StreamOK' /\ Saved' /\ PromiseOK' /\ Budget'
      /\ Records' = Records /\ \A e : Time(e)' = Time(e)
      /\ UNCHANGED <<now, topic, begin, stream, trimmed, window, replaySource, checkpoint,
                     lastId, delivered, opened, promised, skipped, repeats, stops>>
  BY <1>1, ReadsKeep
<1>3. /\ mode = "looking" /\ mode' = "seeking"
      /\ position' = [p \in Partitions |-> SeekTo(p)] /\ unfound' \subseteq Partitions
      /\ UNCHANGED <<cursor, batch, more, ends, completed, inHand>>
  BY DEF Lookup, redisVars
<1>4. replaySource = "kafka" /\ inHand = {}
  BY <1>1, <1>3 DEF Types, JobTypes, HistoryTypes
<1>5. \A p \in Partitions :
        /\ SeekTo(p) \in Nat \ {0} /\ SeekTo(p) <= Len(topic[p]) + 1
        /\ position'[p] = SeekTo(p)
  <2>1. \A p \in Partitions : Len(topic[p]) \in Nat
    BY <1>1, RecordsAre DEF Types, RecordFacts
  <2> QED
    BY <1>3, <2>1, SeekIs
<1>6. ReaderTypes'
  BY <1>1, <1>2, <1>3, <1>4, <1>5 DEF Types, ReaderTypes
<1>7. JobTypes' /\ HistoryTypes'
  BY <1>1, <1>2, <1>3, <1>4 DEF Types, JobTypes, HistoryTypes
<1>8. RedisRead' /\ HandOK'
  BY <1>2, <1>3, <1>4 DEF RedisRead, HandOK
<1>9. KafkaRead'
  <2>1. ASSUME NEW p \in Partitions PROVE Sought(p)'
    <3>1. Late(p, SeekTo(p))
      <4>1. CASE checkpoint[p] # None
        BY <4>1, SeekIs
      <4>2. CASE checkpoint[p] = None
        BY <4>2, SeekIs DEF Late
      <4> QED
        BY <4>1, <4>2
    <3> QED
      BY <1>2, <1>5, <3>1, SeekIs DEF Sought, Late, StartMs
  <2>2. ASSUME NEW p \in Partitions PROVE Below(p, position[p], Passed \cup inHand)'
    <3>1. Below(p, SeekTo(p), Passed)
      BY SeekIs
    <3> QED
      BY <1>2, <1>5, <3>1 DEF Passed, Below, InWindow, StartMs, EndMs
  <2> QED
    BY <1>2, <1>3, <1>4, <2>1, <2>2 DEF KafkaRead
<1> QED
  BY <1>2, <1>6, <1>7, <1>8, <1>9 DEF Inv, Types, Reading

\* What a seek to the end passes over is counted as passed over.
LEMMA SeekToEndKeeps ==
    ASSUME Inv, NEW p \in Partitions, SeekToEnd(p)
    PROVE  Inv'
<1>0. Types /\ Reading /\ Saved
  BY DEF Inv, Reading
<1>1. StoreTypes' /\ TopicsOK' /\ StreamOK' /\ Records' = Records /\ \A e : Time(e)' = Time(e)
  BY <1>0, SameStore DEF SeekToEnd
<1>2. /\ UNCHANGED <<now, topic, begin, stream, trimmed, window, replaySource, checkpoint, lastId>>
      /\ UNCHANGED <<mode, cursor, batch, more, ends, completed, inHand, delivered>>
      /\ UNCHANGED <<opened, promised, repeats, stops>>
      /\ mode = "seeking" /\ unfound' = unfound \ {p}
      /\ position' = [position EXCEPT ![p] = Len(topic[p]) + 1]
      /\ skipped' = skipped \cup Between(p, position[p], Len(topic[p]))
  BY DEF SeekToEnd, storeVars, jobVars, redisVars
<1>3. /\ replaySource = "kafka" /\ inHand = {} /\ Len(topic[p]) \in Nat
      /\ position \in [Partitions -> Nat \ {0}] /\ checkpoint[p] \in Nat
      /\ checkpoint[p] <= Len(topic[p])
  BY <1>0, <1>2, RecordsAre DEF Types, JobTypes, ReaderTypes, HistoryTypes, RecordFacts
<1>4. position'[p] = Len(topic[p]) + 1 /\ \A q \in Partitions \ {p} : position'[q] = position[q]
  BY <1>2, <1>3
<1>5. Passed \subseteq Passed'
  BY <1>2 DEF Passed
<1>6. JobTypes' /\ HistoryTypes'
  BY <1>0, <1>1, <1>2 DEF Types, JobTypes, HistoryTypes
<1>7. ReaderTypes'
  BY <1>0, <1>2, <1>3, <1>4 DEF Types, ReaderTypes
<1>8. Saved'
  <2>1. \A q \in Partitions : Below(q, checkpoint[q] + 1, Passed')
    BY <1>0, <1>5 DEF Saved, Below
  <2>2. \A q \in Partitions : Below(q, checkpoint[q] + 1, Passed)'
    BY <1>2, <2>1 DEF Below, InWindow, StartMs, EndMs
  <2>3. \A q \in Partitions : checkpoint'[q] # None => Late(q, checkpoint[q] + 1)'
    BY <1>0, <1>2 DEF Saved, Late, StartMs
  <2>4. UpTo(lastId, delivered)'
    BY <1>0, <1>2 DEF Saved, UpTo, InWindow, StartMs, EndMs
  <2> QED
    BY <2>2, <2>3, <2>4 DEF Saved
<1>9. RedisRead' /\ HandOK' /\ PromiseOK'
  BY <1>0, <1>1, <1>2, <1>3 DEF Reading, RedisRead, HandOK, PromiseOK, InWindow, StartMs, EndMs
<1>10. KafkaRead'
  <2>1. ASSUME NEW q \in Partitions PROVE Sought(q) /\ Below(q, position[q], Passed)
    BY <1>0, <1>2, <1>3 DEF Reading, KafkaRead
  <2>2. ASSUME NEW q \in Partitions PROVE Sought(q)'
    <3>1. CASE q = p
      BY <1>2, <1>3, <1>4, <3>1 DEF Sought, Late
    <3>2. CASE q # p
      BY <1>2, <1>4, <2>1, <3>2 DEF Sought, Late, StartMs
    <3> QED
      BY <3>1, <3>2
  <2>3. ASSUME NEW q \in Partitions PROVE Below(q, position[q], Passed \cup inHand)'
    <3>1. CASE q = p
      <4>1. ASSUME NEW o \in 1..Len(topic[p]), InWindow(topic[p][o])
            PROVE  <<p, o>> \in Passed' \/ o < begin[p]
        <5>1. CASE o < position[p]
          <6>1. o \in 1..(position[p] - 1)
            BY <1>3, <5>1
          <6> QED
            BY <1>5, <2>1, <4>1, <6>1 DEF Below
        <5>2. CASE ~ (o < position[p])
          <6>1. o \in position[p]..Len(topic[p])
            BY <1>3, <5>2
          <6> QED
            BY <1>2, <4>1, <6>1 DEF Between, Passed
        <5> QED
          BY <5>1, <5>2
      <4>2. position'[p] - 1 = Len(topic[p])
        BY <1>3, <1>4
      <4> QED
        BY <1>2, <3>1, <4>1, <4>2 DEF Below, InWindow, StartMs, EndMs
    <3>2. CASE q # p
      <4>1. Below(q, position[q], Passed') /\ position'[q] = position[q]
        BY <1>4, <1>5, <2>1, <3>2 DEF Below
      <4> QED
        BY <1>2, <4>1 DEF Below, InWindow, StartMs, EndMs
    <3> QED
      BY <3>1, <3>2
  <2> QED
    BY <1>2, <1>3, <2>2, <2>3 DEF KafkaRead
<1>11. Budget'
  <2>1. Unsaved' = Unsaved
    BY <1>2 DEF Unsaved
  <2> QED
    BY <1>2, <2>1 DEF Inv, Budget
<1> QED
  BY <1>1, <1>6, <1>7, <1>8, <1>9, <1>10, <1>11 DEF Inv, Types, Reading

\* Taking the ends: a partition marked as completed owes nothing it promised.
LEMMA SnapshotKeeps ==
    ASSUME Inv, SnapshotEnds
    PROVE  Inv'
<1>1. Reads /\ Types /\ Reading
  BY DEF SnapshotEnds, Reads, Inv
<1>2. /\ StoreTypes' /\ TopicsOK' /\ StreamOK' /\ Saved' /\ PromiseOK' /\ Budget'
      /\ Records' = Records /\ \A e : Time(e)' = Time(e)
      /\ UNCHANGED <<now, topic, begin, stream, trimmed, window, replaySource, checkpoint,
                     lastId, delivered, opened, promised, skipped, repeats, stops>>
  BY <1>1, ReadsKeep
<1>3. /\ mode = "seeking" /\ mode' = "open" /\ ends' = [p \in Partitions |-> Len(topic[p]) + 1]
      /\ UNCHANGED <<position, unfound, cursor, batch, more, inHand>> /\ unfound = {}
      /\ completed' = {p \in Partitions : position[p] >= ends'[p]}
  BY DEF SnapshotEnds, redisVars, AtEnd
<1>4. RecordFacts /\ replaySource = "kafka" /\ inHand = {}
  BY <1>1, <1>3, RecordsAre DEF Types, JobTypes, HistoryTypes
<1>5. JobTypes'
  BY <1>1, <1>2, <1>3, <1>4 DEF Types, JobTypes
<1>6. ReaderTypes'
  BY <1>1, <1>2, <1>3, <1>4 DEF Types, ReaderTypes, RecordFacts
<1>7. HistoryTypes'
  BY <1>1, <1>2, <1>3, <1>4 DEF Types, HistoryTypes
<1>8. RedisRead' /\ HandOK'
  BY <1>2, <1>3, <1>4 DEF RedisRead, HandOK
<1>9. KafkaRead'
  <2>1. \A p \in Partitions : Sought(p) /\ Below(p, position[p], Passed \cup inHand)
    BY <1>1, <1>3, <1>4 DEF Reading, KafkaRead
  <2>2. \A p \in Partitions : Sought(p)' /\ Below(p, position[p], Passed \cup inHand)'
    BY <1>2, <1>3, <2>1 DEF Sought, Late, Passed, Below, InWindow, StartMs, EndMs
  <2>3. ASSUME NEW e \in promised
        PROVE  /\ e[2] < ends'[e[1]]
               /\ e[1] \in completed' => e \in Passed \/ e[2] < begin[e[1]]
    <3>1. /\ e[1] \in Partitions /\ e[2] \in 1..Len(topic[e[1]]) /\ e = <<e[1], e[2]>>
          /\ Time(e) = topic[e[1]][e[2]] /\ Len(topic[e[1]]) \in Nat
      BY <1>1, <1>4 DEF Types, HistoryTypes, RecordFacts
    <3>2. ends'[e[1]] = Len(topic[e[1]]) + 1
      BY <1>3, <3>1
    <3>3. InWindow(topic[e[1]][e[2]])
      BY <1>1, <3>1 DEF Reading, PromiseOK
    <3>4. ASSUME e[1] \in completed'
          PROVE  e \in Passed \/ e[2] < begin[e[1]]
      <4>1. position[e[1]] \in Nat /\ position[e[1]] >= Len(topic[e[1]]) + 1
        BY <1>1, <1>3, <3>1, <3>2, <3>4 DEF Types, ReaderTypes
      <4>2. e[2] \in 1..(position[e[1]] - 1)
        BY <3>1, <4>1
      <4> QED
        BY <1>4, <2>1, <3>1, <3>3, <4>2 DEF Passed, Below
    <3> QED
      BY <3>1, <3>2, <3>4
  <2> QED
    BY <1>2, <1>3, <1>4, <2>2, <2>3 DEF KafkaRead, Passed
<1> QED
  BY <1>2, <1>5, <1>6, <1>7, <1>8, <1>9 DEF Inv, Types, Reading

\* The entries a batch leaves out are behind all of those it holds.
LEMMA XRangeKeeps ==
    ASSUME SourceAssumption, Inv, XRange
    PROVE  Inv'
<1> DEFINE all == EntriesAfter(cursor)
           before(i) == {k \in all : k < i}
<1>1. Reads /\ Types /\ Reading
  BY DEF XRange, Reads, Inv
<1>2. /\ StoreTypes' /\ TopicsOK' /\ StreamOK' /\ Saved' /\ PromiseOK' /\ Budget'
      /\ Records' = Records /\ \A e : Time(e)' = Time(e)
      /\ UNCHANGED <<now, topic, begin, stream, trimmed, window, replaySource, checkpoint,
                     lastId, delivered, opened, promised, skipped, repeats, stops>>
  BY <1>1, ReadsKeep
<1>3. /\ mode = "open" /\ replaySource = "redis" /\ inHand = {}
      /\ UNCHANGED <<mode, cursor, position, unfound, ends, completed, inHand>>
      /\ batch' = {i \in all : Cardinality(before(i)) < BATCH_SIZE}
      /\ more' = IF Cardinality(all) < BATCH_SIZE THEN "no" ELSE "yes"
  BY DEF XRange, kafkaVars
<1>4. /\ Len(stream) \in Nat /\ trimmed \in Nat /\ cursor \in 0..Len(stream) /\ BATCH_SIZE \in Nat
      /\ all = {i \in (trimmed + 1)..Len(stream) : i > cursor /\ InWindow(stream[i].time)}
  BY <1>1, RecordsAre DEF SourceAssumption, Types, StoreTypes, ReaderTypes, RecordFacts, EntriesAfter
<1>5. IsFiniteSet(all) /\ Cardinality(all) \in Nat
  <2>1. IsFiniteSet(1..Len(stream)) /\ all \in SUBSET (1..Len(stream))
    BY <1>4, FS_Interval
  <2> HIDE DEF all
  <2> QED
    BY <2>1, FS_Subset, FS_CardinalityType
<1>6. ASSUME NEW i \in all
      PROVE  /\ IsFiniteSet(before(i)) /\ Cardinality(before(i)) \in Nat
             /\ Cardinality(before(i)) <= Cardinality(all)
  <2>1. before(i) \in SUBSET all
    OBVIOUS
  <2> HIDE DEF all, before
  <2> QED
    BY <1>5, <2>1, FS_Subset, FS_CardinalityType
<1>7. ASSUME NEW i \in batch', NEW k \in all, k <= i
      PROVE  k \in batch'
  <2>1. i \in all /\ Cardinality(before(i)) < BATCH_SIZE
    BY <1>3
  <2>2. before(k) \in SUBSET before(i)
    BY <1>4, <1>7, <2>1
  <2>3. Cardinality(before(k)) <= Cardinality(before(i))
    <3> HIDE DEF all, before
    <3> QED
      BY <1>6, <2>1, <2>2, FS_Subset
  <2>4. Cardinality(before(k)) < BATCH_SIZE
    <3>1. Cardinality(before(k)) \in Nat /\ Cardinality(before(i)) \in Nat /\ BATCH_SIZE \in Nat
      BY <1>6, <2>1 DEF SourceAssumption
    <3> HIDE DEF all, before
    <3> QED
      BY <2>1, <2>3, <3>1
  <2> QED
    BY <1>3, <2>4
<1>8. more' = "no" => all \subseteq batch'
  <2> SUFFICES ASSUME more' = "no", NEW i \in all PROVE i \in batch'
    OBVIOUS
  <2>1. Cardinality(all) < BATCH_SIZE
    BY <1>3
  <2>2. Cardinality(before(i)) < BATCH_SIZE
    <3> HIDE DEF all, before
    <3> QED
      BY <1>4, <1>5, <1>6, <2>1
  <2> QED
    BY <1>3, <2>2
<1>9. batch' \subseteq all
  BY <1>3
<1>10. batch' \subseteq 1..Len(stream)
  BY <1>4, <1>9
<1>11. more' \in {"yes", "no"}
  BY <1>3
<1> HIDE DEF before
<1>12. JobTypes'
  BY <1>1, <1>2, <1>3, <1>11 DEF Types, JobTypes
<1>13. ReaderTypes'
  BY <1>1, <1>2, <1>3, <1>10 DEF Types, ReaderTypes
<1>14. HistoryTypes'
  BY <1>1, <1>2, <1>3 DEF Types, HistoryTypes
<1>15. KafkaRead' /\ HandOK'
  BY <1>2, <1>3 DEF KafkaRead, HandOK
<1>16. RedisRead'
  <2>0. RedisRead /\ PromiseOK
    BY <1>1 DEF Reading
  <2>1. lastId' <= cursor' /\ UpTo(cursor, delivered \cup inHand)'
    BY <1>2, <1>3, <2>0 DEF RedisRead, UpTo, InWindow, StartMs, EndMs
  <2>2. ASSUME NEW i \in batch'
        PROVE  /\ i > cursor /\ InWindow(stream[i].time)
               /\ \A k \in (cursor + 1)..i :
                    InWindow(stream[k].time) => k \in batch' \/ k <= trimmed
    <3>1. i \in all /\ i > cursor /\ InWindow(stream[i].time) /\ i \in 1..Len(stream)
      BY <1>4, <1>9, <1>10
    <3>2. ASSUME NEW k \in (cursor + 1)..i, InWindow(stream[k].time), ~ (k <= trimmed)
          PROVE  k \in batch'
      <4>1. k \in all /\ k <= i
        BY <1>4, <3>1, <3>2
      <4> QED
        BY <1>7, <4>1
    <3> QED
      BY <3>1, <3>2
  <2>3. ASSUME more' = "no", NEW i \in 1..Len(stream), stream[i].record \in promised
        PROVE  i <= cursor \/ i \in batch' \/ i <= trimmed
    <3>1. InWindow(stream[i].time)
      BY <1>1, <2>0, <2>3 DEF Types, StreamOK, PromiseOK
    <3> QED
      BY <1>4, <1>8, <2>3, <3>1
  <2>4. \A x : InWindow(x)' <=> InWindow(x)
    BY <1>2 DEF InWindow, StartMs, EndMs
  <2> HIDE DEF all
  <2> QED
    BY <1>2, <1>3, <2>1, <2>2, <2>3 DEF RedisRead, InWindow, StartMs, EndMs
<1> QED
  BY <1>2, <1>12, <1>13, <1>14, <1>15, <1>16 DEF Inv, Types, Reading

\* The entry yielded is the next one owed.
LEMMA YieldKeeps ==
    ASSUME Inv, YieldRedis
    PROVE  Inv'
<1>1. Reads /\ Types /\ Reading
  BY DEF YieldRedis, Reads, Inv
<1>2. /\ StoreTypes' /\ TopicsOK' /\ StreamOK' /\ Saved' /\ PromiseOK' /\ Budget'
      /\ Records' = Records /\ \A e : Time(e)' = Time(e)
      /\ UNCHANGED <<now, topic, begin, stream, trimmed, window, replaySource, checkpoint,
                     lastId, delivered, opened, promised, skipped, repeats, stops>>
  BY <1>1, ReadsKeep
<1>3. PICK i \in batch : /\ \A k \in batch : i <= k
                         /\ cursor' = i /\ batch' = batch \ {i}
                         /\ inHand' = {stream[i].record}
  BY DEF YieldRedis
<1>4. /\ mode = "open" /\ inHand = {} /\ replaySource = "redis"
      /\ UNCHANGED <<mode, more, position, unfound, ends, completed>>
  BY <1>1, <1>3 DEF YieldRedis, kafkaVars, Types, ReaderTypes
<1>5. /\ batch \subseteq 1..Len(stream) /\ cursor \in Nat /\ Len(stream) \in Nat /\ trimmed \in Nat
      /\ lastId \in Nat
  <2>1. Len(stream) \in Nat
    BY <1>1, RecordsAre DEF Types, RecordFacts
  <2>2. batch \subseteq 1..Len(stream) /\ cursor \in 0..Len(stream) /\ lastId \in 0..Len(stream)
    BY <1>1 DEF Types, ReaderTypes, JobTypes
  <2>3. trimmed \in Nat
    BY <1>1 DEF Types, StoreTypes
  <2> QED
    BY <2>1, <2>2, <2>3
<1>6. stream[i].record \in Records /\ stream[i].time = Time(stream[i].record)
  BY <1>1, <1>3, <1>5 DEF Types, StreamOK
<1>7. RedisRead
  BY <1>1 DEF Reading
<1>8. /\ i > cursor /\ InWindow(stream[i].time) /\ lastId <= cursor
      /\ \A k \in (cursor + 1)..i : InWindow(stream[k].time) => k \in batch \/ k <= trimmed
  BY <1>3, <1>4, <1>7 DEF RedisRead
<1>9. JobTypes'
  BY <1>1, <1>2, <1>4 DEF Types, JobTypes
<1>10. ReaderTypes'
  BY <1>1, <1>2, <1>3, <1>4, <1>5 DEF Types, ReaderTypes
<1>11. HistoryTypes'
  BY <1>1, <1>2, <1>3, <1>4, <1>6 DEF Types, HistoryTypes
<1>12. HandOK'
  BY <1>2, <1>3, <1>6, <1>8 DEF HandOK, InWindow, StartMs, EndMs
<1>13. KafkaRead'
  BY <1>2, <1>4 DEF KafkaRead
<1>14. RedisRead'
  <2>1. UpTo(cursor, delivered \cup inHand)'
    <3>1. ASSUME NEW k \in 1..i, InWindow(stream[k].time)
          PROVE  stream[k].record \in delivered \cup inHand' \/ k <= trimmed
      <4>1. CASE k \in 1..cursor
        BY <1>4, <1>7, <3>1, <4>1 DEF RedisRead, UpTo
      <4>2. CASE k \in (cursor + 1)..i
        <5>1. k \in batch \/ k <= trimmed
          BY <1>8, <3>1, <4>2
        <5>2. k \in batch => k = i
          BY <1>3, <1>5, <3>1
        <5> QED
          BY <1>3, <5>1, <5>2
      <4> QED
        BY <1>5, <3>1, <4>1, <4>2
    <3> QED
      BY <1>2, <1>3, <3>1 DEF UpTo, InWindow, StartMs, EndMs
  <2>2. ASSUME NEW b \in batch'
        PROVE  /\ b > i /\ InWindow(stream[b].time)
               /\ \A k \in (i + 1)..b :
                    InWindow(stream[k].time) => k \in batch' \/ k <= trimmed
    <3>1. b \in batch /\ b # i /\ b > i /\ b \in Nat /\ i \in Nat
      BY <1>3, <1>5, <2>2
    <3>2. InWindow(stream[b].time)
          /\ \A k \in (cursor + 1)..b : InWindow(stream[k].time) => k \in batch \/ k <= trimmed
      BY <1>4, <1>7, <3>1 DEF RedisRead
    <3>3. ASSUME NEW k \in (i + 1)..b, InWindow(stream[k].time)
          PROVE  k \in batch' \/ k <= trimmed
      <4>1. k \in (cursor + 1)..b /\ k # i
        BY <1>5, <1>8, <3>1, <3>3
      <4> QED
        BY <1>3, <3>2, <3>3, <4>1
    <3> QED
      BY <3>1, <3>2, <3>3
  <2>3. ASSUME more = "no", NEW k \in 1..Len(stream), stream[k].record \in promised
        PROVE  k <= i \/ k \in batch' \/ k <= trimmed
    <3>1. k <= cursor \/ k \in batch \/ k <= trimmed
      BY <1>4, <1>7, <2>3 DEF RedisRead
    <3> QED
      BY <1>3, <1>5, <1>8, <3>1
  <2>4. lastId < i
    BY <1>3, <1>5, <1>8
  <2>5. \A b \in batch' : /\ b > cursor' /\ InWindow(stream[b].time)'
                          /\ \A k \in (cursor' + 1)..b :
                               InWindow(stream[k].time)' => k \in batch' \/ k <= trimmed'
    BY <1>2, <1>3, <2>2 DEF InWindow, StartMs, EndMs
  <2>6. more' = "no" => \A k \in 1..Len(stream') :
          stream'[k].record \in promised' => k <= cursor' \/ k \in batch' \/ k <= trimmed'
    BY <1>2, <1>3, <1>4, <2>3
  <2>7. lastId' < cursor' /\ lastId' <= cursor' /\ inHand' = {stream'[cursor'].record}
    BY <1>2, <1>3, <1>5, <2>4
  <2> QED
    BY <1>4, <2>1, <2>5, <2>6, <2>7 DEF RedisRead
<1> QED
  BY <1>2, <1>9, <1>10, <1>11, <1>12, <1>13, <1>14 DEF Inv, Types, Reading

\* A partition completes when nothing it promised is before its position.
LEMMA PollKeeps ==
    ASSUME SourceAssumption, Inv, NEW p \in Partitions, Poll(p)
    PROVE  Inv'
<1>1. Reads /\ Types /\ Reading
  BY DEF Poll, Reads, Inv
<1>2. /\ StoreTypes' /\ TopicsOK' /\ StreamOK' /\ Saved' /\ PromiseOK' /\ Budget'
      /\ Records' = Records /\ \A e : Time(e)' = Time(e)
      /\ UNCHANGED <<now, topic, begin, stream, trimmed, window, replaySource, checkpoint,
                     lastId, delivered, opened, promised, skipped, repeats, stops>>
  BY <1>1, ReadsKeep
<1> DEFINE o == IF position[p] < begin[p] THEN begin[p] ELSE position[p]
           beyond == topic[p][o] > EndMs
<1>3. /\ mode = "open" /\ replaySource = "kafka" /\ inHand = {}
      /\ UNCHANGED <<mode, cursor, batch, more, unfound, ends>>
      /\ o <= Len(topic[p]) /\ position' = [position EXCEPT ![p] = o + 1]
      /\ inHand' = (IF p \in completed \/ beyond THEN {} ELSE {<<p, o>>})
      /\ completed' = IF beyond \/ position'[p] >= ends[p] THEN completed \cup {p} ELSE completed
  BY DEF Poll, redisVars, AtEnd
<1>4. /\ RecordFacts /\ Len(topic[p]) \in Nat /\ begin[p] \in Nat \ {0}
      /\ position \in [Partitions -> Nat \ {0}] /\ completed \subseteq Partitions
      /\ \A q \in Partitions : position[q] \in Nat \ {0} /\ position[q] <= Len(topic[q]) + 1
      /\ \A q \in Partitions : ends[q] \in Nat /\ checkpoint[q] \in Nat
  BY <1>1, RecordsAre DEF Types, StoreTypes, JobTypes, ReaderTypes, RecordFacts
<1>5. /\ o \in 1..Len(topic[p]) /\ o \in Nat /\ position[p] <= o
      /\ \A x \in position[p]..(o - 1) : x < begin[p]
  BY <1>3, <1>4
<1> HIDE DEF o
<1>6. position'[p] = o + 1 /\ \A q \in Partitions \ {p} : position'[q] = position[q]
  BY <1>3, <1>4
<1>7. topic[p][o] \in Nat /\ <<p, o>> \in Records /\ Time(<<p, o>>) = topic[p][o]
  BY <1>4, <1>5 DEF RecordFacts
<1>8. StartMs \in Nat /\ EndMs \in Nat
  BY <1>1 DEF SourceAssumption, Types, JobTypes, StartMs, EndMs
<1>9. /\ \A q \in Partitions : Sought(q)
      /\ \A q \in Partitions : q \notin completed => Below(q, position[q], Passed)
      /\ \A e \in promised : /\ e[2] < ends[e[1]]
                             /\ e[1] \in completed => e \in Passed \/ e[2] < begin[e[1]]
  BY <1>1, <1>3 DEF Reading, KafkaRead
<1>10. inHand' \in {{}, {<<p, o>>}} /\ (inHand' # {} => p \notin completed /\ ~ beyond)
  BY <1>3
<1>11. completed' \in {completed, completed \cup {p}}
       /\ (p \notin completed' => p \notin completed /\ ~ beyond)
       /\ (p \in completed' => p \in completed \/ beyond \/ o + 1 >= ends[p])
  BY <1>3, <1>6
<1>12. JobTypes'
  BY <1>1, <1>2, <1>3 DEF Types, JobTypes
<1>13. ReaderTypes'
  <2>1. position' \in [Partitions -> Nat \ {0}]
    BY <1>3, <1>4, <1>5
  <2>2. \A q \in Partitions : position'[q] <= Len(topic[q]) + 1
    BY <1>4, <1>5, <1>6
  <2>3. completed' \subseteq Partitions
    BY <1>4, <1>11
  <2> QED
    BY <1>1, <1>2, <1>3, <2>1, <2>2, <2>3 DEF Types, ReaderTypes
<1>14. HistoryTypes'
  BY <1>1, <1>2, <1>3, <1>7, <1>10 DEF Types, HistoryTypes
<1>15. RedisRead'
  BY <1>2, <1>3 DEF RedisRead
<1>16. Late(p, o) /\ Late(p, o + 1) /\ checkpoint[p] < o
  <2>1. position[p] > checkpoint[p] /\ Late(p, position[p])
    BY <1>9 DEF Sought
  <2> QED
    BY <1>4, <1>5, <2>1 DEF Late
<1>17. HandOK'
  <2> SUFFICES ASSUME inHand' # {}
               PROVE  InWindow(topic[p][o]) \/ (opened <= topic[p][o] /\ topic[p][o] < StartMs)
    BY <1>2, <1>7, <1>10 DEF HandOK, InWindow, StartMs, EndMs
  <2>1. topic[p][o] <= EndMs
    BY <1>7, <1>8, <1>10
  <2>2. topic[p][o] >= StartMs \/ opened <= topic[p][o]
    BY <1>5, <1>16 DEF Late
  <2> QED
    BY <1>7, <1>8, <2>1, <2>2 DEF InWindow
<1>18. p \notin completed => Below(p, o, Passed)
  BY <1>4, <1>5, <1>9 DEF Below
<1>19. KafkaRead'
  <2>1. ASSUME NEW q \in Partitions PROVE Sought(q)'
    <3>1. CASE q = p
      BY <1>2, <1>4, <1>5, <1>6, <1>16, <3>1 DEF Sought, Late, StartMs
    <3>2. CASE q # p
      BY <1>2, <1>6, <1>9, <3>2 DEF Sought, Late, StartMs
    <3> QED
      BY <3>1, <3>2
  <2>2. ASSUME NEW q \in Partitions, q \notin completed'
        PROVE  Below(q, position[q], Passed \cup inHand)'
    <3>1. CASE q = p
      <4>1. Below(p, o, Passed) /\ inHand' = {<<p, o>>}
        BY <1>3, <1>11, <1>18, <2>2, <3>1
      <4>2. ASSUME NEW x \in 1..o, InWindow(topic[p][x])
            PROVE  <<p, x>> \in Passed \cup inHand' \/ x < begin[p]
        <5>1. x = o \/ x \in 1..(o - 1)
          BY <1>5
        <5> QED
          BY <4>1, <4>2, <5>1 DEF Below
      <4>3. position'[p] - 1 = o
        BY <1>5, <1>6
      <4> QED
        BY <1>2, <3>1, <4>2, <4>3 DEF Passed, Below, InWindow, StartMs, EndMs
    <3>2. CASE q # p
      <4>1. Below(q, position[q], Passed) /\ position'[q] = position[q]
        BY <1>6, <1>9, <1>11, <2>2, <3>2
      <4> QED
        BY <1>2, <4>1 DEF Passed, Below, InWindow, StartMs, EndMs
    <3> QED
      BY <3>1, <3>2
  <2>3. ASSUME NEW e \in inHand'
        PROVE  /\ Below(e[1], e[2], Passed)' /\ Late(e[1], e[2])'
               /\ checkpoint'[e[1]] < e[2] /\ e[2] < position'[e[1]]
    <3>1. e[1] = p /\ e[2] = o /\ Below(p, o, Passed)
      BY <1>10, <1>18, <2>3
    <3>2. Below(e[1], e[2], Passed) /\ Late(e[1], e[2])
      BY <1>16, <3>1
    <3>3. Below(e[1], e[2], Passed)' /\ Late(e[1], e[2])'
      BY <1>2, <3>2 DEF Passed, Below, Late, InWindow, StartMs, EndMs
    <3>4. checkpoint[p] < o /\ o < position'[p]
      BY <1>5, <1>6, <1>16
    <3> QED
      BY <1>2, <3>1, <3>3, <3>4
  <2>4. ASSUME NEW e \in promised
        PROVE  /\ e[2] < ends[e[1]]
               /\ e[1] \in completed' => e \in Passed \cup inHand' \/ e[2] < begin[e[1]]
    <3>1. /\ e[1] \in Partitions /\ e[2] \in 1..Len(topic[e[1]]) /\ e = <<e[1], e[2]>>
          /\ Time(e) = topic[e[1]][e[2]] /\ Len(topic[e[1]]) \in Nat
      BY <1>1, <1>4 DEF Types, HistoryTypes, RecordFacts
    <3>2. InWindow(topic[e[1]][e[2]]) /\ e[2] < ends[e[1]]
      BY <1>1, <1>9, <3>1 DEF Reading, PromiseOK
    <3>3. CASE e[1] \in completed
      BY <1>9, <3>2, <3>3
    <3>4. CASE e[1] # p
      BY <1>9, <1>11, <3>2, <3>4
    <3>5. CASE e[1] = p /\ p \notin completed
      <4>1. CASE e[2] \in 1..(o - 1)
        BY <1>18, <3>1, <3>2, <3>5, <4>1 DEF Passed, Below
      <4>2. CASE e[2] = o
        <5>1. ~ beyond
          BY <1>7, <1>8, <3>2, <3>5, <4>2 DEF InWindow
        <5> QED
          BY <1>3, <3>1, <3>2, <3>5, <4>2, <5>1
      <4>3. CASE e[2] > o
        <5>1. topic[p][o] <= topic[p][e[2]] /\ topic[p][e[2]] \in Nat
          <6>1. o \in 1..Len(topic[p]) /\ e[2] \in 1..Len(topic[p]) /\ o <= e[2]
            BY <1>5, <3>1, <3>5, <4>3
          <6>2. topic[p][e[2]] \in Nat
            BY <1>4, <6>1 DEF RecordFacts
          <6> QED
            BY <1>1, <6>1, <6>2, <3>5 DEF Types, TopicsOK
        <5>2. ~ beyond
          BY <1>7, <1>8, <3>2, <3>5, <5>1 DEF InWindow
        <5>3. ~ (o + 1 >= ends[p])
          BY <1>4, <1>5, <3>1, <3>2, <3>5, <4>3
        <5> QED
          BY <1>11, <3>2, <3>5, <5>2, <5>3
      <4> QED
        BY <1>5, <3>1, <4>1, <4>2, <4>3
    <3> QED
      BY <3>3, <3>4, <3>5
  <2> QED
    BY <1>2, <1>3, <2>1, <2>2, <2>3, <2>4 DEF KafkaRead, Passed
<1> QED
  BY <1>2, <1>12, <1>13, <1>14, <1>15, <1>17, <1>19 DEF Inv, Types, Reading

-----------------------------------------------------------------------------
(* The worker                                                              *)

\* The events delivered grow, and what was not owed still is not.
LEMMA Grows ==
    ASSUME NEW S, NEW T, S \subseteq T
    PROVE  /\ \A p, n : Below(p, n, S) => Below(p, n, T)
           /\ \A c : UpTo(c, S) => UpTo(c, T)
  BY DEF Passed, Below, UpTo

\* What is unsaved can be counted.
LEMMA UnsavedFinite ==
    ASSUME Types
    PROVE  IsFiniteSet(Unsaved) /\ Cardinality(Unsaved) \in Nat
<1>1. IsFiniteSet(delivered)
  BY DEF Types, HistoryTypes
<1>2. Unsaved \in SUBSET delivered
  BY DEF Unsaved
<1> QED
  BY <1>1, <1>2, FS_Subset, FS_CardinalityType

\* Of the unsaved, one is delivered again and saved.
LEMMA OneSaved ==
    ASSUME NEW U, IsFiniteSet(U), NEW e, NEW V, V \subseteq U \ {e}, NEW D, e \in D => e \in U,
           NEW r \in Nat, NEW s \in Nat, r + Cardinality(U) <= s
    PROVE  (IF e \in D THEN r + 1 ELSE r) + Cardinality(V) <= s
<1>1. Cardinality(U) \in Nat
  BY FS_CardinalityType
<1>2. IsFiniteSet(U \ {e}) /\ Cardinality(U \ {e}) = IF e \in U THEN Cardinality(U) - 1 ELSE Cardinality(U)
  BY FS_RemoveElement
<1>3. Cardinality(U \ {e}) \in Nat
  BY <1>2, FS_CardinalityType
<1>4. Cardinality(V) \in Nat /\ Cardinality(V) <= Cardinality(U \ {e})
  <2>1. V \in SUBSET (U \ {e})
    OBVIOUS
  <2> QED
    BY <1>2, <2>1, FS_Subset, FS_CardinalityType
<1>5. CASE e \in D
  <2>1. Cardinality(U \ {e}) = Cardinality(U) - 1
    BY <1>2, <1>5
  <2> QED
    BY <1>1, <1>3, <1>4, <1>5, <2>1
<1>6. CASE e \notin D
  <2>1. Cardinality(U \ {e}) <= Cardinality(U)
    BY <1>1, <1>2
  <2> QED
    BY <1>1, <1>3, <1>4, <1>6, <2>1
<1> QED
  BY <1>5, <1>6

\* The position moves over the event delivered, and over nothing else that is owed.
LEMMA RecordKeeps ==
    ASSUME Inv, Record
    PROVE  Inv'
<1>0. Types /\ Reading /\ Saved
  BY DEF Inv, Reading
<1>1. PICK e \in inHand :
        /\ delivered' = delivered \cup {e} /\ repeats' = Again(e)
        /\ IF replaySource = "kafka"
           THEN checkpoint' = [checkpoint EXCEPT ![e[1]] = e[2]] /\ UNCHANGED lastId
           ELSE lastId' = cursor /\ UNCHANGED checkpoint
  BY DEF Record
<1>2. /\ UNCHANGED <<now, topic, begin, stream, trimmed, window, replaySource, mode, cursor>>
      /\ UNCHANGED <<batch, more, position, unfound, ends, completed, opened, promised, skipped, stops>>
      /\ inHand' = {}
  BY DEF Record, storeVars, redisVars, kafkaVars
<1>3. StoreTypes' /\ TopicsOK' /\ StreamOK' /\ Records' = Records /\ \A x : Time(x)' = Time(x)
  BY <1>0, SameStore DEF Record
<1>4. inHand = {e} /\ mode = "open" /\ replaySource \in {"redis", "kafka"} /\ e \in Records
  BY <1>0, <1>1 DEF Types, HistoryTypes, JobTypes
<1>5. /\ RecordFacts /\ e[1] \in Partitions /\ e[2] \in 1..Len(topic[e[1]]) /\ e = <<e[1], e[2]>>
      /\ Len(topic[e[1]]) \in Nat
  BY <1>0, <1>4, RecordsAre DEF Types, RecordFacts
<1>6. /\ checkpoint \in [Partitions -> Nat] /\ position \in [Partitions -> Nat \ {0}]
      /\ \A p \in Partitions : checkpoint[p] <= Len(topic[p])
      /\ cursor \in 0..Len(stream) /\ lastId \in 0..Len(stream) /\ Len(stream) \in Nat
  BY <1>0, <1>5 DEF Types, JobTypes, ReaderTypes, RecordFacts
<1>p. Passed \subseteq Passed' /\ Passed' \cup inHand' = Passed \cup inHand
  BY <1>1, <1>2, <1>4 DEF Passed
<1>7. ASSUME replaySource = "kafka"
      PROVE  /\ JobTypes' /\ Saved' /\ KafkaRead' /\ RedisRead'
             /\ Unsaved' \subseteq Unsaved \ {e} /\ (e \in delivered => e \in Unsaved)
  <2>1. /\ checkpoint'[e[1]] = e[2] /\ \A p \in Partitions \ {e[1]} : checkpoint'[p] = checkpoint[p]
        /\ checkpoint' \in [Partitions -> Nat] /\ lastId' = lastId
    BY <1>1, <1>5, <1>6, <1>7
  <2>2. /\ Below(e[1], e[2], Passed) /\ Late(e[1], e[2]) /\ checkpoint[e[1]] < e[2]
        /\ e[2] < position[e[1]] /\ \A p \in Partitions : Sought(p)
    BY <1>0, <1>4, <1>7 DEF Reading, KafkaRead
  <2>3. \A p \in Partitions : checkpoint[p] <= checkpoint'[p] /\ checkpoint'[p] \in Nat
                              /\ checkpoint'[p] <= Len(topic[p])
    <3>1. ASSUME NEW p \in Partitions
          PROVE  checkpoint[p] <= checkpoint'[p] /\ checkpoint'[p] \in Nat
                 /\ checkpoint'[p] <= Len(topic[p])
      <4>0. checkpoint[p] \in Nat /\ checkpoint[p] <= Len(topic[p])
        BY <1>6
      <4>1. CASE p = e[1]
        <5>1. checkpoint'[p] = e[2] /\ e[2] \in 1..Len(topic[p]) /\ checkpoint[p] < e[2]
          BY <1>5, <2>1, <2>2, <4>1
        <5> QED
          BY <1>5, <4>0, <4>1, <5>1
      <4>2. CASE p # e[1]
        BY <2>1, <4>0, <4>2
      <4> QED
        BY <4>1, <4>2
    <3> QED
      BY <3>1
  <2>4. JobTypes'
    BY <1>0, <1>2, <1>7, <2>1, <2>3 DEF Types, JobTypes
  <2>5. Saved'
    <3>1. ASSUME NEW p \in Partitions
          PROVE  \/ Below(p, checkpoint[p] + 1, Passed)' /\ Late(p, checkpoint[p] + 1)'
                 \/ p # e[1] /\ checkpoint'[p] = checkpoint[p]
      <4> SUFFICES ASSUME p = e[1]
                   PROVE  Below(p, checkpoint[p] + 1, Passed)' /\ Late(p, checkpoint[p] + 1)'
        BY <2>1
      <4>1. checkpoint'[p] = e[2] /\ e[2] \in Nat
        BY <1>5, <2>1
      <4>2. ASSUME NEW x \in 1..e[2], InWindow(topic[p][x])
            PROVE  <<p, x>> \in Passed' \/ x < begin[p]
        <5>1. x = e[2] \/ x \in 1..(e[2] - 1)
          BY <4>1
        <5>2. e \in Passed'
          BY <1>1 DEF Passed
        <5>3. CASE x = e[2]
          BY <1>5, <5>2, <5>3
        <5>4. CASE x \in 1..(e[2] - 1)
          BY <1>p, <2>2, <4>2, <5>4 DEF Below
        <5> QED
          BY <5>1, <5>3, <5>4
      <4>3. \A x \in (e[2] + 1)..Len(topic[p]) : topic[p][x] >= StartMs \/ opened <= topic[p][x]
        BY <1>5, <2>2, <4>1 DEF Late
      <4>4. (checkpoint'[p] + 1) - 1 = e[2] /\ checkpoint'[p] + 1 = e[2] + 1
        BY <4>1
      <4> QED
        BY <1>2, <4>2, <4>3, <4>4 DEF Passed, Below, Late, InWindow, StartMs, EndMs
    <3>2. ASSUME NEW p \in Partitions, p # e[1]
          PROVE  Below(p, checkpoint[p] + 1, Passed)'
                 /\ (checkpoint'[p] # None => Late(p, checkpoint[p] + 1)')
      <4>1. Below(p, checkpoint[p] + 1, Passed')
            /\ (checkpoint[p] # None => Late(p, checkpoint[p] + 1))
        BY <1>0, <1>p, Grows DEF Saved
      <4>2. checkpoint'[p] = checkpoint[p]
        BY <2>1, <3>2
      <4> QED
        BY <1>2, <4>1, <4>2 DEF Passed, Below, Late, InWindow, StartMs, EndMs
    <3>3. UpTo(lastId, delivered)'
      <4>1. UpTo(lastId, delivered')
        BY <1>0, <1>1, Grows DEF Saved
      <4> QED
        BY <1>2, <2>1, <4>1 DEF UpTo, InWindow, StartMs, EndMs
    <3> QED
      BY <3>1, <3>2, <3>3 DEF Saved
  <2>6. KafkaRead'
    <3>1. ASSUME NEW p \in Partitions PROVE Sought(p)'
      <4>1. position[p] > checkpoint'[p]
        BY <1>6, <2>1, <2>2 DEF Sought
      <4> QED
        BY <1>2, <2>2, <4>1 DEF Sought, Late, StartMs
    <3>2. Passed' \cup inHand' = Passed \cup inHand
      BY <1>p
    <3>3. /\ \A p \in Partitions : p \notin completed => Below(p, position[p], Passed \cup inHand)
          /\ \A x \in promised : /\ x[2] < ends[x[1]]
                                 /\ x[1] \in completed => x \in Passed \cup inHand \/ x[2] < begin[x[1]]
      BY <1>0, <1>4, <1>7 DEF Reading, KafkaRead
    <3>4. \A p \in Partitions : p \notin completed => Below(p, position[p], Passed \cup inHand)'
      BY <1>2, <3>2, <3>3 DEF Below, InWindow, StartMs, EndMs
    <3> QED
      BY <1>2, <1>4, <3>1, <3>2, <3>3, <3>4 DEF KafkaRead
  <2>7. RedisRead'
    BY <1>2, <1>7 DEF RedisRead
  <2>8. Unsaved' \subseteq Unsaved \ {e} /\ (e \in delivered => e \in Unsaved)
    <3>1. Unsaved = {x \in delivered : x[2] > checkpoint[x[1]]}
      BY <1>7 DEF Unsaved
    <3>2. Unsaved' = {x \in delivered \cup {e} : x[2] > checkpoint'[x[1]]}
      BY <1>1, <1>2, <1>7 DEF Unsaved
    <3>3. ASSUME NEW x \in delivered, x[2] > checkpoint'[x[1]] PROVE x[2] > checkpoint[x[1]]
      <4>1. x[1] \in Partitions /\ x[2] \in Nat
        BY <1>0, <1>5 DEF Types, HistoryTypes, RecordFacts
      <4> QED
        BY <1>6, <2>3, <3>3, <4>1
    <3>4. ~ (e[2] > checkpoint'[e[1]]) /\ e[2] > checkpoint[e[1]]
      BY <1>5, <1>6, <2>1, <2>2
    <3> QED
      BY <3>1, <3>2, <3>3, <3>4
  <2> QED
    BY <2>4, <2>5, <2>6, <2>7, <2>8
<1>8. ASSUME replaySource = "redis"
      PROVE  /\ JobTypes' /\ Saved' /\ KafkaRead' /\ RedisRead'
             /\ Unsaved' \subseteq Unsaved \ {e} /\ (e \in delivered => e \in Unsaved)
  <2>1. lastId' = cursor /\ checkpoint' = checkpoint /\ \A p \in Partitions : checkpoint[p] = None
    BY <1>0, <1>1, <1>8 DEF Types, JobTypes
  <2>2. /\ lastId < cursor /\ e = stream[cursor].record /\ UpTo(cursor, delivered \cup inHand)
        /\ \A i \in batch : /\ i > cursor /\ InWindow(stream[i].time)
                            /\ \A k \in (cursor + 1)..i :
                                 InWindow(stream[k].time) => k \in batch \/ k <= trimmed
        /\ more = "no" => \A i \in 1..Len(stream) :
             stream[i].record \in promised => i <= cursor \/ i \in batch \/ i <= trimmed
    BY <1>0, <1>4, <1>8 DEF Reading, RedisRead
  <2>3. JobTypes'
    BY <1>0, <1>2, <1>6, <1>8, <2>1 DEF Types, JobTypes
  <2>4. UpTo(cursor, delivered')
    BY <1>1, <1>4, <2>2
  <2>5. UpTo(cursor, delivered)'
    BY <1>2, <2>4 DEF UpTo, InWindow, StartMs, EndMs
  <2>6. Saved'
    <3>1. ASSUME NEW p \in Partitions PROVE Below(p, checkpoint[p] + 1, Passed)'
      <4>1. Below(p, checkpoint[p] + 1, Passed')
        BY <1>0, <1>p, Grows DEF Saved
      <4> QED
        BY <1>2, <2>1, <4>1 DEF Passed, Below, InWindow, StartMs, EndMs
    <3>2. UpTo(lastId, delivered)'
      BY <1>2, <2>1, <2>5 DEF UpTo
    <3> QED
      BY <2>1, <3>1, <3>2 DEF Saved
  <2>7. RedisRead'
    <3>1. UpTo(cursor, delivered \cup inHand)'
      <4>1. delivered' \cup inHand' = delivered'
        BY <1>2
      <4> QED
        BY <2>5, <4>1 DEF UpTo
    <3>2. lastId' <= cursor'
      BY <1>2, <1>6, <2>1
    <3> QED
      BY <1>2, <1>4, <2>2, <3>1, <3>2 DEF RedisRead, InWindow, StartMs, EndMs
  <2>8. KafkaRead'
    BY <1>2, <1>8 DEF KafkaRead
  <2>9. Unsaved' \subseteq Unsaved \ {e} /\ (e \in delivered => e \in Unsaved)
    <3>1. Unsaved = {x \in delivered : \A i \in 1..lastId : stream[i].record # x}
      BY <1>8 DEF Unsaved
    <3>2. Unsaved' = {x \in delivered \cup {e} : \A i \in 1..cursor : stream[i].record # x}
      BY <1>1, <1>2, <1>8, <2>1 DEF Unsaved
    <3>3. cursor \in 1..Len(stream) /\ 1..lastId \subseteq 1..cursor /\ cursor \notin 1..lastId
          /\ 1..lastId \subseteq 1..Len(stream)
      BY <1>6, <2>2
    <3>4. e \notin Unsaved'
      BY <2>2, <3>2, <3>3
    <3>5. \A i \in 1..lastId : stream[i].record # e
      BY <1>0, <2>2, <3>3 DEF Types, StreamOK
    <3> QED
      BY <3>1, <3>2, <3>3, <3>4, <3>5
  <2> QED
    BY <2>3, <2>6, <2>7, <2>8, <2>9
<1>9. /\ JobTypes' /\ Saved' /\ KafkaRead' /\ RedisRead'
      /\ Unsaved' \subseteq Unsaved \ {e} /\ (e \in delivered => e \in Unsaved)
  BY <1>4, <1>7, <1>8
<1>10. ReaderTypes'
  BY <1>0, <1>2 DEF Types, ReaderTypes
<1>11. HistoryTypes'
  <2>1. IsFiniteSet(delivered') /\ delivered' \subseteq Records
    BY <1>0, <1>1, <1>4, FS_AddElement DEF Types, HistoryTypes
  <2>2. repeats' \in Nat
    BY <1>0, <1>1 DEF Types, HistoryTypes, Again
  <2> QED
    BY <1>0, <1>2, <1>3, <1>4, <2>1, <2>2 DEF Types, HistoryTypes
<1>12. HandOK' /\ PromiseOK'
  BY <1>0, <1>2, <1>3 DEF Reading, HandOK, PromiseOK, InWindow, StartMs, EndMs
<1>13. Budget'
  <2>1. repeats \in Nat /\ stops \in Nat /\ IsFiniteSet(Unsaved) /\ repeats + Cardinality(Unsaved) <= stops
    BY <1>0, UnsavedFinite DEF Types, HistoryTypes, Inv, Budget
  <2>2. (IF e \in delivered THEN repeats + 1 ELSE repeats) + Cardinality(Unsaved') <= stops
    BY <1>9, <2>1, OneSaved
  <2> QED
    BY <1>1, <1>2, <2>2 DEF Budget, Again
<1> QED
  BY <1>3, <1>9, <1>10, <1>11, <1>12, <1>13 DEF Inv, Types, Reading

\* An interruption leaves the job idle, its position as it was.
LEMMA InterruptKeeps ==
    ASSUME Inv, Interrupt
    PROVE  Inv'
<1>0. Types /\ Reading /\ Saved
  BY DEF Inv, Reading
<1>1. /\ UNCHANGED <<now, topic, begin, stream, trimmed, window, replaySource, checkpoint, lastId>>
      /\ UNCHANGED <<cursor, batch, more, position, unfound, ends, completed, opened, promised, skipped>>
      /\ mode \in {"looking", "seeking", "open"} /\ mode' = "idle" /\ inHand' = {} /\ stops' = stops + 1
  BY DEF Interrupt, storeVars, jobVars, redisVars, kafkaVars
<1>2. StoreTypes' /\ TopicsOK' /\ StreamOK' /\ Records' = Records /\ \A x : Time(x)' = Time(x)
  BY <1>0, SameStore DEF Interrupt
<1>3. /\ repeats \in Nat /\ stops \in Nat /\ IsFiniteSet(delivered) /\ delivered \subseteq Records
      /\ inHand \subseteq Records /\ replaySource # "none"
      /\ IsFiniteSet(Unsaved) /\ Cardinality(Unsaved) \in Nat /\ repeats + Cardinality(Unsaved) <= stops
  BY <1>0, <1>1, UnsavedFinite DEF Types, HistoryTypes, JobTypes, Inv, Budget
<1>4. \/ delivered' = delivered /\ repeats' = repeats
      \/ \E e \in inHand : delivered' = delivered \cup {e} /\ repeats' = Again(e)
  BY DEF Interrupt
<1>5. /\ IsFiniteSet(delivered') /\ delivered \subseteq delivered' /\ delivered' \subseteq Records
      /\ repeats' \in Nat
  <2>1. CASE delivered' = delivered /\ repeats' = repeats
    BY <1>3, <2>1
  <2>2. ASSUME NEW e \in inHand, delivered' = delivered \cup {e}, repeats' = Again(e)
        PROVE  /\ IsFiniteSet(delivered') /\ delivered \subseteq delivered' /\ delivered' \subseteq Records
               /\ repeats' \in Nat
    BY <1>3, <2>2, FS_AddElement DEF Again
  <2> QED
    BY <1>4, <2>1, <2>2
<1>6. JobTypes' /\ ReaderTypes'
  BY <1>0, <1>1 DEF Types, JobTypes, ReaderTypes
<1>7. HistoryTypes'
  BY <1>0, <1>1, <1>2, <1>3, <1>5 DEF Types, HistoryTypes
<1>8. Saved'
  <2>1. /\ \A p \in Partitions : Below(p, checkpoint[p] + 1, Passed')
        /\ UpTo(lastId, delivered')
    <3>1. Passed \subseteq Passed'
      BY <1>1, <1>5 DEF Passed
    <3> QED
      BY <1>0, <1>5, <3>1, Grows DEF Saved
  <2>2. \A p \in Partitions : Below(p, checkpoint[p] + 1, Passed)'
    BY <1>1, <2>1 DEF Passed, Below, InWindow, StartMs, EndMs
  <2>3. UpTo(lastId, delivered)'
    BY <1>1, <2>1 DEF UpTo, InWindow, StartMs, EndMs
  <2>4. \A p \in Partitions : checkpoint'[p] # None => Late(p, checkpoint[p] + 1)'
    BY <1>0, <1>1 DEF Saved, Late, StartMs
  <2> QED
    BY <2>2, <2>3, <2>4 DEF Saved
<1>9. RedisRead' /\ KafkaRead' /\ HandOK'
  BY <1>1 DEF RedisRead, KafkaRead, HandOK
<1>10. PromiseOK'
  BY <1>0, <1>1, <1>2 DEF Reading, PromiseOK, InWindow, StartMs, EndMs
<1>11. Budget'
  <2>1. CASE delivered' = delivered /\ repeats' = repeats
    <3>1. Unsaved' = Unsaved
      BY <1>1, <2>1 DEF Unsaved
    <3> QED
      BY <1>1, <1>3, <2>1, <3>1 DEF Budget
  <2>2. ASSUME NEW e \in inHand, delivered' = delivered \cup {e}, repeats' = Again(e)
        PROVE  Budget'
    <3>1. CASE e \in delivered
      <4>1. delivered' = delivered
        BY <2>2, <3>1
      <4>2. Unsaved' = Unsaved
        BY <1>1, <4>1 DEF Unsaved
      <4> QED
        BY <1>1, <1>3, <2>2, <3>1, <4>2 DEF Budget, Again
    <3>2. CASE e \notin delivered
      <4>1. Unsaved' \subseteq Unsaved \cup {e}
        BY <1>1, <2>2 DEF Unsaved
      <4>2. /\ IsFiniteSet(Unsaved \cup {e}) /\ Cardinality(Unsaved \cup {e}) \in Nat
            /\ Cardinality(Unsaved \cup {e}) <= Cardinality(Unsaved) + 1
        <5>1. /\ IsFiniteSet(Unsaved \cup {e})
              /\ Cardinality(Unsaved \cup {e}) =
                   IF e \in Unsaved THEN Cardinality(Unsaved) ELSE Cardinality(Unsaved) + 1
          BY <1>3, FS_AddElement
        <5> QED
          BY <1>3, <5>1
      <4>3. Cardinality(Unsaved') \in Nat /\ Cardinality(Unsaved') <= Cardinality(Unsaved \cup {e})
        <5>1. Unsaved' \in SUBSET (Unsaved \cup {e})
          BY <4>1
        <5> QED
          BY <4>2, <5>1, FS_Subset, FS_CardinalityType
      <4> QED
        BY <1>1, <1>3, <2>2, <3>2, <4>2, <4>3 DEF Budget, Again
    <3> QED
      BY <3>1, <3>2
  <2> QED
    BY <1>4, <2>1, <2>2
<1> QED
  BY <1>2, <1>6, <1>7, <1>8, <1>9, <1>10, <1>11 DEF Inv, Types, Reading

\* The stream ends.
LEMMA FinishKeeps ==
    ASSUME Inv, Finish
    PROVE  Inv'
<1>1. Reads /\ Types /\ Reading
  BY DEF Finish, Reads, Inv
<1>2. /\ StoreTypes' /\ TopicsOK' /\ StreamOK' /\ Saved' /\ PromiseOK' /\ Budget'
      /\ Records' = Records /\ \A e : Time(e)' = Time(e)
      /\ UNCHANGED <<now, topic, begin, stream, trimmed, window, replaySource, checkpoint,
                     lastId, delivered, opened, promised, skipped, repeats, stops>>
  BY <1>1, ReadsKeep
<1>3. /\ mode = "open" /\ mode' = "done" /\ inHand = {}
      /\ UNCHANGED <<cursor, batch, more, position, unfound, ends, completed, inHand>>
      /\ \/ replaySource = "redis" /\ batch = {} /\ more = "no"
         \/ replaySource = "kafka" /\ completed = Partitions
  BY DEF Finish, redisVars, kafkaVars
<1>4. JobTypes' /\ ReaderTypes' /\ HistoryTypes'
  BY <1>1, <1>2, <1>3 DEF Types, JobTypes, ReaderTypes, HistoryTypes
<1>5. HandOK'
  BY <1>3 DEF HandOK
<1>6. RedisRead'
  BY <1>1, <1>2, <1>3 DEF Reading, RedisRead, UpTo, InWindow, StartMs, EndMs
<1>7. KafkaRead'
  <2>1. CASE replaySource = "kafka"
    <3>1. \A p \in Partitions : Sought(p)'
      BY <1>1, <1>2, <1>3, <2>1 DEF Reading, KafkaRead, Sought, Late, StartMs
    <3>2. completed' = Partitions /\ inHand' = {} /\ mode' # "seeking"
      BY <1>3, <2>1
    <3>3. \A e \in promised : /\ e[2] < ends[e[1]]
                              /\ e[1] \in completed => e \in Passed \cup inHand \/ e[2] < begin[e[1]]
      BY <1>1, <1>3, <2>1 DEF Reading, KafkaRead
    <3> QED
      BY <1>2, <1>3, <3>1, <3>2, <3>3 DEF KafkaRead, Passed
  <2>2. CASE replaySource # "kafka"
    BY <1>2, <2>2 DEF KafkaRead
  <2> QED
    BY <2>1, <2>2
<1> QED
  BY <1>2, <1>4, <1>5, <1>6, <1>7 DEF Inv, Types, Reading

\* A step of something else.
LEMMA StutterKeeps ==
    ASSUME Inv, UNCHANGED vars
    PROVE  Inv'
<1>1. Reads /\ Types /\ Reading
  BY DEF vars, Reads, Inv
<1>2. /\ StoreTypes' /\ TopicsOK' /\ StreamOK' /\ Saved' /\ PromiseOK' /\ Budget'
      /\ Records' = Records /\ \A e : Time(e)' = Time(e)
      /\ UNCHANGED <<now, topic, begin, stream, trimmed, window, replaySource, checkpoint,
                     lastId, delivered, opened, promised, skipped, repeats, stops>>
  BY <1>1, ReadsKeep
<1>3. UNCHANGED <<mode, cursor, batch, more, position, unfound, ends, completed, inHand>>
  BY DEF vars, redisVars, kafkaVars
<1>4. JobTypes' /\ ReaderTypes' /\ HistoryTypes'
  BY <1>1, <1>2, <1>3 DEF Types, JobTypes, ReaderTypes, HistoryTypes
<1>5. RedisRead' /\ HandOK'
  BY <1>1, <1>2, <1>3 DEF Reading, RedisRead, HandOK, UpTo, InWindow, StartMs, EndMs
<1>6. KafkaRead'
  BY <1>1, <1>2, <1>3 DEF Reading, KafkaRead, Sought, Late, Passed, Below, InWindow, StartMs, EndMs
<1> QED
  BY <1>2, <1>4, <1>5, <1>6 DEF Inv, Types, Reading

-----------------------------------------------------------------------------
(* The specification                                                       *)

\* A job that was not opened.
LEMMA InitHolds == Init => Inv
<1> SUFFICES ASSUME Init PROVE Inv
  OBVIOUS
<1>1. /\ now = 0 /\ stream = <<>> /\ trimmed = 0
      /\ topic = [p \in Partitions |-> <<>>] /\ begin = [p \in Partitions |-> 1]
      /\ window \in Windows /\ replaySource = "none" /\ lastId = 0
      /\ checkpoint = [p \in Partitions |-> 0]
      /\ mode = "idle" /\ inHand = {} /\ cursor = 0 /\ batch = {} /\ more = "yes"
      /\ position = [p \in Partitions |-> 1] /\ ends = [p \in Partitions |-> 1]
      /\ unfound = {} /\ completed = {}
      /\ delivered = {} /\ opened = 0 /\ promised = {} /\ repeats = 0 /\ stops = 0
  BY DEF Init, None
<1>2. Len(stream) = 0 /\ \A p \in Partitions : Len(topic[p]) = 0
  BY <1>1
<1>3. StoreTypes
  BY <1>1 DEF StoreTypes
<1>4. JobTypes /\ ReaderTypes
  BY <1>1, <1>2 DEF JobTypes, ReaderTypes, None
<1>5. HistoryTypes
  BY <1>1, FS_EmptySet DEF HistoryTypes
<1>6. TopicsOK /\ StreamOK
  BY <1>1, <1>2 DEF TopicsOK, StreamOK
<1>7. Saved
  BY <1>1 DEF Saved, Passed, Below, UpTo, None
<1>8. RedisRead /\ KafkaRead /\ HandOK /\ PromiseOK
  BY <1>1 DEF RedisRead, KafkaRead, HandOK, PromiseOK
<1>9. Budget
  <2>1. Unsaved = {}
    BY <1>1 DEF Unsaved
  <2> QED
    BY <1>1, <2>1, FS_EmptySet DEF Budget
<1> QED
  BY <1>3, <1>4, <1>5, <1>6, <1>7, <1>8, <1>9 DEF Inv, Types, Reading

\* Every step keeps the invariant.
LEMMA StepKeeps == ASSUME SourceAssumption PROVE Inv /\ [Next]_vars => Inv'
<1> SUFFICES ASSUME Inv, [Next]_vars PROVE Inv'
  OBVIOUS
<1>1. CASE StoreStep
  BY <1>1, StoreKeeps
<1>2. CASE Open
  BY <1>2, OpenKeeps
<1>3. CASE SnapshotEnds
  BY <1>3, SnapshotKeeps
<1>4. CASE XRange
  BY <1>4, XRangeKeeps
<1>5. CASE YieldRedis
  BY <1>5, YieldKeeps
<1>6. CASE \E p \in Partitions : Poll(p)
  BY <1>6, PollKeeps
<1>7. CASE Record
  BY <1>7, RecordKeeps
<1>8. CASE Interrupt
  BY <1>8, InterruptKeeps
<1>9. CASE Finish
  BY <1>9, FinishKeeps
<1>10. CASE UNCHANGED vars
  BY <1>10, StutterKeeps
<1>11. CASE NoTopic
  BY <1>11, NoTopicKeeps
<1>12. CASE Lookup
  BY <1>12, LookupKeeps
<1>13. CASE \E p \in Partitions : SeekToEnd(p)
  BY <1>13, SeekToEndKeeps
<1> QED
  BY <1>1, <1>2, <1>3, <1>4, <1>5, <1>6, <1>7, <1>8, <1>9, <1>10, <1>11, <1>12, <1>13 DEF Next, StoreStep

\* The invariant holds of every state a replay reaches.
THEOREM ReadingInvariant == ASSUME SourceAssumption PROVE Spec => []Inv
  BY InitHolds, StepKeeps, PTL DEF Spec

\* The state a replay keeps of its source has its types, and holds positions
\* only for the source the job keeps.
THEOREM TypeCorrect == ASSUME SourceAssumption PROVE Spec => []TypeOK
<1>1. Inv => TypeOK
  <2> SUFFICES ASSUME Types PROVE TypeOK
    BY DEF Inv
  <2>1. Cardinality(inHand) <= 1
    <3>1. CASE inHand = {}
      <4>1. Cardinality(inHand) = 0
        BY <3>1, FS_EmptySet
      <4> QED
        BY <4>1
    <3>2. ASSUME NEW e \in Records, inHand = {e} PROVE Cardinality(inHand) <= 1
      <4>1. Cardinality(inHand) = 1
        BY <3>2, FS_Singleton
      <4> QED
        BY <4>1
    <3> QED
      BY <3>1, <3>2 DEF Types, HistoryTypes
  <2>2. \A p \in Partitions : checkpoint[p] \in 0..Len(topic[p])
    <3>1. \A p \in Partitions : Len(topic[p]) \in Nat
      BY RecordsAre DEF Types, RecordFacts
    <3> QED
      BY <3>1 DEF Types, JobTypes
  <2> QED
    BY <2>1, <2>2 DEF Types, JobTypes, ReaderTypes, HistoryTypes, TypeOK
<1> QED
  BY <1>1, ReadingInvariant, PTL

\* What the position the worker saves claims is true: up to it, all of the window
\* was delivered, has been removed from the source, or was published between a
\* lookup and the seek to the end that passed it over.
THEOREM PositionIsCovered == ASSUME SourceAssumption PROVE Spec => []PositionCovers
<1>1. Inv => PositionCovers
  <2> SUFFICES ASSUME Types, Saved PROVE PositionCovers
    BY DEF Inv, Reading
  <2>1. ASSUME NEW p \in Partitions, NEW o \in 1..checkpoint[p], InWindow(topic[p][o])
        PROVE  <<p, o>> \in delivered \/ Gone(<<p, o>>) \/ <<p, o>> \in skipped
    <3>1. checkpoint[p] \in Nat /\ replaySource = "kafka"
      BY <2>1 DEF Types, JobTypes, None
    <3>2. (checkpoint[p] + 1) - 1 = checkpoint[p]
      BY <3>1
    <3>3. <<p, o>> \in delivered \/ <<p, o>> \in skipped \/ o < begin[p]
      BY <2>1, <3>2 DEF Saved, Passed, Below
    <3> QED
      BY <3>1, <3>3 DEF Gone
  <2>2. \A i \in 1..lastId :
          InWindow(stream[i].time) => stream[i].record \in delivered \/ i <= trimmed
    BY DEF Saved, UpTo
  <2> QED
    BY <2>1, <2>2 DEF PositionCovers
<1> QED
  BY <1>1, ReadingInvariant, PTL

\* A replay that completes has delivered all of its window that its source held,
\* but for what was removed, or passed over by a seek to the end before.
THEOREM DoneIsCompleteAlways == ASSUME SourceAssumption PROVE Spec => []DoneIsComplete
<1>1. Inv => DoneIsComplete
  <2> SUFFICES ASSUME Types, Reading, mode = "done", NEW e \in promised, e \notin Passed
               PROVE  Gone(e)
    BY DEF Inv, DoneIsComplete, Passed
  <2>1. inHand = {} /\ replaySource \in {"redis", "kafka"} /\ e \in Records
    BY DEF Types, HistoryTypes, JobTypes
  <2>2. CASE replaySource = "kafka"
    <3>1. e[1] \in Partitions
      BY <2>1, RecordsAre DEF Types, RecordFacts
    <3>2. completed = Partitions /\ (e[1] \in completed => e \in Passed \cup inHand \/ e[2] < begin[e[1]])
      BY <2>2 DEF Reading, KafkaRead
    <3> QED
      BY <2>1, <2>2, <3>1, <3>2 DEF Gone
  <2>3. CASE replaySource = "redis"
    <3>1. /\ UpTo(cursor, delivered \cup inHand) /\ batch = {}
          /\ \A i \in 1..Len(stream) :
               stream[i].record \in promised => i <= cursor \/ i \in batch \/ i <= trimmed
      BY <2>3 DEF Reading, RedisRead
    <3>2. Len(stream) \in Nat /\ trimmed \in Nat /\ cursor \in Nat
      BY RecordsAre DEF Types, RecordFacts, StoreTypes, ReaderTypes
    <3>3. ASSUME NEW i \in (trimmed + 1)..Len(stream), stream[i].record = e
          PROVE  FALSE
      <4>1. i \in 1..Len(stream) /\ ~ (i <= trimmed)
        BY <3>2
      <4>2. i \in 1..cursor
        BY <3>1, <3>2, <3>3, <4>1
      <4>3. InWindow(stream[i].time)
        BY <3>3, <4>1 DEF Types, StreamOK, Reading, PromiseOK
      <4> QED
        BY <2>1, <3>1, <3>3, <4>1, <4>2, <4>3 DEF UpTo, Passed
    <3> QED
      BY <2>3, <3>3 DEF Gone
  <2> QED
    BY <2>1, <2>2, <2>3
<1> QED
  BY <1>1, ReadingInvariant, PTL

\* Nothing from after the window is delivered, and from before it only what was
\* published after the replay was opened.
THEOREM OnlyTheWindowAlways == ASSUME SourceAssumption PROVE Spec => OnlyTheWindow
<1> DEFINE A == \A e \in delivered' \ delivered :
                  InWindow(Time(e)) \/ (opened <= Time(e) /\ Time(e) < StartMs)
<1>1. Inv /\ [Next]_vars => [A]_vars
  <2> SUFFICES ASSUME HandOK, Next PROVE A
    BY DEF Inv, Reading
  <2>1. delivered' \ delivered \subseteq inHand
    <3>1. CASE Record
      BY <3>1 DEF Record
    <3>2. CASE Interrupt
      BY <3>2 DEF Interrupt
    <3>3. CASE StoreStep \/ Open \/ NoTopic \/ Lookup \/ SnapshotEnds \/ XRange \/ YieldRedis \/ Finish
      BY <3>3 DEF StoreStep, Tick, Trim, Publish, Expire, Open, NoTopic, Lookup, SnapshotEnds, XRange,
                  YieldRedis, Finish, historyVars
    <3>4. CASE \E p \in Partitions : Poll(p) \/ SeekToEnd(p)
      BY <3>4 DEF Poll, SeekToEnd, historyVars
    <3> QED
      BY <3>1, <3>2, <3>3, <3>4 DEF Next, StoreStep
  <2> QED
    BY <2>1 DEF HandOK
<1> QED
  BY <1>1, ReadingInvariant, PTL DEF Spec, OnlyTheWindow

\* However often a replay is interrupted and taken up again, it delivers at most
\* one event again for each interruption.
THEOREM OneRepeatAlways == ASSUME SourceAssumption PROVE Spec => []OneRepeatPerStop
<1>1. Inv => OneRepeatPerStop
  <2> SUFFICES ASSUME Types, Budget PROVE OneRepeatPerStop
    BY DEF Inv
  <2>1. repeats \in Nat /\ stops \in Nat /\ Cardinality(Unsaved) \in Nat
    BY UnsavedFinite DEF Types, HistoryTypes
  <2> QED
    BY <2>1 DEF Budget, OneRepeatPerStop
<1> QED
  BY <1>1, ReadingInvariant, PTL
=============================================================================
