---------------------------- MODULE EventFeed_proofs ----------------------------
(***************************************************************************)
(* What a connected page has seen, for any number of sockets, events,      *)
(* entries of a read and recent events.                                    *)
(***************************************************************************)
EXTENDS EventFeed, TLAPS

ConnOK ==
    /\ sock \in [Sockets -> {"free", "connecting", "open", "closing"}]
    /\ owner \in [Sockets -> {"live", "stale"}]

\* An answer under way saw no more of the stream than there is.
AnswersOK == \A p \in 0..MaxLog : answers[p] > 0 => p <= log

TypeInv == TypeOK /\ ConnOK /\ AnswersOK

LEMMA SeqGrows ==
    ASSUME NEW S, NEW T, S \subseteq T, NEW q \in Seq(S)
    PROVE  q \in Seq(T)
  OBVIOUS

LEMMA ElementOf ==
    ASSUME NEW S, NEW q \in Seq(S)
    PROVE  \A i \in 1..Len(q) : q[i] \in S
  OBVIOUS

LEMMA TailOf ==
    ASSUME NEW S, NEW q \in Seq(S), q # <<>>
    PROVE  /\ Len(q) >= 1 /\ Head(q) = q[1] /\ q[1] \in S
           /\ Tail(q) \in Seq(S) /\ Len(Tail(q)) = Len(q) - 1
           /\ \A i \in 2..Len(q) : i - 1 \in 1..Len(Tail(q)) /\ Tail(q)[i - 1] = q[i]
  OBVIOUS

\* The connection and the queries that a page's step touches.
LEMMA ConnType == ASSUME ConnOK, [Next]_vars PROVE ConnOK'
<1>1. CASE PageStep
  <2>1. CASE Unmount \/ Commit
    BY <2>1 DEF Unmount, Commit, Closing, ConnOK
  <2>2. ASSUME NEW s \in Sockets, Mount(s) \/ Connect(s) PROVE ConnOK'
    BY <2>2 DEF Mount, Connect, Closing, ConnOK
  <2>3. ASSUME NEW s \in Sockets, Opened(s) \/ Lost(s) \/ Closed(s) PROVE ConnOK'
    BY <2>3 DEF Opened, Lost, Closed, ConnOK
  <2> QED
    BY <1>1, <2>1, <2>2, <2>3 DEF PageStep
<1>2. ASSUME NEW s \in Sockets, GroupFails(s) PROVE ConnOK'
  BY <1>2 DEF GroupFails, ConnOK
<1>3. CASE UNCHANGED connVars
  BY <1>3 DEF connVars, ConnOK
<1> QED
  BY <1>1, <1>2, <1>3 DEF Next, ServerStep, Accept, CreateGroup, Read, Send, SendLost,
     SendSwallowed, Heartbeat, Finish, Publish, GetRecent, RecentFails, RecentArrives, vars

LEMMA FeedType == ASSUME TypeInv, [Next]_vars PROVE TypeInv'
<1> USE FeedAssumption
<1>c. ConnOK'
  BY ConnType DEF TypeInv
<1>0. TypeOK /\ AnswersOK
  BY DEF TypeInv
<1> SUFFICES TypeOK' /\ AnswersOK'
  BY <1>c DEF TypeInv
<1>1. CASE PageStep
  <2>1. asked' \in Nat
    BY <1>0, <1>1 DEF PageStep, LoadOnConnect, TypeOK
  <2> QED
    BY <1>0, <1>1, <2>1 DEF PageStep, TypeOK, AnswersOK
<1>2. CASE Publish
  <2>1. \A s \in Sockets : batch[s] \in Seq(1..(log + 1))
    BY <1>0, SeqGrows DEF TypeOK
  <2> QED
    BY <1>0, <1>2, <2>1 DEF Publish, TypeOK, AnswersOK, connVars, srvVars, loadVars
<1>3. ASSUME NEW s \in Sockets, ServerStep(s) PROVE TypeOK' /\ AnswersOK'
  <2>1. CASE Accept(s)
    BY <1>0, <2>1 DEF Accept, TypeOK, AnswersOK, loadVars
  <2>2. CASE CreateGroup(s)
    <3>1. /\ srv' \in [Sockets -> {"none", "new", "accepted", "running", "stuck"}]
          /\ start' \in [Sockets -> 0..log] /\ cursor' \in [Sockets -> 0..log]
      BY <1>0, <2>2 DEF CreateGroup, TypeOK
    <3> QED
      BY <1>0, <2>2, <3>1 DEF CreateGroup, TypeOK, AnswersOK, loadVars
  <2>3. CASE GroupFails(s)
    BY <1>0, <2>3 DEF GroupFails, TypeOK, AnswersOK, loadVars
  <2>4. CASE Read(s)
    <3> DEFINE n == IF log - cursor[s] < READ_COUNT THEN log - cursor[s] ELSE READ_COUNT
               entries == [i \in 1..n |-> cursor[s] + i]
    <3>1. n \in Nat /\ cursor[s] \in Nat /\ cursor[s] + n <= log
      <4>1. log \in Nat /\ cursor[s] \in 0..log /\ READ_COUNT \in Nat
        BY <1>0 DEF TypeOK
      <4> QED
        BY <4>1
    <3>2. entries \in Seq(1..log)
      <4>1. \A i \in 1..n : cursor[s] + i \in 1..log
        <5>1. log \in Nat
          BY <1>0 DEF TypeOK
        <5> HIDE DEF n
        <5> QED
          BY <3>1, <5>1
      <4> HIDE DEF n
      <4> QED
        BY <3>1, <4>1
    <3>3. batch' = [batch EXCEPT ![s] = entries] /\ cursor' = [cursor EXCEPT ![s] = @ + n]
      BY <2>4 DEF Read
    <3> HIDE DEF n, entries
    <3>4. batch' \in [Sockets -> Seq(1..log)]
      BY <1>0, <3>2, <3>3 DEF TypeOK
    <3>5. cursor' \in [Sockets -> 0..log]
      BY <1>0, <3>1, <3>3 DEF TypeOK
    <3> QED
      BY <1>0, <2>4, <3>4, <3>5 DEF Read, TypeOK, AnswersOK, loadVars
  <2>5. CASE Send(s)
    <3>1. PICK rest \in {Tail(batch[s]), <<>>} :
             /\ batch' = [batch EXCEPT ![s] = rest]
             /\ skipped' = skipped \cup {batch[s][i] : i \in 2..(Len(batch[s]) - Len(rest))}
      BY <2>5 DEF Send
    <3>2. /\ batch[s] \in Seq(1..log) /\ batch[s] # <<>>
          /\ Head(batch[s]) \in 1..log /\ rest \in Seq(1..log) /\ Len(rest) \in Nat
      <4>1. batch[s] \in Seq(1..log) /\ batch[s] # <<>>
        BY <1>0, <2>5 DEF Send, TypeOK
      <4>2. Head(batch[s]) \in 1..log /\ Tail(batch[s]) \in Seq(1..log)
        BY <4>1, TailOf
      <4>3. <<>> \in Seq(1..log)
        OBVIOUS
      <4>4. rest \in Seq(1..log)
        BY <4>2, <4>3
      <4> QED
        BY <4>1, <4>2, <4>4
    <3>3. skipped' \subseteq 1..log
      <4>1. \A i \in 1..Len(batch[s]) : batch[s][i] \in 1..log
        BY <3>2, ElementOf
      <4>2. \A i \in 2..(Len(batch[s]) - Len(rest)) : i \in 1..Len(batch[s])
        BY <3>2
      <4>3. skipped \subseteq 1..log
        BY <1>0 DEF TypeOK
      <4> QED
        BY <3>1, <4>1, <4>2, <4>3
    <3>4. offered' \subseteq 1..log
      BY <1>0, <2>5, <3>2 DEF Send, TypeOK
    <3> QED
      BY <1>0, <2>5, <3>1, <3>2, <3>3, <3>4 DEF Send, TypeOK, AnswersOK, loadVars
  <2>6. CASE SendLost(s)
    <3>1. Tail(batch[s]) \in Seq(1..log)
      BY <1>0, <2>6, TailOf DEF SendLost, TypeOK
    <3> QED
      BY <1>0, <2>6, <3>1 DEF SendLost, TypeOK, AnswersOK, loadVars
  <2>7. CASE SendSwallowed(s) \/ Heartbeat(s)
    <3>1. PICK how \in {"none", "stuck"} : Finish(s, how)
      BY <2>7 DEF SendSwallowed, Heartbeat
    <3>2. <<>> \in Seq(1..log)
      OBVIOUS
    <3>3. /\ srv' \in [Sockets -> {"none", "new", "accepted", "running", "stuck"}]
          /\ start' \in [Sockets -> 0..log] /\ cursor' \in [Sockets -> 0..log]
          /\ batch' \in [Sockets -> Seq(1..log)]
      BY <1>0, <3>1, <3>2 DEF Finish, TypeOK
    <3> QED
      BY <1>0, <3>1, <3>3 DEF Finish, TypeOK, AnswersOK, loadVars
  <2> QED
    BY <1>3, <2>1, <2>2, <2>3, <2>4, <2>5, <2>6, <2>7 DEF ServerStep
<1>4. CASE GetRecent
  BY <1>0, <1>4 DEF GetRecent, TypeOK, AnswersOK, srvVars
<1>5. CASE RecentFails
  BY <1>0, <1>5 DEF RecentFails, TypeOK, AnswersOK, srvVars
<1>6. ASSUME NEW p \in 0..MaxLog, RecentArrives(p) PROVE TypeOK' /\ AnswersOK'
  <2>1. p <= log
    BY <1>0, <1>6 DEF RecentArrives, AnswersOK
  <2>2. offered' \subseteq 1..log /\ loaded' \in 0..log
    <3>1. /\ log \in Nat /\ loaded \in 0..log /\ offered \subseteq 1..log
          /\ p \in Nat /\ RECENT \in Nat
      BY <1>0 DEF TypeOK
    <3>2. /\ loaded' = IF p > loaded THEN p ELSE loaded
          /\ offered' = offered \cup {e \in 1..p : e > p - RECENT}
      BY <1>6 DEF RecentArrives
    <3>3. {e \in 1..p : e > p - RECENT} \subseteq 1..log
      BY <2>1, <3>1
    <3>4. loaded' \in 0..log
      BY <2>1, <3>1, <3>2
    <3> QED
      BY <3>1, <3>2, <3>3, <3>4
  <2>3. answers' \in [0..MaxLog -> Nat]
    BY <1>0, <1>6 DEF RecentArrives, TypeOK
  <2>4. AnswersOK'
    BY <1>0, <1>6 DEF RecentArrives, TypeOK, AnswersOK
  <2> QED
    BY <1>0, <1>6, <2>2, <2>3, <2>4 DEF RecentArrives, TypeOK, srvVars
<1>7. CASE UNCHANGED vars
  BY <1>0, <1>7 DEF vars, TypeOK, AnswersOK, srvVars, loadVars
<1> QED
  BY <1>1, <1>2, <1>3, <1>4, <1>5, <1>6, <1>7 DEF Next

\* The type invariant: no group, no answer and no offer is ahead of the stream.
THEOREM TypeCorrect == Spec => []TypeOK
<1>1. Init => TypeInv
  BY FeedAssumption DEF Init, InitConnection, TypeInv, TypeOK, ConnOK, AnswersOK
<1>2. TypeInv /\ [Next]_vars => TypeInv'
  BY FeedType
<1>3. TypeInv => TypeOK
  BY DEF TypeInv
<1> QED
  BY <1>1, <1>2, <1>3, PTL DEF Spec

-----------------------------------------------------------------------------
(* Completeness.  What the query for recent events gave is in the list; and *)
(* what a group has read since it was created is in the list, is still to   *)
(* be handled, was left pending or does not parse, as long as the page's    *)
(* socket is not gone.                                                      *)

RecentOffered == {e \in 1..loaded : e > loaded - RECENT} \subseteq offered

Waiting(s) == {batch[s][i] : i \in 1..Len(batch[s])}

Served(s) == srv[s] = "running" /\ owner[s] = "live" /\ ~Gone(s)

ReadIsKept ==
    \A s \in Sockets : Served(s) =>
        \A e \in (start[s] + 1)..cursor[s] :
            e \in offered \cup Waiting(s) \cup skipped \cup Unparsable

Kept == RecentOffered /\ ReadIsKept

\* Nothing is taken out of the list, and what is pending stays so.
LEMMA OthersKept ==
    ASSUME TypeInv, ReadIsKept, NEW s \in Sockets, Served(s)', Served(s),
           start'[s] = start[s], cursor'[s] = cursor[s],
           Waiting(s) \subseteq Waiting(s)' \cup offered' \cup skipped' \cup Unparsable,
           offered \subseteq offered', skipped \subseteq skipped',
           NEW e \in (start'[s] + 1)..cursor'[s]
    PROVE  e \in offered' \cup Waiting(s)' \cup skipped' \cup Unparsable
  BY DEF ReadIsKept

\* The steps of the page: a socket it opens has no group yet.
LEMMA PageKept == ASSUME TypeInv, ReadIsKept, PageStep PROVE ReadIsKept'
<1> SUFFICES ASSUME NEW s \in Sockets, Served(s)',
                    NEW e \in (start'[s] + 1)..cursor'[s]
             PROVE  e \in offered' \cup Waiting(s)' \cup skipped' \cup Unparsable
  BY DEF ReadIsKept
<1>1. Waiting(s)' = Waiting(s) /\ UNCHANGED <<start, cursor, skipped, offered>>
  BY DEF PageStep, Waiting
<1>2. srv[s] = "running"
  BY DEF PageStep, Served, TypeInv, TypeOK
<1>3. \A t \in Sockets : Lowest(t) => t # s
  BY <1>2 DEF Lowest, Vacant
<1>4. owner[s] = "live" /\ ~Gone(s)
  <2>1. CASE Unmount \/ Commit
    BY <2>1 DEF Unmount, Commit, Closing, Served, Gone, TypeInv, ConnOK
  <2>2. ASSUME NEW t \in Sockets, t # s, Mount(t) \/ Connect(t)
        PROVE  owner[s] = "live" /\ ~Gone(s)
    BY <2>2 DEF Mount, Connect, Closing, Served, Gone, TypeInv, ConnOK
  <2>3. ASSUME NEW t \in Sockets, Opened(t) \/ Lost(t) \/ Closed(t)
        PROVE  owner[s] = "live" /\ ~Gone(s)
    BY <2>3 DEF Opened, Lost, Closed, Served, Gone, TypeInv, ConnOK
  <2> QED
    BY <1>3, <2>1, <2>2, <2>3 DEF PageStep
<1> QED
  BY <1>1, <1>2, <1>4, OthersKept DEF Served

\* A read adds to what waits exactly what it moves the group past.
LEMMA ReadKept ==
    ASSUME TypeInv, ReadIsKept, NEW t \in Sockets, Read(t) PROVE ReadIsKept'
<1> USE FeedAssumption
<1> SUFFICES ASSUME NEW s \in Sockets, Served(s)',
                    NEW e \in (start'[s] + 1)..cursor'[s]
             PROVE  e \in offered' \cup Waiting(s)' \cup skipped' \cup Unparsable
  BY DEF ReadIsKept
<1>1. Served(s) /\ UNCHANGED <<start, skipped, offered>>
  BY DEF Read, Served, Gone, connVars
<1>2. CASE s # t
  <2>1. cursor'[s] = cursor[s] /\ batch'[s] = batch[s]
    BY <1>2 DEF Read, TypeInv, TypeOK
  <2> QED
    BY <1>1, <2>1, OthersKept DEF Waiting
<1>3. CASE s = t
  <2> DEFINE n == IF log - cursor[s] < READ_COUNT THEN log - cursor[s] ELSE READ_COUNT
             entries == [i \in 1..n |-> cursor[s] + i]
  <2>1. n \in Nat /\ cursor[s] \in Nat /\ start[s] \in Nat
    <3>1. log \in Nat /\ cursor[s] \in 0..log /\ READ_COUNT \in Nat /\ start[s] \in 0..log
      BY DEF TypeInv, TypeOK
    <3> QED
      BY <3>1
  <2>2. cursor'[s] = cursor[s] + n /\ batch'[s] = entries
    BY <1>3 DEF Read, TypeInv, TypeOK
  <2>3. Waiting(s) = {}
    BY <1>3 DEF Read, Waiting
  <2> HIDE DEF n
  <2>4. Waiting(s)' = {entries[i] : i \in 1..n}
    <3>1. Len(entries) = n
      BY <2>1
    <3> HIDE DEF entries
    <3> QED
      BY <2>2, <3>1 DEF Waiting
  <2>5. CASE e <= cursor[s]
    <3>1. e \in (start[s] + 1)..cursor[s]
      BY <1>1, <2>1, <2>2, <2>5
    <3> QED
      BY <1>1, <2>3, <3>1 DEF ReadIsKept
  <2>6. CASE e > cursor[s]
    <3>1. e - cursor[s] \in 1..n /\ e = cursor[s] + (e - cursor[s])
      BY <1>1, <2>1, <2>2, <2>6
    <3>2. e = entries[e - cursor[s]]
      BY <3>1
    <3> QED
      BY <2>4, <3>1, <3>2
  <2> QED
    BY <1>1, <2>1, <2>2, <2>5, <2>6
<1> QED
  BY <1>2, <1>3

\* Of what waits, the first is offered or does not parse, and what a failed
\* xack drops stays pending.
LEMMA SendKept ==
    ASSUME TypeInv, ReadIsKept, NEW t \in Sockets, Send(t) PROVE ReadIsKept'
<1> SUFFICES ASSUME NEW s \in Sockets, Served(s)',
                    NEW e \in (start'[s] + 1)..cursor'[s]
             PROVE  e \in offered' \cup Waiting(s)' \cup skipped' \cup Unparsable
  BY DEF ReadIsKept
<1>1. Served(s) /\ UNCHANGED <<start, cursor>>
  BY DEF Send, Served, Gone, connVars
<1>2. PICK rest \in {Tail(batch[t]), <<>>} :
         /\ batch' = [batch EXCEPT ![t] = rest]
         /\ skipped' = skipped \cup {batch[t][i] : i \in 2..(Len(batch[t]) - Len(rest))}
  BY DEF Send
<1>3. offered \subseteq offered' /\ skipped \subseteq skipped'
  BY <1>2 DEF Send
<1>4. Waiting(s) \subseteq Waiting(s)' \cup offered' \cup skipped' \cup Unparsable
  <2>1. CASE s # t
    <3>1. batch'[s] = batch[s]
      BY <1>2, <2>1 DEF TypeInv, TypeOK
    <3> QED
      BY <3>1 DEF Waiting
  <2>2. CASE s = t
    <3>1. batch[s] \in Seq(1..log) /\ batch[s] # <<>>
      BY <2>2 DEF Send, TypeInv, TypeOK
    <3>2. batch'[s] = rest
      BY <1>2, <2>2 DEF TypeInv, TypeOK
    <3>3. Head(batch[s]) \in offered' \cup Unparsable
      BY <1>1, <2>2 DEF Send, Served
    <3> DEFINE b == batch[s]
    <3>4. /\ b \in Seq(1..log) /\ Len(b) >= 1 /\ Len(b) \in Nat /\ Head(b) = b[1]
          /\ Len(Tail(b)) = Len(b) - 1
          /\ \A i \in 2..Len(b) : i - 1 \in 1..Len(Tail(b)) /\ Tail(b)[i - 1] = b[i]
      BY <3>1, TailOf
    <3> SUFFICES ASSUME NEW i \in 1..Len(b)
                 PROVE  b[i] \in Waiting(s)' \cup offered' \cup skipped' \cup Unparsable
      BY DEF Waiting
    <3>5. CASE i = 1
      BY <3>3, <3>4, <3>5
    <3>6. CASE i # 1 /\ rest = Tail(b)
      <4>1. i - 1 \in 1..Len(rest) /\ rest[i - 1] = b[i]
        BY <3>4, <3>6
      <4> QED
        BY <3>2, <4>1 DEF Waiting
    <3>7. CASE i # 1 /\ rest = <<>>
      <4>1. i \in 2..(Len(b) - Len(rest))
        BY <3>4, <3>7
      <4> QED
        BY <1>2, <2>2, <4>1
    <3> QED
      BY <1>2, <2>2, <3>5, <3>6, <3>7
  <2> QED
    BY <2>1, <2>2
<1> QED
  BY <1>1, <1>3, <1>4, OthersKept

\* The other steps of a session end it, begin it with nothing read, or drop
\* what waits for a client that has gone.
LEMMA SessionKept ==
    ASSUME TypeInv, ReadIsKept, NEW t \in Sockets, ServerStep(t) PROVE ReadIsKept'
<1>1. CASE Accept(t) \/ GroupFails(t)
  <2> SUFFICES ASSUME NEW s \in Sockets, Served(s)',
                      NEW e \in (start'[s] + 1)..cursor'[s]
               PROVE  e \in offered' \cup Waiting(s)' \cup skipped' \cup Unparsable
    BY DEF ReadIsKept
  <2>1. Served(s) /\ UNCHANGED <<start, cursor, batch, skipped, offered>>
    BY <1>1 DEF Accept, GroupFails, Served, Gone, connVars, TypeInv, TypeOK, ConnOK
  <2> QED
    BY <2>1, OthersKept DEF Waiting
<1>2. CASE CreateGroup(t)
  <2> SUFFICES ASSUME NEW s \in Sockets, Served(s)',
                      NEW e \in (start'[s] + 1)..cursor'[s]
               PROVE  e \in offered' \cup Waiting(s)' \cup skipped' \cup Unparsable
    BY DEF ReadIsKept
  <2>1. CASE s = t
    <3>1. start'[s] = log /\ cursor'[s] = log /\ log \in Nat
      BY <1>2, <2>1, FeedAssumption DEF CreateGroup, TypeInv, TypeOK
    <3> QED
      BY <3>1
  <2>2. CASE s # t
    <3>1. Served(s) /\ start'[s] = start[s] /\ cursor'[s] = cursor[s]
          /\ UNCHANGED <<batch, skipped, offered>>
      BY <1>2, <2>2 DEF CreateGroup, Served, Gone, connVars, TypeInv, TypeOK
    <3> QED
      BY <3>1, OthersKept DEF Waiting
  <2> QED
    BY <2>1, <2>2
<1>3. CASE Read(t)
  BY <1>3, ReadKept
<1>4. CASE Send(t)
  BY <1>4, SendKept
<1>5. CASE SendLost(t)
  <2> SUFFICES ASSUME NEW s \in Sockets, Served(s)',
                      NEW e \in (start'[s] + 1)..cursor'[s]
               PROVE  e \in offered' \cup Waiting(s)' \cup skipped' \cup Unparsable
    BY DEF ReadIsKept
  <2>1. Served(s) /\ s # t /\ UNCHANGED <<start, cursor, skipped, offered>>
    BY <1>5 DEF SendLost, Served, Gone, connVars
  <2>2. batch'[s] = batch[s]
    BY <1>5, <2>1 DEF SendLost, TypeInv, TypeOK
  <2> QED
    BY <2>1, <2>2, OthersKept DEF Waiting
<1>6. CASE SendSwallowed(t) \/ Heartbeat(t)
  <2> SUFFICES ASSUME NEW s \in Sockets, Served(s)',
                      NEW e \in (start'[s] + 1)..cursor'[s]
               PROVE  e \in offered' \cup Waiting(s)' \cup skipped' \cup Unparsable
    BY DEF ReadIsKept
  <2>1. PICK how \in {"none", "stuck"} : Finish(t, how)
    BY <1>6 DEF SendSwallowed, Heartbeat
  <2>2. s # t /\ Served(s) /\ UNCHANGED <<skipped, offered>>
    BY <2>1 DEF Finish, Served, Gone, connVars, TypeInv, TypeOK
  <2>3. start'[s] = start[s] /\ cursor'[s] = cursor[s] /\ batch'[s] = batch[s]
    BY <2>1, <2>2 DEF Finish, TypeInv, TypeOK
  <2> QED
    BY <2>2, <2>3, OthersKept DEF Waiting
<1> QED
  BY <1>1, <1>2, <1>3, <1>4, <1>5, <1>6 DEF ServerStep

LEMMA KeptNext == ASSUME TypeInv, Kept, [Next]_vars PROVE Kept'
<1> USE DEF Kept
<1>1. CASE PageStep
  <2>1. UNCHANGED <<loaded, offered>>
    BY <1>1 DEF PageStep
  <2> QED
    BY <1>1, <2>1, PageKept DEF RecentOffered
<1>2. ASSUME NEW t \in Sockets, ServerStep(t) PROVE Kept'
  <2>1. loaded' = loaded /\ offered \subseteq offered'
    BY <1>2 DEF ServerStep, Accept, CreateGroup, GroupFails, Read, Send, SendLost,
       SendSwallowed, Heartbeat, Finish, loadVars
  <2> QED
    BY <1>2, <2>1, SessionKept DEF RecentOffered
<1>3. CASE Publish \/ GetRecent \/ RecentFails \/ UNCHANGED vars
  <2>1. UNCHANGED <<connVars, srvVars, loaded, offered>>
    BY <1>3 DEF Publish, GetRecent, RecentFails, vars, loadVars
  <2> QED
    BY <2>1 DEF RecentOffered, ReadIsKept, Served, Gone, Waiting, connVars, srvVars
<1>4. ASSUME NEW p \in 0..MaxLog, RecentArrives(p) PROVE Kept'
  <2>1. UNCHANGED <<connVars, srvVars>> /\ offered \subseteq offered'
    BY <1>4 DEF RecentArrives
  <2>2. ReadIsKept'
    BY <2>1 DEF ReadIsKept, Served, Gone, Waiting, connVars, srvVars
  <2>3. RecentOffered'
    <3>1. /\ loaded' = IF p > loaded THEN p ELSE loaded
          /\ offered' = offered \cup {e \in 1..p : e > p - RECENT}
      BY <1>4 DEF RecentArrives
    <3>2. CASE p > loaded
      BY <3>1, <3>2 DEF RecentOffered
    <3>3. CASE ~ (p > loaded)
      BY <3>1, <3>3 DEF RecentOffered
    <3> QED
      BY <3>2, <3>3
  <2> QED
    BY <2>2, <2>3
<1> QED
  BY <1>1, <1>2, <1>3, <1>4 DEF Next

\* A connected page has every event its session has passed, but for those
\* FeedComplete names, across any number of reconnects.
THEOREM FeedIsComplete == Spec => []FeedComplete
<1>1. Init => TypeInv /\ Kept
  BY FeedAssumption DEF Init, InitConnection, TypeInv, TypeOK, ConnOK, AnswersOK, Kept,
     RecentOffered, ReadIsKept, Served
<1>2. TypeInv /\ Kept /\ [Next]_vars => (TypeInv /\ Kept)'
  BY FeedType, KeptNext
<1>3. TypeInv /\ Kept => FeedComplete
  <2> SUFFICES ASSUME TypeInv, Kept, NEW s \in Sockets,
                      sock[s] = "open", owner[s] = "live", srv[s] = "running", batch[s] = <<>>,
                      NEW e \in Missing(s)
               PROVE  \/ e <= loaded - RECENT
                      \/ loaded < e /\ e <= start[s]
                      \/ e \in skipped
                      \/ e \in Unparsable /\ loaded < e
    BY DEF FeedComplete
  <2>1. /\ cursor[s] \in Nat /\ start[s] \in Nat /\ loaded \in Nat /\ RECENT \in Nat
        /\ e \in 1..cursor[s] /\ e \notin offered
    BY FeedAssumption DEF TypeInv, TypeOK, Missing
  <2>2. CASE e <= loaded
    BY <2>1, <2>2 DEF Kept, RecentOffered
  <2>3. CASE loaded < e /\ start[s] < e
    <3>1. Served(s) /\ Waiting(s) = {}
      BY DEF Served, Gone, Waiting
    <3>2. e \in (start[s] + 1)..cursor[s]
      BY <2>1, <2>3
    <3> QED
      BY <2>1, <2>3, <3>1, <3>2 DEF Kept, ReadIsKept
  <2> QED
    BY <2>1, <2>2, <2>3
<1> QED
  BY <1>1, <1>2, <1>3, PTL DEF Spec
=============================================================================
