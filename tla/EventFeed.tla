------------------------------ MODULE EventFeed ------------------------------
(***************************************************************************)
(* The live events: the WebSocket endpoint and the query for recent events *)
(* of the control service, useEventStream, which asks for the recent ones  *)
(* whenever the connection comes up, up to the event store both fill.      *)
(* The page's connection is the abstract one, so that the properties hold  *)
(* whatever the policy of reconnecting does.                               *)
(*                                                                         *)
(* Events are the numbers 1..log, in the order of the Redis stream.  A     *)
(* socket and the session of the server behind it share a slot.            *)
(***************************************************************************)
EXTENDS Connection, Sequences

CONSTANTS MaxLog,         \* bound: events published
          Unparsable,     \* the events whose payload does not parse
          READ_COUNT,     \* entries of one read of the group (10)
          RECENT,         \* events asked for on connecting (100)
          MaxLoads        \* bound: queries for recent events not yet read

ASSUME FeedAssumption ==
    /\ MaxLog \in Nat /\ Unparsable \subseteq 1..MaxLog
    /\ {READ_COUNT, RECENT} \subseteq Nat \ {0}
    /\ MaxLoads \in Nat

VARIABLES
    log,        \* entries of the Redis stream
    srv,        \* per slot: where its session of the server is, "stuck" if it never ends
    start,      \* per slot: end of the stream when its group was created
    cursor,     \* per slot: last entry its group has read
    batch,      \* per slot: entries read and not yet handled
    asked,      \* queries for recent events not yet read
    answers,    \* answers under way, by the end of the stream they saw
    offered,    \* the events handed to addEvent of the store
    \* history
    loaded,     \* furthest end of the stream an arrived answer saw
    skipped     \* events left pending in their group by a failed xack

srvVars == <<srv, start, cursor, batch, skipped>>
loadVars == <<asked, answers, loaded>>
vars == <<connVars, log, srvVars, loadVars, offered>>

Init ==
    /\ InitConnection
    /\ log = 0
    /\ srv = [s \in Sockets |-> "none"]
    /\ start = [s \in Sockets |-> 0]
    /\ cursor = [s \in Sockets |-> 0]
    /\ batch = [s \in Sockets |-> <<>>]
    /\ skipped = {}
    /\ asked = 0 /\ answers = [p \in 0..MaxLog |-> 0] /\ loaded = 0
    /\ offered = {}

-----------------------------------------------------------------------------
(* The connection, with the sessions its sockets start and the query the   *)
(* effect of useEventStream makes when a commit shows it connected.        *)

Underway == asked + Cardinality({p \in 0..MaxLog : answers[p] > 0})

LoadOnConnect ==
    asked' = IF shown' = "connected" /\ shown # "connected" THEN asked + 1 ELSE asked

\* A new socket takes the lowest vacant slot.
Vacant == {s \in Sockets : sock[s] = "free" /\ srv[s] = "none"}
Lowest(s) == s \in Vacant /\ \A t \in Vacant : s <= t

PageStep ==
    /\ \/ Unmount \/ Commit
       \/ \E s \in Sockets : \/ Lowest(s) /\ (Mount(s) \/ Connect(s))
                             \/ srv[s] \in {"accepted", "running"} /\ Underway < MaxLoads /\ Opened(s)
                             \/ Lost(s)
                             \/ Closed(s)
    /\ LoadOnConnect
    /\ srv' = [s \in Sockets |-> IF sock[s] = "free" /\ sock'[s] = "connecting"
                                 THEN "new" ELSE srv[s]]
    /\ UNCHANGED <<log, start, cursor, batch, skipped, answers, loaded, offered>>

-----------------------------------------------------------------------------
(* The session of the server.                                              *)

Gone(s) == sock[s] \notin {"connecting", "open"}

Accept(s) ==
    /\ srv[s] = "new"
    /\ srv' = [srv EXCEPT ![s] = IF Gone(s) THEN "none" ELSE "accepted"]
    /\ UNCHANGED <<start, cursor, batch, skipped, connVars, log, loadVars, offered>>

\* xgroup_create at "$", perhaps after the client has seen the socket open.
CreateGroup(s) ==
    /\ srv[s] = "accepted"
    /\ srv' = [srv EXCEPT ![s] = "running"]
    /\ start' = [start EXCEPT ![s] = log] /\ cursor' = [cursor EXCEPT ![s] = log]
    /\ UNCHANGED <<batch, skipped, connVars, log, loadVars, offered>>

\* xgroup_create fails: the endpoint returns and the server closes the socket.
GroupFails(s) ==
    /\ srv[s] = "accepted"
    /\ srv' = [srv EXCEPT ![s] = "none"]
    /\ sock' = IF Gone(s) THEN sock ELSE [sock EXCEPT ![s] = "closing"]
    /\ UNCHANGED <<page, status, shown, owner, start, cursor, batch, skipped,
                   log, loadVars, offered>>

\* Mutant: the end of the batch does not stop at the end of the stream.
ReadPast(s) ==
    /\ srv[s] = "running" /\ batch[s] = <<>> /\ cursor[s] < log
    /\ batch' = [batch EXCEPT ![s] = [i \in 1..READ_COUNT |-> cursor[s] + i]]
    /\ cursor' = [cursor EXCEPT ![s] = @ + READ_COUNT]
    /\ UNCHANGED <<srv, start, skipped, connVars, log, loadVars, offered>>

\* xreadgroup of ">"
Read(s) ==
    /\ srv[s] = "running" /\ batch[s] = <<>> /\ cursor[s] < log
    /\ LET n == IF log - cursor[s] < READ_COUNT THEN log - cursor[s] ELSE READ_COUNT
       IN  /\ batch' = [batch EXCEPT ![s] = [i \in 1..n |-> cursor[s] + i]]
           /\ cursor' = [cursor EXCEPT ![s] = @ + n]
    /\ UNCHANGED <<srv, start, skipped, connVars, log, loadVars, offered>>

\* Mutant: the page takes messages only once it shows that it is connected.
SendShown(s) ==
    /\ srv[s] = "running" /\ batch[s] # <<>> /\ sock[s] = "open"
    /\ batch' = [batch EXCEPT ![s] = Tail(@)]
    /\ offered' = IF owner[s] = "live" /\ shown = "connected"
                     /\ Head(batch[s]) \notin Unparsable
                  THEN offered \cup {Head(batch[s])} ELSE offered
    /\ UNCHANGED <<srv, start, cursor, skipped, connVars, log, loadVars>>

\* One message of the batch to a client that is there, and its xack.  When the
\* xack fails the loop starts over and the rest of the batch stays pending.
Send(s) ==
    /\ srv[s] = "running" /\ batch[s] # <<>> /\ sock[s] = "open"
    /\ \E rest \in {Tail(batch[s]), <<>>} :
           /\ batch' = [batch EXCEPT ![s] = rest]
           /\ skipped' = skipped \cup
                  {batch[s][i] : i \in 2..(Len(batch[s]) - Len(rest))}
    /\ offered' = IF owner[s] = "live" /\ Head(batch[s]) \notin Unparsable
                  THEN offered \cup {Head(batch[s])} ELSE offered
    /\ UNCHANGED <<srv, start, cursor, connVars, log, loadVars>>

\* The client has gone, but the message goes out or does not parse.
SendLost(s) ==
    /\ srv[s] = "running" /\ batch[s] # <<>> /\ Gone(s)
    /\ batch' = [batch EXCEPT ![s] = Tail(@)]
    /\ UNCHANGED <<srv, start, cursor, skipped, connVars, log, loadVars, offered>>

Finish(s, how) ==
    /\ srv' = [srv EXCEPT ![s] = how]
    /\ start' = [start EXCEPT ![s] = 0] /\ cursor' = [cursor EXCEPT ![s] = 0]
    /\ batch' = [batch EXCEPT ![s] = <<>>]
    /\ UNCHANGED <<skipped, connVars, log, loadVars, offered>>

\* The send of a message raises WebSocketDisconnect, which the handler of parse
\* errors swallows; later sends raise another error, and the loop goes round for
\* ever with its group.  What it still reads and acknowledges reaches nobody.
SendSwallowed(s) ==
    /\ srv[s] = "running" /\ batch[s] # <<>> /\ Gone(s) /\ Head(batch[s]) \notin Unparsable
    /\ Finish(s, "stuck")

\* Mutant: the error of a heartbeat is swallowed like that of a message.
HeartbeatSwallowed(s) ==
    /\ srv[s] = "running" /\ batch[s] = <<>> /\ cursor[s] = log /\ Gone(s)
    /\ UNCHANGED vars

\* A heartbeat raises WebSocketDisconnect: the loop ends, the group is destroyed.
Heartbeat(s) ==
    /\ srv[s] = "running" /\ batch[s] = <<>> /\ cursor[s] = log /\ Gone(s)
    /\ Finish(s, "none")

Publish ==
    /\ log < MaxLog
    /\ log' = log + 1
    /\ UNCHANGED <<connVars, srvVars, loadVars, offered>>

-----------------------------------------------------------------------------
(* The recent events: the server reads the end of the stream, and what it  *)
(* answers is added whether the page is still there or not, perhaps after  *)
(* later events of the socket or after a later answer.                     *)

GetRecent ==
    /\ asked > 0
    /\ asked' = asked - 1 /\ answers' = [answers EXCEPT ![log] = @ + 1]
    /\ UNCHANGED <<loaded, connVars, log, srvVars, offered>>

\* The request fails, or the server answers an error of Redis with no events.
RecentFails ==
    /\ asked > 0
    /\ asked' = asked - 1
    /\ UNCHANGED <<answers, loaded, connVars, log, srvVars, offered>>

RecentArrives(p) ==
    /\ answers[p] > 0
    /\ answers' = [answers EXCEPT ![p] = @ - 1]
    /\ loaded' = IF p > loaded THEN p ELSE loaded
    /\ offered' = offered \cup {e \in 1..p : e > p - RECENT}
    /\ UNCHANGED <<asked, connVars, log, srvVars>>

-----------------------------------------------------------------------------
ServerStep(s) ==
    \/ Accept(s) \/ CreateGroup(s) \/ GroupFails(s) \/ Read(s)
    \/ Send(s) \/ SendLost(s) \/ SendSwallowed(s) \/ Heartbeat(s)

Next ==
    \/ PageStep \/ Publish
    \/ \E s \in Sockets : ServerStep(s)
    \/ GetRecent \/ RecentFails \/ \E p \in 0..MaxLog : RecentArrives(p)

(* The event loop of the server runs its sessions; nothing else is owed.   *)
Spec == Init /\ [][Next]_vars /\ \A s \in Sockets : WF_srvVars(ServerStep(s))

-----------------------------------------------------------------------------
(* The values of the variables; a group has read no further than the       *)
(* stream goes, and nothing was offered that was not published.            *)
TypeOK ==
    /\ log \in 0..MaxLog
    /\ srv \in [Sockets -> {"none", "new", "accepted", "running", "stuck"}]
    /\ start \in [Sockets -> 0..log] /\ cursor \in [Sockets -> 0..log]
    /\ batch \in [Sockets -> Seq(1..log)]
    /\ offered \subseteq 1..log /\ skipped \subseteq 1..log
    /\ asked \in Nat /\ answers \in [0..MaxLog -> Nat] /\ loaded \in 0..log

(* A page that is connected misses no event its session has passed, across *)
(* any number of reconnects, except: events too old for the query of       *)
(* recent ones; events published after the last answer to that query and   *)
(* before the group of this session (the query and the group are made in   *)
(* no order); those a failed xack left pending; and those that do not      *)
(* parse, which only the query reports.                                    *)
Missing(s) == (1..cursor[s]) \ offered

FeedComplete ==
    \A s \in Sockets :
        sock[s] = "open" /\ owner[s] = "live" /\ srv[s] = "running" /\ batch[s] = <<>>
        => \A e \in Missing(s) :
              \/ e <= loaded - RECENT
              \/ loaded < e /\ e <= start[s]
              \/ e \in skipped
              \/ e \in Unparsable /\ loaded < e

(* A session whose client has gone notices and gives up its group, unless  *)
(* it is a message whose sending tells it: that it takes for a message     *)
(* that does not parse, and never ends.                                    *)
SessionNotices ==
    \A s \in Sockets : (srv[s] = "running" /\ Gone(s)) ~> (srv[s] \in {"none", "stuck"})
=============================================================================
