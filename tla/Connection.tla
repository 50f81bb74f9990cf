------------------------------ MODULE Connection ------------------------------
(***************************************************************************)
(* What the event page promises about its connection, whatever its policy  *)
(* of reconnecting: which sockets it has, what it makes of their events    *)
(* and which status it shows.  EventSocket refines it with the policy of   *)
(* useWebSocket, EventFeed puts the server and the events behind it.       *)
(*                                                                         *)
(* Sockets are slots; a slot is used again once its socket has closed.     *)
(***************************************************************************)
EXTENDS Integers, FiniteSets

CONSTANT Sockets          \* slots, a set of positive numbers

None == 0

ASSUME SocketsAssumption == Sockets \subseteq Nat \ {None} /\ IsFiniteSet(Sockets)

VARIABLES
    page,       \* "open" while the event page is mounted
    status,     \* the status as last set
    shown,      \* the status of the last commit, what the page shows
    sock,       \* per slot: readyState of its socket
    owner       \* per slot: "live" while the page that opened it is mounted

connVars == <<page, status, shown, sock, owner>>

InitConnection ==
    /\ page = "left"
    /\ status = "disconnected" /\ shown = "disconnected"
    /\ sock = [s \in Sockets |-> "free"]
    /\ owner = [s \in Sockets |-> "stale"]

\* close() of the sockets of C.
Closing(C) == [s \in Sockets |-> IF s \in C THEN "closing" ELSE sock[s]]

Closable == {s \in Sockets : sock[s] \in {"connecting", "open"} /\ owner[s] = "live"}

Mount(s) ==
    /\ page = "left" /\ sock[s] = "free"
    /\ page' = "open"
    /\ sock' = [sock EXCEPT ![s] = "connecting"]
    /\ owner' = [owner EXCEPT ![s] = "live"]
    /\ status' = "connecting"
    /\ UNCHANGED shown

\* From now on no handler of this page does anything (mountedRef).
Unmount ==
    /\ page = "open"
    /\ page' = "left"
    /\ \E C \in SUBSET Closable : sock' = Closing(C)
    /\ owner' = [s \in Sockets |-> "stale"]
    /\ status' = "disconnected" /\ shown' = "disconnected"

Commit ==
    /\ page = "open" /\ shown # status
    /\ shown' = status
    /\ UNCHANGED <<page, status, sock, owner>>

\* Another socket, with or without closing those there are, perhaps by the
\* effect of a commit.
Connect(s) ==
    /\ page = "open" /\ sock[s] = "free"
    /\ shown' \in {shown, status}
    /\ \E C \in SUBSET Closable : sock' = [Closing(C) EXCEPT ![s] = "connecting"]
    /\ owner' = [owner EXCEPT ![s] = "live"]
    /\ status' = "connecting"
    /\ UNCHANGED page

Opened(s) ==
    /\ sock[s] = "connecting"
    /\ sock' = [sock EXCEPT ![s] = "open"]
    /\ status' = IF owner[s] = "live" THEN "connected" ELSE status
    /\ UNCHANGED <<page, shown, owner>>

\* A connection that fails or is lost.
Lost(s) ==
    /\ sock[s] \in {"connecting", "open"}
    /\ sock' = [sock EXCEPT ![s] = "closing"]
    /\ UNCHANGED <<page, status, shown, owner>>

Closed(s) ==
    /\ sock[s] = "closing"
    /\ sock' = [sock EXCEPT ![s] = "free"]
    /\ owner' = [owner EXCEPT ![s] = "stale"]
    /\ status' = IF owner[s] = "live" THEN "disconnected" ELSE status
    /\ UNCHANGED <<page, shown>>

NextConnection ==
    \/ Unmount \/ Commit
    \/ \E s \in Sockets : Mount(s) \/ Connect(s) \/ Opened(s) \/ Lost(s) \/ Closed(s)

ConnectionSpec == InitConnection /\ [][NextConnection]_connVars

-----------------------------------------------------------------------------
(* The page does not go on showing a connection it has lost: "connected"   *)
(* that no commit is about to change has a socket behind it that is open,  *)
(* or whose close event is yet to come, whatever else of the page's        *)
(* sockets have closed in the meantime.                                    *)
ShownConnected ==
    page = "open" /\ shown = "connected" /\ status = "connected" =>
        \E s \in Sockets : owner[s] = "live" /\ sock[s] \in {"open", "closing"}

(* A page that was left connects no more (mountedRef, the cleanup).        *)
LeftQuiet ==
    [][page = "left" /\ page' = "left" =>
        \A s \in Sockets : sock'[s] = "connecting" => sock[s] = "connecting"]_connVars
=============================================================================
