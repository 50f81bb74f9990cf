------------------------------ MODULE EventSocket ------------------------------
(***************************************************************************)
(* useWebSocket: the connection of the event page with its policy of       *)
(* reconnecting.  connect is remade whenever reconnectAttempts changes and *)
(* the effect that depends on it runs again; every socket, and the timer   *)
(* its onclose sets, belongs to the connect that made it (att).            *)
(*                                                                         *)
(* A slot is used again once its socket has closed and its timer is idle.  *)
(* The error event is left out: it comes in the task of the close event,   *)
(* which overwrites its status.                                            *)
(***************************************************************************)
EXTENDS Integers, FiniteSets

CONSTANTS Sockets,        \* slots, a set of positive numbers
          MAX_ATTEMPTS,   \* maxReconnectAttempts (10)
          MaxDrops,       \* bound: connections lost or refused
          MaxVisits       \* bound: times the page is opened

SocketAssumption ==
    /\ Sockets \subseteq Nat \ {0} /\ IsFiniteSet(Sockets)
    /\ {MAX_ATTEMPTS, MaxDrops, MaxVisits} \subseteq Nat

VARIABLES
    page, status, shown, sock, owner,   \* as in Connection
    attempts,   \* reconnectAttempts, as last set
    used,       \* the attempts of the last commit: what its connect captured
    current,    \* wsRef
    timerRef,   \* reconnectTimeoutRef: the slot whose timer it holds
    att,        \* per slot: the attempts its connect captured
    timer,      \* per slot: the timer its onclose has set
    drops, visits

vars == <<page, status, shown, sock, owner, attempts, used, current, timerRef,
          att, timer, drops, visits>>

\* The connection behind the policy; a closed socket is nobody's there, while
\* here the slot keeps its owner for the timer.
Conn == INSTANCE Connection WITH
            owner <- [s \in Sockets |-> IF sock[s] = "free" THEN "stale" ELSE owner[s]]

None == Conn!None

Init ==
    /\ Conn!InitConnection
    /\ owner = [s \in Sockets |-> "stale"]
    /\ attempts = 0 /\ used = 0
    /\ current = None /\ timerRef = None
    /\ att = [s \in Sockets |-> 0]
    /\ timer = [s \in Sockets |-> "off"]
    /\ drops = 0 /\ visits = 0

\* close() of the socket wsRef holds, if it holds one.
CloseCurrent ==
    IF current # None /\ sock[current] \in {"connecting", "open"}
    THEN [sock EXCEPT ![current] = "closing"] ELSE sock

ClearReconnectTimeout ==
    IF timerRef # None THEN [timer EXCEPT ![timerRef] = "off"] ELSE timer

Free(socks, timers) == {s \in Sockets : socks[s] = "free" /\ timers[s] = "off"}

\* connect(), made when attempts were a, past its guards: a new socket in wsRef.
\* socks and timers are what the caller has left of them.
NewSocket(a, socks, timers) ==
    /\ Free(socks, timers) # {}
    /\ LET s == CHOOSE x \in Free(socks, timers) :
                    \A y \in Free(socks, timers) : x <= y
       IN  /\ sock' = [socks EXCEPT ![s] = "connecting"]
           /\ att' = [att EXCEPT ![s] = a]
           /\ owner' = [owner EXCEPT ![s] = "live"]
           /\ current' = s
    /\ timer' = timers
    /\ status' = "connecting"

Mount ==
    /\ page = "left" /\ visits < MaxVisits
    /\ page' = "open" /\ visits' = visits + 1
    /\ NewSocket(0, sock, timer)
    /\ UNCHANGED <<shown, attempts, used, timerRef, drops>>

\* The cleanup of the effect; the state of the hook goes with the component.
Unmount ==
    /\ page = "open"
    /\ page' = "left"
    /\ owner' = [s \in Sockets |-> "stale"]
    /\ sock' = CloseCurrent /\ timer' = ClearReconnectTimeout
    /\ status' = "disconnected" /\ shown' = "disconnected"
    /\ attempts' = 0 /\ used' = 0 /\ current' = None /\ timerRef' = None
    /\ UNCHANGED <<att, drops, visits>>

\* A commit that leaves connect as it was.
CommitStatus ==
    /\ page = "open" /\ status # shown /\ attempts = used
    /\ shown' = status
    /\ UNCHANGED <<page, status, sock, owner, attempts, used, current, timerRef,
                   att, timer, drops, visits>>

\* With other attempts connect is another function and its effect runs again:
\* the cleanup closes the socket, whatever its state, and connect opens one.
CommitReconnect ==
    /\ page = "open" /\ attempts # used
    /\ shown' = status /\ used' = attempts
    /\ timerRef' = None
    /\ NewSocket(attempts, CloseCurrent, ClearReconnectTimeout)
    /\ UNCHANGED <<page, attempts, drops, visits>>

\* Mutant: the timer does not look at mountedRef.
FireUnmounted(s) ==
    /\ timer[s] = "armed"
    /\ timerRef' = IF timerRef = s THEN None ELSE timerRef
    /\ LET idle == [timer EXCEPT ![s] = "off"]
       IN  \/ /\ ~(current # None /\ sock[current] = "open")
              /\ attempts' = attempts + 1
              /\ NewSocket(att[s], sock, idle)
           \/ /\ current # None /\ sock[current] = "open"
              /\ attempts' = attempts + 1 /\ timer' = idle
              /\ UNCHANGED <<status, sock, owner, current, att>>
    /\ UNCHANGED <<page, shown, used, drops, visits>>

\* The timer of onclose: it raises attempts and calls the connect it captured,
\* which does nothing when wsRef is open.  (The code leaves the ref of a timer
\* that has fired; clearing it does nothing.)
Fire(s) ==
    /\ timer[s] = "armed"
    /\ timerRef' = IF timerRef = s THEN None ELSE timerRef
    /\ LET idle == [timer EXCEPT ![s] = "off"]
       IN  \/ /\ owner[s] = "live" /\ ~(current # None /\ sock[current] = "open")
              /\ attempts' = attempts + 1
              /\ NewSocket(att[s], sock, idle)
           \/ /\ owner[s] = "live" /\ current # None /\ sock[current] = "open"
              /\ attempts' = attempts + 1 /\ timer' = idle
              /\ UNCHANGED <<status, sock, owner, current, att>>
           \/ /\ owner[s] # "live"
              /\ timer' = idle
              /\ UNCHANGED <<attempts, status, sock, owner, current, att>>
    /\ UNCHANGED <<page, shown, used, drops, visits>>

\* The button of the page, there while it shows "disconnected".
ClickReconnect ==
    /\ page = "open" /\ shown = "disconnected"
    /\ ~(current # None /\ sock[current] = "open")
    /\ NewSocket(used, sock, timer)
    /\ UNCHANGED <<page, shown, attempts, used, timerRef, drops, visits>>

\* onopen
Opened(s) ==
    /\ sock[s] = "connecting"
    /\ sock' = [sock EXCEPT ![s] = "open"]
    /\ IF owner[s] = "live"
       THEN status' = "connected" /\ attempts' = 0
       ELSE UNCHANGED <<status, attempts>>
    /\ UNCHANGED <<page, shown, owner, used, current, timerRef, att, timer, drops, visits>>

\* Mutant: the comparison with the maximum the wrong way round.
ClosedInverted(s) ==
    /\ sock[s] = "closing"
    /\ sock' = [sock EXCEPT ![s] = "free"]
    /\ status' = IF owner[s] = "live" THEN "disconnected" ELSE status
    /\ \/ /\ owner[s] = "live" /\ att[s] > MAX_ATTEMPTS
          /\ timer' = [timer EXCEPT ![s] = "armed"] /\ timerRef' = s
          /\ UNCHANGED <<att, owner>>
       \/ /\ owner[s] # "live" \/ att[s] <= MAX_ATTEMPTS
          /\ att' = [att EXCEPT ![s] = 0] /\ owner' = [owner EXCEPT ![s] = "stale"]
          /\ UNCHANGED <<timer, timerRef>>
    /\ UNCHANGED <<page, shown, attempts, used, current, drops, visits>>

\* onclose; the attempts are those its connect captured.
Closed(s) ==
    /\ sock[s] = "closing"
    /\ sock' = [sock EXCEPT ![s] = "free"]
    /\ status' = IF owner[s] = "live" THEN "disconnected" ELSE status
    /\ \/ /\ owner[s] = "live" /\ att[s] < MAX_ATTEMPTS
          /\ timer' = [timer EXCEPT ![s] = "armed"] /\ timerRef' = s
          /\ UNCHANGED <<att, owner>>
       \/ /\ owner[s] # "live" \/ att[s] >= MAX_ATTEMPTS
          /\ att' = [att EXCEPT ![s] = 0] /\ owner' = [owner EXCEPT ![s] = "stale"]
          /\ UNCHANGED <<timer, timerRef>>
    /\ UNCHANGED <<page, shown, attempts, used, current, drops, visits>>

Lost(s) ==
    /\ drops < MaxDrops
    /\ sock[s] \in {"connecting", "open"}
    /\ sock' = [sock EXCEPT ![s] = "closing"]
    /\ drops' = drops + 1
    /\ UNCHANGED <<page, status, shown, owner, attempts, used, current, timerRef,
                   att, timer, visits>>

Next ==
    \/ Mount \/ Unmount \/ CommitStatus \/ CommitReconnect \/ ClickReconnect
    \/ \E s \in Sockets : Fire(s) \/ Opened(s) \/ Closed(s) \/ Lost(s)

Spec == Init /\ [][Next]_vars

(* The browser commits what was set, runs its timers and tells the end of  *)
(* every connecting or closing; the user and the network owe nothing.      *)
Fairness ==
    /\ WF_vars(CommitStatus) /\ WF_vars(CommitReconnect)
    /\ \A s \in Sockets : WF_vars(Fire(s)) /\ WF_vars(Opened(s)) /\ WF_vars(Closed(s))

FairSpec == Spec /\ Fairness

-----------------------------------------------------------------------------
LiveOpen(s) == sock[s] = "open" /\ owner[s] = "live"

(* The values of the variables.  The attempts may pass the maximum, since  *)
(* every timer raises them, also one whose connect is no longer the last;  *)
(* but no timer is set by a connect that had made as many.                 *)
TypeOK ==
    /\ page \in {"open", "left"}
    /\ {status, shown} \subseteq {"disconnected", "connecting", "connected"}
    /\ sock \in [Sockets -> {"free", "connecting", "open", "closing"}]
    /\ owner \in [Sockets -> {"live", "stale"}]
    /\ {attempts, used} \subseteq Nat
    /\ {current, timerRef} \subseteq Sockets \cup {None}
    /\ att \in [Sockets -> Nat]
    /\ timer \in [Sockets -> {"off", "armed"}]
    /\ \A s \in Sockets : timer[s] = "armed" => sock[s] = "free" /\ att[s] < MAX_ATTEMPTS

(* The auto-reconnect of the hook: as long as fewer connections fail than  *)
(* maxReconnectAttempts, a page that has lost its connection has an open   *)
(* one again or is left.                                                   *)
AutoReconnect ==
    (page = "open" /\ status = "disconnected")
        ~> (page = "left" \/ \E s \in Sockets : LiveOpen(s))

(* The hook is a policy of connecting and no more: every step is one the   *)
(* abstract connection allows.                                             *)
ImplementsConnection == Conn!ConnectionSpec

(* What one expects of a hook that reconnects with backoff: once the       *)
(* network loses no more connections, a page that stays keeps the one it   *)
(* has.  The code does not: its effect runs again when attempts change,    *)
(* so that opening a socket is what closes it.                             *)
ConnectionSettles ==
    <>[](page = "left") \/ <>[](\E s \in Sockets : LiveOpen(s) /\ s = current)
=============================================================================
