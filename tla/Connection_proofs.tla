--------------------------- MODULE Connection_proofs ---------------------------
(***************************************************************************)
(* What a page keeps whatever its policy of reconnecting, as long as it    *)
(* connects as Connection does, with any number of sockets.                *)
(***************************************************************************)
EXTENDS Connection, TLAPS

\* Why a page does not go on showing a connection it has lost: the status is
\* "connected" only while a socket of the page is open or about to close, for
\* the event of the close, or of another connect, takes it away.
Supported ==
    /\ sock \in [Sockets -> {"free", "connecting", "open", "closing"}]
    /\ owner \in [Sockets -> {"live", "stale"}]
    /\ status = "connected" =>
         \E s \in Sockets : owner[s] = "live" /\ sock[s] \in {"open", "closing"}

LEMMA SupportedInit == InitConnection => Supported
  BY DEF InitConnection, Supported

LEMMA SupportedNext == Supported /\ [NextConnection]_connVars => Supported'
<1> SUFFICES ASSUME Supported, [NextConnection]_connVars PROVE Supported'
  OBVIOUS
<1>1. CASE Unmount
  BY <1>1 DEF Unmount, Closing, Supported
<1>2. CASE Commit
  BY <1>2 DEF Commit, Supported
<1>3. ASSUME NEW s \in Sockets, Mount(s) PROVE Supported'
  BY <1>3 DEF Mount, Supported
<1>4. ASSUME NEW s \in Sockets, Connect(s) PROVE Supported'
  BY <1>4 DEF Connect, Closing, Supported
<1>5. ASSUME NEW s \in Sockets, Opened(s) PROVE Supported'
  <2>1. CASE owner[s] = "live"
    BY <1>5, <2>1 DEF Opened, Supported
  <2>2. CASE owner[s] # "live"
    BY <1>5, <2>2 DEF Opened, Supported
  <2> QED
    BY <2>1, <2>2
<1>6. ASSUME NEW s \in Sockets, Lost(s) PROVE Supported'
  BY <1>6 DEF Lost, Supported
<1>7. ASSUME NEW s \in Sockets, Closed(s) PROVE Supported'
  <2>1. CASE owner[s] = "live"
    BY <1>7, <2>1 DEF Closed, Supported
  <2>2. CASE owner[s] # "live"
    BY <1>7, <2>2 DEF Closed, Supported
  <2> QED
    BY <2>1, <2>2
<1>8. CASE UNCHANGED connVars
  BY <1>8 DEF connVars, Supported
<1> QED
  BY <1>1, <1>2, <1>3, <1>4, <1>5, <1>6, <1>7, <1>8 DEF NextConnection

\* A page that shows "connected", with no commit due that changes it, has a
\* socket of its own that is open or whose close event is yet to come.
THEOREM ConnectionIsShown == ConnectionSpec => []ShownConnected
<1>1. Supported => ShownConnected
  BY DEF Supported, ShownConnected
<1> QED
  BY <1>1, SupportedInit, SupportedNext, PTL DEF ConnectionSpec

\* A page that was left opens no socket until it is opened again.
THEOREM LeftIsQuiet == ConnectionSpec => LeftQuiet
<1> DEFINE Quiet == page = "left" /\ page' = "left" =>
                      \A s \in Sockets : sock'[s] = "connecting" => sock[s] = "connecting"
<1>1. Supported /\ [NextConnection]_connVars => [Quiet]_connVars
  <2> SUFFICES ASSUME Supported, NextConnection, page = "left", page' = "left",
                      NEW t \in Sockets, sock'[t] = "connecting"
               PROVE  sock[t] = "connecting"
    BY DEF connVars
  <2>1. ASSUME NEW s \in Sockets, Opened(s) \/ Lost(s) \/ Closed(s)
        PROVE  sock[t] = "connecting"
    BY <2>1 DEF Opened, Lost, Closed, Supported
  <2>2. ASSUME NEW s \in Sockets PROVE ~Mount(s) /\ ~Connect(s)
    BY DEF Mount, Connect
  <2>3. ~Unmount /\ ~Commit
    BY DEF Unmount, Commit
  <2> QED
    BY <2>1, <2>2, <2>3 DEF NextConnection
<1> QED
  BY <1>1, SupportedInit, SupportedNext, PTL DEF ConnectionSpec, LeftQuiet
=============================================================================
