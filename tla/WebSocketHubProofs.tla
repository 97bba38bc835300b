------------------------- MODULE WebSocketHubProofs -------------------------
(***************************************************************************)
(* Proofs about WebSocketHub, for any number of connections and tabs.      *)
(* HubInv is inductive together with the types: the closed connections     *)
(* whose goroutines are still to unregister are what makes it hold.        *)
(***************************************************************************)
EXTENDS WebSocketHub, TLAPS

\* The state of the hub keeps its types.
LEMMA TypeInductive == TypeOK /\ HubInv /\ [Next]_vars => TypeOK'
<1> SUFFICES ASSUME TypeOK, HubInv, [Next]_vars PROVE TypeOK'
  OBVIOUS
<1> USE HubAssumption DEF TypeOK, ConnOrNone, Stage
<1>h. adminConns # NoConn => stage[adminConns] \in {"reading", "closing"}
  BY DEF HubInv, HeldIsServed
<1>1. ASSUME NEW k \in Tab, Connect(k) PROVE TypeOK'
  BY <1>1, <1>h DEF Connect, hubVars
<1>2. ASSUME NEW k \in Tab, OnClose(k) PROVE TypeOK'
  BY <1>2 DEF OnClose, hubVars
<1>3. ASSUME NEW k \in Tab, NetworkDrop(k) PROVE TypeOK'
  BY <1>3 DEF NetworkDrop, hubVars
<1>4. ASSUME NEW k \in Tab, Disconnect(k) PROVE TypeOK'
  BY <1>4 DEF Disconnect, hubVars
<1>5. ASSUME NEW c \in Conn, PeerGone(c) PROVE TypeOK'
  BY <1>5 DEF PeerGone, hubVars
<1>6. ASSUME NEW c \in Conn, Register(c) PROVE TypeOK'
  BY <1>6 DEF Register
<1>7. ASSUME NEW c \in Conn, RegisterAdmin(c) PROVE TypeOK'
  BY <1>7 DEF RegisterAdmin
<1>8. ASSUME NEW c \in Conn, ReadFails(c) PROVE TypeOK'
  BY <1>8 DEF ReadFails, hubVars
<1>9. ASSUME NEW c \in Conn, Unregister(c) PROVE TypeOK'
  BY <1>9 DEF Unregister
<1>10. ASSUME UNCHANGED vars PROVE TypeOK'
  BY <1>10 DEF vars, hubVars
<1> QED
  BY <1>1, <1>2, <1>3, <1>4, <1>5, <1>6, <1>7, <1>8, <1>9, <1>10 DEF Next, Serve

\* Every step of the tabs and of the goroutines keeps HubInv.
LEMMA HubInductive == TypeOK /\ HubInv /\ [Next]_vars => HubInv'
<1> SUFFICES ASSUME TypeOK, HubInv, [Next]_vars PROVE HubInv'
  OBVIOUS
<1> USE HubAssumption
    DEF HubInv, OpenIsRegistered, HeldIsServed, EndedIsClosed, Served
<1>t. /\ stage \in [Conn -> Stage]
      /\ connections \in Conn \cup {NoConn}
      /\ adminConns \in Conn \cup {NoConn}
  BY DEF TypeOK, ConnOrNone
<1>1. ASSUME NEW k \in Tab, Connect(k) PROVE HubInv'
  BY <1>1, <1>t DEF Connect, hubVars
<1>2. ASSUME NEW k \in Tab, OnClose(k) PROVE HubInv'
  BY <1>2 DEF OnClose, hubVars
<1>3. ASSUME NEW k \in Tab, NetworkDrop(k) PROVE HubInv'
  BY <1>3 DEF NetworkDrop, hubVars
<1>4. ASSUME NEW k \in Tab, Disconnect(k) PROVE HubInv'
  BY <1>4 DEF Disconnect, hubVars
<1>5. ASSUME NEW c \in Conn, PeerGone(c) PROVE HubInv'
  BY <1>5, <1>t DEF PeerGone, hubVars
<1>6. ASSUME NEW c \in Conn, Register(c) PROVE HubInv'
  BY <1>6, <1>t DEF Register
<1>7. ASSUME NEW c \in Conn, RegisterAdmin(c) PROVE HubInv'
  BY <1>7, <1>t DEF RegisterAdmin
<1>8. ASSUME NEW c \in Conn, ReadFails(c) PROVE HubInv'
  BY <1>8, <1>t DEF ReadFails, hubVars
<1>9. ASSUME NEW c \in Conn, Unregister(c) PROVE HubInv'
  BY <1>9, <1>t DEF Unregister
<1>10. ASSUME UNCHANGED vars PROVE HubInv'
  BY <1>10 DEF vars, hubVars
<1> QED
  BY <1>1, <1>2, <1>3, <1>4, <1>5, <1>6, <1>7, <1>8, <1>9, <1>10 DEF Next, Serve

\* The hub's invariant holds throughout.
LEMMA HubInvariant == Spec => [](TypeOK /\ HubInv)
<1>1. Init => TypeOK /\ HubInv
  BY HubAssumption DEF Init, TypeOK, ConnOrNone, Stage, HubInv,
     OpenIsRegistered, HeldIsServed, EndedIsClosed, Served
<1>2. TypeOK /\ HubInv /\ [Next]_vars => (TypeOK /\ HubInv)'
  BY TypeInductive, HubInductive
<1> QED
  BY <1>1, <1>2, PTL DEF Spec

\* One connection per user, for any number of tabs and connections: an open
\* connection that was registered is the one the hub writes to.
THEOREM OneOpenConnection == Spec => []OpenIsRegistered
<1>1. TypeOK /\ HubInv => OpenIsRegistered
  BY DEF HubInv
<1> QED
  BY <1>1, HubInvariant, PTL

\* The admin room is never empty while an administrator's connection is
\* open and read.  It rests on HubInv: the connection a late RegisterAdmin
\* leaves in the room is either the open one or closed.
THEOREM AdminRoomIsKept == Spec => []AdminIsInRoom
<1> USE HubAssumption
<1>1. Init => AdminIsInRoom
  BY DEF Init, AdminIsInRoom
<1>2. TypeOK /\ HubInv /\ AdminIsInRoom /\ [Next]_vars => AdminIsInRoom'
  <2> SUFFICES ASSUME TypeOK, HubInv, AdminIsInRoom, [Next]_vars
               PROVE  AdminIsInRoom'
    OBVIOUS
  <2> USE DEF AdminIsInRoom
  <2>t. /\ stage \in [Conn -> Stage]
        /\ connections \in Conn \cup {NoConn}
        /\ adminConns \in Conn \cup {NoConn}
        /\ admins \in SUBSET Conn
    BY DEF TypeOK, ConnOrNone
  <2>h. /\ \A c \in Conn : c \in open /\ Served(c) => connections = c
        /\ adminConns # NoConn => stage[adminConns] \in {"reading", "closing"}
    BY DEF HubInv, OpenIsRegistered, HeldIsServed
  <2>1. ASSUME NEW k \in Tab, Connect(k) PROVE AdminIsInRoom'
    BY <2>1, <2>t, <2>h DEF Connect, hubVars
  <2>2. ASSUME NEW k \in Tab, OnClose(k) \/ NetworkDrop(k) \/ Disconnect(k)
        PROVE AdminIsInRoom'
    BY <2>2 DEF OnClose, NetworkDrop, Disconnect, hubVars
  <2>3. ASSUME NEW c \in Conn, PeerGone(c) PROVE AdminIsInRoom'
    BY <2>3 DEF PeerGone, hubVars
  <2>4. ASSUME NEW c \in Conn, Register(c) PROVE AdminIsInRoom'
    BY <2>4, <2>t DEF Register
  <2>5. ASSUME NEW c \in Conn, RegisterAdmin(c) PROVE AdminIsInRoom'
    BY <2>5, <2>t, <2>h DEF RegisterAdmin, Served
  <2>6. ASSUME NEW c \in Conn, ReadFails(c) PROVE AdminIsInRoom'
    BY <2>6, <2>t DEF ReadFails, hubVars
  <2>7. ASSUME NEW c \in Conn, Unregister(c) PROVE AdminIsInRoom'
    BY <2>7, <2>t, <2>h DEF Unregister, Served
  <2>8. ASSUME UNCHANGED vars PROVE AdminIsInRoom'
    BY <2>8 DEF vars, hubVars
  <2> QED
    BY <2>1, <2>2, <2>3, <2>4, <2>5, <2>6, <2>7, <2>8 DEF Next, Serve
<1> QED
  BY <1>1, <1>2, HubInvariant, PTL DEF Spec

\* The hub's books are true throughout: what it holds is served, what is open
\* and registered is what it holds, and no administrator misses the room.
THEOREM HubStaysTrue == Spec => []HubIsTrue
<1>1. TypeOK /\ HubInv /\ AdminIsInRoom => HubIsTrue
  BY DEF HubIsTrue
<1> QED
  BY <1>1, HubInvariant, AdminRoomIsKept, PTL
=============================================================================
