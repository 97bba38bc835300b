---------------------------- MODULE WebSocketHub ----------------------------
(***************************************************************************)
(* The WebSocket connections of one user: the Hub of the gateway, the      *)
(* goroutine that serves each connection, and the browser tabs, which      *)
(* connect again after a loss.  The hub has room for one connection; the   *)
(* goroutines of the others notice late that theirs was closed.            *)
(*                                                                         *)
(* SendToUser, Broadcast and PublishToAdmin only look the connection up    *)
(* and write to it; they change no state of the hub.                       *)
(***************************************************************************)
EXTENDS Naturals, FiniteSets

CONSTANTS
    Conn,       \* connections that can exist at a time; ended ones are reused
    Tab,        \* browser tabs, each with a socket store
    NoConn,
    Prompt,     \* goroutines of closed connections end before a browser,
                \* which takes three seconds or a round trip, is back
    MaxDrops    \* bound: network losses and tabs closed

ASSUME HubAssumption ==
    /\ NoConn \notin Conn
    /\ Prompt \in BOOLEAN
    /\ MaxDrops \in Nat

VARIABLES
    connections,    \* Hub.connections[userID]
    adminConns,     \* Hub.adminConns[userID]
    open,           \* connections the server has not closed nor lost
    admins,         \* connections whose token has an admin role
    stage,          \* stage[c]: where the goroutine of c stands
    sock,           \* sock[k]: the socket tab k holds
    visible,        \* tabs that want a socket
    drops

hubVars == <<connections, adminConns>>
vars == <<hubVars, open, admins, stage, sock, visible, drops>>

Stage == {"none", "accepted", "registered", "reading", "closing"}
ConnOrNone == Conn \cup {NoConn}

TypeOK ==
    /\ connections \in ConnOrNone /\ adminConns \in ConnOrNone
    /\ open \in SUBSET Conn /\ admins \in SUBSET Conn
    /\ adminConns # NoConn => adminConns \in admins
    /\ stage \in [Conn -> Stage]
    /\ \A c \in Conn : stage[c] = "registered" => c \in admins
    /\ sock \in [Tab -> ConnOrNone]
    /\ visible \in SUBSET Tab
    /\ drops \in 0..MaxDrops

Init ==
    /\ connections = NoConn /\ adminConns = NoConn
    /\ open = {} /\ admins = {}
    /\ stage = [c \in Conn |-> "none"]
    /\ sock = [k \in Tab |-> NoConn]
    /\ visible = Tab
    /\ drops = 0

Served(c) == stage[c] \in {"registered", "reading", "closing"}

---------------------------------------------------------------------------
(* The tab: connect, onclose, disconnect *)

\* The connection keeps the role of the token it was made with; the user's
\* role may have changed since the last one.
Connect(k) ==
    /\ k \in visible /\ sock[k] = NoConn
    /\ Prompt => \A c \in Conn : Served(c) => c \in open
    /\ \E c \in Conn, admin \in BOOLEAN :
         /\ stage[c] = "none" /\ \A j \in Tab : sock[j] # c
         /\ admins' = IF admin THEN admins \cup {c} ELSE admins \ {c}
         /\ sock' = [sock EXCEPT ![k] = c]
         /\ stage' = [stage EXCEPT ![c] = "accepted"]
         /\ open' = open \cup {c}
    /\ UNCHANGED <<hubVars, visible, drops>>

\* onclose after the server closed: connect again in three seconds.
OnClose(k) ==
    /\ sock[k] # NoConn /\ sock[k] \notin open
    /\ sock' = [sock EXCEPT ![k] = NoConn]
    /\ UNCHANGED <<admins, hubVars, open, stage, visible, drops>>

\* The network fails; the tab notices before the server does.
NetworkDrop(k) ==
    /\ sock[k] # NoConn /\ drops < MaxDrops
    /\ drops' = drops + 1
    /\ sock' = [sock EXCEPT ![k] = NoConn]
    /\ UNCHANGED <<admins, hubVars, open, stage, visible>>

\* The tab is closed, or logs out: ws.close(1000) and no reconnection.
Disconnect(k) ==
    /\ k \in visible /\ drops < MaxDrops
    /\ drops' = drops + 1
    /\ visible' = visible \ {k}
    /\ sock' = [sock EXCEPT ![k] = NoConn]
    /\ UNCHANGED <<admins, hubVars, open, stage>>

\* The server's side of an abandoned connection fails.
PeerGone(c) ==
    /\ c \in open /\ \A k \in Tab : sock[k] # c
    /\ open' = open \ {c}
    /\ UNCHANGED <<admins, hubVars, stage, sock, visible, drops>>

---------------------------------------------------------------------------
(* The goroutine of a connection *)

\* Bug: the connection that is replaced is not closed.
RegisterOver(c) ==
    /\ stage[c] = "accepted"
    /\ connections' = c
    /\ stage' = [stage EXCEPT ![c] = IF c \in admins THEN "registered" ELSE "reading"]
    /\ UNCHANGED <<admins, adminConns, open, sock, visible, drops>>

\* Hub.Register: the connection there is, is closed and replaced.
Register(c) ==
    /\ stage[c] = "accepted"
    /\ connections' = c
    /\ open' = open \ {connections}
    /\ stage' = [stage EXCEPT ![c] = IF c \in admins THEN "registered" ELSE "reading"]
    /\ UNCHANGED <<admins, adminConns, sock, visible, drops>>

RegisterAdmin(c) ==
    /\ stage[c] = "registered"
    /\ adminConns' = c
    /\ stage' = [stage EXCEPT ![c] = "reading"]
    /\ UNCHANGED <<admins, connections, open, sock, visible, drops>>

\* Bug: the loop ends with the first message, not with the first error.
ReadOnce(c) ==
    /\ stage[c] = "reading"
    /\ stage' = [stage EXCEPT ![c] = "closing"]
    /\ UNCHANGED <<admins, hubVars, open, sock, visible, drops>>

ReadFails(c) ==
    /\ stage[c] = "reading" /\ c \notin open
    /\ stage' = [stage EXCEPT ![c] = "closing"]
    /\ UNCHANGED <<admins, hubVars, open, sock, visible, drops>>

\* Bug: the goroutine ends without its deferred Unregister.
ForgetToUnregister(c) ==
    /\ stage[c] = "closing"
    /\ stage' = [stage EXCEPT ![c] = "none"]
    /\ UNCHANGED <<admins, hubVars, open, sock, visible, drops>>

\* Bug: the entry is deleted and its connection left open.
UnregisterLeavesOpen(c) ==
    /\ stage[c] = "closing"
    /\ connections' = NoConn /\ adminConns' = NoConn
    /\ stage' = [stage EXCEPT ![c] = "none"]
    /\ UNCHANGED <<admins, open, sock, visible, drops>>

\* Hub.Unregister takes the user, not the connection: whatever is in the
\* map is closed and removed.
Unregister(c) ==
    /\ stage[c] = "closing"
    /\ open' = open \ {connections}
    /\ connections' = NoConn /\ adminConns' = NoConn
    /\ stage' = [stage EXCEPT ![c] = "none"]
    /\ UNCHANGED <<admins, sock, visible, drops>>

---------------------------------------------------------------------------

Serve(c) == Register(c) \/ RegisterAdmin(c) \/ ReadFails(c) \/ Unregister(c)

Next ==
    \/ \E k \in Tab : Connect(k) \/ OnClose(k) \/ NetworkDrop(k) \/ Disconnect(k)
    \/ \E c \in Conn : PeerGone(c) \/ Serve(c)

Spec == Init /\ [][Next]_vars

\* Goroutines run, browsers fire their events and timers, and a connection
\* without a peer fails in the end (TCP).  Losses and closed tabs are free.
FairSpec ==
    /\ Spec
    /\ \A c \in Conn : WF_vars(Serve(c)) /\ WF_vars(PeerGone(c))
    /\ \A k \in Tab : WF_vars(Connect(k)) /\ WF_vars(OnClose(k))

---------------------------------------------------------------------------
(* Properties *)

\* "One connection per user" (hub.go:40): an open connection whose goroutine
\* has registered it is the one SendToUser writes to, however registrations
\* and late unregistrations interleave.  No second one stays open unheard.
OpenIsRegistered ==
    \A c \in Conn : c \in open /\ Served(c) => connections = c

\* Whatever the hub holds still has a goroutine that will remove it: no dead
\* connection stays in either map.
HeldIsServed ==
    /\ connections # NoConn => Served(connections)
    /\ adminConns # NoConn => stage[adminConns] \in {"reading", "closing"}

\* A goroutine that has stopped reading leaves no open connection behind.
EndedIsClosed ==
    \A c \in Conn : stage[c] \in {"none", "closing"} => c \notin open

\* The inductive invariant behind OpenIsRegistered.
HubInv == OpenIsRegistered /\ HeldIsServed /\ EndedIsClosed

\* An administrator's open connection is in the admin room, or a closed one
\* is in its place whose goroutine is about to unregister the user: the room
\* is never empty while it is read.
AdminIsInRoom ==
    \A c \in Conn : c \in open \cap admins /\ stage[c] = "reading" =>
        \/ adminConns = c
        \/ adminConns # NoConn /\ adminConns \notin open

\* The hub's books are true: what it writes to is open and is all that is
\* open, what it holds is served, and no administrator misses the room.
HubIsTrue == HubInv /\ AdminIsInRoom

\* "Close existing connection if any (one connection per user)"
\* (hub.go:40): a user with tabs open, on a network without losses, ends up
\* with one connection in the hub.
OneConnectionRemains == <>[](connections # NoConn)
=============================================================================
