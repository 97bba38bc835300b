--------------------------- MODULE MCWebSocketHub ---------------------------
(* Instances of WebSocketHub for TLC. *)
EXTENDS WebSocketHub, TLC

HubSymmetry == Permutations(Conn) \cup Permutations(Tab)
=============================================================================
