--------------------------- MODULE MCTcpConnection ---------------------------
(* One connection of each kind: LOGIN has a heart-beat packet, MAP has none. *)
EXTENDS TcpConnection, TLC

CONSTANTS LOGIN, MAP, loginConn, mapConn

MCTypeOf == (loginConn :> LOGIN) @@ (mapConn :> MAP)
=============================================================================
