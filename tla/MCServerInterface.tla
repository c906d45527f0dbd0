-------------------------- MODULE MCServerInterface --------------------------
(* The LOGIN server and one connect, or two, one after the other.            *)
EXTENDS ServerInterface, TLC

CONSTANTS LOGIN, c1, c2, w1, w2

Reconnect == (c1 :> LOGIN) @@ (c2 :> LOGIN)
OneConnection == c1 :> LOGIN

WorkerSymmetry == Permutations(Worker)
=============================================================================
