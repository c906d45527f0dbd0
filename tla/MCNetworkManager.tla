-------------------------- MODULE MCNetworkManager --------------------------
(* One connection to the LOGIN server, or two, one after the other.          *)
EXTENDS NetworkManager, TLC

CONSTANTS LOGIN, c1, c2, w1, w2

Reconnect == (c1 :> LOGIN) @@ (c2 :> LOGIN)
OneConnection == c1 :> LOGIN

WorkerSymmetry == Permutations(Worker)
=============================================================================
