---------------------------- MODULE MCLoginFlow ----------------------------
(* Two tasks: one prompt under way, and one to spare.                      *)
EXTENDS LoginFlow

CONSTANTS p1, p2
=============================================================================
