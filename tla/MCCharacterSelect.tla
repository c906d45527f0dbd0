------------------------- MODULE MCCharacterSelect -------------------------
(* Three tasks: the prompt that ends, the one it schedules, one to spare.  *)
EXTENDS CharacterSelect

CONSTANTS p1, p2, p3
=============================================================================
