----------------------------- MODULE Selection -----------------------------
(***************************************************************************)
(* A sequence of sequences joined into one, and the part of a sequence     *)
(* that is of one kind, in its order.  They are what FlattenSeq and        *)
(* SelectSeq give, by a function that recurs over the positions.           *)
(***************************************************************************)
EXTENDS Integers, Sequences

Joined(parts) ==
  LET upTo[i \in 0 .. Len(parts)] == IF i = 0 THEN <<>> ELSE upTo[i - 1] \o parts[i]
  IN  upTo[Len(parts)]

Picked(q, kind) == [i \in 1 .. Len(q) |-> IF q[i] \in kind THEN <<q[i]>> ELSE <<>>]

Selected(q, kind) == Joined(Picked(q, kind))
=============================================================================
