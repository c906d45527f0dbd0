--------------------------- MODULE SerialDispatch ---------------------------
(***************************************************************************)
(* What a queue dispatched by one thread at a time promises its posters:   *)
(* a message waits until the one before it has been handled to the end,    *)
(* none is lost, none is handled twice, and handling one may post more.    *)
(***************************************************************************)
EXTENDS Sequences

CONSTANTS Message, NoMessage

VARIABLES
  queue,      (* messages posted and not yet taken                         *)
  current     (* the message being handled, or NoMessage                   *)

Init == queue = <<>> /\ current = NoMessage

Accept ==
  /\ \E m \in Message : queue' = Append(queue, m)
  /\ UNCHANGED current

Take ==
  /\ current = NoMessage
  /\ queue # <<>>
  /\ current' = Head(queue)
  /\ queue' = Tail(queue)

Finish ==
  /\ current # NoMessage
  /\ current' = NoMessage
  /\ UNCHANGED queue

Next == Accept \/ Take \/ Finish

Spec == Init /\ [][Next]_<<queue, current>>
=============================================================================
