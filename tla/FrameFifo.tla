------------------------------ MODULE FrameFifo ------------------------------
(***************************************************************************)
(* What the frame queue promises its two sides: a bounded first-in first-  *)
(* out queue.  A frame joins at the back while there is room, leaves once  *)
(* at the front, and nothing else touches the queue.                       *)
(***************************************************************************)
EXTENDS Naturals, Sequences

CONSTANT Capacity

VARIABLES
  queue,  (* frames received and not yet taken                             *)
  taken   (* how many frames readers have taken                            *)

fvars == <<queue, taken>>

FInit == queue = <<>> /\ taken = 0

Put ==
  /\ Len(queue) < Capacity
  /\ queue' # <<>>
  /\ queue = SubSeq(queue', 1, Len(queue') - 1)
  /\ UNCHANGED taken

Take ==
  /\ queue # <<>>
  /\ queue' = Tail(queue)
  /\ taken' = taken + 1

FSpec == FInit /\ [][Put \/ Take]_fvars
=============================================================================
