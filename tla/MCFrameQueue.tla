---------------------------- MODULE MCFrameQueue ----------------------------
(* The frame queue with two readers, frames of up to two bytes, buffers    *)
(* that do and do not hold them, and a ring that fills up.                 *)
EXTENDS FrameQueue

CONSTANTS r1, r2

MCReader == {r1, r2}
MCSizes == {1, 2}
=============================================================================
