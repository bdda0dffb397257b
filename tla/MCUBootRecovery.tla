--------------------------- MODULE MCUBootRecovery ---------------------------
(* U-Boot's recovery on a span of four chunks, three of them essential,    *)
(* with a kernel that straddles the first two.                             *)
EXTENDS UBootRecoveryProofs

MCKernelChunks == {0, 1}
=============================================================================
