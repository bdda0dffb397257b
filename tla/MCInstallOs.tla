----------------------------- MODULE MCInstallOs -----------------------------
(* Both restorers on three chunks: two essential, the kernel in the first. *)
EXTENDS InstallOs

MCKernelChunks == {0}
MCRootNames == {"mmcblk", "devroot"}
=============================================================================
