--------------------------- MODULE RestoreContract ---------------------------
(***************************************************************************)
(* What the SD -> eMMC restore promises, whoever performs it: the eMMC is  *)
(* only overwritten under the recovery latch, the latch is only released   *)
(* over a whole image, and the eMMC is only booted when it is whole.       *)
(* "emmc_recovery_needed: latch: force SD boot / restore until verified".  *)
(***************************************************************************)

VARIABLES
  latch,    (* the latch as the next boot would read it                    *)
  partial,  (* the eMMC holds a mixture of two images                      *)
  running   (* "none", "emmc" or "sd": what the board has booted           *)

cvars == <<latch, partial, running>>

CInit ==
  /\ latch = FALSE
  /\ partial = FALSE
  /\ running = "none"

SetLatch ==
  /\ latch' = TRUE
  /\ UNCHANGED <<partial, running>>

Overwrite ==
  /\ latch
  /\ partial' \in BOOLEAN
  /\ UNCHANGED <<latch, running>>

Release ==
  /\ ~partial
  /\ latch' = FALSE
  /\ UNCHANGED <<partial, running>>

BootEmmc ==
  /\ running = "none"
  /\ ~partial
  /\ running' = "emmc"
  /\ UNCHANGED <<latch, partial>>

BootSd ==
  /\ running = "none"
  /\ running' = "sd"
  /\ UNCHANGED <<latch, partial>>

(* A reset, or a power cut that also cuts the write in flight short.       *)
PowerDown ==
  /\ running' = "none"
  /\ \/ UNCHANGED <<latch, partial>>
     \/ latch /\ partial' \in BOOLEAN /\ UNCHANGED latch
     \/ ~partial /\ latch' \in BOOLEAN /\ UNCHANGED partial

CNext ==
  SetLatch \/ Overwrite \/ Release \/ BootEmmc \/ BootSd \/ PowerDown

CSpec == CInit /\ [][CNext]_cvars
=============================================================================
