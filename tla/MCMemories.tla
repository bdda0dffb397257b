------------------------------ MODULE MCMemories ------------------------------
(* The two memories that flight services share with U-Boot, model-checked:   *)
(* the MRAM under mram-service or the FRAM under fram-service.  They share   *)
(* no state, so a behaviour follows one of them.                             *)
EXTENDS MramService, FramPolicy

VARIABLE memory

MCInputs == -Word .. 2 * Word

MCInit ==
  \/ /\ memory = "mram" /\ MramInit
     /\ chip = BlankChip /\ uboot = Build(5, 1 .. 5, "tolerate", TRUE)
     /\ phase = "off" /\ todo = <<>> /\ env = NoneOverlaid
     /\ missedB = FALSE /\ covered = NoneOverlaid /\ widest = 0 /\ sets = 0 /\ cuts = 0
  \/ /\ memory = "fram" /\ Init
     /\ backend = "spidev" /\ capacity = Device /\ up = FALSE
     /\ storage = [a \in 0 .. Device - 1 |->
                     IF a \in UBootEnv THEN "env" ELSE "blank"]
     /\ offset = 0 /\ size = 0

MramStep == memory = "mram" /\ MramNext /\ UNCHANGED <<memory, vars>>
FramStep == memory = "fram" /\ Next /\ UNCHANGED <<memory, mramVars>>

MCNext == MramStep \/ FramStep

MCSpec == MCInit /\ [][MCNext]_<<memory, mramVars, vars>>

=============================================================================
