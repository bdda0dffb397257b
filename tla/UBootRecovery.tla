---------------------------- MODULE UBootRecovery ----------------------------
(***************************************************************************)
(* U-Boot's FRAM-latched recovery: the late-init hook of                   *)
(* board/ti/am335x/board.c, radsat_fram_recovery_needed() and the          *)
(* resumable radsat_fram_run_recovery() of common/fram_mission.c, with the *)
(* power cut at every step, between the two slots of a FRAM record and in  *)
(* the middle of a slot or of an eMMC chunk.                               *)
(*                                                                         *)
(* The eMMC is a row of chunks (0x800 sectors each in the code, Span of    *)
(* them in 0x180000 sectors).  Chunks below Essential hold the MBR, the    *)
(* boot FAT, the rootfs and /envar; KernelChunks are those fatload reads.  *)
(***************************************************************************)
EXTENDS FramRecord

CONSTANTS
  Span,          (* chunks of the raw copy                                 *)
  Essential,     (* chunks that make the image                             *)
  KernelChunks,  (* chunks whose content decides the kernel probe          *)
  AttemptCap,    (* FRAM_RECOVERY_ATTEMPT_CAP                              *)
  MaxBoots,      (* bound: resets explored                                 *)
  MaxI2cFaults,  (* bound: failed bus selections, slot reads and writes    *)
  TornWrites,    (* a power cut can tear the FRAM slot being written       *)
  MmcFaults      (* mmc rescan, read and write may fail                    *)

ASSUME SpanAssumption ==
  /\ Span \in Nat \ {0}
  /\ Essential \in 1 .. Span
  /\ KernelChunks \subseteq 0 .. Essential - 1

ASSUME LimitAssumption ==
  /\ AttemptCap \in Nat \ {0}
  /\ MaxBoots \in Nat \ {0}
  /\ MaxI2cFaults \in Nat

ASSUME FaultAssumption ==
  {TornWrites, MmcFaults} \subseteq BOOLEAN

VARIABLES
  fram,   (* the records of the recovery keys                              *)
  wr,     (* the record write in flight                                    *)
  emmc,   (* what each chunk of the eMMC holds                             *)
  pc,     (* where the boot has got to: in the end a Linux or the prompt   *)
  blk,    (* the chunk the restore loop is at                              *)
  boots,  (* resets so far                                                 *)
  faults  (* FRAM bus faults so far                                        *)

vars == <<fram, wr, emmc, pc, blk, boots, faults>>

Key == {"fails", "needed", "attempts", "probe_ok", "media", "offset"}

Chunk == 0 .. Span - 1

(* "orig": the image flown or installed; "bad": damaged flash; "sd": the   *)
(* SD card's chunk; "torn": a chunk write cut in the middle; "fresh": an   *)
(* empty /home made by mkfs.                                               *)
Content == {"orig", "bad", "sd", "torn", "fresh"}

UBootPc == {"reset", "probe", "bump", "latch", "read_latch", "run", "count", "latch_run",
            "copy", "checkpoint", "verify", "clear_needed", "clear_probe",
            "clear_media", "clear_offset", "handover", "fallback"}

Idle == [key |-> "none", val |-> 0, seq |-> 0, slot |-> "A", more |-> FALSE]

WriteType == [key : Key \cup {"none"}, val : Nat, seq : Nat,
              slot : SlotName, more : BOOLEAN]

TypeOK ==
  /\ fram \in [Key -> RecordType]
  /\ wr \in WriteType
  /\ emmc \in [Chunk -> Content]
  /\ pc \in UBootPc \cup {"emmc", "sd", "prompt"}
  /\ blk \in 0 .. Span
  /\ boots \in Nat
  /\ faults \in Nat

Init ==
  /\ \/ fram = [k \in Key |-> [s \in SlotName |-> Garbage]]
     \/ fram = [k \in Key |-> [s \in SlotName |-> Rec(0, 1)]]
  /\ wr = Idle
  /\ \E damaged \in SUBSET KernelChunks :
       emmc = [c \in Chunk |-> IF c \in damaged THEN "bad" ELSE "orig"]
  /\ pc = "reset"
  /\ blk = 0
  /\ boots = 1
  /\ faults = 0
-----------------------------------------------------------------------------
(* FRAM record writes.  fram_write_key_slots writes slot B, then slot A;   *)
(* U-Boot always encodes sequence number 1, and no caller looks at the     *)
(* result, so a failed write abandons the record and the boot goes on.     *)

(* The FRAM bus does not answer this time.                                 *)
I2cFault ==
  /\ faults < MaxI2cFaults
  /\ faults' = faults + 1

At(label) == pc = label /\ wr = Idle

(* Mutant: every write takes the next sequence number, as fram-service's.  *)
StartWrite_BumpsSeq(key, val) ==
  wr' = [key |-> key, val |-> val, seq |-> NewestSeq(fram[key]) + 1,
         slot |-> "B", more |-> TRUE]

StartWrite(key, val) ==
  wr' = [key |-> key, val |-> val, seq |-> 1, slot |-> "B", more |-> TRUE]

SetSlot(key, slot, content) == [fram EXCEPT ![key][slot] = content]

NewContent == Rec(wr.val, wr.seq)

WriteSlot ==
  /\ wr # Idle
  /\ fram' = SetSlot(wr.key, wr.slot, NewContent)
  /\ wr' = IF wr.more THEN [wr EXCEPT !.slot = Other(wr.slot), !.more = FALSE]
                      ELSE Idle
  /\ UNCHANGED <<emmc, pc, blk, boots, faults>>

WriteSlotFails ==
  /\ I2cFault
  /\ wr # Idle
  /\ \E s \in Cut(fram[wr.key][wr.slot], NewContent, TRUE) :
       fram' = SetSlot(wr.key, wr.slot, s)
  /\ wr' = Idle
  /\ UNCHANGED <<emmc, pc, blk, boots>>
-----------------------------------------------------------------------------
(* What the code reads back.                                               *)

Latched == ReadA(fram["needed"], 0) # 0

SavedOffset == ReadA(fram["offset"], 0)

(* Mutant: a saved offset at the end of the span is not wrapped.           *)
StartBlk_NoWrap(offset) == offset

StartBlk(offset) == IF offset >= Span THEN 0 ELSE offset

(* A read whose bus transfer fails leaves the caller its initial zero.     *)
FramRead(key, got) ==
  \/ got = ReadA(fram[key], 0) /\ UNCHANGED faults
  \/ got = 0 /\ I2cFault

(* radsat_emmc_probe: rescan, then load /kernel or /uImage from the FAT.   *)
ProbeResults ==
  LET holds == {emmc[c] : c \in KernelChunks}
      healthy == holds \subseteq {"orig"} \/ holds \subseteq {"sd"}
  IN  (IF "bad" \in holds THEN {} ELSE {TRUE})
        \cup (IF healthy /\ ~MmcFaults THEN {} ELSE {FALSE})
-----------------------------------------------------------------------------
(* radsat_fram_recovery_needed                                             *)

SelectBus ==
  /\ At("reset")
  /\ \/ pc' = "probe" /\ UNCHANGED faults
     \/ pc' = "handover" /\ I2cFault
  /\ UNCHANGED <<fram, wr, emmc, blk, boots>>

Probe ==
  /\ At("probe")
  /\ \E ok \in ProbeResults :
       /\ StartWrite("probe_ok", IF ok THEN 1 ELSE 0)
       /\ pc' = IF ok THEN "read_latch" ELSE "bump"
  /\ UNCHANGED <<fram, emmc, blk, boots, faults>>

BumpFails ==
  /\ At("bump")
  /\ \E fails \in {0, ReadA(fram["fails"], 0)} :
       FramRead("fails", fails) /\ StartWrite("fails", fails + 1)
  /\ pc' = "latch"
  /\ UNCHANGED <<fram, emmc, blk, boots>>

LatchNeeded ==
  /\ At("latch")
  /\ StartWrite("needed", 1)
  /\ pc' = "run"
  /\ UNCHANGED <<fram, emmc, blk, boots, faults>>

(* Mutant: only a failed probe leads to a recovery.                        *)
ReadLatch_Ignored ==
  /\ At("read_latch")
  /\ pc' = "handover"
  /\ UNCHANGED <<fram, wr, emmc, blk, boots, faults>>

ReadLatch ==
  /\ At("read_latch")
  /\ \E latch \in {0, ReadA(fram["needed"], 0)} :
       /\ FramRead("needed", latch)
       /\ pc' = IF latch # 0 THEN "run" ELSE "handover"
  /\ UNCHANGED <<fram, wr, emmc, blk, boots>>
-----------------------------------------------------------------------------
(* radsat_fram_run_recovery                                                *)

(* The bus cannot be selected.                                             *)
RefuseRecovery ==
  /\ At("run")
  /\ I2cFault
  /\ pc' = "fallback"
  /\ UNCHANGED <<fram, wr, emmc, blk, boots>>

ReadOffset ==
  /\ At("run")
  /\ \E offset \in {0, SavedOffset} :
       FramRead("offset", offset) /\ blk' = StartBlk(offset)
  /\ pc' = "count"
  /\ UNCHANGED <<fram, wr, emmc, boots>>

(* Mutant: off by one.                                                     *)
AtCap_OffByOne(attempts) == attempts > AttemptCap

AtCap(attempts) == attempts >= AttemptCap

(* At the cap the board stays on SD.  A copy from sector 0 is a new        *)
(* attempt; a resumed one is not counted.                                  *)
CountAttempt ==
  /\ At("count")
  /\ \E attempts \in {0, ReadA(fram["attempts"], 0)} :
       /\ FramRead("attempts", attempts)
       /\ \/ AtCap(attempts) /\ pc' = "fallback" /\ UNCHANGED wr
          \/ /\ ~AtCap(attempts)
             /\ pc' = "latch_run"
             /\ IF blk = 0 THEN StartWrite("attempts", attempts + 1)
                           ELSE UNCHANGED wr
  /\ UNCHANGED <<fram, emmc, blk, boots>>

LatchRun ==
  /\ At("latch_run")
  /\ StartWrite("needed", 1)
  /\ pc' = "copy"
  /\ UNCHANGED <<fram, emmc, blk, boots, faults>>

CopyChunk ==
  /\ At("copy")
  /\ blk < Span
  /\ emmc' = [emmc EXCEPT ![blk] = "sd"]
  /\ pc' = "checkpoint"
  /\ UNCHANGED <<fram, wr, blk, boots, faults>>

(* What a chunk may hold after a write of the SD's chunk was cut short.    *)
CutChunk(c) ==
  IF emmc[c] = "sd" THEN {"sd"} ELSE {emmc[c], "torn", "sd"}

(* Mutant: a failed chunk is checkpointed like a good one.                 *)
CopyFails_GoesOn ==
  /\ MmcFaults
  /\ At("copy")
  /\ blk < Span
  /\ \E left \in CutChunk(blk) : emmc' = [emmc EXCEPT ![blk] = left]
  /\ pc' = "checkpoint"
  /\ UNCHANGED <<fram, wr, blk, boots, faults>>

(* mmc read or mmc write fails; a failed write may have begun.             *)
CopyFails ==
  /\ MmcFaults
  /\ At("copy")
  /\ blk < Span
  /\ \E left \in CutChunk(blk) : emmc' = [emmc EXCEPT ![blk] = left]
  /\ pc' = "fallback"
  /\ UNCHANGED <<fram, wr, blk, boots, faults>>

(* Mutant: the offset saved is one chunk ahead.                            *)
Checkpoint_Ahead ==
  /\ At("checkpoint")
  /\ \/ StartWrite("offset", blk + 2) /\ UNCHANGED faults
     \/ I2cFault /\ UNCHANGED wr
  /\ blk' = blk + 1
  /\ pc' = "copy"
  /\ UNCHANGED <<fram, emmc, boots>>

Checkpoint ==
  /\ At("checkpoint")
  /\ \/ StartWrite("offset", blk + 1) /\ UNCHANGED faults
     \/ I2cFault /\ UNCHANGED wr
  /\ blk' = blk + 1
  /\ pc' = "copy"
  /\ UNCHANGED <<fram, emmc, boots>>

CopyDone ==
  /\ At("copy")
  /\ blk = Span
  /\ pc' = "verify"
  /\ UNCHANGED <<fram, wr, emmc, blk, boots, faults>>

(* Mutant: a copy that does not verify is started over.                    *)
Verify_Restarts ==
  /\ At("verify")
  /\ \E ok \in ProbeResults :
       /\ pc' = IF ok THEN "clear_needed" ELSE "copy"
       /\ blk' = IF ok THEN blk ELSE 0
  /\ UNCHANGED <<fram, wr, emmc, boots, faults>>

Verify ==
  /\ At("verify")
  /\ \E ok \in ProbeResults : pc' = IF ok THEN "clear_needed" ELSE "fallback"
  /\ UNCHANGED <<fram, wr, emmc, blk, boots, faults>>

(* The four writes that end a verified restore, in the code's order.       *)
Clear(label, key, val, next) ==
  /\ At(label)
  /\ StartWrite(key, val)
  /\ pc' = next
  /\ UNCHANGED <<fram, emmc, blk, boots, faults>>

ClearNeeded == Clear("clear_needed", "needed", 0, "clear_probe")
ClearProbe  == Clear("clear_probe", "probe_ok", 1, "clear_media")
ClearMedia  == Clear("clear_media", "media", 0, "clear_offset")

(* Mutant: the restore offset is left as it is.                            *)
ClearOffset_Skipped ==
  /\ At("clear_offset")
  /\ pc' = "handover"
  /\ UNCHANGED <<fram, wr, emmc, blk, boots, faults>>

ClearOffset == Clear("clear_offset", "offset", 0, "handover")

(* The bus cannot be selected for the clears: all four are skipped.        *)
ClearSkipped ==
  /\ I2cFault
  /\ At("clear_needed")
  /\ pc' = "handover"
  /\ UNCHANGED <<fram, wr, emmc, blk, boots>>

(* The last boot target: the SD card's Linux, or U-Boot's prompt when the  *)
(* card does not give it a kernel.                                         *)
LastTarget == {"sd"} \cup (IF MmcFaults THEN {"prompt"} ELSE {})

(* Mutant: the hook leaves boot_targets alone.                             *)
Fallback_KeepsTargets ==
  /\ At("fallback")
  /\ pc' = "handover"
  /\ UNCHANGED <<fram, wr, emmc, blk, boots, faults>>

(* The recovery returned non-zero: the hook points mmcdev, bootpart and    *)
(* boot_targets at the SD card alone, for install-os to finish the restore.*)
Fallback ==
  /\ At("fallback")
  /\ pc' \in LastTarget
  /\ UNCHANGED <<fram, wr, emmc, blk, boots, faults>>

(* The distro boot command tries the default targets, the eMMC first and   *)
(* then the SD card.                                                       *)
Handover ==
  /\ At("handover")
  /\ \E loaded \in ProbeResults :
       IF loaded THEN pc' = "emmc" ELSE pc' \in LastTarget
  /\ UNCHANGED <<fram, wr, emmc, blk, boots, faults>>
-----------------------------------------------------------------------------
(* A reset at any point: of a running Linux, of U-Boot, of a board left at *)
(* the prompt, in mid-write.                                               *)
PowerCut ==
  /\ boots < MaxBoots
  /\ boots' = boots + 1
  /\ pc' = "reset"
  /\ wr' = Idle
  /\ blk' = 0
  /\ UNCHANGED faults
  /\ IF wr = Idle THEN UNCHANGED fram
     ELSE \E s \in Cut(fram[wr.key][wr.slot], NewContent, TornWrites) :
            fram' = SetSlot(wr.key, wr.slot, s)
  /\ IF At("copy") /\ blk < Span
     THEN \E left \in CutChunk(blk) : emmc' = [emmc EXCEPT ![blk] = left]
     ELSE UNCHANGED emmc

(* The flash decays while the board runs from it; the image it runs is the *)
(* original that a later restore will overwrite.                           *)
EmmcDecays ==
  /\ pc = "emmc"
  /\ \E bad \in Chunk :
       emmc' = [c \in Chunk |-> IF c = bad THEN "bad" ELSE "orig"]
  /\ UNCHANGED <<fram, wr, pc, blk, boots, faults>>

UBootStep ==
  \/ WriteSlot \/ WriteSlotFails
  \/ SelectBus \/ Probe \/ BumpFails \/ LatchNeeded \/ ReadLatch
  \/ RefuseRecovery \/ ReadOffset \/ CountAttempt \/ LatchRun
  \/ CopyChunk \/ CopyFails \/ Checkpoint \/ CopyDone \/ Verify
  \/ ClearNeeded \/ ClearProbe \/ ClearMedia \/ ClearOffset \/ ClearSkipped
  \/ Fallback \/ Handover

Next == UBootStep \/ PowerCut \/ EmmcDecays

Spec == Init /\ [][Next]_vars

(* U-Boot is sequential and its commands return: it keeps stepping.        *)
FairSpec == Spec /\ WF_vars(UBootStep)
-----------------------------------------------------------------------------
(* A partial image: some essential chunk was overwritten, another was not. *)
Partial ==
  /\ \E c \in 0 .. Essential - 1 : emmc[c] \in {"sd", "torn"}
  /\ \E c \in 0 .. Essential - 1 : emmc[c] # "sd"

(* Whatever a power cut interrupts, an eMMC that is half overwritten is    *)
(* covered by the latch as the next U-Boot will read it (slot A alone):    *)
(* "a power cut mid-copy still boots SD".                                  *)
PartialCopyStaysLatched == Partial => Latched

(* The board never hands over to an eMMC that mixes two images.            *)
NoBootOfPartialCopy == pc = "emmc" => ~Partial

(* A resume skips only chunks the SD image already reached: the saved      *)
(* offset never runs ahead of the copy, nor survives from an older one.    *)
CheckpointCovered ==
  SavedOffset < Span => \A c \in 0 .. SavedOffset - 1 : emmc[c] = "sd"

(* Once a copy is under way only a power cut, a bus fault or failing media *)
(* (a return to SD, or to the prompt when the SD card fails as well) keeps *)
(* it from ending in an eMMC that is wholly the SD image and runs with     *)
(* latch and offset cleared.                                               *)
RestoreEnds ==
  pc = "copy" ~>
    \/ pc \in {"reset", "sd", "prompt"} \/ faults > 0
    \/ /\ pc = "emmc"
       /\ ~Latched /\ SavedOffset = 0
       /\ \A c \in Chunk : emmc[c] = "sd"

(* Once the power stays on and the bus answers a set latch is acted on: it *)
(* is released, or the board has tried to come up from SD, the only target *)
(* the hook leaves it; a card that fails then leaves it at the prompt.     *)
LatchActedOn == Latched ~> (~Latched \/ pc \in {"sd", "prompt"} \/ faults > 0)

(* However writes are torn or fail, no slot ever claims more attempts than *)
(* FRAM_RECOVERY_ATTEMPT_CAP allows: the counter cannot run past the cap.  *)
AttemptsWithinCap ==
  \A s \in SlotName : fram["attempts"][s].val <= AttemptCap

(* Whatever combination of bus and media faults it meets, U-Boot's part of *)
(* a boot ends: once the power stays on the board comes to rest in a Linux *)
(* of the eMMC or of the SD card, or at the prompt when the eMMC gave no   *)
(* kernel, or was not to be tried, and the SD card gave none either.       *)
BootCompletes == <>[](pc \in {"emmc", "sd", "prompt"})

Contract == INSTANCE RestoreContract WITH
  latch <- Latched,
  partial <- Partial,
  running <- IF pc \in {"emmc", "sd"} THEN pc ELSE "none"

(* U-Boot's recovery implements the contract of the restore.               *)
ImplementsContract == Contract!CSpec
=============================================================================
