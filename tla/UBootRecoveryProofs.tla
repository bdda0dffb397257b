------------------------- MODULE UBootRecoveryProofs -------------------------
(***************************************************************************)
(* Why a power cut never uncovers a half-overwritten eMMC, for every span, *)
(* attempt cap and number of resets, with FRAM slots torn or not and MMC   *)
(* commands failing or not, provided the FRAM bus itself answers.          *)
(***************************************************************************)
EXTENDS UBootRecovery, TLAPS

(* The FRAM bus answers every time.                                        *)
ReliableBus == MaxI2cFaults = 0

LatchSlot == fram["needed"]["A"]

OffsetSlot == fram["offset"]["A"]

LatchSet == LatchSlot = Rec(1, 1)

CopiedBelow(n) == \A c \in Chunk : c < n => emmc[c] = "sd"

(* A resume would start in the middle of the span.                         *)
Resumable == 0 < SavedOffset /\ SavedOffset < Span

Clearing == {"clear_needed", "clear_probe", "clear_media", "clear_offset"}

(* The type invariant, and what it rests on.                               *)
TypeInv ==
  /\ TypeOK
  /\ pc = "checkpoint" => blk < Span
  /\ wr # Idle => wr.key \in Key

(* Slot B is written before slot A, always with sequence number 1.         *)
WriteOrder == wr # Idle => wr.seq = 1 /\ (wr.slot = "B" <=> wr.more)

(* Where the code can be while the latch or the offset is being written.   *)
WritesInPlace ==
  /\ wr.key = "needed" => \/ wr.val = 1 /\ pc \in {"run", "copy"}
                          \/ wr.val = 0 /\ pc = "clear_probe"
  /\ wr.key = "offset" => \/ wr.val = blk /\ blk > 0 /\ pc = "copy"
                          \/ wr.val = 0 /\ pc = "handover"
  /\ pc \in {"emmc", "sd"} => wr = Idle

(* The latch is on record, in slot A, from the first chunk to the verify,  *)
(* and as long as there is something to cover.                             *)
LatchHeld ==
  /\ pc \in {"copy", "checkpoint", "verify", "clear_needed"} /\ wr.key # "needed"
       => LatchSet
  /\ Partial => LatchSet
  /\ Resumable => LatchSet

(* How far the copy has got at each label.                                 *)
CopyProgress ==
  /\ pc \in {"count", "latch_run", "copy", "checkpoint"} => CopiedBelow(blk)
  /\ pc \in {"count", "latch_run", "checkpoint"} => blk < Span
  /\ pc = "checkpoint" => emmc[blk] = "sd"
  /\ pc = "copy" /\ wr.key = "needed" => blk < Span
  /\ pc = "copy" /\ blk = Span => wr.key = "offset" \/ OffsetSlot = Rec(Span, 1)
  /\ pc \in {"verify"} \cup Clearing => CopiedBelow(Span) /\ OffsetSlot = Rec(Span, 1)
  /\ pc \in {"handover", "emmc"} => ~Partial /\ ~Resumable

(* A saved offset is backed by copied chunks.                              *)
OffsetCovered == SavedOffset < Span => CopiedBelow(SavedOffset)

(* The inductive invariant: what the latch protects, the latch covers.     *)
IInv ==
  /\ TypeInv
  /\ WriteOrder
  /\ WritesInPlace
  /\ LatchHeld
  /\ CopyProgress
  /\ OffsetCovered
-----------------------------------------------------------------------------
(* Facts about the records.                                                *)

LEMMA ReadANat ==
  ASSUME NEW r \in RecordType
  PROVE  ReadA(r, 0) \in Nat
BY DEF RecordType, SlotType, SlotName, ReadA

LEMMA NewContentType ==
  ASSUME TypeOK
  PROVE  NewContent \in SlotType
BY DEF TypeOK, WriteType, NewContent, Rec, SlotType

LEMMA SetSlotType ==
  ASSUME TypeOK, NEW key \in Key, NEW slot \in SlotName, NEW s \in SlotType
  PROVE  SetSlot(key, slot, s) \in [Key -> RecordType]
BY DEF TypeOK, SetSlot, RecordType

LEMMA CutType ==
  ASSUME NEW old \in SlotType, NEW new \in SlotType, NEW torn,
         NEW s \in Cut(old, new, torn)
  PROVE  s \in SlotType
<1>1. Garbage \in SlotType
  BY DEF Garbage, SlotType
<1>2. s \in {old, new, Garbage}
  BY DEF Cut
<1> QED BY <1>1, <1>2

LEMMA StartWriteType ==
  ASSUME NEW key \in Key, NEW val \in Nat, StartWrite(key, val)
  PROVE  wr' \in WriteType /\ wr'.key \in Key
BY DEF StartWrite, WriteType, SlotName

LEMMA SlotsAreTyped ==
  ASSUME TypeOK, NEW key \in Key, NEW slot \in SlotName
  PROVE  fram[key][slot] \in SlotType
BY DEF TypeOK, RecordType
-----------------------------------------------------------------------------
(* Every step keeps the type invariant.                                    *)

LEMMA TypeInit == Init => TypeInv
<1>1. ASSUME Init PROVE TypeInv
  <2>1. Garbage \in SlotType /\ Rec(0, 1) \in SlotType
    BY DEF Garbage, Rec, SlotType
  <2>2. fram \in [Key -> RecordType]
    BY <1>1, <2>1 DEF Init, RecordType
  <2>3. wr \in WriteType
    BY <1>1 DEF Init, Idle, WriteType, SlotName
  <2>4. emmc \in [Chunk -> Content]
    BY <1>1 DEF Init, Content
  <2>5. blk \in 0 .. Span
    BY <1>1, SpanAssumption DEF Init
  <2> QED
    BY <1>1, <2>2, <2>3, <2>4, <2>5 DEF Init, TypeInv, TypeOK, UBootPc
<1> QED BY <1>1

LEMMA TypeStep == TypeInv /\ [Next]_vars => TypeInv'
<1> SUFFICES ASSUME TypeInv, [Next]_vars PROVE TypeInv'
  OBVIOUS
<1> USE SpanAssumption, LimitAssumption DEF TypeInv
<1>key. Key = {"fails", "needed", "attempts", "probe_ok", "media", "offset"}
  BY DEF Key
<1>read. ASSUME NEW key \in Key PROVE ReadA(fram[key], 0) \in Nat
  BY ReadANat DEF TypeOK
<1>fault. ASSUME I2cFault PROVE faults' \in Nat
  BY <1>fault DEF I2cFault, TypeOK
<1>got. ASSUME NEW key \in Key, NEW got \in {0, ReadA(fram[key], 0)},
               FramRead(key, got)
        PROVE  got \in Nat /\ faults' \in Nat
  BY <1>got, <1>read, <1>fault DEF FramRead, TypeOK
<1>slot. ASSUME NEW s \in SlotType, wr # Idle, fram' = SetSlot(wr.key, wr.slot, s)
         PROVE  fram' \in [Key -> RecordType]
  BY <1>slot, SetSlotType DEF TypeOK, WriteType
<1>cut. ASSUME wr # Idle, NEW torn,
               NEW s \in Cut(fram[wr.key][wr.slot], NewContent, torn)
        PROVE  s \in SlotType
  <2>1. fram[wr.key][wr.slot] \in SlotType
    BY <1>cut, SlotsAreTyped DEF TypeOK, WriteType
  <2> QED BY <1>cut, <2>1, NewContentType, CutType
<1>idle. Idle \in WriteType
  BY DEF Idle, WriteType, SlotName
<1>chunk. ASSUME blk < Span, NEW left \in CutChunk(blk),
                 emmc' = [emmc EXCEPT ![blk] = left]
          PROVE  emmc' \in [Chunk -> Content]
  <2>1. blk \in Chunk
    BY <1>chunk DEF TypeOK, Chunk
  <2>2. left \in Content
    BY <2>1 DEF TypeOK, CutChunk, Content
  <2> QED BY <1>chunk, <2>2 DEF TypeOK
<1>clear. ASSUME NEW label, NEW key \in Key, NEW val \in Nat, NEW next \in UBootPc,
                 next # "checkpoint", Clear(label, key, val, next)
          PROVE  TypeInv'
  BY <1>clear, StartWriteType DEF Clear, TypeOK
<1>1. CASE WriteSlot
  <2>1. fram' \in [Key -> RecordType]
    BY <1>1, <1>slot, NewContentType DEF WriteSlot
  <2>2. wr' \in WriteType /\ (wr' # Idle => wr'.key \in Key)
    BY <1>1, <1>idle DEF WriteSlot, TypeOK, WriteType, SlotName, Other
  <2> QED BY <1>1, <2>1, <2>2 DEF WriteSlot, TypeOK
<1>2. CASE WriteSlotFails
  <2>1. PICK s \in Cut(fram[wr.key][wr.slot], NewContent, TRUE) :
          fram' = SetSlot(wr.key, wr.slot, s)
    BY <1>2 DEF WriteSlotFails
  <2>2. fram' \in [Key -> RecordType]
    BY <1>2, <2>1, <1>cut, <1>slot DEF WriteSlotFails
  <2> QED BY <1>2, <2>2, <1>idle, <1>fault DEF WriteSlotFails, TypeOK
<1>3. CASE SelectBus
  BY <1>3, <1>fault DEF SelectBus, TypeOK, UBootPc
<1>4. CASE Probe
  <2>1. PICK ok \in ProbeResults :
          /\ StartWrite("probe_ok", IF ok THEN 1 ELSE 0)
          /\ pc' = IF ok THEN "read_latch" ELSE "bump"
    BY <1>4 DEF Probe
  <2> QED BY <1>4, <2>1, <1>key, StartWriteType DEF Probe, TypeOK, UBootPc
<1>5. CASE BumpFails
  <2>1. PICK fails \in {0, ReadA(fram["fails"], 0)} :
          FramRead("fails", fails) /\ StartWrite("fails", fails + 1)
    BY <1>5 DEF BumpFails
  <2>2. fails \in Nat /\ faults' \in Nat
    BY <2>1, <1>got, <1>key
  <2> QED BY <1>5, <2>1, <2>2, <1>key, StartWriteType DEF BumpFails, TypeOK, UBootPc
<1>6. CASE LatchNeeded
  BY <1>6, <1>key, StartWriteType DEF LatchNeeded, TypeOK, UBootPc
<1>7. CASE ReadLatch
  <2>1. faults' \in Nat
    BY <1>7, <1>got, <1>key DEF ReadLatch
  <2> QED BY <1>7, <2>1 DEF ReadLatch, TypeOK, UBootPc
<1>8. CASE RefuseRecovery
  BY <1>8, <1>fault DEF RefuseRecovery, TypeOK, UBootPc
<1>9. CASE ReadOffset
  <2>1. PICK offset \in {0, SavedOffset} :
          FramRead("offset", offset) /\ blk' = StartBlk(offset)
    BY <1>9 DEF ReadOffset
  <2>2. offset \in Nat /\ faults' \in Nat
    BY <2>1, <1>got, <1>key DEF SavedOffset
  <2>3. blk' \in 0 .. Span
    BY <2>1, <2>2 DEF StartBlk
  <2> QED BY <1>9, <2>2, <2>3 DEF ReadOffset, TypeOK, UBootPc
<1>10. CASE CountAttempt
  <2>1. PICK attempts \in {0, ReadA(fram["attempts"], 0)} :
          /\ FramRead("attempts", attempts)
          /\ \/ AtCap(attempts) /\ pc' = "fallback" /\ UNCHANGED wr
             \/ /\ ~AtCap(attempts)
                /\ pc' = "latch_run"
                /\ IF blk = 0 THEN StartWrite("attempts", attempts + 1)
                              ELSE UNCHANGED wr
    BY <1>10 DEF CountAttempt
  <2>2. attempts \in Nat /\ faults' \in Nat
    BY <2>1, <1>got, <1>key
  <2>3. wr' \in WriteType /\ (wr' # Idle => wr'.key \in Key)
    BY <2>1, <2>2, <1>key, StartWriteType DEF TypeOK
  <2> QED BY <1>10, <2>1, <2>2, <2>3 DEF CountAttempt, TypeOK, UBootPc
<1>11. CASE LatchRun
  BY <1>11, <1>key, StartWriteType DEF LatchRun, TypeOK, UBootPc
<1>12. CASE CopyChunk
  <2>1. emmc' \in [Chunk -> Content]
    BY <1>12 DEF CopyChunk, TypeOK, Content
  <2> QED BY <1>12, <2>1 DEF CopyChunk, TypeOK, UBootPc
<1>13. CASE CopyFails
  <2>1. emmc' \in [Chunk -> Content]
    BY <1>13, <1>chunk DEF CopyFails
  <2> QED BY <1>13, <2>1 DEF CopyFails, TypeOK, UBootPc
<1>14. CASE Checkpoint
  <2>1. blk \in Nat /\ blk + 1 \in 0 .. Span
    BY <1>14 DEF Checkpoint, At, TypeOK
  <2>2. /\ wr' \in WriteType /\ (wr' # Idle => wr'.key \in Key)
        /\ faults' \in Nat
    BY <1>14, <2>1, <1>key, <1>fault, StartWriteType DEF Checkpoint, TypeOK
  <2> QED BY <1>14, <2>1, <2>2 DEF Checkpoint, TypeOK, UBootPc
<1>15. CASE CopyDone
  BY <1>15 DEF CopyDone, TypeOK, UBootPc
<1>16. CASE Verify
  BY <1>16 DEF Verify, TypeOK, UBootPc
<1>17. CASE ClearNeeded \/ ClearProbe \/ ClearMedia \/ ClearOffset
  BY <1>17, <1>clear, <1>key
     DEF ClearNeeded, ClearProbe, ClearMedia, ClearOffset, UBootPc
<1>18. CASE ClearSkipped
  BY <1>18, <1>fault DEF ClearSkipped, TypeOK, UBootPc
<1>19. CASE Fallback
  BY <1>19 DEF Fallback, LastTarget, TypeOK, UBootPc
<1>20. CASE Handover
  BY <1>20 DEF Handover, LastTarget, TypeOK, UBootPc
<1>21. CASE PowerCut
  <2>1. fram' \in [Key -> RecordType]
    <3>1. CASE wr = Idle
      BY <1>21, <3>1 DEF PowerCut, TypeOK
    <3>2. CASE wr # Idle
      <4>1. PICK s \in Cut(fram[wr.key][wr.slot], NewContent, TornWrites) :
              fram' = SetSlot(wr.key, wr.slot, s)
        BY <1>21, <3>2 DEF PowerCut
      <4> QED BY <3>2, <4>1, <1>cut, <1>slot
    <3> QED BY <3>1, <3>2
  <2>2. emmc' \in [Chunk -> Content]
    <3>1. CASE At("copy") /\ blk < Span
      BY <1>21, <3>1, <1>chunk DEF PowerCut
    <3>2. CASE ~(At("copy") /\ blk < Span)
      BY <1>21, <3>2 DEF PowerCut, TypeOK
    <3> QED BY <3>1, <3>2
  <2> QED BY <1>21, <2>1, <2>2, <1>idle DEF PowerCut, TypeOK, UBootPc
<1>22. CASE EmmcDecays
  <2>1. emmc' \in [Chunk -> Content]
    BY <1>22 DEF EmmcDecays, Content
  <2> QED BY <1>22, <2>1 DEF EmmcDecays, TypeOK
<1>23. CASE UNCHANGED vars
  BY <1>23 DEF vars, TypeOK
<1> QED
  BY <1>1, <1>2, <1>3, <1>4, <1>5, <1>6, <1>7, <1>8, <1>9, <1>10, <1>11, <1>12,
     <1>13, <1>14, <1>15, <1>16, <1>17, <1>18, <1>19, <1>20, <1>21, <1>22, <1>23
     DEF Next, UBootStep

(* Every variable keeps its type, however writes are torn and buses fail.  *)
THEOREM TypeCorrect == Spec => []TypeOK
<1>1. TypeInv => TypeOK
  BY DEF TypeInv
<1> QED BY <1>1, TypeInit, TypeStep, PTL DEF Spec
-----------------------------------------------------------------------------
(* The invariant of the latch.                                             *)

LEMMA SavedOffsetIs ==
  SavedOffset = IF OffsetSlot.valid THEN OffsetSlot.val ELSE 0
BY DEF SavedOffset, OffsetSlot, ReadA

LEMMA LatchReads == LatchSet => Latched
BY DEF LatchSet, LatchSlot, Latched, ReadA, Rec

LEMMA OffsetAtSpan == OffsetSlot = Rec(Span, 1) => SavedOffset = Span /\ ~Resumable
BY SpanAssumption, SavedOffsetIs DEF Rec, Resumable

LEMMA CopiedIsWhole == CopiedBelow(Span) => ~Partial
BY SpanAssumption DEF CopiedBelow, Partial, Chunk

LEMMA SameEmmc ==
  ASSUME UNCHANGED emmc
  PROVE  (Partial' <=> Partial) /\ \A n : CopiedBelow(n)' <=> CopiedBelow(n)
BY DEF Partial, CopiedBelow

LEMMA SameFram ==
  ASSUME UNCHANGED fram
  PROVE  /\ OffsetSlot' = OffsetSlot /\ SavedOffset' = SavedOffset
         /\ (LatchSet' <=> LatchSet) /\ (Resumable' <=> Resumable)
BY DEF OffsetSlot, SavedOffset, LatchSet, LatchSlot, Resumable

(* Overwriting a chunk with the SD card's, wholly or not, uncopies none.   *)
LEMMA CopyingIsMonotone ==
  ASSUME TypeInv, blk < Span, NEW left,
         left = "sd" \/ left \in CutChunk(blk),
         emmc' = [emmc EXCEPT ![blk] = left],
         NEW n, CopiedBelow(n)
  PROVE  CopiedBelow(n)'
BY DEF TypeInv, TypeOK, Chunk, CutChunk, CopiedBelow

(* Only a write of slot A is seen by U-Boot's readers.                     *)
LEMMA SlotEffect ==
  ASSUME TypeInv, wr # Idle, NEW s, fram' = SetSlot(wr.key, wr.slot, s)
  PROVE  /\ LatchSlot' = IF wr.key = "needed" /\ wr.slot = "A" THEN s ELSE LatchSlot
         /\ OffsetSlot' = IF wr.key = "offset" /\ wr.slot = "A" THEN s ELSE OffsetSlot
<1>1. wr.key \in Key /\ wr.slot \in SlotName
  BY DEF TypeInv, TypeOK, WriteType
<1>2. fram \in [Key -> [SlotName -> SlotType]]
  BY DEF TypeInv, TypeOK, RecordType
<1>3. {"needed", "offset"} \subseteq Key /\ "A" \in SlotName
  BY DEF Key, SlotName
<1> QED BY <1>1, <1>2, <1>3 DEF SetSlot, LatchSlot, OffsetSlot

LEMMA BusAnswers == ReliableBus /\ TypeInv => ~I2cFault
BY DEF ReliableBus, TypeInv, TypeOK, I2cFault

LEMMA IInvInit == Init => IInv
<1> SUFFICES ASSUME Init PROVE IInv
  OBVIOUS
<1>1. SavedOffset = 0
  BY DEF Init, SavedOffset, ReadA, Key, SlotName, Garbage, Rec
<1>2. ~Partial
  BY SpanAssumption DEF Init, Partial, Chunk
<1>3. wr.key = "none" /\ wr = Idle /\ pc = "reset"
  BY DEF Init, Idle
<1>4. ~Resumable
  BY <1>1 DEF Resumable
<1>5. CopiedBelow(SavedOffset)
  BY <1>1 DEF CopiedBelow, Chunk
<1> QED
  BY <1>2, <1>3, <1>4, <1>5, TypeInit
     DEF IInv, WriteOrder, WritesInPlace, LatchHeld, CopyProgress, Clearing,
         OffsetCovered
-----------------------------------------------------------------------------
LEMMA IInvStep == ReliableBus /\ IInv /\ [Next]_vars => IInv'
<1> SUFFICES ASSUME ReliableBus, IInv, [Next]_vars PROVE IInv'
  OBVIOUS
<1>type. TypeInv /\ TypeInv'
  BY TypeStep DEF IInv
<1>bus. ~I2cFault
  BY <1>type, BusAnswers
<1>idle. Idle.key = "none"
  BY DEF Idle
<1>blk. blk \in 0 .. Span /\ Span \in Nat /\ Span > 0
  BY <1>type, SpanAssumption DEF TypeInv, TypeOK
<1>start. ASSUME NEW key, NEW val, StartWrite(key, val)
          PROVE  wr' # Idle /\ wr'.key = key /\ wr'.val = val /\ WriteOrder'
  BY <1>start DEF StartWrite, Idle, WriteOrder
<1>suff. ASSUME WriteOrder', WritesInPlace', LatchHeld', CopyProgress', OffsetCovered'
         PROVE  IInv'
  BY <1>suff, <1>type DEF IInv
<1> USE DEF IInv, WriteOrder, WritesInPlace, LatchHeld, CopyProgress, OffsetCovered,
            Clearing
<1>same. ASSUME UNCHANGED <<fram, emmc>>
         PROVE  /\ OffsetSlot' = OffsetSlot /\ SavedOffset' = SavedOffset
                /\ (LatchSet' <=> LatchSet) /\ (Resumable' <=> Resumable)
                /\ (Partial' <=> Partial)
                /\ \A n : CopiedBelow(n)' <=> CopiedBelow(n)
  BY <1>same, SameEmmc, SameFram
<1>1. CASE WriteSlot
  <2>1. /\ wr # Idle /\ UNCHANGED <<emmc, pc, blk>>
        /\ fram' = SetSlot(wr.key, wr.slot, Rec(wr.val, 1))
        /\ wr' = IF wr.more THEN [wr EXCEPT !.slot = Other(wr.slot), !.more = FALSE]
                            ELSE Idle
    BY <1>1 DEF WriteSlot, NewContent
  <2>2. /\ LatchSlot' = IF wr.key = "needed" /\ wr.slot = "A"
                        THEN Rec(wr.val, 1) ELSE LatchSlot
        /\ OffsetSlot' = IF wr.key = "offset" /\ wr.slot = "A"
                         THEN Rec(wr.val, 1) ELSE OffsetSlot
    BY <2>1, <1>type, SlotEffect
  <2>3. wr.slot \in {"A", "B"} /\ wr \in WriteType
    BY <1>type DEF TypeInv, TypeOK, WriteType, SlotName
  <2>4. CASE wr.slot = "B"
    <3>1. /\ wr'.key = wr.key /\ wr'.val = wr.val /\ wr'.seq = 1
          /\ wr'.slot = "A" /\ wr'.more = FALSE
      BY <2>1, <2>3, <2>4 DEF Other, WriteType
    <3>2. /\ OffsetSlot' = OffsetSlot /\ SavedOffset' = SavedOffset
          /\ (LatchSet' <=> LatchSet) /\ (Resumable' <=> Resumable)
      BY <2>2, <2>4, SavedOffsetIs DEF LatchSet, Resumable, SavedOffset, OffsetSlot, ReadA
    <3>3. pc \notin {"emmc", "sd"}
      BY <2>1
    <3> QED BY <1>suff, <2>1, <3>1, <3>2, <3>3, SameEmmc
  <2>5. CASE wr.slot = "A"
    <3>1. wr' = Idle /\ wr'.key = "none"
      BY <2>1, <2>5, <1>idle
    <3>2. SavedOffset' = IF wr.key = "offset" THEN wr.val ELSE SavedOffset
      BY <2>2, <2>5, SavedOffsetIs DEF SavedOffset, OffsetSlot, ReadA, Rec
    <3>3. CASE wr.key = "needed" /\ wr.val = 1
      <4>1. LatchSet' /\ OffsetSlot' = OffsetSlot /\ (Resumable' <=> Resumable)
        BY <2>2, <2>5, <3>2, <3>3 DEF LatchSet, Resumable
      <4> QED BY <1>suff, <2>1, <3>1, <3>2, <3>3, <4>1, SameEmmc
    <3>4. CASE wr.key = "needed" /\ wr.val = 0
      <4>1. OffsetSlot' = OffsetSlot /\ (Resumable' <=> Resumable)
        BY <2>2, <3>2, <3>4 DEF Resumable
      <4>2. pc = "clear_probe" /\ ~Partial /\ ~Resumable
        BY <3>4, CopiedIsWhole, OffsetAtSpan
      <4> QED BY <1>suff, <2>1, <3>1, <3>2, <3>4, <4>1, <4>2, SameEmmc
    <3>5. CASE wr.key = "offset"
      <4>1. LatchSet' <=> LatchSet
        BY <2>2, <3>5 DEF LatchSet
      <4>2. CASE pc = "copy" /\ wr.val = blk
        <5>1. LatchSet /\ CopiedBelow(blk) /\ SavedOffset' = blk
          BY <3>2, <3>5, <4>2
        <5>2. OffsetSlot' = Rec(blk, 1)
          BY <2>2, <2>5, <3>5, <4>2
        <5> QED BY <1>suff, <2>1, <3>1, <4>1, <4>2, <5>1, <5>2, SameEmmc
      <4>3. CASE pc = "handover" /\ wr.val = 0
        <5>1. SavedOffset' = 0 /\ ~Resumable'
          BY <3>2, <3>5, <4>3 DEF Resumable
        <5>2. CopiedBelow(0)'
          BY DEF CopiedBelow, Chunk
        <5> QED BY <1>suff, <2>1, <3>1, <4>1, <4>3, <5>1, <5>2, SameEmmc
      <4> QED BY <3>5, <4>2, <4>3
    <3>6. CASE wr.key \notin {"needed", "offset"}
      <4>1. /\ OffsetSlot' = OffsetSlot /\ (LatchSet' <=> LatchSet)
            /\ (Resumable' <=> Resumable)
        BY <2>2, <3>2, <3>6 DEF LatchSet, Resumable
      <4> QED BY <1>suff, <2>1, <3>1, <3>2, <3>6, <4>1, SameEmmc
    <3> QED BY <3>3, <3>4, <3>5, <3>6
  <2> QED BY <2>3, <2>4, <2>5
<1>2. CASE WriteSlotFails \/ RefuseRecovery \/ ClearSkipped
  BY <1>2, <1>bus DEF WriteSlotFails, RefuseRecovery, ClearSkipped
<1>3. CASE SelectBus
  BY <1>3, <1>bus, <1>same, <1>suff, <1>idle DEF SelectBus, At
<1>4. CASE Probe
  <2>1. StartWrite("probe_ok", wr'.val) /\ pc' \in {"read_latch", "bump"}
    BY <1>4, <1>start DEF Probe
  <2> QED BY <1>4, <2>1, <1>start, <1>same, <1>suff DEF Probe
<1>5. CASE BumpFails
  <2>1. StartWrite("fails", wr'.val)
    BY <1>5, <1>start DEF BumpFails
  <2> QED BY <1>5, <2>1, <1>start, <1>same, <1>suff DEF BumpFails
<1>6. CASE LatchNeeded
  BY <1>6, <1>start, <1>same, <1>suff DEF LatchNeeded
<1>7. CASE ReadLatch
  <2>1. pc' = "run" \/ (pc' = "handover" /\ ReadA(fram["needed"], 0) = 0)
    <3>1. PICK latch \in {0, ReadA(fram["needed"], 0)} :
            /\ FramRead("needed", latch)
            /\ pc' = IF latch # 0 THEN "run" ELSE "handover"
      BY <1>7 DEF ReadLatch
    <3>2. latch = ReadA(fram["needed"], 0)
      BY <3>1, <1>bus DEF FramRead
    <3> QED BY <3>1, <3>2
  <2>2. pc' = "handover" => ~Partial /\ ~Resumable
    BY <2>1, LatchReads DEF Latched
  <2> QED BY <1>7, <2>1, <2>2, <1>idle, <1>same, <1>suff DEF ReadLatch, At
<1>8. CASE ReadOffset
  <2>1. blk' = StartBlk(SavedOffset)
    BY <1>8, <1>bus DEF ReadOffset, FramRead, SavedOffset
  <2>2. SavedOffset \in Nat
    BY <1>type, ReadANat DEF SavedOffset, TypeInv, TypeOK, Key
  <2>3. blk' < Span /\ CopiedBelow(blk')
    BY <2>1, <2>2, <1>blk DEF StartBlk, CopiedBelow, Chunk
  <2>4. CopiedBelow(blk)'
    BY <1>8, <2>3 DEF ReadOffset, CopiedBelow
  <2> QED BY <1>8, <2>3, <2>4, <1>idle, <1>same, <1>suff DEF ReadOffset, At
<1>9. CASE CountAttempt
  <2>1. \/ pc' = "fallback" /\ UNCHANGED wr
        \/ pc' = "latch_run" /\ (UNCHANGED wr \/ StartWrite("attempts", wr'.val))
    BY <1>9, <1>start DEF CountAttempt
  <2> QED BY <1>9, <2>1, <1>start, <1>idle, <1>same, <1>suff DEF CountAttempt, At
<1>10. CASE LatchRun
  BY <1>10, <1>start, <1>same, <1>suff, <1>blk DEF LatchRun, At
<1>11. CASE CopyChunk
  <2>1. /\ wr = Idle /\ wr.key = "none" /\ LatchSet /\ CopiedBelow(blk) /\ pc = "copy"
        /\ blk < Span /\ pc' = "checkpoint" /\ UNCHANGED <<fram, wr, blk>>
        /\ emmc' = [emmc EXCEPT ![blk] = "sd"]
    BY <1>11, <1>idle DEF CopyChunk, At
  <2>2. \A n : CopiedBelow(n) => CopiedBelow(n)'
    BY <2>1, <1>type, CopyingIsMonotone
  <2>3. CopiedBelow(blk)'
    BY <2>1, <2>2 DEF CopiedBelow
  <2>4. emmc'[blk] = "sd"
    BY <2>1, <1>blk, <1>type DEF TypeInv, TypeOK, Chunk
  <2>5. OffsetCovered'
    BY <2>1, <2>2, SameFram DEF CopiedBelow
  <2> QED BY <2>1, <2>3, <2>4, <2>5, <1>suff, SameFram
<1>12. CASE CopyFails
  <2>1. /\ wr = Idle /\ wr.key = "none" /\ LatchSet /\ pc = "copy" /\ blk < Span
        /\ pc' = "fallback" /\ UNCHANGED <<fram, wr, blk>>
        /\ \E left \in CutChunk(blk) : emmc' = [emmc EXCEPT ![blk] = left]
    BY <1>12, <1>idle DEF CopyFails, At
  <2>2. \A n : CopiedBelow(n) => CopiedBelow(n)'
    BY <2>1, <1>type, CopyingIsMonotone
  <2>3. OffsetCovered'
    BY <2>1, <2>2, SameFram DEF CopiedBelow
  <2> QED BY <2>1, <2>3, <1>suff, SameFram
<1>13. CASE Checkpoint
  <2>1. /\ wr = Idle /\ wr.key = "none" /\ LatchSet /\ CopiedBelow(blk)
        /\ emmc[blk] = "sd" /\ pc = "checkpoint" /\ pc' = "copy"
        /\ blk' = blk + 1 /\ StartWrite("offset", blk + 1) /\ UNCHANGED <<fram, emmc>>
    BY <1>13, <1>bus, <1>idle DEF Checkpoint, At
  <2>2. CopiedBelow(blk)'
    BY <2>1, <1>blk DEF CopiedBelow, Chunk
  <2> QED BY <2>1, <2>2, <1>start, <1>same, <1>suff, <1>blk
<1>14. CASE CopyDone
  <2>1. /\ wr = Idle /\ wr.key = "none" /\ pc = "copy" /\ blk = Span /\ pc' = "verify"
        /\ CopiedBelow(Span) /\ OffsetSlot = Rec(Span, 1) /\ LatchSet
        /\ UNCHANGED <<fram, wr, emmc, blk>>
    BY <1>14, <1>idle DEF CopyDone, At
  <2>2. CopiedBelow(Span)'
    BY <2>1, <1>same
  <2> QED BY <2>1, <2>2, <1>same, <1>suff
<1>15. CASE Verify
  <2>1. pc = "verify" /\ wr = Idle /\ pc' \in {"clear_needed", "fallback"}
    BY <1>15 DEF Verify, At
  <2> QED BY <1>15, <2>1, <1>idle, <1>same, <1>suff DEF Verify
<1>16. CASE ClearNeeded \/ ClearProbe \/ ClearMedia
  BY <1>16, <1>start, <1>same, <1>suff
     DEF ClearNeeded, ClearProbe, ClearMedia, Clear, At
<1>17. CASE ClearOffset
  <2>1. pc = "clear_offset" /\ pc' = "handover" /\ StartWrite("offset", 0)
    BY <1>17 DEF ClearOffset, Clear, At
  <2>2. ~Partial /\ ~Resumable
    BY <2>1, CopiedIsWhole, OffsetAtSpan
  <2> QED BY <1>17, <2>1, <2>2, <1>start, <1>same, <1>suff DEF ClearOffset, Clear
<1>18. CASE Fallback
  BY <1>18, <1>idle, <1>same, <1>suff DEF Fallback, LastTarget, At
<1>19. CASE Handover
  <2>1. pc = "handover" /\ wr = Idle /\ pc' \in {"emmc", "sd", "prompt"}
    BY <1>19 DEF Handover, LastTarget, At
  <2> QED BY <1>19, <2>1, <1>idle, <1>same, <1>suff DEF Handover
<1>20. CASE PowerCut
  <2>1. pc' = "reset" /\ wr' = Idle /\ wr'.key = "none"
    BY <1>20, <1>idle DEF PowerCut
  <2>2. (Partial' => LatchSet') /\ (Resumable' => LatchSet') /\ OffsetCovered'
    <3>1. CASE At("copy") /\ blk < Span
      <4>1. UNCHANGED fram /\ LatchSet
        BY <1>20, <3>1, <1>idle DEF PowerCut, At
      <4>2. \A n : CopiedBelow(n) => CopiedBelow(n)'
        BY <1>20, <3>1, <1>type, CopyingIsMonotone DEF PowerCut
      <4>3. OffsetCovered'
        BY <4>1, <4>2, SameFram DEF CopiedBelow
      <4> QED BY <4>1, <4>3, SameFram
    <3>2. CASE ~(At("copy") /\ blk < Span) /\ wr = Idle
      BY <1>20, <3>2, <1>same DEF PowerCut
    <3>3. CASE wr # Idle
      <4>1. PICK s \in Cut(fram[wr.key][wr.slot], Rec(wr.val, 1), TornWrites) :
              fram' = SetSlot(wr.key, wr.slot, s)
        BY <1>20, <3>3 DEF PowerCut, NewContent
      <4>2. UNCHANGED emmc
        BY <1>20, <3>3 DEF PowerCut, At
      <4>3. /\ LatchSlot' = IF wr.key = "needed" /\ wr.slot = "A" THEN s ELSE LatchSlot
            /\ OffsetSlot' = IF wr.key = "offset" /\ wr.slot = "A" THEN s ELSE OffsetSlot
        BY <3>3, <4>1, <1>type, SlotEffect
      <4>4. CASE wr.key \in {"needed", "offset"} /\ wr.slot = "A"
        <5>1. CASE wr.key = "needed"
          <6>1. OffsetSlot' = OffsetSlot /\ SavedOffset' = SavedOffset
            BY <4>3, <5>1, SavedOffsetIs DEF SavedOffset, OffsetSlot, ReadA
          <6>2. LatchSet => LatchSet' \/ wr.val = 0
            BY <4>1, <4>3, <4>4, <5>1 DEF Cut, LatchSet, LatchSlot
          <6>3. wr.val = 0 => ~Partial /\ ~Resumable
            BY <5>1, CopiedIsWhole, OffsetAtSpan
          <6> QED BY <4>2, <6>1, <6>2, <6>3, SameEmmc DEF Resumable
        <5>2. CASE wr.key = "offset"
          <6>1. LatchSet' <=> LatchSet
            BY <4>3, <5>2 DEF LatchSet
          <6>2. s \in {OffsetSlot, Rec(wr.val, 1), Garbage}
            BY <4>1, <4>4, <5>2 DEF Cut, OffsetSlot
          <6>3. SavedOffset' \in {SavedOffset, wr.val, 0}
            BY <4>3, <4>4, <5>2, <6>2, SavedOffsetIs
               DEF SavedOffset, OffsetSlot, ReadA, Rec, Garbage
          <6>4. CopiedBelow(0)
            BY DEF CopiedBelow, Chunk
          <6> QED BY <4>2, <5>2, <6>1, <6>3, <6>4, SameEmmc DEF Resumable
        <5> QED BY <4>4, <5>1, <5>2
      <4>5. CASE ~(wr.key \in {"needed", "offset"} /\ wr.slot = "A")
        <5>1. /\ SavedOffset' = SavedOffset /\ (LatchSet' <=> LatchSet)
              /\ (Resumable' <=> Resumable)
          BY <4>3, <4>5, SavedOffsetIs
             DEF SavedOffset, OffsetSlot, ReadA, LatchSet, Resumable
        <5> QED BY <4>2, <5>1, SameEmmc
      <4> QED BY <4>4, <4>5
    <3> QED BY <3>1, <3>2, <3>3
  <2> QED BY <2>1, <2>2, <1>suff
<1>21. CASE EmmcDecays
  <2>1. /\ pc = "emmc" /\ UNCHANGED <<fram, wr, pc, blk>> /\ ~Resumable
        /\ \E bad \in Chunk :
             emmc' = [c \in Chunk |-> IF c = bad THEN "bad" ELSE "orig"]
    BY <1>21 DEF EmmcDecays
  <2>2. ~Partial'
    BY <2>1, SpanAssumption DEF Partial, Chunk
  <2>3. SavedOffset \in Nat
    BY <1>type, ReadANat DEF SavedOffset, TypeInv, TypeOK, Key
  <2>4. OffsetCovered'
    BY <2>1, <2>3, SameFram DEF Resumable, CopiedBelow, Chunk
  <2> QED BY <2>1, <2>2, <2>4, <1>suff, SameFram
<1>22. CASE UNCHANGED vars
  BY <1>22, <1>same, <1>suff DEF vars
<1> QED
  BY <1>1, <1>2, <1>3, <1>4, <1>5, <1>6, <1>7, <1>8, <1>9, <1>10, <1>11, <1>12,
     <1>13, <1>14, <1>15, <1>16, <1>17, <1>18, <1>19, <1>20, <1>21, <1>22
     DEF Next, UBootStep
-----------------------------------------------------------------------------
(* Under a FRAM bus that answers, radsat_fram_run_recovery and the hook    *)
(* around it keep the inductive invariant in every reachable state.        *)
THEOREM Invariance == ReliableBus => (Spec => []IInv)
<1> SUFFICES ASSUME ReliableBus PROVE Spec => []IInv
  OBVIOUS
<1>1. IInv /\ [Next]_vars => IInv'
  BY IInvStep
<1> QED BY <1>1, IInvInit, PTL DEF Spec

(* "A power cut mid-copy still boots SD": a half-overwritten eMMC is under *)
(* the latch in every reachable state, whatever a cut tore.                *)
THEOREM LatchCoversPartialCopy == ReliableBus => (Spec => []PartialCopyStaysLatched)
<1> SUFFICES ASSUME ReliableBus PROVE Spec => []PartialCopyStaysLatched
  OBVIOUS
<1>1. IInv => PartialCopyStaysLatched
  BY LatchReads DEF IInv, LatchHeld, PartialCopyStaysLatched
<1> QED BY <1>1, Invariance, PTL

(* The hook never hands over to an eMMC that mixes two images.             *)
THEOREM PartialCopyNeverBooted == ReliableBus => (Spec => []NoBootOfPartialCopy)
<1> SUFFICES ASSUME ReliableBus PROVE Spec => []NoBootOfPartialCopy
  OBVIOUS
<1>1. IInv => NoBootOfPartialCopy
  BY DEF IInv, CopyProgress, NoBootOfPartialCopy
<1> QED BY <1>1, Invariance, PTL

(* The offset a resume starts from is always backed by copied chunks.      *)
THEOREM ResumeIsCovered == ReliableBus => (Spec => []CheckpointCovered)
<1> SUFFICES ASSUME ReliableBus PROVE Spec => []CheckpointCovered
  OBVIOUS
<1>1. IInv => CheckpointCovered
  <2> SUFFICES ASSUME IInv, SavedOffset < Span
               PROVE  \A c \in 0 .. SavedOffset - 1 : emmc[c] = "sd"
    BY DEF CheckpointCovered
  <2>1. SavedOffset \in Nat
    BY ReadANat DEF SavedOffset, IInv, TypeInv, TypeOK, Key
  <2> QED BY <2>1, SpanAssumption DEF IInv, OffsetCovered, CopiedBelow, Chunk
<1> QED BY <1>1, Invariance, PTL
-----------------------------------------------------------------------------
(* The attempt counter, with or without faults of the bus.                 *)
AttemptsInv ==
  /\ TypeInv
  /\ AttemptsWithinCap
  /\ wr.key = "attempts" => wr.val <= AttemptCap

LEMMA AttemptsInit == Init => AttemptsInv
<1> SUFFICES ASSUME Init PROVE AttemptsInv
  OBVIOUS
<1>1. wr.key = "none"
  BY DEF Init, Idle
<1>2. \A s \in SlotName : fram["attempts"][s].val = 0
  <2>1. PICK r \in {Garbage, Rec(0, 1)} :
               fram = [k \in Key |-> [s \in SlotName |-> r]]
    BY DEF Init
  <2>2. "attempts" \in Key /\ r.val = 0
    BY DEF Key, Garbage, Rec
  <2> QED BY <2>1, <2>2
<1> QED BY <1>1, <1>2, TypeInit, LimitAssumption DEF AttemptsInv, AttemptsWithinCap

(* A slot of a record holds what it held, what is written, or garbage.     *)
LEMMA AttemptSlots ==
  ASSUME AttemptsInv, wr # Idle,
         NEW s \in {fram[wr.key][wr.slot], NewContent, Garbage},
         fram' = SetSlot(wr.key, wr.slot, s)
  PROVE  AttemptsWithinCap'
<1>1. wr.key \in Key /\ wr.slot \in SlotName
  BY DEF AttemptsInv, TypeInv, TypeOK, WriteType
<1>2. fram \in [Key -> [SlotName -> SlotType]] /\ "attempts" \in Key
  BY DEF AttemptsInv, TypeInv, TypeOK, RecordType, Key
<1>3. CASE wr.key # "attempts"
  <2>1. fram'["attempts"] = fram["attempts"]
    BY <1>1, <1>2, <1>3 DEF SetSlot
  <2> QED BY <2>1 DEF AttemptsInv, AttemptsWithinCap
<1>4. CASE wr.key = "attempts"
  <2>1. s.val <= AttemptCap
    BY <1>1, <1>4, LimitAssumption
       DEF AttemptsInv, AttemptsWithinCap, NewContent, Rec, Garbage
  <2>2. \A t \in SlotName : fram'["attempts"][t] = IF t = wr.slot THEN s
                                                   ELSE fram["attempts"][t]
    BY <1>1, <1>2, <1>4 DEF SetSlot
  <2> QED BY <2>1, <2>2 DEF AttemptsInv, AttemptsWithinCap
<1> QED BY <1>3, <1>4

LEMMA AttemptsStep == AttemptsInv /\ [Next]_vars => AttemptsInv'
<1> SUFFICES ASSUME AttemptsInv, [Next]_vars
             PROVE  /\ AttemptsWithinCap'
                    /\ wr'.key = "attempts" => wr'.val <= AttemptCap
  BY TypeStep DEF AttemptsInv
<1>0. wr \in WriteType
  BY DEF AttemptsInv, TypeInv, TypeOK
<1>1. CASE WriteSlot
  <2>1. AttemptsWithinCap'
    BY <1>1, AttemptSlots DEF WriteSlot
  <2>2. wr' = Idle \/ (wr'.key = wr.key /\ wr'.val = wr.val)
    BY <1>0, <1>1 DEF WriteSlot, WriteType
  <2> QED BY <2>1, <2>2 DEF AttemptsInv, Idle
<1>2. CASE WriteSlotFails
  <2>1. PICK s \in Cut(fram[wr.key][wr.slot], NewContent, TRUE) :
               fram' = SetSlot(wr.key, wr.slot, s)
    BY <1>2 DEF WriteSlotFails
  <2>2. AttemptsWithinCap'
    BY <1>2, <2>1, AttemptSlots DEF WriteSlotFails, Cut
  <2> QED BY <1>2, <2>2 DEF WriteSlotFails, Idle
<1>3. CASE PowerCut
  <2>1. CASE wr = Idle
    BY <1>3, <2>1 DEF PowerCut, AttemptsInv, AttemptsWithinCap, Idle
  <2>2. CASE wr # Idle
    <3>1. PICK s \in Cut(fram[wr.key][wr.slot], NewContent, TornWrites) :
                 fram' = SetSlot(wr.key, wr.slot, s)
      BY <1>3, <2>2 DEF PowerCut
    <3>2. AttemptsWithinCap'
      BY <2>2, <3>1, AttemptSlots DEF Cut
    <3> QED BY <1>3, <3>2 DEF PowerCut, Idle
  <2> QED BY <2>1, <2>2
<1>4. CASE CountAttempt
  <2>1. AttemptsWithinCap'
    BY <1>4 DEF CountAttempt, AttemptsInv, AttemptsWithinCap
  <2>2. PICK attempts \in {0, ReadA(fram["attempts"], 0)} :
          \/ wr' = wr
          \/ ~AtCap(attempts) /\ StartWrite("attempts", attempts + 1)
    BY <1>4, Zenon DEF CountAttempt
  <2>3. attempts \in Nat
    BY ReadANat DEF AttemptsInv, TypeInv, TypeOK, Key
  <2>4. CASE wr' = wr
    BY <2>1, <2>4 DEF AttemptsInv
  <2>5. CASE ~AtCap(attempts) /\ StartWrite("attempts", attempts + 1)
    BY <2>1, <2>3, <2>5, LimitAssumption DEF AtCap, StartWrite
  <2> QED BY <2>2, <2>4, <2>5
<1>5. CASE \/ Probe \/ BumpFails \/ LatchNeeded \/ LatchRun \/ Checkpoint
           \/ ClearNeeded \/ ClearProbe \/ ClearMedia \/ ClearOffset
  <2>1. UNCHANGED fram
    BY <1>5 DEF Probe, BumpFails, LatchNeeded, LatchRun, Checkpoint, ClearNeeded,
       ClearProbe, ClearMedia, ClearOffset, Clear
  <2>2. wr' = wr \/ wr'.key # "attempts"
    BY <1>5 DEF Probe, BumpFails, LatchNeeded, LatchRun, Checkpoint, ClearNeeded,
       ClearProbe, ClearMedia, ClearOffset, Clear, StartWrite
  <2> QED BY <2>1, <2>2 DEF AttemptsInv, AttemptsWithinCap
<1>6. CASE \/ SelectBus \/ ReadLatch \/ RefuseRecovery \/ ReadOffset \/ CopyChunk
           \/ CopyFails \/ CopyDone \/ Verify \/ ClearSkipped \/ Fallback
           \/ Handover \/ EmmcDecays \/ UNCHANGED vars
  <2>1. UNCHANGED <<fram, wr>>
    BY <1>6 DEF SelectBus, ReadLatch, RefuseRecovery, ReadOffset, CopyChunk,
       CopyFails, CopyDone, Verify, ClearSkipped, Fallback, Handover, EmmcDecays, vars
  <2> QED BY <2>1 DEF AttemptsInv, AttemptsWithinCap
<1> QED
  BY <1>1, <1>2, <1>3, <1>4, <1>5, <1>6 DEF Next, UBootStep

(* FRAM_RECOVERY_ATTEMPT_CAP bounds the attempts on record, whatever power *)
(* cuts tear and whatever the bus fails to read or write.                  *)
THEOREM AttemptsBounded == Spec => []AttemptsWithinCap
<1>1. AttemptsInv => AttemptsWithinCap
  BY DEF AttemptsInv
<1> QED BY <1>1, AttemptsInit, AttemptsStep, PTL DEF Spec
-----------------------------------------------------------------------------
(* The refinement of the restore's contract.                               *)

Running == IF pc \in {"emmc", "sd"} THEN pc ELSE "none"

LEMMA LatchedIs == Latched <=> LatchSlot.valid /\ LatchSlot.val # 0
BY DEF Latched, LatchSlot, ReadA

LEMMA SameLatched == ASSUME UNCHANGED fram PROVE Latched' = Latched
BY DEF Latched

LEMMA SamePartial == ASSUME UNCHANGED emmc PROVE Partial' = Partial
BY DEF Partial

LEMMA ContractInit == Init => Contract!CInit
<1> SUFFICES ASSUME Init PROVE Contract!CInit
  OBVIOUS
<1>1. Latched = FALSE
  <2>1. PICK r \in {Garbage, Rec(0, 1)} :
               fram = [k \in Key |-> [s \in SlotName |-> r]]
    BY DEF Init
  <2>2. LatchSlot = r
    BY <2>1 DEF LatchSlot, Key, SlotName
  <2>3. ~(r.valid /\ r.val # 0)
    BY DEF Garbage, Rec
  <2> QED BY <2>2, <2>3, LatchedIs, Zenon DEF Latched
<1>2. Partial = FALSE
  <2>1. \A c \in Chunk : emmc[c] \in {"bad", "orig"}
    BY DEF Init
  <2>2. ~Partial
    BY <2>1, SpanAssumption DEF Partial, Chunk
  <2> QED BY <2>2 DEF Partial
<1>3. Running = "none"
  BY DEF Init, Running
<1> QED BY <1>1, <1>2, <1>3 DEF Contract!CInit, Running

(* The write of a slot sets the latch, releases it, or does not touch it.  *)
LEMMA LatchWrites ==
  ASSUME IInv, wr # Idle, NEW torn,
         NEW s \in Cut(fram[wr.key][wr.slot], NewContent, torn),
         fram' = SetSlot(wr.key, wr.slot, s)
  PROVE  (Latched' <=> Latched) \/ Latched' \/ ~Partial
<1>1. LatchSlot' = IF wr.key = "needed" /\ wr.slot = "A" THEN s ELSE LatchSlot
  BY SlotEffect DEF IInv
<1>2. Latched' <=> LatchSlot'.valid /\ LatchSlot'.val # 0
  BY DEF Latched, LatchSlot, ReadA
<1>3. CASE ~(wr.key = "needed" /\ wr.slot = "A")
  <2>1. LatchSlot' = LatchSlot
    BY <1>1, <1>3
  <2> QED BY <1>2, <2>1, LatchedIs
<1>4. CASE wr.key = "needed" /\ wr.slot = "A" /\ Partial
  <2>1. wr.val = 1 /\ wr.seq = 1
    <3>1. pc = "clear_probe" => ~Partial
      BY CopiedIsWhole DEF IInv, CopyProgress, Clearing
    <3> QED BY <1>4, <3>1 DEF IInv, WritesInPlace, WriteOrder
  <2>2. LatchSlot = Rec(1, 1) /\ NewContent = Rec(1, 1)
    BY <1>4, <2>1 DEF IInv, LatchHeld, LatchSet, NewContent
  <2>3. fram[wr.key][wr.slot] = LatchSlot
    BY <1>4 DEF LatchSlot
  <2>4. s = Rec(1, 1)
    BY <2>2, <2>3 DEF Cut
  <2>5. LatchSlot' = Rec(1, 1)
    BY <1>1, <1>4, <2>4
  <2> QED BY <1>2, <2>5 DEF Rec
<1> QED BY <1>3, <1>4

(* The steps of the contract, from how the three abstract variables move.  *)
LEMMA ContractStutter ==
  ASSUME Running' = Running, Latched' <=> Latched, Partial' <=> Partial
  PROVE  UNCHANGED Contract!cvars
<1>1. Latched' = Latched /\ Partial' = Partial
  BY Zenon DEF Latched, Partial
<1> QED BY <1>1, Zenon DEF Contract!cvars, Running

LEMMA ContractSetLatch ==
  ASSUME Running' = Running, Latched', Partial' <=> Partial
  PROVE  Contract!SetLatch
BY Zenon DEF Contract!SetLatch, Running, Latched, Partial

LEMMA ContractOverwrite ==
  ASSUME Running' = Running, Latched' <=> Latched, Latched
  PROVE  Contract!Overwrite
BY Zenon DEF Contract!Overwrite, Running, Latched, Partial

LEMMA ContractRelease ==
  ASSUME Running' = Running, ~Latched', ~Partial, ~Partial'
  PROVE  Contract!Release
BY Zenon DEF Contract!Release, Running, Latched, Partial

LEMMA ContractPowerDown ==
  ASSUME Running' = "none",
         \/ (Latched' <=> Latched) /\ (Partial' <=> Partial)
         \/ Latched /\ Latched'
         \/ ~Partial /\ ~Partial'
  PROVE  Contract!PowerDown
BY Zenon DEF Contract!PowerDown, Running, Latched, Partial

LEMMA ContractStep ==
  ReliableBus /\ IInv /\ [Next]_vars => [Contract!CNext]_(Contract!cvars)
<1> SUFFICES ASSUME ReliableBus, IInv, [Next]_vars
             PROVE  Contract!CNext \/ UNCHANGED Contract!cvars
  BY Zenon
<1>bus. ~I2cFault
  BY BusAnswers DEF IInv
<1>1. CASE WriteSlot
  <2>1. Running' = Running /\ (Partial' <=> Partial)
    BY <1>1, SameEmmc DEF WriteSlot, Running
  <2>2. (Latched' <=> Latched) \/ Latched' \/ ~Partial
    <3>1. NewContent \in Cut(fram[wr.key][wr.slot], NewContent, FALSE)
      BY DEF Cut
    <3> QED BY <1>1, <3>1, LatchWrites DEF WriteSlot
  <2>3. CASE Latched' <=> Latched
    BY <2>1, <2>3, ContractStutter
  <2>4. CASE Latched'
    BY <2>1, <2>4, ContractSetLatch DEF Contract!CNext
  <2>5. CASE ~Latched' /\ ~Partial
    BY <2>1, <2>5, ContractRelease DEF Contract!CNext
  <2> QED BY <2>2, <2>3, <2>4, <2>5
<1>2. CASE CopyChunk \/ CopyFails
  <2>1. Latched
    <3>1. pc = "copy" /\ wr.key # "needed"
      BY <1>2 DEF CopyChunk, CopyFails, At, Idle
    <3> QED BY <3>1, LatchReads DEF IInv, LatchHeld
  <2>2. Running' = Running
    BY <1>2 DEF CopyChunk, CopyFails, At, Running
  <2>3. Latched' <=> Latched
    BY <1>2 DEF CopyChunk, CopyFails, Latched
  <2> QED BY <2>1, <2>2, <2>3, ContractOverwrite DEF Contract!CNext
<1>3. CASE Handover
  <2>1. pc = "handover" /\ pc' \in {"emmc", "sd", "prompt"} /\ UNCHANGED <<fram, emmc>>
    BY <1>3 DEF Handover, LastTarget, At
  <2>2. Latched' = Latched /\ Partial' = Partial
    BY <2>1, SameLatched, SamePartial
  <2>3. ~Partial
    BY <2>1 DEF IInv, CopyProgress
  <2>4. CASE pc' = "emmc"
    BY <2>1, <2>2, <2>3, <2>4 DEF Contract!CNext, Contract!BootEmmc
  <2>5. CASE pc' = "sd"
    BY <2>1, <2>2, <2>5 DEF Contract!CNext, Contract!BootSd
  <2>6. CASE pc' = "prompt"
    BY <2>1, <2>2, <2>6, ContractStutter DEF Running
  <2> QED BY <2>1, <2>4, <2>5, <2>6
<1>4. CASE Fallback
  <2>1. pc = "fallback" /\ pc' \in {"sd", "prompt"} /\ UNCHANGED <<fram, emmc>>
    BY <1>4 DEF Fallback, LastTarget, At
  <2>2. Latched' = Latched /\ Partial' = Partial
    BY <2>1, SameLatched, SamePartial
  <2>3. CASE pc' = "sd"
    BY <2>1, <2>2, <2>3 DEF Contract!CNext, Contract!BootSd
  <2>4. CASE pc' = "prompt"
    BY <2>1, <2>2, <2>4, ContractStutter DEF Running
  <2> QED BY <2>1, <2>3, <2>4
<1>5. CASE EmmcDecays
  <2>1. ~Partial
    BY <1>5 DEF EmmcDecays, IInv, CopyProgress
  <2>2. ~Partial'
    <3>1. \A c \in Chunk : emmc'[c] \in {"bad", "orig"}
      BY <1>5 DEF EmmcDecays
    <3> QED BY <3>1, SpanAssumption DEF Partial, Chunk
  <2>3. Running' = Running /\ (Latched' <=> Latched)
    BY <1>5 DEF EmmcDecays, Running, Latched
  <2> QED BY <2>1, <2>2, <2>3, ContractStutter
<1>6. CASE PowerCut
  <2>1. Running' = "none"
    BY <1>6 DEF PowerCut, Running
  <2>2. CASE wr # Idle
    <3>1. PICK s \in Cut(fram[wr.key][wr.slot], NewContent, TornWrites) :
                 fram' = SetSlot(wr.key, wr.slot, s)
      BY <1>6, <2>2 DEF PowerCut
    <3>2. Partial' <=> Partial
      BY <1>6, <2>2, SameEmmc DEF PowerCut, At
    <3>3. (Latched' <=> Latched) \/ Latched' \/ ~Partial
      BY <2>2, <3>1, LatchWrites
    <3>4. \/ (Latched' <=> Latched) /\ (Partial' <=> Partial)
          \/ Latched /\ Latched'
          \/ ~Partial /\ ~Partial'
      <4>1. Partial => Latched
        BY LatchReads DEF IInv, LatchHeld
      <4> QED BY <3>2, <3>3, <4>1
    <3> QED BY <2>1, <3>4, ContractPowerDown DEF Contract!CNext
  <2>3. CASE wr = Idle /\ pc = "copy" /\ blk < Span
    <3>1. Latched /\ Latched'
      <4>1. Latched
        BY <2>3, LatchReads DEF IInv, LatchHeld, Idle
      <4>2. UNCHANGED fram
        BY <1>6, <2>3 DEF PowerCut
      <4> QED BY <4>1, <4>2 DEF Latched
    <3> QED BY <2>1, <3>1, ContractPowerDown DEF Contract!CNext
  <2>4. CASE wr = Idle /\ ~(pc = "copy" /\ blk < Span)
    <3>1. UNCHANGED <<fram, emmc>>
      BY <1>6, <2>4 DEF PowerCut, At
    <3>2. (Latched' <=> Latched) /\ (Partial' <=> Partial)
      BY <3>1 DEF Latched, Partial
    <3> QED BY <2>1, <3>2, ContractPowerDown DEF Contract!CNext
  <2> QED BY <2>2, <2>3, <2>4
<1>7. CASE \/ SelectBus \/ Probe \/ BumpFails \/ LatchNeeded \/ ReadLatch
           \/ RefuseRecovery \/ ReadOffset \/ CountAttempt \/ LatchRun
           \/ Checkpoint \/ CopyDone \/ Verify
           \/ ClearNeeded \/ ClearProbe \/ ClearMedia \/ ClearOffset \/ ClearSkipped
  <2>1. UNCHANGED <<fram, emmc>>
    BY <1>7 DEF SelectBus, Probe, BumpFails, LatchNeeded, ReadLatch, RefuseRecovery,
       ReadOffset, CountAttempt, LatchRun, Checkpoint, CopyDone, Verify, ClearNeeded,
       ClearProbe, ClearMedia, ClearOffset, ClearSkipped, Clear
  <2>2. pc \notin {"emmc", "sd"} /\ pc' \notin {"emmc", "sd"}
    BY <1>7 DEF SelectBus, Probe, BumpFails, LatchNeeded, ReadLatch, RefuseRecovery,
       ReadOffset, CountAttempt, LatchRun, Checkpoint, CopyDone, Verify, ClearNeeded,
       ClearProbe, ClearMedia, ClearOffset, ClearSkipped, Clear, At
  <2>3. Running' = Running /\ (Latched' <=> Latched) /\ (Partial' <=> Partial)
    BY <2>1, <2>2 DEF Running, Latched, Partial
  <2> QED BY <2>3, ContractStutter
<1>8. CASE WriteSlotFails
  BY <1>bus, <1>8 DEF WriteSlotFails
<1>9. CASE UNCHANGED vars
  <2>1. Running' = Running /\ (Latched' <=> Latched) /\ (Partial' <=> Partial)
    BY <1>9 DEF vars, Running, Latched, Partial
  <2> QED BY <2>1, ContractStutter
<1> QED
  BY <1>1, <1>2, <1>3, <1>4, <1>5, <1>6, <1>7, <1>8, <1>9 DEF Next, UBootStep

(* The recovery implements the contract of the restore on a bus that       *)
(* answers: it overwrites the eMMC only under the latch, releases the      *)
(* latch only over a whole image and boots the eMMC only when it is whole. *)
THEOREM ContractHolds == ReliableBus => (Spec => ImplementsContract)
<1> SUFFICES ASSUME ReliableBus PROVE Spec => ImplementsContract
  OBVIOUS
<1>1. IInv /\ [Next]_vars => [Contract!CNext]_(Contract!cvars)
  BY ContractStep
<1> QED
  BY <1>1, ContractInit, Invariance, PTL DEF Spec, ImplementsContract, Contract!CSpec
=============================================================================
