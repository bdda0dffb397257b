---------------------------- MODULE InstallOsProofs ----------------------------
(***************************************************************************)
(* Why the two restorers together keep the promise of the restore: U-Boot  *)
(* reads slot A alone and saves an offset in chunks of its own span, while *)
(* install-os reads and writes records by sequence number and copies the   *)
(* essential chunks only.  For every span, cap and number of resets, with  *)
(* MMC commands and dd failing or not.                                     *)
(*                                                                         *)
(* The argument rests on what install-os does in its first steps: it       *)
(* latches, then stops fram-service, so that it never saves an offset and  *)
(* never releases the latch while, or after, it overwrites the eMMC.       *)
(***************************************************************************)
EXTENDS InstallOs, UBootRecoveryProofs

(* The FRAM bus and fram-service answer and no slot write is torn.         *)
Calm == ReliableBus /\ ~TornWrites /\ ~ServiceFaults

EssentialBelow(n) == \A c \in 0 .. Essential - 1 : c < n => emmc[c] = "sd"

Typed == TypeInv /\ pos \in Nat

(* Where either program can be while it writes the latch or the offset.    *)
(* U-Boot writes slot B first; fram-service picks an order of its own.     *)
WritersInPlace ==
  /\ pc \notin Disk /\ wr # Idle => (wr.slot = "B" <=> wr.more)
  /\ pc \in Disk /\ wr.key = "needed" /\ wr.slot = "B" /\ ~wr.more => Latched
  /\ wr.key = "needed" => \/ wr.val = 1 /\ pc \in {"run", "copy"}
                          \/ wr.val = 1 /\ pc \in Disk /\ io = "stop"
                          \/ wr.val = 0 /\ pc = "clear_probe"
  /\ wr.key = "offset" => \/ wr.val = blk /\ blk > 0 /\ pc = "copy"
                          \/ wr.val = 0 /\ pc = "handover"

(* install-os runs in Linux only, latches, and then loses fram-service.    *)
LinuxInPlace ==
  /\ pc \notin Disk => io = "off"
  /\ io \notin {"off", "boot", "stamped", "shell", "install", "stop"} => svc # "up"
  /\ io # "off" /\ svc # "up" => Latched
  /\ io = "stop" /\ wr.key # "needed" => Latched

(* The latch is on record while U-Boot copies and while there is something *)
(* to cover.                                                               *)
BothLatched ==
  /\ pc \in {"copy", "checkpoint", "verify", "clear_needed"} /\ wr.key # "needed"
       => Latched
  /\ Partial => Latched
  /\ Resumable => Latched

(* How far U-Boot's copy has got.  mkfs empties chunks past the essential  *)
(* ones, so only these count.                                              *)
BothProgress ==
  /\ pc \in {"count", "latch_run", "copy", "checkpoint"} => EssentialBelow(blk)
  /\ pc \in {"count", "latch_run", "checkpoint"} => blk < Span
  /\ pc = "checkpoint" /\ blk < Essential => emmc[blk] = "sd"
  /\ pc = "copy" /\ wr.key = "needed" => blk < Span
  /\ pc = "copy" /\ blk = Span => wr.key = "offset" \/ SavedOffset = Span
  /\ pc \in {"verify"} \cup Clearing => EssentialBelow(Span) /\ SavedOffset = Span
  /\ pc = "handover" => ~Partial /\ ~Resumable
  /\ pc = "emmc" => ~Resumable

BothCovered == SavedOffset < Span => EssentialBelow(SavedOffset)

(* The inductive invariant of the composition.                             *)
JInv ==
  /\ Typed
  /\ WritersInPlace
  /\ LinuxInPlace
  /\ BothLatched
  /\ BothProgress
  /\ BothCovered
-----------------------------------------------------------------------------
(* What fram-service reads and writes.                                     *)

LEMMA NewestNat ==
  ASSUME NEW r \in RecordType
  PROVE  Newest(r, 0) \in Nat /\ NewestSeq(r) \in Nat
BY DEF RecordType, SlotType, SlotName, Newest, NewestSeq

LEMMA FramGetNat ==
  ASSUME TypeInv, NEW key \in Key
  PROVE  FramGet(key) \in Nat
BY NewestNat DEF TypeInv, TypeOK, FramGet

LEMMA FramSetWrites ==
  ASSUME TypeInv, NEW key \in Key, NEW val \in Nat, FramSet(key, val), svc = "up"
  PROVE  /\ wr' \in WriteType /\ wr' # Idle
         /\ wr'.key = key /\ wr'.val = val /\ wr'.more
<1>1. PICK first \in SlotName :
        wr' = [key |-> key, val |-> val, seq |-> NewestSeq(fram[key]) + 1,
               slot |-> first, more |-> TRUE]
  BY DEF FramSet
<1>2. NewestSeq(fram[key]) + 1 \in Nat
  BY NewestNat DEF TypeInv, TypeOK
<1> QED BY <1>1, <1>2 DEF WriteType, Idle

LEMMA FramSetKeeps ==
  ASSUME NEW key, NEW val, FramSet(key, val), svc # "up"
  PROVE  wr' = wr
BY DEF FramSet
-----------------------------------------------------------------------------
(* Facts about the chunks.                                                 *)

LEMMA EssentialChunks == 0 .. Essential - 1 \subseteq Chunk /\ Essential <= Span
BY SpanAssumption DEF Chunk

LEMMA EssentialIsWhole == EssentialBelow(Span) => ~Partial
BY SpanAssumption DEF EssentialBelow, Partial

LEMMA SameChunks ==
  ASSUME UNCHANGED emmc
  PROVE  (Partial' <=> Partial) /\ \A n : EssentialBelow(n)' <=> EssentialBelow(n)
BY DEF Partial, EssentialBelow

LEMMA SameRecords ==
  ASSUME UNCHANGED fram
  PROVE  /\ SavedOffset' = SavedOffset
         /\ (Latched' <=> Latched) /\ (Resumable' <=> Resumable)
BY DEF SavedOffset, Latched, Resumable

(* A chunk overwritten with the SD card's, wholly or not, uncopies none.   *)
LEMMA EssentialMonotone ==
  ASSUME TypeInv, NEW c \in Chunk, NEW left, left \in CutChunk(c) \cup {"sd"},
         emmc' = [emmc EXCEPT ![c] = left],
         NEW n, EssentialBelow(n)
  PROVE  EssentialBelow(n)'
<1> SUFFICES ASSUME NEW d \in 0 .. Essential - 1, d < n PROVE emmc'[d] = "sd"
  BY DEF EssentialBelow
<1>1. emmc[d] = "sd" /\ d \in Chunk
  BY EssentialChunks DEF EssentialBelow
<1>2. emmc \in [Chunk -> Content]
  BY DEF TypeInv, TypeOK
<1> QED BY <1>1, <1>2 DEF CutChunk

(* Only slot A of the latch and of the offset matters to U-Boot.           *)
LEMMA SlotWritten ==
  ASSUME TypeInv, wr # Idle, fram' = SetSlot(wr.key, wr.slot, NewContent)
  PROVE  /\ Latched' <=> IF wr.key = "needed" /\ wr.slot = "A"
                         THEN wr.val # 0 ELSE Latched
         /\ SavedOffset' = IF wr.key = "offset" /\ wr.slot = "A"
                           THEN wr.val ELSE SavedOffset
<1>1. /\ LatchSlot' = IF wr.key = "needed" /\ wr.slot = "A" THEN NewContent ELSE LatchSlot
      /\ OffsetSlot' = IF wr.key = "offset" /\ wr.slot = "A" THEN NewContent ELSE OffsetSlot
  BY SlotEffect
<1>2. Latched' <=> LatchSlot'.valid /\ LatchSlot'.val # 0
  BY DEF Latched, LatchSlot, ReadA
<1>3. SavedOffset' = IF OffsetSlot'.valid THEN OffsetSlot'.val ELSE 0
  BY DEF SavedOffset, OffsetSlot, ReadA
<1>4. NewContent.valid /\ NewContent.val = wr.val
  BY DEF NewContent, Rec
<1>5. Latched' <=> IF wr.key = "needed" /\ wr.slot = "A" THEN wr.val # 0 ELSE Latched
  BY <1>1, <1>2, <1>4, LatchedIs
<1>6. SavedOffset' = IF wr.key = "offset" /\ wr.slot = "A" THEN wr.val ELSE SavedOffset
  BY <1>1, <1>3, <1>4, SavedOffsetIs
<1> QED BY <1>5, <1>6

(* A write cut short without tearing left the slot old or new.             *)
LEMMA CutUntorn ==
  ASSUME TypeInv, wr # Idle, ~TornWrites,
         NEW s \in Cut(fram[wr.key][wr.slot], NewContent, TornWrites),
         fram' = SetSlot(wr.key, wr.slot, s)
  PROVE  \/ UNCHANGED fram
         \/ fram' = SetSlot(wr.key, wr.slot, NewContent)
<1>1. s \in {fram[wr.key][wr.slot], NewContent}
  BY DEF Cut
<1>2. CASE s = fram[wr.key][wr.slot]
  <2>1. fram \in [Key -> [SlotName -> SlotType]]
    BY DEF TypeInv, TypeOK, RecordType
  <2>2. wr.key \in Key /\ wr.slot \in SlotName
    BY DEF TypeInv, TypeOK, WriteType
  <2>3. [fram[wr.key] EXCEPT ![wr.slot] = s] = fram[wr.key]
    BY <1>2, <2>1, <2>2
  <2>4. fram' = fram
    BY <2>1, <2>2, <2>3 DEF SetSlot
  <2> QED BY <2>4
<1> QED BY <1>1, <1>2
-----------------------------------------------------------------------------
(* Types.                                                                  *)

LEMMA TypedInit == InitAll => Typed
BY TypeInit DEF InitAll, Typed

(* A step of Linux leaves U-Boot's variables typed.                        *)
LEMMA LinuxTyped ==
  ASSUME Typed, UbootUnchanged, UNCHANGED <<fram, faults>>, pos' \in Nat,
         pc \in Disk, emmc' \in [Chunk -> Content],
         wr' = wr \/ (wr' \in WriteType /\ wr'.key \in Key)
  PROVE  Typed'
BY DEF Typed, TypeInv, TypeOK, UbootUnchanged, Disk

LEMMA TypedStep == Typed /\ [NextAll]_allVars => Typed'
<1> SUFFICES ASSUME Typed, [NextAll]_allVars PROVE Typed'
  OBVIOUS
<1>key. Key = {"fails", "needed", "attempts", "probe_ok", "media", "offset"}
  BY DEF Key
<1>type. TypeInv /\ pos \in Nat /\ emmc \in [Chunk -> Content]
  BY DEF Typed, TypeInv, TypeOK
<1>set. ASSUME NEW key \in Key, NEW val \in Nat, FramSet(key, val)
        PROVE  wr' = wr \/ (wr' \in WriteType /\ wr'.key \in Key)
  BY <1>set, <1>type, FramSetWrites, FramSetKeeps
<1>1. CASE UBoot
  <2>1. TypeInv'
    BY <1>1, <1>type, TypeStep DEF UBoot, Next
  <2> QED BY <1>1, <2>1 DEF UBoot, Typed
<1>2. CASE \/ MountRoot \/ AutoRecover \/ RefuseInstall \/ StopServices
           \/ SpanCopied \/ SetDiskSignature \/ VerifyEmmc \/ RunInstallOs
  <2>1. /\ pc \in Disk /\ UbootUnchanged /\ UNCHANGED <<fram, wr, emmc, pos, faults>>
    BY <1>2 DEF MountRoot, AutoRecover, RefuseInstall, StopServices, SpanCopied,
       SetDiskSignature, VerifyEmmc, RunInstallOs, InLinux
  <2> QED BY <2>1, <1>type, LinuxTyped
<1>3. CASE BootStamp
  <2>1. /\ pc \in Disk /\ UbootUnchanged /\ UNCHANGED <<fram, emmc, pos, faults>>
        /\ FramSet("media", SeenMedia)
    BY <1>3 DEF BootStamp, InLinux
  <2>2. SeenMedia \in Nat
    BY DEF SeenMedia
  <2> QED BY <2>1, <2>2, <1>set, <1>key, <1>type, LinuxTyped
<1>4. CASE LatchRecovery
  <2>1. /\ pc \in Disk /\ UbootUnchanged /\ UNCHANGED <<fram, emmc, faults>>
        /\ FramSet("needed", 1)
        /\ pos' = IF FramGet("offset") >= Essential THEN 0 ELSE FramGet("offset")
    BY <1>4 DEF LatchRecovery, InLinux
  <2>2. pos' \in Nat
    BY <2>1, <1>type, <1>key, FramGetNat
  <2> QED BY <2>1, <2>2, <1>set, <1>key, <1>type, LinuxTyped
<1>5. CASE StartCopy
  <2>1. /\ pc \in Disk /\ UbootUnchanged /\ UNCHANGED <<fram, emmc, pos, faults>>
        /\ FramSet("offset", 0) \/ wr' = wr
    BY <1>5 DEF StartCopy, InLinux
  <2> QED BY <2>1, <1>set, <1>key, <1>type, LinuxTyped
<1>6. CASE DdChunk
  <2>1. /\ pc \in Disk /\ UbootUnchanged /\ UNCHANGED <<fram, wr, faults>>
        /\ pos' = pos + 1 /\ pos < Essential
        /\ \E left \in CutChunk(pos) \cup {"sd"} : emmc' = [emmc EXCEPT ![pos] = left]
    BY <1>6 DEF DdChunk, InLinux
  <2>2. pos \in Chunk
    BY <2>1, <1>type, SpanAssumption DEF Chunk
  <2>3. CutChunk(pos) \cup {"sd"} \subseteq Content
    BY <2>2, <1>type DEF CutChunk, Content
  <2>4. emmc' \in [Chunk -> Content]
    BY <2>1, <2>2, <2>3, <1>type
  <2> QED BY <2>1, <2>4, <1>type, LinuxTyped
<1>7. CASE SetRestoreOffset
  <2>1. /\ pc \in Disk /\ UbootUnchanged /\ UNCHANGED <<fram, emmc, pos, faults>>
        /\ FramSet("offset", pos)
    BY <1>7 DEF SetRestoreOffset, InLinux
  <2> QED BY <2>1, <1>set, <1>key, <1>type, LinuxTyped
<1>8. CASE MkfsHome
  <2>1. pc \in Disk /\ UbootUnchanged /\ UNCHANGED <<fram, wr, pos, faults>>
    BY <1>8 DEF MkfsHome, InLinux
  <2>2. emmc' \in [Chunk -> Content]
    BY <1>8, <1>type DEF MkfsHome, Content
  <2> QED BY <2>1, <2>2, <1>type, LinuxTyped
<1>9. CASE ClearAfterVerify
  <2>1. PICK key \in {"probe_ok", "media", "offset", "needed"}, val \in {0, 1} :
          FramSet(key, val)
    BY <1>9 DEF ClearAfterVerify, ClearFlag
  <2>2. pc \in Disk /\ UbootUnchanged /\ UNCHANGED <<fram, emmc, pos, faults>>
    BY <1>9 DEF ClearAfterVerify, ClearFlag, InLinux
  <2> QED BY <2>1, <2>2, <1>set, <1>key, <1>type, LinuxTyped
<1>10. CASE ServiceDies \/ ServiceHangs
  BY <1>10, <1>type DEF ServiceDies, ServiceHangs, UbootUnchanged, Typed, TypeInv, TypeOK
<1>11. CASE Reset
  <2>1. fram' \in [Key -> RecordType]
    <3>1. CASE wr = Idle
      BY <1>11, <3>1, <1>type DEF Reset, TypeInv, TypeOK
    <3>2. CASE wr # Idle
      <4>1. PICK s \in Cut(fram[wr.key][wr.slot], NewContent, TornWrites) :
              fram' = SetSlot(wr.key, wr.slot, s)
        BY <1>11, <3>2 DEF Reset
      <4>2. TypeOK /\ wr.key \in Key /\ wr.slot \in SlotName
        BY <3>2, <1>type DEF TypeInv, TypeOK, WriteType
      <4>3. s \in SlotType
        BY <4>1, <4>2, SlotsAreTyped, NewContentType, CutType
      <4> QED BY <4>1, <4>2, <4>3, SetSlotType
    <3> QED BY <3>1, <3>2
  <2>2. emmc' \in [Chunk -> Content]
    <3>1. CASE UNCHANGED emmc
      BY <3>1, <1>type
    <3>2. ASSUME NEW c \in Chunk, NEW left \in CutChunk(c),
                 emmc' = [emmc EXCEPT ![c] = left]
          PROVE  emmc' \in [Chunk -> Content]
      <4>1. left \in Content
        BY <3>2, <1>type DEF CutChunk, Content
      <4> QED BY <3>2, <4>1, <1>type
    <3> QED BY <1>11, <3>1, <3>2 DEF Reset
  <2>3. /\ boots' = boots + 1 /\ pc' = "reset" /\ wr' = Idle /\ blk' = 0
        /\ pos' = 0 /\ faults' = faults
    BY <1>11 DEF Reset
  <2>4. Idle \in WriteType
    BY DEF Idle, WriteType, SlotName
  <2> QED
    BY <2>1, <2>2, <2>3, <2>4, <1>type, SpanAssumption DEF Typed, TypeInv, TypeOK, UBootPc
<1>12. CASE Decay
  <2>1. TypeInv'
    BY <1>12, <1>type, TypeStep DEF Decay, Next
  <2> QED BY <1>12, <2>1 DEF Decay, linux, Typed
<1>13. CASE UNCHANGED allVars
  BY <1>13 DEF allVars, Typed, TypeInv, TypeOK
<1> QED
  BY <1>1, <1>2, <1>3, <1>4, <1>5, <1>6, <1>7, <1>8, <1>9, <1>10, <1>11, <1>12, <1>13
     DEF NextAll, LinuxStep
-----------------------------------------------------------------------------
(* The invariant of the composition.                                       *)

LEMMA JInvInit == InitAll => JInv
<1> SUFFICES ASSUME InitAll PROVE JInv
  OBVIOUS
<1>1. Typed /\ Init /\ io = "off" /\ pc = "reset" /\ wr = Idle /\ wr.key = "none"
  BY TypedInit DEF InitAll, Init, Idle
<1>2. SavedOffset = 0 /\ ~Resumable
  BY <1>1 DEF Init, SavedOffset, ReadA, Key, SlotName, Garbage, Rec, Resumable
<1>3. ~Partial
  BY <1>1, SpanAssumption DEF Init, Partial, Chunk
<1>4. EssentialBelow(SavedOffset)
  BY <1>2 DEF EssentialBelow
<1> QED
  BY <1>1, <1>2, <1>3, <1>4
     DEF JInv, WritersInPlace, LinuxInPlace, BothLatched, BothProgress, Clearing,
         BothCovered, Disk

(* The steps of U-Boot, and of a record write begun by either program.     *)
LEMMA UBootKeeps == Calm /\ JInv /\ UBoot /\ Typed' => JInv'
<1> SUFFICES ASSUME Calm, JInv, UBoot, Typed' PROVE JInv'
  OBVIOUS
<1>type. TypeInv /\ TypeInv'
  BY DEF JInv, Typed
<1>bus. ~I2cFault
  BY <1>type, BusAnswers DEF Calm
<1>idle. Idle.key = "none"
  BY DEF Idle
<1>blk. blk \in 0 .. Span /\ Span \in Nat /\ Span > 0
  BY <1>type, SpanAssumption DEF TypeInv, TypeOK
<1>linux. UNCHANGED <<svc, io, pos, root, shown>>
  BY DEF UBoot
<1>start. ASSUME NEW key, NEW val, StartWrite(key, val)
          PROVE  wr' # Idle /\ wr'.key = key /\ wr'.val = val
                 /\ (wr'.slot = "B" <=> wr'.more)
  BY <1>start DEF StartWrite, Idle
<1>suff. ASSUME WritersInPlace', LinuxInPlace', BothLatched', BothProgress', BothCovered'
         PROVE  JInv'
  BY <1>suff DEF JInv
<1> USE DEF JInv, WritersInPlace, LinuxInPlace, BothLatched, BothProgress, BothCovered,
            Clearing, Disk
<1>same. ASSUME UNCHANGED <<fram, emmc>>
         PROVE  /\ SavedOffset' = SavedOffset
                /\ (Latched' <=> Latched) /\ (Resumable' <=> Resumable)
                /\ (Partial' <=> Partial)
                /\ \A n : EssentialBelow(n)' <=> EssentialBelow(n)
  BY <1>same, SameChunks, SameRecords
<1>1. CASE WriteSlot
  <2>1. /\ wr # Idle /\ UNCHANGED <<emmc, pc, blk>>
        /\ fram' = SetSlot(wr.key, wr.slot, NewContent)
        /\ wr' = IF wr.more THEN [wr EXCEPT !.slot = Other(wr.slot), !.more = FALSE]
                            ELSE Idle
    BY <1>1 DEF WriteSlot
  <2>2. /\ Latched' <=> IF wr.key = "needed" /\ wr.slot = "A"
                        THEN wr.val # 0 ELSE Latched
        /\ SavedOffset' = IF wr.key = "offset" /\ wr.slot = "A"
                          THEN wr.val ELSE SavedOffset
    BY <2>1, <1>type, SlotWritten
  <2>3. wr.slot \in {"A", "B"} /\ wr \in WriteType
    BY <1>type DEF TypeInv, TypeOK, WriteType, SlotName
  <2>4. /\ wr.more => /\ wr'.key = wr.key /\ wr'.val = wr.val /\ wr'.more = FALSE
                      /\ (wr'.slot = "B" <=> wr.slot = "A") /\ wr' # Idle
        /\ ~wr.more => wr' = Idle /\ wr'.key = "none"
    <3>1. wr.key # "none"
      BY <2>1, <1>type DEF TypeInv, Key
    <3> QED BY <2>1, <2>3, <3>1, <1>idle DEF Other, WriteType
  <2>5. (Partial' <=> Partial) /\ \A n : EssentialBelow(n)' <=> EssentialBelow(n)
    BY <2>1, SameChunks
  <2>6. CASE wr.key = "needed" /\ wr.val = 1
    <3>1. SavedOffset' = SavedOffset /\ (Resumable' <=> Resumable)
      BY <2>2, <2>6 DEF Resumable
    <3>2. Latched => Latched'
      BY <2>2, <2>6
    <3>3. ~wr.more => Latched'
      BY <2>1, <2>2, <2>3, <2>6
    <3>4. pc \in {"emmc", "sd"} /\ wr.more /\ wr.slot = "A" => Latched'
      BY <2>2, <2>6
    <3> QED BY <1>suff, <1>linux, <2>1, <2>3, <2>4, <2>5, <2>6, <3>1, <3>2, <3>3, <3>4
  <2>7. CASE wr.key = "needed" /\ wr.val = 0
    <3>1. SavedOffset' = SavedOffset /\ (Resumable' <=> Resumable)
      BY <2>2, <2>7 DEF Resumable
    <3>2. pc = "clear_probe" /\ EssentialBelow(Span) /\ SavedOffset = Span /\ io = "off"
      BY <2>7
    <3>3. ~Partial /\ ~Resumable
      BY <3>2, <1>blk, EssentialIsWhole DEF Resumable
    <3> QED BY <1>suff, <1>linux, <2>1, <2>3, <2>4, <2>5, <2>7, <3>1, <3>2, <3>3
  <2>8. CASE wr.key = "offset" /\ wr.slot = "B"
    <3>1. SavedOffset' = SavedOffset /\ (Resumable' <=> Resumable) /\ (Latched' <=> Latched)
      BY <2>2, <2>8 DEF Resumable
    <3>2. wr.more /\ pc \notin {"emmc", "sd"}
      BY <2>1, <2>8
    <3> QED BY <1>suff, <1>linux, <2>1, <2>3, <2>4, <2>5, <2>8, <3>1, <3>2
  <2>9. CASE wr.key = "offset" /\ wr.slot = "A"
    <3>1. (Latched' <=> Latched) /\ SavedOffset' = wr.val
      BY <2>2, <2>9
    <3>2. pc \notin {"emmc", "sd"} /\ ~wr.more /\ wr' = Idle /\ wr'.key = "none"
      BY <2>1, <2>3, <2>4, <2>9
    <3>3. CASE pc = "copy" /\ wr.val = blk
      <4>1. Latched /\ EssentialBelow(blk) /\ SavedOffset' = blk
        BY <2>9, <3>1, <3>3
      <4> QED BY <1>suff, <1>linux, <2>1, <2>5, <3>1, <3>2, <3>3, <4>1
    <3>4. CASE pc = "handover" /\ wr.val = 0
      <4>1. SavedOffset' = 0 /\ ~Resumable'
        BY <3>1, <3>4 DEF Resumable
      <4>2. EssentialBelow(0)'
        BY DEF EssentialBelow
      <4> QED BY <1>suff, <1>linux, <2>1, <2>5, <3>1, <3>2, <3>4, <4>1, <4>2
    <3> QED BY <2>9, <3>3, <3>4
  <2>10. CASE wr.key \notin {"needed", "offset"}
    <3>1. SavedOffset' = SavedOffset /\ (Resumable' <=> Resumable) /\ (Latched' <=> Latched)
      BY <2>2, <2>10 DEF Resumable
    <3>2. pc \notin {"emmc", "sd"} /\ wr' # Idle => (wr'.slot = "B" <=> wr'.more)
      BY <2>1, <2>3, <2>4
    <3>3. wr'.key \notin {"needed", "offset"}
      BY <2>4, <2>10
    <3> QED BY <1>suff, <1>linux, <2>1, <2>5, <2>10, <3>1, <3>2, <3>3
  <2> QED BY <2>3, <2>6, <2>7, <2>8, <2>9, <2>10
<1>2. CASE WriteSlotFails \/ RefuseRecovery \/ ClearSkipped
  BY <1>2, <1>bus DEF WriteSlotFails, RefuseRecovery, ClearSkipped
<1>3. CASE SelectBus
  BY <1>3, <1>bus, <1>linux, <1>same, <1>suff, <1>idle DEF SelectBus, At
<1>4. CASE Probe
  <2>1. StartWrite("probe_ok", wr'.val) /\ pc' \in {"read_latch", "bump"}
    BY <1>4, <1>start DEF Probe
  <2> QED BY <1>4, <2>1, <1>start, <1>linux, <1>same, <1>suff DEF Probe, At
<1>5. CASE BumpFails
  <2>1. StartWrite("fails", wr'.val)
    BY <1>5, <1>start DEF BumpFails
  <2> QED BY <1>5, <2>1, <1>start, <1>linux, <1>same, <1>suff DEF BumpFails, At
<1>6. CASE LatchNeeded
  BY <1>6, <1>start, <1>linux, <1>same, <1>suff DEF LatchNeeded, At
<1>7. CASE ReadLatch
  <2>1. pc' = "run" \/ (pc' = "handover" /\ ~Latched)
    <3>1. PICK latch \in {0, ReadA(fram["needed"], 0)} :
            /\ FramRead("needed", latch)
            /\ pc' = IF latch # 0 THEN "run" ELSE "handover"
      BY <1>7 DEF ReadLatch
    <3>2. latch = ReadA(fram["needed"], 0)
      BY <3>1, <1>bus DEF FramRead
    <3> QED BY <3>1, <3>2 DEF Latched
  <2>2. pc' = "handover" => ~Partial /\ ~Resumable
    BY <2>1
  <2> QED BY <1>7, <2>1, <2>2, <1>idle, <1>linux, <1>same, <1>suff DEF ReadLatch, At
<1>8. CASE ReadOffset
  <2>1. blk' = StartBlk(SavedOffset)
    BY <1>8, <1>bus DEF ReadOffset, FramRead, SavedOffset
  <2>2. SavedOffset \in Nat
    BY <1>type, ReadANat DEF SavedOffset, TypeInv, TypeOK, Key
  <2>3. blk' < Span /\ EssentialBelow(blk')
    BY <2>1, <2>2, <1>blk, SpanAssumption DEF StartBlk, EssentialBelow
  <2>4. EssentialBelow(blk)'
    BY <1>8, <2>3 DEF ReadOffset, EssentialBelow
  <2> QED BY <1>8, <2>3, <2>4, <1>idle, <1>linux, <1>same, <1>suff DEF ReadOffset, At
<1>9. CASE CountAttempt
  <2>1. \/ pc' = "fallback" /\ UNCHANGED wr
        \/ pc' = "latch_run" /\ (UNCHANGED wr \/ StartWrite("attempts", wr'.val))
    BY <1>9, <1>start DEF CountAttempt
  <2> QED
    BY <1>9, <2>1, <1>start, <1>idle, <1>linux, <1>same, <1>suff DEF CountAttempt, At
<1>10. CASE LatchRun
  BY <1>10, <1>start, <1>linux, <1>same, <1>suff, <1>blk DEF LatchRun, At
<1>11. CASE CopyChunk \/ CopyFails
  <2>1. /\ wr = Idle /\ wr.key = "none" /\ Latched /\ EssentialBelow(blk) /\ pc = "copy"
        /\ blk < Span /\ UNCHANGED <<fram, wr, blk>>
        /\ pc' \in {"checkpoint", "fallback"}
    BY <1>11, <1>idle DEF CopyChunk, CopyFails, At
  <2>2. PICK left \in CutChunk(blk) \cup {"sd"} :
          /\ emmc' = [emmc EXCEPT ![blk] = left]
          /\ pc' = "checkpoint" => left = "sd"
    BY <1>11 DEF CopyChunk, CopyFails
  <2>3. blk \in Chunk
    BY <2>1, <1>blk DEF Chunk
  <2>4. \A n : EssentialBelow(n) => EssentialBelow(n)'
    BY <2>2, <2>3, <1>type, EssentialMonotone
  <2>5. EssentialBelow(blk)'
    BY <2>1, <2>4 DEF EssentialBelow
  <2>6. pc' = "checkpoint" => emmc'[blk] = "sd"
    BY <2>2, <2>3, <1>type DEF TypeInv, TypeOK
  <2>7. BothCovered'
    BY <2>1, <2>4, SameRecords DEF EssentialBelow
  <2> QED BY <2>1, <2>5, <2>6, <2>7, <1>linux, <1>suff, SameRecords
<1>12. CASE Checkpoint
  <2>1. /\ wr = Idle /\ wr.key = "none" /\ Latched /\ EssentialBelow(blk)
        /\ pc = "checkpoint" /\ pc' = "copy"
        /\ blk' = blk + 1 /\ StartWrite("offset", blk + 1) /\ UNCHANGED <<fram, emmc>>
    BY <1>12, <1>bus, <1>idle DEF Checkpoint, At
  <2>2. EssentialBelow(blk)'
    BY <2>1, <1>blk, SpanAssumption DEF EssentialBelow
  <2> QED BY <2>1, <2>2, <1>start, <1>linux, <1>same, <1>suff, <1>blk
<1>13. CASE CopyDone
  <2>1. /\ wr = Idle /\ wr.key = "none" /\ pc = "copy" /\ blk = Span /\ pc' = "verify"
        /\ EssentialBelow(Span) /\ SavedOffset = Span /\ Latched
        /\ UNCHANGED <<fram, wr, emmc, blk>>
    BY <1>13, <1>idle DEF CopyDone, At
  <2> QED BY <2>1, <1>linux, <1>same, <1>suff
<1>14. CASE Verify
  <2>1. pc = "verify" /\ wr = Idle /\ pc' \in {"clear_needed", "fallback"}
    BY <1>14 DEF Verify, At
  <2> QED BY <1>14, <2>1, <1>idle, <1>linux, <1>same, <1>suff DEF Verify
<1>15. CASE ClearNeeded \/ ClearProbe \/ ClearMedia
  BY <1>15, <1>start, <1>linux, <1>same, <1>suff
     DEF ClearNeeded, ClearProbe, ClearMedia, Clear, At
<1>16. CASE ClearOffset
  <2>1. pc = "clear_offset" /\ pc' = "handover" /\ StartWrite("offset", 0)
    BY <1>16 DEF ClearOffset, Clear, At
  <2>2. ~Partial /\ ~Resumable
    BY <2>1, <1>blk, EssentialIsWhole DEF Resumable
  <2> QED
    BY <1>16, <2>1, <2>2, <1>start, <1>linux, <1>same, <1>suff DEF ClearOffset, Clear
<1>17. CASE Fallback
  BY <1>17, <1>idle, <1>linux, <1>same, <1>suff DEF Fallback, LastTarget, At
<1>18. CASE Handover
  <2>1. pc = "handover" /\ wr = Idle /\ pc' \in {"emmc", "sd", "prompt"}
    BY <1>18 DEF Handover, LastTarget, At
  <2> QED BY <1>18, <2>1, <1>idle, <1>linux, <1>same, <1>suff DEF Handover
<1> QED
  BY <1>1, <1>2, <1>3, <1>4, <1>5, <1>6, <1>7, <1>8, <1>9, <1>10, <1>11, <1>12,
     <1>13, <1>14, <1>15, <1>16, <1>17, <1>18
     DEF UBoot, UBootStep

(* The steps of Linux.  Those past StopServices have no fram-service left  *)
(* and change no record; the copy itself runs under the latch.             *)
LEMMA LinuxKeeps == JInv /\ (LinuxStep \/ RunInstallOs) /\ Typed' => JInv'
<1> SUFFICES ASSUME JInv, LinuxStep \/ RunInstallOs, Typed' PROVE JInv'
  OBVIOUS
<1>type. TypeInv /\ TypeInv' /\ pos \in Nat
  BY DEF JInv, Typed
<1>idle. Idle.key = "none"
  BY DEF Idle
<1>blk. blk \in 0 .. Span /\ Span \in Nat /\ Span > 0
  BY <1>type, SpanAssumption DEF TypeInv, TypeOK
<1>key. {"media", "needed", "offset", "probe_ok"} \subseteq Key
  BY DEF Key
<1> USE DEF WritersInPlace, LinuxInPlace, BothLatched, BothProgress, BothCovered,
            Clearing, Disk
<1>now. WritersInPlace /\ LinuxInPlace /\ BothLatched /\ BothProgress /\ BothCovered
  BY DEF JInv
<1>linux. /\ pc \in Disk /\ wr = Idle /\ wr.key = "none"
          /\ UNCHANGED <<pc, blk, fram>>
  BY <1>now, <1>idle
     DEF LinuxStep, RunInstallOs, MountRoot, BootStamp, AutoRecover, RefuseInstall,
         LatchRecovery, StopServices, StartCopy, DdChunk, SetRestoreOffset, SpanCopied,
         SetDiskSignature, MkfsHome, VerifyEmmc, ClearAfterVerify, ClearFlag, InLinux,
         UbootUnchanged
<1>latch. /\ SavedOffset' = SavedOffset
          /\ (Latched' <=> Latched) /\ (Resumable' <=> Resumable)
  BY <1>linux, SameRecords
(* What is left to show of a step.                                         *)
<1>suff. ASSUME WritersInPlace', LinuxInPlace', Partial' => Latched,
                \A n : EssentialBelow(n) => EssentialBelow(n)'
         PROVE  JInv'
  <2>1. pc' \in {"sd", "emmc"} /\ pc' = pc
    BY <1>linux
  <2>2. BothLatched'
    BY <1>now, <1>suff, <1>latch, <2>1
  <2>3. BothCovered'
    BY <1>now, <1>suff, <1>latch DEF EssentialBelow
  <2>4. BothProgress'
    BY <1>now, <1>latch, <2>1
  <2> QED BY <1>suff, <2>2, <2>3, <2>4 DEF JInv
<1>same. ASSUME UNCHANGED emmc
         PROVE  (Partial' => Latched) /\ \A n : EssentialBelow(n) => EssentialBelow(n)'
  BY <1>same, <1>now, SameChunks
<1>1. CASE MountRoot
  <2>1. io' = "boot" /\ svc' = "up" /\ UNCHANGED <<emmc, wr>>
    BY <1>1 DEF MountRoot
  <2> QED BY <1>linux, <1>same, <1>suff, <2>1
<1>2. CASE AutoRecover \/ RefuseInstall \/ RunInstallOs
  <2>1. /\ io \in {"stamped", "install", "shell", "done"} /\ io' \in {"install", "shell"}
        /\ UNCHANGED <<emmc, wr, svc>>
    BY <1>2 DEF AutoRecover, RefuseInstall, RunInstallOs, InLinux
  <2>2. svc # "up" => Latched
    BY <1>now, <2>1
  <2> QED BY <1>linux, <1>latch, <1>same, <1>suff, <2>1, <2>2
<1>3. CASE BootStamp
  <2>1. /\ io = "boot" /\ io' = "stamped" /\ FramSet("media", SeenMedia)
        /\ UNCHANGED <<emmc, svc>>
    BY <1>3 DEF BootStamp, InLinux
  <2>2. SeenMedia \in Nat
    BY DEF SeenMedia
  <2>3. wr'.key \in {"none", "media"}
    BY <1>linux, <1>type, <1>key, <2>1, <2>2, FramSetWrites, FramSetKeeps
  <2>4. svc # "up" => Latched
    BY <1>now, <2>1
  <2> QED BY <1>linux, <1>latch, <1>same, <1>suff, <2>1, <2>3, <2>4
<1>4. CASE LatchRecovery
  <2>1. /\ io = "install" /\ io' = "stop" /\ FramSet("needed", 1)
        /\ UNCHANGED <<emmc, svc>>
    BY <1>4 DEF LatchRecovery, InLinux
  <2>2. svc # "up" => Latched
    BY <1>now, <2>1
  <2>3. CASE svc = "up"
    <3>1. wr'.key = "needed" /\ wr'.val = 1 /\ wr'.more
      BY <1>type, <1>key, <2>1, <2>3, FramSetWrites
    <3> QED BY <1>linux, <1>latch, <1>same, <1>suff, <2>1, <2>3, <3>1
  <2>4. CASE svc # "up"
    <3>1. wr' = wr
      BY <2>1, <2>4, FramSetKeeps
    <3> QED BY <1>linux, <1>latch, <1>same, <1>suff, <2>1, <2>2, <2>4, <3>1
  <2> QED BY <2>3, <2>4
<1>5. CASE StopServices
  <2>1. /\ io = "stop" /\ io' = "start" /\ svc' = "down" /\ UNCHANGED <<emmc, wr>>
    BY <1>5 DEF StopServices, InLinux
  <2>2. Latched
    BY <1>now, <1>linux, <2>1
  <2> QED BY <1>linux, <1>latch, <1>same, <1>suff, <2>1, <2>2
(* Past StopServices no client writes a record, and the latch is on.       *)
<1>dead. ASSUME svc # "up", io \notin {"off", "boot", "stamped", "shell", "install", "stop"},
                io' \notin {"off", "stop"}, UNCHANGED <<wr, svc>>
         PROVE  WritersInPlace' /\ LinuxInPlace' /\ Latched
  <2>1. Latched
    BY <1>now, <1>dead
  <2> QED BY <1>linux, <1>latch, <1>dead, <2>1
<1>6. CASE \/ StartCopy \/ SetRestoreOffset \/ SpanCopied \/ SetDiskSignature
           \/ VerifyEmmc \/ ClearAfterVerify
  <2>1. /\ io \in {"start", "checkpoint", "copy", "sign", "verify", "clear_probe",
                   "clear_media", "clear_offset", "clear_needed"}
        /\ io' \notin {"off", "stop"} /\ UNCHANGED <<emmc, svc>>
        /\ wr' = wr \/ \E key, val : FramSet(key, val)
    BY <1>6 DEF StartCopy, SetRestoreOffset, SpanCopied, SetDiskSignature, VerifyEmmc,
       ClearAfterVerify, ClearFlag, InLinux
  <2>2. svc # "up"
    BY <1>now, <2>1
  <2>3. wr' = wr
    BY <2>1, <2>2, FramSetKeeps
  <2> QED BY <1>dead, <1>same, <1>suff, <2>1, <2>2, <2>3
<1>7. CASE DdChunk
  <2>1. /\ io = "copy" /\ io' = "checkpoint" /\ UNCHANGED <<wr, svc>> /\ pos < Essential
        /\ \E left \in CutChunk(pos) \cup {"sd"} : emmc' = [emmc EXCEPT ![pos] = left]
    BY <1>7 DEF DdChunk, InLinux
  <2>2. svc # "up"
    BY <1>now, <2>1
  <2>3. pos \in Chunk
    BY <1>type, <2>1, SpanAssumption DEF Chunk
  <2>4. \A n : EssentialBelow(n) => EssentialBelow(n)'
    BY <1>type, <2>1, <2>3, EssentialMonotone
  <2> QED BY <1>dead, <1>suff, <2>1, <2>2, <2>4
<1>8. CASE MkfsHome
  <2>1. /\ io = "mkfs" /\ io' = "verify" /\ UNCHANGED <<wr, svc>>
        /\ \A c \in 0 .. Essential - 1 : emmc'[c] = emmc[c]
    BY <1>8, SpanAssumption DEF MkfsHome, InLinux, Chunk
  <2>2. svc # "up"
    BY <1>now, <2>1
  <2>3. \A n : EssentialBelow(n) => EssentialBelow(n)'
    BY <2>1 DEF EssentialBelow
  <2> QED BY <1>dead, <1>suff, <2>1, <2>2, <2>3
<1> QED
  BY <1>1, <1>2, <1>3, <1>4, <1>5, <1>6, <1>7, <1>8 DEF LinuxStep

(* A chunk is only ever caught half written under the latch.               *)
LEMMA CopyingIsLatched ==
  ASSUME JInv, NEW c \in Chunk, BeingCopied(c)
  PROVE  Latched /\ wr = Idle
<1>1. Idle.key # "needed"
  BY DEF Idle
<1>2. CASE At("copy")
  BY <1>1, <1>2 DEF At, JInv, BothLatched
<1>3. CASE InLinux("copy")
  BY <1>3 DEF InLinux, JInv, LinuxInPlace
<1> QED BY <1>2, <1>3 DEF BeingCopied

(* What a reset leaves of the records.                                     *)
LEMMA ResetRecords ==
  ASSUME Calm, JInv, Reset, wr # Idle
  PROVE  /\ Latched => Latched' \/ (~Partial /\ ~Resumable)
         /\ SavedOffset' = SavedOffset \/ SavedOffset' = 0
              \/ (SavedOffset' = blk /\ EssentialBelow(blk) /\ Latched /\ Latched')
<1>type. TypeInv
  BY DEF JInv, Typed
<1>1. UNCHANGED fram \/ fram' = SetSlot(wr.key, wr.slot, NewContent)
  BY <1>type, CutUntorn DEF Reset, Calm
<1>2. CASE UNCHANGED fram
  BY <1>2, SameRecords
<1>3. CASE fram' = SetSlot(wr.key, wr.slot, NewContent)
  <2>1. /\ Latched' <=> IF wr.key = "needed" /\ wr.slot = "A"
                        THEN wr.val # 0 ELSE Latched
        /\ SavedOffset' = IF wr.key = "offset" /\ wr.slot = "A"
                          THEN wr.val ELSE SavedOffset
    BY <1>3, <1>type, SlotWritten
  <2>2. CASE wr.key = "needed"
    <3>1. wr.val = 1 \/ pc = "clear_probe"
      BY <2>2 DEF JInv, WritersInPlace
    <3>2. pc = "clear_probe" => ~Partial /\ ~Resumable
      BY EssentialIsWhole, SpanAssumption DEF JInv, BothProgress, Clearing, Resumable
    <3> QED BY <2>1, <2>2, <3>1, <3>2
  <2>3. CASE wr.key = "offset"
    <3>1. (Latched' <=> Latched)
      BY <2>1, <2>3
    <3>2. wr.val = 0 \/ (wr.val = blk /\ pc = "copy")
      BY <2>3 DEF JInv, WritersInPlace
    <3>3. pc = "copy" => EssentialBelow(blk) /\ Latched
      BY <2>3 DEF JInv, BothProgress, BothLatched
    <3> QED BY <2>1, <3>1, <3>2, <3>3
  <2>4. CASE wr.key \notin {"needed", "offset"}
    BY <2>1, <2>4
  <2> QED BY <2>2, <2>3, <2>4
<1> QED BY <1>1, <1>2, <1>3

LEMMA ResetKeeps == Calm /\ JInv /\ Reset /\ Typed' => JInv'
<1> SUFFICES ASSUME Calm, JInv, Reset, Typed' PROVE JInv'
  OBVIOUS
<1>1. /\ pc' = "reset" /\ wr' = Idle /\ wr'.key = "none" /\ io' = "off"
  BY DEF Reset, Idle
<1>2. (Partial' => Latched') /\ (Resumable' => Latched') /\ BothCovered'
  <2>1. CASE wr # Idle
    <3>1. UNCHANGED emmc
      BY <2>1, CopyingIsLatched DEF Reset
    <3>2. (Partial' <=> Partial) /\ \A n : EssentialBelow(n)' <=> EssentialBelow(n)
      BY <3>1, SameChunks
    <3>3. /\ Latched => Latched' \/ (~Partial /\ ~Resumable)
          /\ SavedOffset' = SavedOffset \/ SavedOffset' = 0
               \/ (SavedOffset' = blk /\ EssentialBelow(blk) /\ Latched /\ Latched')
      BY <2>1, ResetRecords
    <3>4. EssentialBelow(0)
      BY DEF EssentialBelow
    <3> QED
      BY <3>2, <3>3, <3>4 DEF JInv, BothLatched, BothCovered, Resumable
  <2>2. CASE wr = Idle /\ UNCHANGED emmc
    <3>1. UNCHANGED fram
      BY <2>2 DEF Reset
    <3> QED
      BY <2>2, <3>1, SameChunks, SameRecords DEF JInv, BothLatched, BothCovered
  <2>3. ASSUME wr = Idle, NEW c \in Chunk, BeingCopied(c), NEW left \in CutChunk(c),
               emmc' = [emmc EXCEPT ![c] = left]
        PROVE  (Partial' => Latched') /\ (Resumable' => Latched') /\ BothCovered'
    <3>1. UNCHANGED fram
      BY <2>3 DEF Reset
    <3>2. Latched'
      BY <2>3, <3>1, CopyingIsLatched, SameRecords
    <3>3. \A n : EssentialBelow(n) => EssentialBelow(n)'
      BY <2>3, EssentialMonotone DEF JInv, Typed
    <3>4. BothCovered'
      BY <3>1, <3>3, SameRecords DEF JInv, BothCovered, EssentialBelow
    <3> QED BY <3>2, <3>4
  <2> QED BY <2>1, <2>2, <2>3 DEF Reset
<1> QED
  BY <1>1, <1>2
     DEF JInv, WritersInPlace, LinuxInPlace, BothLatched, BothProgress, Clearing, Disk

(* Flash decays under a system that runs from it: nothing is being resumed.*)
LEMMA DecayKeeps == JInv /\ Decay /\ Typed' => JInv'
<1> SUFFICES ASSUME JInv, Decay, Typed' PROVE JInv'
  OBVIOUS
<1>1. /\ pc = "emmc" /\ UNCHANGED <<fram, wr, pc, blk>>
      /\ UNCHANGED <<svc, io, pos, sig, root, shown>>
      /\ \E bad \in Chunk : emmc' = [c \in Chunk |-> IF c = bad THEN "bad" ELSE "orig"]
  BY DEF Decay, EmmcDecays, linux
<1>2. ~Partial'
  BY <1>1, SpanAssumption DEF Partial, Chunk
<1>3. SavedOffset \in Nat
  BY ReadANat DEF SavedOffset, JInv, Typed, TypeInv, TypeOK, Key
<1>4. /\ SavedOffset' = SavedOffset
      /\ (Latched' <=> Latched) /\ (Resumable' <=> Resumable)
  BY <1>1, SameRecords
<1>5. ~Resumable
  BY <1>1 DEF JInv, BothProgress
<1>6. BothCovered'
  BY <1>3, <1>4, <1>5, SpanAssumption DEF BothCovered, Resumable, EssentialBelow
<1> QED
  BY <1>1, <1>2, <1>4, <1>5, <1>6
     DEF JInv, WritersInPlace, LinuxInPlace, BothLatched, BothProgress, Clearing, Disk

LEMMA JInvStep == Calm /\ JInv /\ [NextAll]_allVars => JInv'
<1> SUFFICES ASSUME Calm, JInv, [NextAll]_allVars PROVE JInv'
  OBVIOUS
<1>1. Typed'
  BY TypedStep DEF JInv
<1>2. CASE ServiceDies \/ ServiceHangs
  BY <1>2 DEF ServiceDies, ServiceHangs, Calm
<1>3. CASE UNCHANGED allVars
  <2>1. (Partial' <=> Partial) /\ \A n : EssentialBelow(n)' <=> EssentialBelow(n)
    BY <1>3, SameChunks DEF allVars
  <2>2. /\ SavedOffset' = SavedOffset
        /\ (Latched' <=> Latched) /\ (Resumable' <=> Resumable)
    BY <1>3, SameRecords DEF allVars
  <2> QED
    BY <1>1, <1>3, <2>1, <2>2
       DEF allVars, JInv, WritersInPlace, LinuxInPlace, BothLatched, BothProgress,
           BothCovered
<1> QED
  BY <1>1, <1>2, <1>3, UBootKeeps, LinuxKeeps, ResetKeeps, DecayKeeps DEF NextAll
-----------------------------------------------------------------------------
(* U-Boot's recovery, S92 and install-os, from boot to boot and however    *)
(* often the operator runs install-os, keep the inductive invariant.       *)
THEOREM BothInvariance == Calm => (SpecAll => []JInv)
<1> SUFFICES ASSUME Calm PROVE SpecAll => []JInv
  OBVIOUS
<1>1. JInv /\ [NextAll]_allVars => JInv'
  BY JInvStep
<1> QED BY <1>1, JInvInit, PTL DEF SpecAll

(* "A power cut mid-copy still boots SD", whichever program was copying.   *)
THEOREM LatchCoversBothCopies == Calm => (SpecAll => []PartialCopyStaysLatched)
<1> SUFFICES ASSUME Calm PROVE SpecAll => []PartialCopyStaysLatched
  OBVIOUS
<1>1. JInv => PartialCopyStaysLatched
  BY DEF JInv, BothLatched, PartialCopyStaysLatched
<1> QED BY <1>1, BothInvariance, PTL

(* The restorers' different spans never make U-Boot skip a chunk the image *)
(* needs: what its resume would not copy again holds the SD image.         *)
THEOREM ResumeIsCoveredByBoth == Calm => (SpecAll => []ResumeSkipsOnlyCopied)
<1> SUFFICES ASSUME Calm PROVE SpecAll => []ResumeSkipsOnlyCopied
  OBVIOUS
<1>1. JInv => ResumeSkipsOnlyCopied
  BY DEF JInv, BothCovered, EssentialBelow, ResumeSkipsOnlyCopied
<1> QED BY <1>1, BothInvariance, PTL
-----------------------------------------------------------------------------
(* The refinement of the restore's contract.                               *)

LEMMA SameView ==
  ASSUME UNCHANGED <<fram, emmc>>
  PROVE  /\ Latched' = Latched /\ Partial' = Partial
         /\ (Latched' <=> Latched) /\ (Partial' <=> Partial)
BY SameLatched, SamePartial

(* U-Boot's steps.                                                         *)
LEMMA UBootContract ==
  Calm /\ JInv /\ UBoot => Contract!CNext \/ UNCHANGED Contract!cvars
<1> SUFFICES ASSUME Calm, JInv, UBoot PROVE Contract!CNext \/ UNCHANGED Contract!cvars
  OBVIOUS
<1>type. TypeInv
  BY DEF JInv, Typed
<1>bus. ~I2cFault
  BY <1>type, BusAnswers DEF Calm
<1>1. CASE WriteSlot
  <2>1. Running' = Running /\ (Partial' <=> Partial)
    BY <1>1, SameChunks DEF WriteSlot, Running
  <2>2. Latched' <=> IF wr.key = "needed" /\ wr.slot = "A" THEN wr.val # 0 ELSE Latched
    BY <1>1, <1>type, SlotWritten DEF WriteSlot
  <2>3. CASE Latched' <=> Latched
    BY <2>1, <2>3, ContractStutter
  <2>4. CASE Latched'
    BY <2>1, <2>4, ContractSetLatch DEF Contract!CNext
  <2>5. CASE ~Latched' /\ Latched
    <3>1. wr.key = "needed" /\ wr.val = 0
      BY <2>2, <2>5
    <3>2. pc = "clear_probe"
      BY <3>1 DEF JInv, WritersInPlace
    <3>3. ~Partial
      BY <3>2, EssentialIsWhole DEF JInv, BothProgress, Clearing
    <3> QED BY <2>1, <2>5, <3>3, ContractRelease DEF Contract!CNext
  <2> QED BY <2>3, <2>4, <2>5
<1>2. CASE CopyChunk \/ CopyFails
  <2>1. Latched
    <3>1. pc = "copy" /\ wr.key # "needed"
      BY <1>2 DEF CopyChunk, CopyFails, At, Idle
    <3> QED BY <3>1 DEF JInv, BothLatched
  <2>2. Running' = Running
    BY <1>2 DEF CopyChunk, CopyFails, At, Running
  <2>3. Latched' <=> Latched
    BY <1>2 DEF CopyChunk, CopyFails, Latched
  <2> QED BY <2>1, <2>2, <2>3, ContractOverwrite DEF Contract!CNext
<1>3. CASE Handover
  <2>1. pc = "handover" /\ pc' \in {"emmc", "sd", "prompt"} /\ UNCHANGED <<fram, emmc>>
    BY <1>3 DEF Handover, LastTarget, At
  <2>2. Latched' = Latched /\ Partial' = Partial
    BY <2>1, SameView
  <2>3. ~Partial
    BY <2>1 DEF JInv, BothProgress
  <2>4. CASE pc' = "emmc"
    BY <2>1, <2>2, <2>3, <2>4 DEF Contract!CNext, Contract!BootEmmc
  <2>5. CASE pc' = "sd"
    BY <2>1, <2>2, <2>5 DEF Contract!CNext, Contract!BootSd
  <2>6. CASE pc' = "prompt"
    BY <2>1, <2>6, SameView, ContractStutter DEF Running
  <2> QED BY <2>1, <2>4, <2>5, <2>6
<1>4. CASE Fallback
  <2>1. pc = "fallback" /\ pc' \in {"sd", "prompt"} /\ UNCHANGED <<fram, emmc>>
    BY <1>4 DEF Fallback, LastTarget, At
  <2>2. Latched' = Latched /\ Partial' = Partial
    BY <2>1, SameView
  <2>3. CASE pc' = "sd"
    BY <2>1, <2>2, <2>3 DEF Contract!CNext, Contract!BootSd
  <2>4. CASE pc' = "prompt"
    BY <2>1, <2>4, SameView, ContractStutter DEF Running
  <2> QED BY <2>1, <2>3, <2>4
<1>5. CASE \/ SelectBus \/ Probe \/ BumpFails \/ LatchNeeded \/ ReadLatch
           \/ RefuseRecovery \/ ReadOffset \/ CountAttempt \/ LatchRun
           \/ Checkpoint \/ CopyDone \/ Verify
           \/ ClearNeeded \/ ClearProbe \/ ClearMedia \/ ClearOffset \/ ClearSkipped
  <2>1. UNCHANGED <<fram, emmc>>
    BY <1>5 DEF SelectBus, Probe, BumpFails, LatchNeeded, ReadLatch, RefuseRecovery,
       ReadOffset, CountAttempt, LatchRun, Checkpoint, CopyDone, Verify, ClearNeeded,
       ClearProbe, ClearMedia, ClearOffset, ClearSkipped, Clear
  <2>2. pc \notin {"emmc", "sd"} /\ pc' \notin {"emmc", "sd"}
    BY <1>5 DEF SelectBus, Probe, BumpFails, LatchNeeded, ReadLatch, RefuseRecovery,
       ReadOffset, CountAttempt, LatchRun, Checkpoint, CopyDone, Verify, ClearNeeded,
       ClearProbe, ClearMedia, ClearOffset, ClearSkipped, Clear, At
  <2>3. Running' = Running /\ (Latched' <=> Latched) /\ (Partial' <=> Partial)
    BY <2>1, <2>2, SameView DEF Running
  <2> QED BY <2>3, ContractStutter
<1>6. CASE WriteSlotFails
  BY <1>bus, <1>6 DEF WriteSlotFails
<1> QED BY <1>1, <1>2, <1>3, <1>4, <1>5, <1>6 DEF UBoot, UBootStep

(* Linux's: it overwrites the eMMC with dd, and only under the latch.      *)
LEMMA LinuxContract ==
  JInv /\ (LinuxStep \/ RunInstallOs) => Contract!CNext \/ UNCHANGED Contract!cvars
<1> SUFFICES ASSUME JInv, LinuxStep \/ RunInstallOs
             PROVE  Contract!CNext \/ UNCHANGED Contract!cvars
  OBVIOUS
<1>1. pc' = pc /\ UNCHANGED fram
  BY DEF LinuxStep, RunInstallOs, MountRoot, BootStamp, AutoRecover, RefuseInstall,
     LatchRecovery, StopServices, StartCopy, DdChunk, SetRestoreOffset, SpanCopied,
     SetDiskSignature, MkfsHome, VerifyEmmc, ClearAfterVerify, ClearFlag, UbootUnchanged
<1>2. Running' = Running /\ (Latched' <=> Latched)
  BY <1>1, SameRecords DEF Running
<1>3. CASE DdChunk
  <2>1. Latched
    BY <1>3 DEF DdChunk, InLinux, JInv, LinuxInPlace
  <2> QED BY <1>2, <2>1, ContractOverwrite DEF Contract!CNext
<1>4. CASE ~DdChunk
  <2>1. \A c \in 0 .. Essential - 1 : emmc'[c] = emmc[c]
    BY <1>4, SpanAssumption
       DEF LinuxStep, RunInstallOs, MountRoot, BootStamp, AutoRecover, RefuseInstall,
         LatchRecovery, StopServices, StartCopy, SetRestoreOffset, SpanCopied,
         SetDiskSignature, MkfsHome, VerifyEmmc, ClearAfterVerify, ClearFlag, Chunk
  <2>2. Partial' <=> Partial
    BY <2>1 DEF Partial
  <2> QED BY <1>2, <2>2, ContractStutter
<1> QED BY <1>3, <1>4

LEMMA ResetContract == Calm /\ JInv /\ Reset => Contract!CNext
<1> SUFFICES ASSUME Calm, JInv, Reset PROVE Contract!CNext
  OBVIOUS
<1>1. Running' = "none"
  BY DEF Reset, Running
<1>2. Partial => Latched
  BY DEF JInv, BothLatched
<1>3. CASE wr # Idle
  <2>1. Partial' <=> Partial
    BY <1>3, CopyingIsLatched, SameChunks DEF Reset
  <2>2. Latched => Latched' \/ ~Partial
    BY <1>3, ResetRecords
  <2> QED BY <1>1, <1>2, <2>1, <2>2, ContractPowerDown DEF Contract!CNext
<1>4. CASE wr = Idle
  <2>1. UNCHANGED fram /\ (Latched' <=> Latched)
    BY <1>4, SameRecords DEF Reset
  <2>2. UNCHANGED emmc \/ Latched
    BY CopyingIsLatched DEF Reset
  <2>3. CASE UNCHANGED emmc
    <3>1. Partial' <=> Partial
      BY <2>3, SameChunks
    <3> QED BY <1>1, <2>1, <3>1, ContractPowerDown DEF Contract!CNext
  <2>4. CASE Latched
    BY <1>1, <2>1, <2>4, ContractPowerDown DEF Contract!CNext
  <2> QED BY <2>2, <2>3, <2>4
<1> QED BY <1>3, <1>4

(* Decay may damage a half-copied eMMC, which is then under the latch.     *)
LEMMA DecayContract == JInv /\ Decay => Contract!CNext \/ UNCHANGED Contract!cvars
<1> SUFFICES ASSUME JInv, Decay PROVE Contract!CNext \/ UNCHANGED Contract!cvars
  OBVIOUS
<1>1. Running' = Running /\ (Latched' <=> Latched)
  BY SameRecords DEF Decay, EmmcDecays, Running
<1>2. CASE Latched
  BY <1>1, <1>2, ContractOverwrite DEF Contract!CNext
<1>3. CASE ~Latched
  <2>1. ~Partial
    BY <1>3 DEF JInv, BothLatched
  <2>2. \A c \in Chunk : emmc'[c] \in {"bad", "orig"}
    BY DEF Decay, EmmcDecays
  <2>3. ~Partial'
    BY <2>2, SpanAssumption DEF Partial, Chunk
  <2> QED BY <1>1, <2>1, <2>3, ContractStutter
<1> QED BY <1>2, <1>3

LEMMA BothContractStep ==
  Calm /\ JInv /\ [NextAll]_allVars => [Contract!CNext]_(Contract!cvars)
<1> SUFFICES ASSUME Calm, JInv, [NextAll]_allVars
             PROVE  Contract!CNext \/ UNCHANGED Contract!cvars
  BY Zenon
<1>1. CASE ServiceDies \/ ServiceHangs
  BY <1>1 DEF ServiceDies, ServiceHangs, Calm
<1>2. CASE UNCHANGED allVars
  <2>1. Running' = Running /\ (Latched' <=> Latched) /\ (Partial' <=> Partial)
    BY <1>2, SameView DEF allVars, Running
  <2> QED BY <2>1, ContractStutter
<1> QED
  BY <1>1, <1>2, UBootContract, LinuxContract, ResetContract, DecayContract DEF NextAll

(* U-Boot and install-os together implement the contract of the restore.   *)
THEOREM BothKeepContract == Calm => (SpecAll => ImplementsContract)
<1> SUFFICES ASSUME Calm PROVE SpecAll => ImplementsContract
  OBVIOUS
<1>1. JInv /\ [NextAll]_allVars => [Contract!CNext]_(Contract!cvars)
  BY BothContractStep
<1>2. InitAll => Contract!CInit
  BY ContractInit DEF InitAll
<1> QED
  BY <1>1, <1>2, BothInvariance, PTL DEF SpecAll, ImplementsContract, Contract!CSpec
=============================================================================
