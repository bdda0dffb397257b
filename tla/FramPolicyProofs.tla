---------------------------- MODULE FramPolicyProofs ----------------------------
(***************************************************************************)
(* Why a boot overlays what fram-service last put under the checksum, and  *)
(* which stamps of the layout header can cost a record: for every number   *)
(* of sets, of power cuts and of releases installed, in any order.         *)
(*                                                                         *)
(* Both rest on what the service can still owe when power goes: either     *)
(* records and a header, none of them in a slot of the checksum, or the    *)
(* two slots of one checksum over the region as it is.                     *)
(***************************************************************************)
EXTENDS FramPolicy, TLAPS, SequenceTheorems

SumCell == chip[SlotAt(7, "A")]

(* A record, or the remains of one, says which bytes it was computed over. *)
Covers(c) == c.kind \in {"record", "half"}

(* The value that fram-service reads from slots with the bytes of region.  *)
NewestIn(region, id) ==
  LET a == region[id]["A"]
      b == region[id]["B"]
  IN  CASE Valid(a) /\ (~Valid(b) \/ a.seq >= b.seq) -> <<a.val>>
        [] Valid(b) /\ (~Valid(a) \/ b.seq > a.seq) -> <<b.val>>
        [] OTHER -> <<>>

IsCell(c) == c = Cell(c.kind, c.val, c.seq, c.sum) /\ c.seq \in Nat

(* What SetFlag and Mount owe the chip, and what RefreshChecksum does.     *)
PlainWrites ==
  {Refresh} \cup {[at |-> HeaderAt(uboot.layout), new |-> Header(uboot.layout)]}
    \cup {[at |-> SlotAt(id, s), new |-> Record(v, q)] :
            id \in (Keys(uboot.layout) \cap Ids) \ {7}, s \in Slot,
            v \in {0, 1}, q \in Nat}

SumWrites ==
  {[at |-> SlotAt(7, s), new |-> Sum(Region, q)] : s \in Slot, q \in Nat}

Typed ==
  /\ uboot \in Builds
  /\ DOMAIN chip = Cells /\ \A c \in Cells : IsCell(chip[c])

OwesOneKind == todo \in Seq(PlainWrites) \/ todo \in Seq(SumWrites)

(* The service is not running and nothing is overlaid yet.                 *)
OffIsIdle == phase = "off" => todo = <<>> /\ env = NoneOverlaid

(* A record is where some layout has its header only if a service wrote    *)
(* the chip that reserves more keys than that layout.                      *)
HeaderIsFree ==
  /\ widest \in Nat
  /\ \A l \in {3, 4, 5} : chip[HeaderAt(l)].kind = "record" => Reserved(l) < widest

ChecksumCovers ==
  /\ SumCell.sum # <<>> => Covers(SumCell)
  /\ Covers(SumCell) =>
       \A id \in Policy : covered[id] = NewestIn(SumCell.sum, id)

(* The inductive invariant.                                                *)
IInv == Typed /\ OwesOneKind /\ OffIsIdle /\ HeaderIsFree /\ ChecksumCovers
-----------------------------------------------------------------------------
(* The address space.                                                      *)

LEMMA BuildLayouts ==
  ASSUME uboot \in Builds
  PROVE  uboot.layout \in {1, 2, 4, 5}
BY DEF Builds, Build

LEMMA Addresses ==
  /\ SlotAt(1, "A") = 0 /\ SlotAt(1, "B") = 32
  /\ SlotAt(2, "A") = 64 /\ SlotAt(2, "B") = 96
  /\ SlotAt(7, "A") = 384 /\ SlotAt(7, "B") = 416
  /\ SlotAt(32, "A") = 1984 /\ SlotAt(32, "B") = 2016
  /\ SlotAt(33, "A") = 2048 /\ SlotAt(33, "B") = 2080
BY DEF SlotAt

LEMMA HeaderAddresses ==
  /\ HeaderAt(1) = 2048 /\ HeaderAt(2) = 2048 /\ HeaderAt(3) = 2048
  /\ HeaderAt(4) = 2560 /\ HeaderAt(5) = 2624
BY DEF HeaderAt, Reserved

LEMMA ReservedKeys ==
  /\ Reserved(1) = 32 /\ Reserved(2) = 32 /\ Reserved(3) = 32
  /\ Reserved(4) = 40 /\ Reserved(5) = 41
BY DEF Reserved

(* Layouts 1 and 2 have their header where layout 3 has it.                *)
LEMMA HeaderOfThree ==
  ASSUME uboot \in Builds
  PROVE  \E l \in {3, 4, 5} : /\ HeaderAt(uboot.layout) = HeaderAt(l)
                             /\ Reserved(uboot.layout) = Reserved(l)
BY BuildLayouts, HeaderAddresses, ReservedKeys

LEMMA AllCells ==
  Cells = {0, 32, 64, 96, 384, 416, 1984, 2016, 2048, 2080, 2560, 2624}
<1>1. {SlotAt(id, s) : id \in Ids, s \in Slot}
        = {0, 32, 64, 96, 384, 416, 1984, 2016, 2048, 2080}
  BY Addresses DEF Ids, Policy, Slot
<1>2. {HeaderAt(l) : l \in {3, 4, 5}} = {2048, 2560, 2624}
  BY HeaderAddresses
<1> QED BY <1>1, <1>2 DEF Cells

LEMMA HeaderIsACell ==
  ASSUME uboot \in Builds
  PROVE  HeaderAt(uboot.layout) \in Cells
BY BuildLayouts, HeaderAddresses, AllCells

(* The slots of the keys a layout has end before its header; the checksum  *)
(* has two slots of its own.                                               *)
LEMMA RecordsMissTheHeader ==
  ASSUME uboot \in Builds,
         NEW id \in (Keys(uboot.layout) \cap Ids) \ {7}, NEW s \in Slot
  PROVE  /\ SlotAt(id, s) \in Cells
         /\ SlotAt(id, s) # HeaderAt(uboot.layout)
         /\ SlotAt(id, s) # SlotAt(7, "A")
         /\ \A l \in {3, 4, 5} :
              SlotAt(id, s) = HeaderAt(l) => Reserved(l) < Reserved(uboot.layout)
<1>1. id \in {1, 2, 32, 33} /\ s \in {"A", "B"}
  BY DEF Ids, Policy, Slot
<1>2. SlotAt(id, s) \in {0, 32, 64, 96, 1984, 2016, 2048, 2080}
  BY <1>1, Addresses
<1>3. CASE uboot.layout \in {1, 2}
  <2>1. id # 33
    BY <1>3 DEF Keys
  <2>2. SlotAt(id, s) \in {0, 32, 64, 96, 1984, 2016}
    BY <1>1, <2>1, Addresses
  <2> QED BY <1>3, <2>2, HeaderAddresses, Addresses, AllCells
<1>4. CASE uboot.layout \in {4, 5}
  BY <1>2, <1>4, HeaderAddresses, ReservedKeys, Addresses, AllCells
<1> QED BY <1>3, <1>4, BuildLayouts

LEMMA ChecksumMissesTheHeader ==
  ASSUME uboot \in Builds, NEW s \in Slot
  PROVE  /\ SlotAt(7, s) \in Cells /\ SlotAt(7, s) # HeaderAt(uboot.layout)
         /\ \A l \in {3, 4, 5} : SlotAt(7, s) # HeaderAt(l)
         /\ \A id \in Policy, t \in Slot : SlotAt(id, t) # SlotAt(7, s)
BY BuildLayouts, Addresses, HeaderAddresses, AllCells DEF Slot, Policy

LEMMA PolicySlots ==
  ASSUME NEW id \in Policy, NEW s \in Slot
  PROVE  SlotAt(id, s) \in Cells
BY Addresses, AllCells DEF Policy, Slot
-----------------------------------------------------------------------------
(* The cells.                                                              *)

LEMMA PlainCells ==
  /\ IsCell(Blank) /\ IsCell(Torn)
  /\ \A l : IsCell(Header(l))
  /\ \A v, q \in Nat : IsCell(Record(v, q))
BY DEF IsCell, Cell, Blank, Torn, Header, Record

LEMMA SumCells ==
  ASSUME NEW region, NEW q \in Nat
  PROVE  /\ IsCell(Sum(region, q)) /\ Sum(region, q).sum = region
         /\ Covers(Sum(region, q)) /\ Sum(region, q).kind = "record"
BY DEF IsCell, Cell, Sum, Covers

LEMMA HalfCells ==
  ASSUME NEW c, IsCell(c)
  PROVE  /\ IsCell(Half(c)) /\ Half(c).sum = c.sum
         /\ Covers(Half(c)) /\ Half(c).kind = "half"
BY DEF IsCell, Cell, Half, Covers

LEMMA NoSums ==
  /\ Blank.sum = <<>> /\ Torn.sum = <<>> /\ \A l : Header(l).sum = <<>>
  /\ \A v, q : Record(v, q).sum = <<>>
BY DEF Cell, Blank, Torn, Header, Record

LEMMA Kinds ==
  /\ Blank.kind = "blank" /\ Torn.kind = "torn"
  /\ \A l : Header(l).kind = "header"
  /\ \A v, q : Record(v, q).kind = "record"
BY DEF Cell, Blank, Torn, Header, Record

LEMMA NewestOfRegion ==
  ASSUME NEW id \in Policy
  PROVE  NewestIn(Region, id) = Newest(id)
BY DEF NewestIn, Newest, Region, Slot

LEMMA MaxSeqNat ==
  ASSUME Typed, NEW id \in Ids
  PROVE  MaxSeq(id) \in Nat
<1>1. SlotAt(id, "A") \in Cells /\ SlotAt(id, "B") \in Cells
  BY DEF Cells, Slot
<1>2. chip[SlotAt(id, "A")].seq \in Nat /\ chip[SlotAt(id, "B")].seq \in Nat
  BY <1>1 DEF Typed, IsCell
<1> QED BY <1>2 DEF MaxSeq, Seq0

LEMMA PolicyKeys ==
  ASSUME uboot \in Builds, NEW id \in Policy
  PROVE  id \in (Keys(uboot.layout) \cap Ids) \ {7}
BY BuildLayouts DEF Policy, Ids, Keys

(* A write outside the policy keys leaves the region as it is.             *)
LEMMA RegionKept ==
  ASSUME Typed, NEW a \in Cells, NEW v, chip' = [chip EXCEPT ![a] = v],
         \A id \in Policy, s \in Slot : SlotAt(id, s) # a
  PROVE  Region' = Region
<1>1. \A id \in Policy, s \in Slot : chip'[SlotAt(id, s)] = chip[SlotAt(id, s)]
  BY PolicySlots DEF Typed
<1> QED BY <1>1 DEF Region
-----------------------------------------------------------------------------
(* Writes.                                                                 *)

LEMMA CellWritten ==
  ASSUME Typed, NEW a \in Cells, NEW v, IsCell(v),
         chip' = [chip EXCEPT ![a] = v], uboot' = uboot
  PROVE  /\ Typed' /\ chip'[a] = v
         /\ \A c \in Cells : c # a => chip'[c] = chip[c]
<1>1. /\ DOMAIN chip' = Cells /\ chip'[a] = v
      /\ \A c \in Cells : c # a => chip'[c] = chip[c]
  BY DEF Typed
<1>2. \A c \in Cells : IsCell(chip'[c])
  BY <1>1 DEF Typed
<1> QED BY <1>1, <1>2 DEF Typed

(* The two kinds of write the service may be in the middle of.             *)
LEMMA PlainOwed ==
  ASSUME Typed, NEW w \in PlainWrites, w # Refresh
  PROVE  /\ w.at \in Cells /\ IsCell(w.new) /\ w.new.sum = <<>>
         /\ w.at # SlotAt(7, "A")
         /\ \/ w.at = HeaderAt(uboot.layout) /\ w.new = Header(uboot.layout)
            \/ w.at # HeaderAt(uboot.layout) /\ w.new.kind = "record"
         /\ \A l \in {3, 4, 5} : w.at = HeaderAt(l) /\ w.new.kind = "record"
                                 => Reserved(l) < Reserved(uboot.layout)
<1>1. CASE w = [at |-> HeaderAt(uboot.layout), new |-> Header(uboot.layout)]
  <2>1. w.at = HeaderAt(uboot.layout) /\ w.new = Header(uboot.layout)
    BY <1>1
  <2>2. w.new.sum = <<>>
    BY <2>1, NoSums
  <2>3. IsCell(w.new)
    BY <2>1, PlainCells
  <2>4. w.at \in Cells /\ w.at # SlotAt(7, "A")
    BY <2>1, HeaderIsACell, ChecksumMissesTheHeader DEF Typed, Slot
  <2>5. w.new.kind # "record"
    BY <2>1, Kinds
  <2> QED BY <2>1, <2>2, <2>3, <2>4, <2>5
<1>2. CASE \E id \in (Keys(uboot.layout) \cap Ids) \ {7}, s \in Slot,
              v \in {0, 1}, q \in Nat :
             w = [at |-> SlotAt(id, s), new |-> Record(v, q)]
  <2>1. PICK id \in (Keys(uboot.layout) \cap Ids) \ {7}, s \in Slot,
             v \in {0, 1}, q \in Nat :
               w = [at |-> SlotAt(id, s), new |-> Record(v, q)]
    BY <1>2
  <2>2. w.at = SlotAt(id, s) /\ w.new = Record(v, q)
    BY <2>1
  <2>3. /\ w.at \in Cells /\ w.at # HeaderAt(uboot.layout)
        /\ w.at # SlotAt(7, "A")
        /\ \A l \in {3, 4, 5} :
             w.at = HeaderAt(l) => Reserved(l) < Reserved(uboot.layout)
    BY <2>2, RecordsMissTheHeader DEF Typed
  <2>4. v \in Nat
    OBVIOUS
  <2>5. IsCell(w.new) /\ w.new.kind = "record"
    BY <2>2, <2>4, PlainCells, Kinds
  <2>6. w.new.sum = <<>>
    BY <2>2, NoSums
  <2> QED BY <2>3, <2>5, <2>6
<1> QED BY <1>1, <1>2 DEF PlainWrites

LEMMA SumOwed ==
  ASSUME NEW w \in SumWrites
  PROVE  /\ w.at \in {SlotAt(7, "A"), SlotAt(7, "B")} /\ IsCell(w.new)
         /\ w.new.sum = Region /\ w.new.kind = "record" /\ Covers(w.new)
<1>1. PICK s \in Slot, q \in Nat :
        w = [at |-> SlotAt(7, s), new |-> Sum(Region, q)]
  BY DEF SumWrites
<1>2. w.at = SlotAt(7, s) /\ w.new = Sum(Region, q)
  BY <1>1
<1> QED BY <1>2, SumCells DEF Slot

LEMMA OwedNext ==
  ASSUME NEW S, todo \in Seq(S), todo # <<>>
  PROVE  Head(todo) \in S /\ Tail(todo) \in Seq(S)
BY HeadTailProperties

LEMMA NothingOwed == \A S : <<>> \in Seq(S)
BY EmptySeq

LEMMA PairOwed ==
  ASSUME NEW S, NEW x \in S, NEW y \in S
  PROVE  <<x, y>> \in Seq(S)
OBVIOUS

(* A header is no record, whatever it takes the place of.                  *)
LEMMA HeaderWritten ==
  ASSUME IInv, chip' = [chip EXCEPT ![HeaderAt(uboot.layout)] = Header(uboot.layout)],
         UNCHANGED <<uboot, covered>>, widest' \in Nat, widest' >= widest
  PROVE  /\ Typed' /\ HeaderIsFree' /\ ChecksumCovers' /\ Region' = Region
<1> DEFINE h == HeaderAt(uboot.layout)
<1>1. /\ h \in Cells /\ h # SlotAt(7, "A") /\ SlotAt(7, "A") \in Cells
  BY HeaderIsACell, ChecksumMissesTheHeader DEF IInv, Typed, Slot
<1>2. /\ Typed' /\ chip'[h] = Header(uboot.layout)
      /\ \A c \in Cells : c # h => chip'[c] = chip[c]
  BY <1>1, CellWritten, PlainCells DEF IInv
<1>3. \A id \in Policy, s \in Slot : SlotAt(id, s) # h
  BY RecordsMissTheHeader, PolicyKeys DEF IInv, Typed
<1>4. Region' = Region
  BY <1>1, <1>3, RegionKept DEF IInv
<1>5. HeaderIsFree'
  <2>1. \A l \in {3, 4, 5} : HeaderAt(l) \in Cells /\ Reserved(l) \in Nat
    BY HeaderAddresses, ReservedKeys, AllCells
  <2>2. \A l \in {3, 4, 5} :
          chip'[HeaderAt(l)].kind = "record" => chip[HeaderAt(l)].kind = "record"
    BY <1>2, <2>1, Kinds
  <2> QED BY <2>1, <2>2 DEF IInv, HeaderIsFree
<1>6. SumCell' = SumCell
  BY <1>1, <1>2 DEF SumCell
<1>7. ChecksumCovers'
  BY <1>6 DEF ChecksumCovers, IInv
<1> QED BY <1>2, <1>4, <1>5, <1>7
-----------------------------------------------------------------------------
(* The invariant holds at first and is kept by every step.                 *)

LEMMA InitIInv ==
  ASSUME Init
  PROVE  IInv
<1>1. uboot \in Builds /\ phase = "off" /\ todo = <<>> /\ env = NoneOverlaid
  BY DEF Init
<1>2. \A c \in Cells : chip[c] \in {Blank, Record(1, 1), Header(3)}
  BY DEF Init, BlankChip, PriorChip
<1>3. Typed
  <2>1. DOMAIN chip = Cells
    BY DEF Init, BlankChip, PriorChip
  <2>2. \A c \in Cells : IsCell(chip[c])
    BY <1>2, PlainCells
  <2> QED BY <1>1, <2>1, <2>2 DEF Typed
<1>4. SlotAt(7, "A") \in Cells /\ SumCell = Blank
  <2>1. /\ SlotAt(7, "A") \in Cells /\ SlotAt(7, "A") # SlotAt(32, "A")
        /\ SlotAt(7, "A") # SlotAt(32, "B") /\ SlotAt(7, "A") # HeaderAt(3)
    BY Addresses, HeaderAddresses, AllCells
  <2> QED BY <2>1 DEF SumCell, Init, BlankChip, PriorChip
<1>5. HeaderIsFree
  <2>1. \A l \in {3, 4, 5} : /\ HeaderAt(l) \in Cells
                             /\ HeaderAt(l) # SlotAt(32, "A")
                             /\ HeaderAt(l) # SlotAt(32, "B")
    BY Addresses, HeaderAddresses, AllCells
  <2>2. \A l \in {3, 4, 5} : chip[HeaderAt(l)] \in {Blank, Header(3)}
    BY <2>1 DEF Init, BlankChip, PriorChip
  <2>3. widest \in Nat
    BY ReservedKeys DEF Init
  <2> QED BY <2>2, <2>3, Kinds DEF HeaderIsFree
<1>6. ChecksumCovers
  BY <1>4, NoSums, Kinds DEF ChecksumCovers, Covers
<1> QED BY <1>1, <1>3, <1>5, <1>6, NothingOwed DEF IInv, OwesOneKind, OffIsIdle

LEMMA UnchangedStep ==
  ASSUME IInv, UNCHANGED vars
  PROVE  IInv'
BY DEF IInv, vars, Typed, OwesOneKind, OffIsIdle, HeaderIsFree,
       ChecksumCovers, SumCell, PlainWrites, SumWrites, Region

(* Steps that leave the chip alone.                                        *)
LEMMA ChipKept ==
  ASSUME IInv, UNCHANGED <<chip, uboot, covered, widest>>
  PROVE  /\ Typed' /\ HeaderIsFree' /\ ChecksumCovers' /\ Region' = Region
         /\ PlainWrites' = PlainWrites /\ SumWrites' = SumWrites
BY DEF IInv, Typed, HeaderIsFree, ChecksumCovers, SumCell, Region,
       PlainWrites, SumWrites

LEMMA ReflashStep ==
  ASSUME IInv, Reflash
  PROVE  IInv'
<1>1. /\ phase = "off" /\ uboot' \in Builds
      /\ UNCHANGED <<chip, phase, todo, env, covered, widest>>
  BY DEF Reflash
<1>2. todo' = <<>>
  BY <1>1 DEF IInv, OffIsIdle
<1>3. Typed' /\ HeaderIsFree' /\ ChecksumCovers' /\ OffIsIdle'
  BY <1>1 DEF IInv, Typed, HeaderIsFree, ChecksumCovers, SumCell, OffIsIdle
<1> QED BY <1>2, <1>3, NothingOwed DEF IInv, OwesOneKind

LEMMA BootStep ==
  ASSUME IInv, Boot
  PROVE  IInv'
<1>1. PICK reads \in SUBSET Reads :
        EnsureLayoutHeader(reads)
  BY DEF Boot
<1>2. phase = "off" /\ phase' = "linux" /\ UNCHANGED <<uboot, todo, covered, widest>>
  BY DEF Boot
<1>3. todo' = <<>>
  BY <1>2 DEF IInv, OffIsIdle
<1>4. Typed' /\ HeaderIsFree' /\ ChecksumCovers'
  <2>1. CASE chip' = [chip EXCEPT ![HeaderAt(uboot.layout)] = Header(uboot.layout)]
    <3>1. widest' \in Nat /\ widest' >= widest
      BY <1>2 DEF IInv, HeaderIsFree
    <3> QED BY <1>2, <2>1, <3>1, HeaderWritten
  <2>2. CASE chip' = chip
    BY <1>2, <2>2, ChipKept
  <2> QED BY <1>1, <2>1, <2>2 DEF EnsureLayoutHeader
<1> QED BY <1>2, <1>3, <1>4, NothingOwed DEF IInv, OwesOneKind, OffIsIdle

LEMMA MountStep ==
  ASSUME IInv, Mount
  PROVE  IInv'
<1>1. UNCHANGED <<chip, uboot, phase, covered, widest>> /\ phase = "linux"
  BY DEF Mount
<1>2. todo' = <<[at |-> HeaderAt(uboot.layout), new |-> Header(uboot.layout)]>>
  BY DEF Mount
<1>3. [at |-> HeaderAt(uboot.layout), new |-> Header(uboot.layout)] \in PlainWrites
  BY DEF PlainWrites
<1>4. todo' \in Seq(PlainWrites)
  BY <1>2, <1>3
<1> QED BY <1>1, <1>4, ChipKept DEF IInv, OwesOneKind, OffIsIdle

LEMMA SetFlagStep ==
  ASSUME IInv, NEW id \in Policy \cup {32, 33}, NEW val \in {0, 1}, SetFlag(id, val)
  PROVE  IInv'
<1>1. /\ UNCHANGED <<chip, uboot, phase, covered, widest>> /\ phase = "linux"
      /\ id \in (Keys(uboot.layout) \cap Ids) \ {7}
  BY DEF SetFlag, Ids
<1>2. PICK writes \in BothSlots(id, Record(val, MaxSeq(id) + 1)) :
        todo' = IF id \in Policy THEN Append(writes, Refresh) ELSE writes
  BY DEF SetFlag
<1>3. PICK s \in Slot, t \in Slot :
        writes = <<[at |-> SlotAt(id, s), new |-> Record(val, MaxSeq(id) + 1)],
                   [at |-> SlotAt(id, t), new |-> Record(val, MaxSeq(id) + 1)]>>
  BY <1>2 DEF BothSlots, Slot
<1>4. MaxSeq(id) + 1 \in Nat
  BY <1>1, MaxSeqNat DEF IInv
<1>5. /\ [at |-> SlotAt(id, s), new |-> Record(val, MaxSeq(id) + 1)] \in PlainWrites
      /\ [at |-> SlotAt(id, t), new |-> Record(val, MaxSeq(id) + 1)] \in PlainWrites
      /\ Refresh \in PlainWrites
  BY <1>1, <1>4 DEF PlainWrites
<1>6. writes \in Seq(PlainWrites)
  BY <1>3, <1>5, PairOwed
<1>7. Append(writes, Refresh) \in Seq(PlainWrites)
  BY <1>5, <1>6, AppendProperties
<1>8. todo' \in Seq(PlainWrites)
  BY <1>2, <1>6, <1>7
<1> QED BY <1>1, <1>8, ChipKept DEF IInv, OwesOneKind, OffIsIdle

LEMMA RefreshStep ==
  ASSUME IInv, RefreshChecksum
  PROVE  IInv'
<1>1. UNCHANGED <<chip, uboot, phase, covered, widest>> /\ todo # <<>>
  BY DEF RefreshChecksum
<1>2. PICK writes \in BothSlots(7, Sum(Region, MaxSeq(7) + 1)) : todo' = writes
  BY DEF RefreshChecksum
<1>3. PICK s \in Slot, t \in Slot :
        writes = <<[at |-> SlotAt(7, s), new |-> Sum(Region, MaxSeq(7) + 1)],
                   [at |-> SlotAt(7, t), new |-> Sum(Region, MaxSeq(7) + 1)]>>
  BY <1>2 DEF BothSlots, Slot
<1>4. MaxSeq(7) + 1 \in Nat
  BY MaxSeqNat DEF IInv, Ids
<1>5. /\ [at |-> SlotAt(7, s), new |-> Sum(Region, MaxSeq(7) + 1)] \in SumWrites
      /\ [at |-> SlotAt(7, t), new |-> Sum(Region, MaxSeq(7) + 1)] \in SumWrites
  BY <1>4 DEF SumWrites
<1>6. todo' \in Seq(SumWrites)
  BY <1>2, <1>3, <1>5, PairOwed
<1>7. phase # "off"
  BY <1>1 DEF IInv, OffIsIdle
<1> QED BY <1>1, <1>6, <1>7, ChipKept DEF IInv, OwesOneKind, OffIsIdle

(* A cell other than the header's is written, in full or in part.          *)
LEMMA OtherCellWritten ==
  ASSUME IInv, NEW a \in Cells, NEW v, IsCell(v),
         chip' = [chip EXCEPT ![a] = v], uboot' = uboot,
         widest' \in Nat, widest' >= widest,
         \A l \in {3, 4, 5} :
           a = HeaderAt(l) /\ v.kind = "record" => Reserved(l) < widest',
         IF a = SlotAt(7, "A")
         THEN /\ v.sum # <<>> => Covers(v)
              /\ Covers(v) =>
                   \A id \in Policy : covered'[id] = NewestIn(v.sum, id)
         ELSE covered' = covered
  PROVE  Typed' /\ HeaderIsFree' /\ ChecksumCovers'
<1>1. /\ Typed' /\ chip'[a] = v
      /\ \A c \in Cells : c # a => chip'[c] = chip[c]
  BY CellWritten DEF IInv
<1>2. HeaderIsFree'
  <2>1. ASSUME NEW l \in {3, 4, 5}, chip'[HeaderAt(l)].kind = "record"
        PROVE  Reserved(l) < widest'
    <3>1. HeaderAt(l) \in Cells /\ Reserved(l) \in Nat
      BY HeaderAddresses, ReservedKeys, AllCells
    <3>2. CASE HeaderAt(l) = a
      BY <1>1, <2>1, <3>2
    <3>3. CASE HeaderAt(l) # a
      BY <1>1, <2>1, <3>1, <3>3 DEF IInv, HeaderIsFree
    <3> QED BY <3>2, <3>3
  <2> QED BY <2>1 DEF HeaderIsFree
<1>3. SlotAt(7, "A") \in Cells
  BY Addresses, AllCells
<1>4. CASE a = SlotAt(7, "A")
  <2>1. SumCell' = v
    BY <1>1, <1>4 DEF SumCell
  <2> QED BY <1>1, <1>2, <1>4, <2>1 DEF ChecksumCovers
<1>5. CASE a # SlotAt(7, "A")
  <2>1. SumCell' = SumCell /\ covered' = covered
    BY <1>1, <1>3, <1>5 DEF SumCell
  <2> QED BY <1>1, <1>2, <2>1 DEF ChecksumCovers, IInv
<1> QED BY <1>4, <1>5

LEMMA WriteStep ==
  ASSUME IInv, WriteCell
  PROVE  IInv'
<1> DEFINE w == Head(todo)
<1>1. /\ todo # <<>> /\ w # Refresh /\ todo' = Tail(todo)
      /\ chip' = [chip EXCEPT ![w.at] = w.new]
      /\ UNCHANGED <<uboot, phase, env>>
      /\ covered' = IF w.at = SlotAt(7, "A")
                    THEN [id \in Policy |-> Newest(id)] ELSE covered
  BY DEF WriteCell
<1>wide. widest' \in Nat /\ widest' >= widest /\ widest' >= Reserved(uboot.layout)
  BY BuildLayouts, ReservedKeys DEF WriteCell, IInv, Typed, HeaderIsFree
<1>2. OffIsIdle'
  BY <1>1 DEF IInv, OffIsIdle
<1>3. CASE todo \in Seq(PlainWrites)
  <2>1. w \in PlainWrites /\ todo' \in Seq(PlainWrites)
    BY <1>1, <1>3, OwedNext
  <2>2. /\ w.at \in Cells /\ IsCell(w.new) /\ w.at # SlotAt(7, "A")
        /\ \A l \in {3, 4, 5} : w.at = HeaderAt(l) /\ w.new.kind = "record"
                                => Reserved(l) < Reserved(uboot.layout)
    BY <1>1, <2>1, PlainOwed DEF IInv
  <2>3. \A l \in {3, 4, 5} :
          w.at = HeaderAt(l) /\ w.new.kind = "record" => Reserved(l) < widest'
    <3>1. Reserved(uboot.layout) \in Nat /\ \A l \in {3, 4, 5} : Reserved(l) \in Nat
      BY BuildLayouts, ReservedKeys DEF IInv, Typed
    <3> HIDE DEF w
    <3> QED BY <1>wide, <2>2, <3>1
  <2>4. covered' = covered
    BY <1>1, <2>2
  <2>5. Typed' /\ HeaderIsFree' /\ ChecksumCovers'
    BY <1>1, <1>wide, <2>2, <2>3, <2>4, OtherCellWritten
  <2>6. PlainWrites' = PlainWrites
    BY <1>1 DEF PlainWrites
  <2> QED BY <1>2, <2>1, <2>5, <2>6 DEF IInv, OwesOneKind
<1>4. CASE todo \in Seq(SumWrites)
  <2>1. w \in SumWrites /\ todo' \in Seq(SumWrites)
    BY <1>1, <1>4, OwedNext
  <2>2. /\ w.at \in {SlotAt(7, "A"), SlotAt(7, "B")} /\ IsCell(w.new)
        /\ w.new.sum = Region /\ Covers(w.new)
    BY <2>1, SumOwed
  <2>3. /\ w.at \in Cells /\ \A l \in {3, 4, 5} : w.at # HeaderAt(l)
        /\ \A id \in Policy, s \in Slot : SlotAt(id, s) # w.at
    BY <2>2, ChecksumMissesTheHeader DEF IInv, Typed, Slot
  <2>4. ASSUME w.at = SlotAt(7, "A"), NEW id \in Policy
        PROVE  covered'[id] = NewestIn(w.new.sum, id)
    BY <1>1, <2>2, <2>4, NewestOfRegion
  <2>5. w.at # SlotAt(7, "A") => covered' = covered
    BY <1>1
  <2>6. Typed' /\ HeaderIsFree' /\ ChecksumCovers'
    BY <1>1, <1>wide, <2>2, <2>3, <2>4, <2>5, OtherCellWritten
  <2>7. Region' = Region
    BY <1>1, <2>3, RegionKept DEF IInv
  <2>8. SumWrites' = SumWrites
    BY <2>7 DEF SumWrites
  <2> QED BY <1>2, <2>1, <2>6, <2>8 DEF IInv, OwesOneKind
<1> QED BY <1>3, <1>4 DEF IInv, OwesOneKind

(* What is left of a cell whose write is cut.                              *)
LEMMA TornCells ==
  ASSUME NEW old, IsCell(old), NEW new, IsCell(new), NEW torn \in Tears(old, new)
  PROVE  /\ IsCell(torn) /\ torn.kind # "record" /\ torn.kind # "header"
         /\ \/ torn.sum = <<>> /\ ~Covers(torn)
            \/ torn = Half(new) /\ torn.sum = new.sum /\ Covers(torn)
            \/ torn.sum = old.sum /\ old.sum # <<>> /\ Covers(torn)
<1>1. CASE torn = Torn
  BY <1>1, PlainCells, NoSums, Kinds DEF Covers
<1>2. CASE torn = Half(new)
  BY <1>2, HalfCells
<1>3. CASE torn = Half(old) /\ old.sum # <<>>
  BY <1>3, HalfCells
<1> QED BY <1>1, <1>2, <1>3 DEF Tears

LEMMA CutStep ==
  ASSUME IInv, PowerCut
  PROVE  IInv'
<1>1. /\ phase' = "off" /\ todo' = <<>> /\ env' = NoneOverlaid /\ uboot' = uboot
      /\ widest' = widest /\ widest' \in Nat /\ widest' >= widest
  BY DEF PowerCut, IInv, HeaderIsFree
<1>2. SUFFICES Typed' /\ HeaderIsFree' /\ ChecksumCovers'
  BY <1>1, NothingOwed DEF IInv, OwesOneKind, OffIsIdle
<1>3. CASE UNCHANGED <<chip, covered>>
  BY <1>1, <1>3, ChipKept
<1>4. CASE ~UNCHANGED <<chip, covered>>
  <2> DEFINE w == Head(todo)
  <2>1. PICK torn \in Tears(chip[w.at], w.new) :
          /\ todo # <<>> /\ w # Refresh
          /\ chip' = [chip EXCEPT ![w.at] = torn]
          /\ covered' = IF w.at = SlotAt(7, "A") /\ torn = Half(w.new)
                        THEN [id \in Policy |-> Newest(id)] ELSE covered
    BY <1>4 DEF PowerCut
  <2>2. CASE todo \in Seq(PlainWrites)
    <3>1. w \in PlainWrites
      BY <2>1, <2>2, OwedNext
    <3>2. w.at \in Cells /\ IsCell(w.new) /\ w.at # SlotAt(7, "A")
      BY <2>1, <3>1, PlainOwed DEF IInv
    <3>3. IsCell(torn) /\ torn.kind # "record"
      BY <3>2, TornCells DEF IInv, Typed
    <3>4. covered' = covered
      BY <2>1, <3>2
    <3> QED BY <1>1, <2>1, <3>2, <3>3, <3>4, OtherCellWritten
  <2>3. CASE todo \in Seq(SumWrites)
    <3>1. w \in SumWrites
      BY <2>1, <2>3, OwedNext
    <3>2. /\ w.at \in {SlotAt(7, "A"), SlotAt(7, "B")} /\ IsCell(w.new)
          /\ w.new.sum = Region
      BY <3>1, SumOwed
    <3>3. w.at \in Cells
      BY <3>2, ChecksumMissesTheHeader DEF IInv, Typed, Slot
    <3>4. /\ IsCell(torn) /\ torn.kind # "record"
          /\ \/ torn.sum = <<>> /\ ~Covers(torn)
             \/ torn = Half(w.new) /\ torn.sum = w.new.sum /\ Covers(torn)
             \/ torn.sum = chip[w.at].sum /\ chip[w.at].sum # <<>> /\ Covers(torn)
      BY <3>2, <3>3, TornCells DEF IInv, Typed
    <3>5. torn.sum # <<>> => Covers(torn)
      BY <3>4
    <3>6. ASSUME w.at = SlotAt(7, "A"), Covers(torn), NEW id \in Policy
          PROVE  covered'[id] = NewestIn(torn.sum, id)
      <4>1. CASE torn = Half(w.new)
        <5>1. torn.sum = Region
          BY <3>2, <4>1, HalfCells
        <5>2. covered'[id] = Newest(id)
          BY <2>1, <3>6, <4>1
        <5> QED BY <5>1, <5>2, NewestOfRegion
      <4>2. CASE torn # Half(w.new)
        <5>1. /\ torn.sum = SumCell.sum /\ SumCell.sum # <<>>
          BY <3>4, <3>6, <4>2 DEF SumCell
        <5>2. covered' = covered
          BY <2>1, <4>2
        <5> QED BY <5>1, <5>2 DEF IInv, ChecksumCovers
      <4> QED BY <4>1, <4>2
    <3>7. w.at # SlotAt(7, "A") => covered' = covered
      BY <2>1
    <3> QED BY <1>1, <2>1, <3>3, <3>4, <3>5, <3>6, <3>7, OtherCellWritten
  <2> QED BY <2>2, <2>3 DEF IInv, OwesOneKind
<1> QED BY <1>3, <1>4

LEMMA NextIInv ==
  ASSUME IInv, [Next]_vars
  PROVE  IInv'
BY UnchangedStep, ReflashStep, BootStep, MountStep, SetFlagStep, RefreshStep, WriteStep,
   CutStep DEF Next

(* The service never owes a checksum over a region that it goes on to      *)
(* change, nor a record where the header is: a cut leaves a checksum that  *)
(* covers what it was computed over, or none.                              *)
THEOREM SpecInvariant == Spec => []IInv
<1>1. Init => IInv
  BY InitIInv
<1>2. IInv /\ [Next]_vars => IInv'
  BY NextIInv
<1> QED BY <1>1, <1>2, PTL DEF Spec
-----------------------------------------------------------------------------
(* The promises.                                                           *)

(* With slot B readable, what U-Boot decodes is what the service reads.    *)
LEMMA DecodedIsNewest ==
  ASSUME Typed, NEW id \in Policy, NEW reads, "B" \in reads, NEW keys
  PROVE  DecodeAndSet(id, reads, keys) \in {<<>>, Newest(id)}
<1>1. /\ chip[SlotAt(id, "A")].seq \in Nat /\ chip[SlotAt(id, "B")].seq \in Nat
  BY PolicySlots DEF Typed, IsCell, Slot
<1> DEFINE a == chip[SlotAt(id, "A")]
           b == chip[SlotAt(id, "B")]
<1>2. CASE id \notin keys \/ ~Valid(a)
  BY <1>2 DEF DecodeAndSet
<1>3. CASE id \in keys /\ Valid(a) /\ Valid(b) /\ b.seq > a.seq
  <2>1. DecodeAndSet(id, reads, keys) = <<b.val>>
    BY <1>3 DEF DecodeAndSet
  <2>2. Newest(id) = <<b.val>>
    BY <1>1, <1>3 DEF Newest
  <2> QED BY <2>1, <2>2
<1>4. CASE id \in keys /\ Valid(a) /\ ~(Valid(b) /\ b.seq > a.seq)
  <2>1. DecodeAndSet(id, reads, keys) = <<a.val>>
    BY <1>4 DEF DecodeAndSet
  <2>2. Newest(id) = <<a.val>>
    BY <1>1, <1>4 DEF Newest
  <2> QED BY <2>1, <2>2
<1> QED BY <1>2, <1>3, <1>4

LEMMA BootOverlays ==
  ASSUME IInv, Boot, env' # env, ~missedB', NEW id \in Policy
  PROVE  env'[id] \in {<<>>, covered[id]}
<1>1. PICK reads \in SUBSET Reads, keys \in SUBSET Policy :
        /\ OverlayEnv(reads, keys)
        /\ missedB' = ("B" \notin reads /\ env' # NoneOverlaid)
  BY DEF Boot
<1>2. env = NoneOverlaid
  BY DEF Boot, IInv, OffIsIdle
<1>3. "B" \in reads
  BY <1>1, <1>2, Zenon
<1>4. /\ FramBootCrcOk(reads)
      /\ env' = [k \in Policy |-> DecodeAndSet(k, reads, keys)]
  BY <1>1, <1>2 DEF OverlayEnv
<1>5. Covers(SumCell) /\ SumCell.sum = Region
  BY <1>4 DEF FramBootCrcOk, Covers, SumCell
<1>6. covered[id] = Newest(id)
  BY <1>5, NewestOfRegion DEF IInv, ChecksumCovers
<1>7. env'[id] = DecodeAndSet(id, reads, keys)
  BY <1>4
<1> QED BY <1>3, <1>6, <1>7, DecodedIsNewest DEF IInv

(* A boot that can read slot B gives each policy key the value under the   *)
(* last checksum that fram-service completed, or leaves the key alone,     *)
(* whichever of its writes power has cut.                                  *)
THEOREM OverlaysWhatWasCommitted == Spec => OverlayCommitted
<1>1. ASSUME IInv, Next, env' # env, ~missedB', NEW id \in Policy
      PROVE  env'[id] \in {<<>>, covered[id]}
  <2>1. CASE Boot
    BY <1>1, <2>1, BootOverlays
  <2>2. CASE PowerCut
    BY <2>2 DEF PowerCut, NoneOverlaid
  <2>3. ASSUME \/ Reflash \/ Mount \/ RefreshChecksum \/ WriteCell
               \/ \E k, val : SetFlag(k, val)
        PROVE  FALSE
    BY <1>1, <2>3 DEF Reflash, Mount, RefreshChecksum, WriteCell, SetFlag
  <2> QED BY <1>1, <2>1, <2>2, <2>3 DEF Next
<1>2. IInv /\ [Next]_vars
        => [env' # env /\ ~missedB'
              => \A id \in Policy : env'[id] \in {<<>>, covered[id]}]_vars
  BY <1>1
<1> QED BY <1>2, SpecInvariant, PTL DEF Spec, OverlayCommitted

LEMMA StampStep ==
  ASSUME IInv, Next, NEW c \in Cells, chip[c].kind = "record"
  PROVE  chip'[c].kind = "header" => Reserved(uboot.layout) < widest
<1>0. CASE c = HeaderAt(uboot.layout)
  BY <1>0, HeaderOfThree DEF IInv, Typed, HeaderIsFree
<1>1. SUFFICES ASSUME c # HeaderAt(uboot.layout) PROVE chip'[c].kind # "header"
  BY <1>0
<1>2. CASE Boot
  <2>1. \/ chip' = chip
        \/ chip' = [chip EXCEPT ![HeaderAt(uboot.layout)] = Header(uboot.layout)]
    BY <1>2 DEF Boot, EnsureLayoutHeader
  <2>2. chip'[c] = chip[c]
    BY <1>1, <2>1 DEF IInv, Typed
  <2> QED BY <2>2
<1>3. CASE WriteCell
  <2> DEFINE w == Head(todo)
  <2>1. /\ todo # <<>> /\ w # Refresh /\ chip' = [chip EXCEPT ![w.at] = w.new]
    BY <1>3 DEF WriteCell
  <2>2. w \in PlainWrites \/ w \in SumWrites
    BY <2>1, OwedNext DEF IInv, OwesOneKind
  <2>3. w.at = c => w.new.kind = "record"
    BY <1>1, <2>1, <2>2, PlainOwed, SumOwed DEF IInv
  <2> QED BY <2>1, <2>3 DEF IInv, Typed
<1>4. CASE PowerCut
  <2> DEFINE w == Head(todo)
  <2>1. CASE chip' = chip
    BY <2>1
  <2>2. CASE chip' # chip
    <3>1. PICK torn \in Tears(chip[w.at], w.new) :
            /\ todo # <<>> /\ w # Refresh
            /\ chip' = [chip EXCEPT ![w.at] = torn]
      BY <1>4, <2>2 DEF PowerCut
    <3>2. w \in PlainWrites \/ w \in SumWrites
      BY <3>1, OwedNext DEF IInv, OwesOneKind
    <3>3. w.at \in Cells /\ IsCell(w.new)
      BY <3>1, <3>2, PlainOwed, SumOwed, ChecksumMissesTheHeader DEF IInv, Typed, Slot
    <3>4. torn.kind # "header"
      BY <3>3, TornCells DEF IInv, Typed
    <3> QED BY <3>1, <3>4 DEF IInv, Typed
  <2> QED BY <2>1, <2>2
<1>5. CASE \/ Reflash \/ Mount \/ RefreshChecksum \/ \E k, val : SetFlag(k, val)
  BY <1>5 DEF Reflash, Mount, RefreshChecksum, SetFlag
<1> QED BY <1>2, <1>3, <1>4, <1>5 DEF Next

(* The header's place moves with the layout, and the keys of a later one   *)
(* fill the place it had.  Whatever releases were installed before, and in *)
(* whichever order, a stamp of U-Boot or fram-service is on a record only  *)
(* when a service that reserves more keys has written the chip.            *)
THEOREM StampsKeepRecords == Spec => StampKeepsRecords
<1>1. IInv /\ [Next]_vars
        => [\A c \in Cells :
              chip[c].kind = "record" /\ chip'[c].kind = "header"
                => Reserved(uboot.layout) < widest]_vars
  BY StampStep
<1> QED BY <1>1, SpecInvariant, PTL DEF Spec, StampKeepsRecords
=============================================================================
