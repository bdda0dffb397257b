------------------------------ MODULE FramPolicy ------------------------------
(* Mission policy in the I2C FRAM: fram-service writes it, each release of   *)
(* U-Boot overlays it on the environment at boot.                            *)
(* The chip is one address space.  Key id occupies two 32-byte slots from    *)
(* (id - 1) * 64; the layout header follows the last reserved key, so it     *)
(* moves when a layout reserves more keys.  The chip outlives releases: it   *)
(* may have been written under an earlier layout or a later one.  The        *)
(* service writes cell by cell and power may be cut in any write; U-Boot     *)
(* reads before Linux runs.                                                  *)
EXTENDS Naturals, Sequences

CONSTANTS
  MaxSets,   (* bound: keys set by the service                               *)
  MaxCuts    (* bound: power cuts                                            *)

VARIABLES
  chip,      (* address -> content of the cell there                         *)
  uboot,     (* the release in use: its U-Boot build and the layout of both  *)
  phase,     (* "off", "linux": who runs                                     *)
  todo,      (* cell writes and the checksum refresh the service still owes  *)
  env,       (* policy key -> value overlaid at this boot, or <<>>           *)
  missedB,   (* history: this boot overlaid without reading slot B           *)
  covered,   (* history: policy values when checksum slot A was last written *)
  widest,    (* history: most keys reserved by a service that wrote the chip *)
  sets, cuts

vars == <<chip, uboot, phase, todo, env, missedB, covered, widest, sets, cuts>>

(*---------------------------------------------------------------------------*)
(* Mutant: the header stays behind 32 keys.                                  *)
Reserved_Fixed(layout) == 32

(* Layouts.  Versions 1 to 3 reserve 32 keys; 4 puts seven recovery keys     *)
(* behind the checksum and moves the mission keys up; 5 adds one at the end. *)
Reserved(layout) == CASE layout <= 3 -> 32 [] layout = 4 -> 40 [] OTHER -> 41
Keys(layout) == CASE layout <= 3 -> 1 .. 32
                  [] layout = 4 -> 1 .. 39
                  [] OTHER -> 1 .. 40

SlotAt(id, slot) == (id - 1) * 64 + (IF slot = "A" THEN 0 ELSE 32)
HeaderAt(layout) == Reserved(layout) * 64

(* The ids in play: two policy keys for the six, the checksum, the last key  *)
(* of v3, and the one of later layouts whose slot A lies where v3 has its    *)
(* header.                                                                   *)
Policy == {1, 2}
Ids == Policy \cup {7, 32, 33}
Slot == {"A", "B"}
Cells == {SlotAt(id, s) : id \in Ids, s \in Slot}
           \cup {HeaderAt(l) : l \in {3, 4, 5}}

(* Cell contents.  A checksum is abstracted to the bytes it covers.  A torn  *)
(* checksum record may still show its magic, id and value ("half").          *)
Cell(kind, val, seq, sum) ==
  [kind |-> kind, val |-> val, seq |-> seq, sum |-> sum]
Blank == Cell("blank", 0, 0, <<>>)
Torn == Cell("torn", 0, 0, <<>>)
Header(layout) == Cell("header", layout, 0, <<>>)
Record(val, seq) == Cell("record", val, seq, <<>>)
Sum(region, seq) == Cell("record", 0, seq, region)

Region == [id \in Policy |-> [s \in Slot |-> chip[SlotAt(id, s)]]]

Valid(c) == c.kind = "record"
Half(c) == [c EXCEPT !.kind = "half"]
Seq0(c) == IF Valid(c) THEN c.seq ELSE 0
MaxSeq(id) == IF Seq0(chip[SlotAt(id, "A")]) >= Seq0(chip[SlotAt(id, "B")])
              THEN Seq0(chip[SlotAt(id, "A")]) ELSE Seq0(chip[SlotAt(id, "B")])

(* The value fram-service reads: the valid slot of higher sequence number.   *)
Newest(id) ==
  LET a == chip[SlotAt(id, "A")]
      b == chip[SlotAt(id, "B")]
  IN  CASE Valid(a) /\ (~Valid(b) \/ a.seq >= b.seq) -> <<a.val>>
        [] Valid(b) /\ (~Valid(a) \/ b.seq > a.seq) -> <<b.val>>
        [] OTHER -> <<>>

(*---------------------------------------------------------------------------*)
(* U-Boot builds: the two generated 0007s, 0009, 0017 and 0018.  `require'   *)
(* wants the header, `tolerate' lets a blank one pass.                       *)
Build(layout, accepts, gate, stamps) ==
  [layout |-> layout, accepts |-> accepts, gate |-> gate, stamps |-> stamps]

Builds ==
  {Build(1, {1}, "require", FALSE),
   Build(1, {1}, "tolerate", FALSE),
   Build(2, 1 .. 2, "tolerate", TRUE),
   Build(4, 1 .. 4, "tolerate", TRUE),
   Build(5, 1 .. 5, "tolerate", TRUE)}

(* A chip that was never written, or one left by the service at layout 3     *)
(* with its last key set.                                                    *)
BlankChip == [c \in Cells |-> Blank]

PriorChip ==
  [BlankChip EXCEPT
     ![SlotAt(32, "A")] = Record(1, 1),
     ![SlotAt(32, "B")] = Record(1, 1),
     ![HeaderAt(3)] = Header(3)]

NoneOverlaid == [id \in Policy |-> <<>>]

Init ==
  /\ uboot \in Builds
  /\ \/ chip = BlankChip /\ widest = 0
     \/ chip = PriorChip /\ widest = Reserved(3)
  /\ phase = "off" /\ todo = <<>>
  /\ env = NoneOverlaid
  /\ missedB = FALSE /\ covered = NoneOverlaid
  /\ sets = 0 /\ cuts = 0

(* Another release is installed, a later or an earlier one.  The chip stays. *)
Reflash ==
  /\ phase = "off"
  /\ uboot' \in Builds \ {uboot}
  /\ UNCHANGED <<chip, phase, todo, env, missedB, covered, widest, sets, cuts>>

(*---------------------------------------------------------------------------*)
(* U-Boot.  A failed read skips what it was for and nothing else: `reads'    *)
(* are the reads that succeed, `keys' the keys whose slot A is read.         *)
Reads == {"header", "region", "sum", "B"}

LayoutRejects(reads) ==
  LET h == chip[HeaderAt(uboot.layout)]
      good == h.kind = "header" /\ h.val \in uboot.accepts
  IN  IF uboot.gate = "require" THEN "header" \notin reads \/ ~good
      ELSE "header" \in reads /\ h # Blank /\ ~good

(* Mutant: the checksum is compared over slots A only.                       *)
FramBootCrcOk_SlotA(reads) ==
  /\ {"region", "sum"} \subseteq reads
  /\ chip[SlotAt(7, "A")].kind \in {"record", "half"}
  /\ \A id \in Policy : chip[SlotAt(7, "A")].sum[id]["A"] = Region[id]["A"]

(* Over the raw bytes of both slots of every policy key; of the checksum's   *)
(* own record only slot A is looked at, and not its CRC.                     *)
FramBootCrcOk(reads) ==
  /\ {"region", "sum"} \subseteq reads
  /\ chip[SlotAt(7, "A")].kind \in {"record", "half"}
  /\ chip[SlotAt(7, "A")].sum = Region

(* Slot A has to be valid; slot B replaces it with a higher number.          *)
DecodeAndSet(id, reads, keys) ==
  LET a == chip[SlotAt(id, "A")]
      b == chip[SlotAt(id, "B")]
  IN  CASE id \notin keys \/ ~Valid(a) -> <<>>
        [] id \in keys /\ Valid(a) /\ Valid(b) /\ b.seq > a.seq /\ "B" \in reads
             -> <<b.val>>
        [] OTHER -> <<a.val>>

(* Only a blank header is stamped.                                           *)
EnsureLayoutHeader(reads) ==
  chip' = IF uboot.stamps /\ "header" \in reads
             /\ chip[HeaderAt(uboot.layout)] = Blank
          THEN [chip EXCEPT ![HeaderAt(uboot.layout)] = Header(uboot.layout)]
          ELSE chip

RegionBlank == \A id \in Policy, s \in Slot : chip[SlotAt(id, s)] = Blank

(* A build that stamps has a good header by the time it looks at it, unless  *)
(* it was neither blank nor good before.                                     *)
OverlayEnv(reads, keys) ==
  env' = IF \/ LayoutRejects(reads)
            \/ uboot.stamps /\ RegionBlank
            \/ ~FramBootCrcOk(reads)
         THEN NoneOverlaid
         ELSE [id \in Policy |-> DecodeAndSet(id, reads, keys)]

Boot ==
  /\ phase = "off"
  /\ \E reads \in SUBSET Reads, keys \in SUBSET Policy :
       /\ EnsureLayoutHeader(reads)
       /\ OverlayEnv(reads, keys)
       /\ missedB' = ("B" \notin reads /\ env' # NoneOverlaid)
  /\ phase' = "linux"
  /\ UNCHANGED <<uboot, todo, covered, widest, sets, cuts>>

(*---------------------------------------------------------------------------*)
(* fram-service.                                                             *)

(* ensure_layout_header on mount: anything but its own header is replaced, a *)
(* record too.                                                               *)
Mount ==
  /\ phase = "linux" /\ todo = <<>>
  /\ chip[HeaderAt(uboot.layout)] # Header(uboot.layout)
  /\ todo' = <<[at |-> HeaderAt(uboot.layout), new |-> Header(uboot.layout)]>>
  /\ UNCHANGED <<chip, uboot, phase, env, missedB, covered, widest, sets, cuts>>

Refresh == [at |-> 0, new |-> Blank]

BothSlots(id, c) ==
  {<<[at |-> SlotAt(id, s), new |-> c],
     [at |-> SlotAt(id, IF s = "A" THEN "B" ELSE "A"), new |-> c]>> : s \in Slot}

(* A key the layout has; a policy key is followed by a refresh of the        *)
(* checksum over the region as it then is.                                   *)
SetFlag(id, val) ==
  /\ phase = "linux" /\ todo = <<>> /\ sets < MaxSets
  /\ id \in Keys(uboot.layout) \ {7}
  /\ \E writes \in BothSlots(id, Record(val, MaxSeq(id) + 1)) :
       todo' = IF id \in Policy THEN Append(writes, Refresh) ELSE writes
  /\ sets' = sets + 1
  /\ UNCHANGED <<chip, uboot, phase, env, missedB, covered, widest, cuts>>

RefreshChecksum ==
  /\ todo # <<>> /\ Head(todo) = Refresh
  /\ \E writes \in BothSlots(7, Sum(Region, MaxSeq(7) + 1)) : todo' = writes
  /\ UNCHANGED <<chip, uboot, phase, env, missedB, covered, widest, sets, cuts>>

WriteCell ==
  /\ todo # <<>> /\ Head(todo) # Refresh
  /\ chip' = [chip EXCEPT ![Head(todo).at] = Head(todo).new]
  /\ covered' = IF Head(todo).at = SlotAt(7, "A")
                THEN [id \in Policy |-> Newest(id)] ELSE covered
  /\ widest' = IF widest < Reserved(uboot.layout) THEN Reserved(uboot.layout)
                                                 ELSE widest
  /\ todo' = Tail(todo)
  /\ UNCHANGED <<uboot, phase, env, missedB, sets, cuts>>

(* The cell being written keeps its old bytes or is torn.                    *)
Tears(old, new) ==
  {Torn} \cup (IF new.sum # <<>> THEN {Half(new)} ELSE {})
         \cup (IF old.sum # <<>> THEN {Half(old)} ELSE {})

PowerCut ==
  /\ phase = "linux" /\ cuts < MaxCuts
  /\ \/ UNCHANGED <<chip, covered>>
     \/ LET w == Head(todo)
        IN  /\ todo # <<>> /\ w # Refresh
            /\ chip[w.at] # w.new
            /\ \E torn \in Tears(chip[w.at], w.new) :
                 /\ chip' = [chip EXCEPT ![w.at] = torn]
                 /\ covered' = IF w.at = SlotAt(7, "A") /\ torn = Half(w.new)
                               THEN [id \in Policy |-> Newest(id)] ELSE covered
  /\ phase' = "off" /\ todo' = <<>>
  /\ env' = NoneOverlaid /\ missedB' = FALSE
  /\ cuts' = cuts + 1
  /\ UNCHANGED <<uboot, widest, sets>>

Next ==
  \/ Reflash \/ Boot \/ Mount \/ RefreshChecksum \/ WriteCell \/ PowerCut
  \/ \E id \in Policy, val \in {0, 1} : SetFlag(id, val)
  \/ \E id \in {32, 33} : SetFlag(id, 1)

Spec == Init /\ [][Next]_vars

(*---------------------------------------------------------------------------*)
(* Whatever writes of fram-service power has cut, radsat_fram_overlay_env    *)
(* gives a policy key the value that the last checksum covers or leaves the  *)
(* key alone, a boot that cannot read slot B apart: it takes slot A's value, *)
(* which may be the older one.                                               *)
OverlayCommitted ==
  [][env' # env /\ ~missedB'
       => \A id \in Policy : env'[id] \in {<<>>, covered[id]}]_vars

(* A stamp of the layout header, by U-Boot or by fram-service, destroys no   *)
(* record, in whichever order releases were installed and wrote the chip,    *)
(* until a service that reserves fewer keys follows one that reserved more:  *)
(* its ensure_layout_header does not look at what it replaces.               *)
StampKeepsRecords ==
  [][\A c \in Cells :
       chip[c].kind = "record" /\ chip'[c].kind = "header"
         => Reserved(uboot.layout) < widest]_vars

=============================================================================
