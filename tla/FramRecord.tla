----------------------------- MODULE FramRecord -----------------------------
(***************************************************************************)
(* The dual-slot records that U-Boot and fram-service share in the I2C     *)
(* FRAM.  A key owns two 32-byte slots, A and B; a slot carries a magic,   *)
(* an id, a type, a sequence number, a value and a CRC.  A slot whose      *)
(* bytes do not verify is Garbage: never written, or torn by a power cut.  *)
(***************************************************************************)
EXTENDS Naturals

SlotName == {"A", "B"}

SlotType == [valid : BOOLEAN, val : Nat, seq : Nat]

RecordType == [SlotName -> SlotType]

Rec(v, s) == [valid |-> TRUE, val |-> v, seq |-> s]

Garbage == [valid |-> FALSE, val |-> 0, seq |-> 0]

Other(slot) == IF slot = "A" THEN "B" ELSE "A"

(* What a slot may hold after a write of new over old was cut short.       *)
(* Rewriting identical bytes changes nothing, however far the write went.  *)
Cut(old, new, torn) ==
  IF old = new THEN {old}
  ELSE {old, new} \cup (IF torn THEN {Garbage} ELSE {})

(* U-Boot's fram_read_u64 / fram_read_bool: slot A or nothing.  The caller *)
(* keeps the value it initialised its variable with when the read fails.   *)
ReadA(r, default) == IF r["A"].valid THEN r["A"].val ELSE default

(* The record as the dual-slot scheme defines it: the valid slot of higher *)
(* sequence number, slot A on a tie (fram-service, fram_decode_and_set).   *)
Newest(r, default) ==
  CASE r["A"].valid /\ (~r["B"].valid \/ r["B"].seq <= r["A"].seq) -> r["A"].val
    [] r["B"].valid /\ (~r["A"].valid \/ r["B"].seq > r["A"].seq) -> r["B"].val
    [] OTHER -> default

NewestSeq(r) ==
  IF r["A"].seq >= r["B"].seq THEN r["A"].seq ELSE r["B"].seq
=============================================================================
