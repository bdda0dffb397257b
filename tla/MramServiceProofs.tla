--------------------------- MODULE MramServiceProofs ---------------------------
(* For every device, environment size and word width: a configuration that   *)
(* mram-service accepts on the flight's backend reserves exactly the bytes   *)
(* U-Boot saves, and no write through the window reaches them.               *)
EXTENDS MramService, TLAPS

(* An accepted configuration is a payload window with the rest behind it.    *)
TypeOK ==
  /\ backend \in {"spidev", "file"}
  /\ capacity \in Nat
  /\ backend = "spidev" => capacity = Device
  /\ DOMAIN storage = 0 .. capacity - 1
  /\ up => offset = Payload /\ size \in Int /\ offset + size = capacity

IInv == TypeOK /\ EnvUntouched

(* The initial state satisfies the invariant.                                *)
LEMMA InitIInv == MramInit => IInv
  <1> SUFFICES ASSUME MramInit PROVE IInv
    OBVIOUS
  <1>1. capacity \in Nat /\ backend \in {"spidev", "file"}
        /\ (backend = "spidev" => capacity = Device)
    <2>1. CASE backend = "spidev" /\ capacity = Device
      BY <2>1, RegionAssumption
    <2>2. CASE backend = "file" /\ capacity \in Images
      BY <2>2, RegionAssumption
    <2> QED
      BY <2>1, <2>2 DEF MramInit
  <1>2. DOMAIN storage = 0 .. capacity - 1 /\ up = FALSE
    BY DEF MramInit
  <1>3. EnvUntouched
    BY DEF MramInit, EnvUntouched
  <1> QED
    BY <1>1, <1>2, <1>3 DEF IInv, TypeOK

(* Truncation yields an integer, whatever the configuration says.            *)
LEMMA U32Int == ASSUME NEW n \in Inputs PROVE U32(n) \in Int
  BY RegionAssumption DEF U32

(* Every step keeps the invariant.                                           *)
LEMMA NextIInv == IInv /\ [MramNext]_mramVars => IInv'
  <1> SUFFICES ASSUME IInv, [MramNext]_mramVars PROVE IInv'
    OBVIOUS
  <1> USE RegionAssumption DEF IInv, TypeOK
  <1>1. CASE \E o, s \in Inputs : FromConfig(o, s)
    <2> PICK o \in Inputs, s \in Inputs : FromConfig(o, s)
      BY <1>1
    <2>1. U32(s) \in Int
      BY U32Int
    <2>2. /\ offset' = Payload /\ size' = U32(s)
          /\ U32(o) + U32(s) = capacity /\ U32(o) = Payload
      BY DEF FromConfig, RegionValid, MountAccepts
    <2>3. UNCHANGED <<backend, capacity, storage>>
      BY DEF FromConfig
    <2> QED
      BY <2>1, <2>2, <2>3 DEF EnvUntouched
  <1>2. CASE \E at, len \in Ranges : WindowWrite(at, len)
    <2> PICK at \in Ranges, len \in Ranges : WindowWrite(at, len)
      BY <1>2
    <2>1. at + len <= Payload /\ at + len \in Nat
      BY DEF WindowWrite, WindowAccepts, Ranges
    <2>2. /\ UNCHANGED <<backend, capacity, up, offset, size>>
          /\ DOMAIN storage' = DOMAIN storage
      BY DEF WindowWrite
    <2>3. ASSUME NEW a \in UBootEnv, a \in DOMAIN storage'
          PROVE storage'[a] = "env"
      <3>1. ~(a < at + len)
        BY <2>1, <2>3 DEF UBootEnv, Payload, EnvOffset
      <3> QED
        BY <2>2, <2>3, <3>1 DEF WindowWrite, EnvUntouched
    <2> QED
      BY <2>2, <2>3 DEF EnvUntouched
  <1>3. CASE Stop
    BY <1>3 DEF Stop, EnvUntouched
  <1>4. CASE UNCHANGED mramVars
    BY <1>4 DEF mramVars, EnvUntouched
  <1> QED
    BY <1>1, <1>2, <1>3, <1>4 DEF MramNext

(* PayloadWindowBackend keeps littlefs away from U-Boot's environment, for   *)
(* every size of the device and every word width.                            *)
THEOREM EnvSafe == MramSpec => []EnvUntouched
  <1>1. IInv => EnvUntouched
    BY DEF IInv
  <1> QED
    BY <1>1, InitIInv, NextIInv, PTL DEF MramSpec

(* What from_config accepts on the flight's backend is U-Boot's region, for  *)
(* every value a configuration may hold.                                     *)
THEOREM RegionSafe == MramSpec => []RegionIsUBoots
  <1>1. IInv => RegionIsUBoots
    BY RegionAssumption
    DEF IInv, TypeOK, RegionIsUBoots, RegionRead, UBootEnv, Payload, EnvOffset
  <1> QED
    BY <1>1, InitIInv, NextIInv, PTL DEF MramSpec

=============================================================================
