----------------------------- MODULE MramService -----------------------------
(* mram-service on the SPI MRAM that also holds U-Boot's environment: the    *)
(* subsystem that apply-mram-env-region.py writes, over the payload window   *)
(* that apply-mram-fram-plan2.py appends to the backends.  littlefs, outside *)
(* this repository, may write any range of the backend it is given.          *)
EXTENDS Integers

CONSTANTS
  Device,      (* rust_mram::CAPACITY_BYTES                                  *)
  EnvSize,     (* UBOOT_ENV_SIZE                                             *)
  Word,        (* u32 arithmetic is modulo Word                              *)
  Inputs,      (* integers a configuration file may give                     *)
  Images       (* sizes of image files                                       *)

ASSUME RegionAssumption ==
  /\ Device \in Nat /\ EnvSize \in Nat /\ Word \in Nat
  /\ 0 < EnvSize /\ EnvSize < Device /\ Device < Word
  /\ Inputs \subseteq Int
  /\ Images \subseteq 1 .. Word - 1

VARIABLES
  backend,   (* "spidev" or "file"                                           *)
  capacity,  (* bytes it has                                                 *)
  storage,   (* address -> "env" (U-Boot's bytes), "blank" or "data"         *)
  up,        (* the service runs                                             *)
  offset,    (* its env_offset                                               *)
  size       (* its env_size                                                 *)

mramVars == <<backend, capacity, storage, up, offset, size>>

EnvOffset == Device - EnvSize
Payload == EnvOffset
UBootEnv == EnvOffset .. Device - 1

(* `as u32' on the i64 of the configuration.                                 *)
U32(n) == n % Word

(* checked_add: no value when the sum does not fit.                          *)
Fits(a, b) == a + b < Word

MramInit ==
  /\ \/ backend = "spidev" /\ capacity = Device
     \/ backend = "file" /\ capacity \in Images
  /\ storage = [a \in 0 .. capacity - 1 |->
                  IF a \in UBootEnv THEN "env" ELSE "blank"]
  /\ up = FALSE /\ offset = 0 /\ size = 0

(*---------------------------------------------------------------------------*)
(* Subsystem::from_config: the region is not empty, fits and ends with the   *)
(* device; PayloadWindowBackend::new takes a window that is not empty; the   *)
(* mount wants the window of the compiled-in payload.                        *)
RegionValid(o, s) ==
  /\ s # 0 /\ Fits(o, s) /\ o + s <= capacity
  /\ o + s = capacity

WindowValid(window) == window # 0 /\ window <= capacity

(* Mutant: the mount takes any window.                                       *)
MountAccepts_Any(window) == TRUE

MountAccepts(window) == window = Payload

FromConfig(o, s) ==
  /\ ~up
  /\ RegionValid(U32(o), U32(s))
  /\ WindowValid(U32(o))
  /\ MountAccepts(U32(o))
  /\ up' = TRUE /\ offset' = U32(o) /\ size' = U32(s)
  /\ UNCHANGED <<backend, capacity, storage>>

(* Mutant: the end of the range is computed modulo Word.                     *)
WindowAccepts_Wraps(at, len) == U32(at + len) <= offset

(* PayloadWindowBackend::write.                                              *)
WindowAccepts(at, len) == Fits(at, len) /\ at + len <= offset

WindowWrite(at, len) ==
  /\ up /\ WindowAccepts(at, len)
  /\ storage' = [a \in DOMAIN storage |->
                   IF at <= a /\ a < at + len THEN "data" ELSE storage[a]]
  /\ UNCHANGED <<backend, capacity, up, offset, size>>

Stop ==
  /\ up /\ up' = FALSE
  /\ UNCHANGED <<backend, capacity, storage, offset, size>>

Ranges == 0 .. Word - 1

MramNext ==
  \/ \E o, s \in Inputs : FromConfig(o, s)
  \/ \E at, len \in Ranges : WindowWrite(at, len)
  \/ Stop

MramSpec == MramInit /\ [][MramNext]_mramVars

(*---------------------------------------------------------------------------*)
(* What env_region_info and read_env_blob answer for: the bytes              *)
(* [offset, offset + size) of the device.                                    *)
RegionRead == offset .. offset + size - 1

(* An accepted configuration of the flight's backend, however it was         *)
(* truncated to 32 bits, makes the service read exactly the bytes U-Boot     *)
(* saves and gives littlefs all the others.                                  *)
RegionIsUBoots ==
  up /\ backend = "spidev" => RegionRead = UBootEnv /\ offset = Payload

(* No write that littlefs can make, at any offset and of any length a u32    *)
(* can express, reaches the environment U-Boot saved.                        *)
EnvUntouched ==
  \A a \in UBootEnv : a \in DOMAIN storage => storage[a] = "env"

=============================================================================
