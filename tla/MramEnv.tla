------------------------------ MODULE MramEnv -------------------------------
(***************************************************************************)
(* U-Boot's environment in the SPI MRAM and its mirror in a file:          *)
(* env_relocate_spec() and saveenv() of common/env_mram.c as patches 0006, *)
(* 0008, 0014 and 0016 leave it, and the init scripts S02uboot-env,        *)
(* S79mram-env-sync (with the mram-env-sync program) and S99kubos-verify.  *)
(*                                                                         *)
(* An environment is a number: 0 the compiled-in defaults, n the n-th one  *)
(* ever written.  The MRAM image is a row of chunks, and its CRC holds     *)
(* when all of them come from the same environment.  The two variables S99 *)
(* sets do not change the number.                                          *)
(***************************************************************************)
EXTENDS Integers, Sequences

CONSTANTS
  NChunk,     (* CONFIG_ENV_MRAM_CHUNK sized pieces of the image           *)
  MaxEnv,     (* bound: environments ever written                          *)
  MaxFaults,  (* bound: SPI failures and power cuts together               *)
  Junk,       (* a chunk cut in the middle or never written                *)
  Unloaded,   (* no environment was imported in this boot                  *)
  NoPart,     (* partition 3 of the disk is absent or no ext4              *)
  NoFile,     (* partition 3 has no uboot.env                              *)
  Bad         (* a file whose CRC does not hold: zeros, truncated, mixed   *)

Chunk == 0 .. NChunk - 1
Disk == {"sd", "emmc"}
Env == 0 .. MaxEnv
OnDisk == Env \cup {NoPart, NoFile, Bad}

ASSUME BoundAssumption ==
  NChunk \in Nat \ {0} /\ MaxEnv \in Nat \ {0} /\ MaxFaults \in Nat

ASSUME ValueAssumption ==
  /\ {Junk, Unloaded, NoPart, NoFile, Bad} \cap Env = {}
  /\ Bad \notin {NoPart, NoFile}

VARIABLES
  mram,     (* what each chunk of the reserved region holds                *)
  file,     (* partition 3 of each disk, as readers see it now             *)
  durable,  (* what a power cut may leave in the eMMC's partition 3        *)
  ram,      (* U-Boot's environment                                        *)
  pc,       (* where the boot has got to                                   *)
  at,       (* index into Ext4Parts, or the chunk saveenv is at            *)
  mounted,  (* /envar is mounted                                           *)
  envs,     (* environments written so far                                 *)
  faults,   (* faults so far                                               *)
  (* what the properties remember *)
  saved,    (* last environment saveenv finished writing, 0 for none       *)
  readOk,   (* every read of the MRAM in this boot succeeded               *)
  damage,   (* power cuts and failed saves since both copies were whole    *)
  base      (* the older of the two when both last were                    *)

vars == <<mram, file, durable, ram, pc, at, mounted, envs, faults, saved, readOk,
          damage, base>>

(* Mutant: the loop never reaches the eMMC.                               *)
Ext4Parts_SdOnly == <<"sd", "sd">>

(* The disks env_import_ext4_fallback tries, in its order: the compiled-in *)
(* choice is "0:3" as well.                                                *)
Ext4Parts == <<"sd", "sd", "emmc">>

(* Mutant: the CRC is not looked at, and a mixture is imported.            *)
ImageEnv_NoCrc(img) ==
  IF img[0] \notin Env THEN Bad
  ELSE IF \A c \in Chunk : img[c] = img[0] THEN img[0] ELSE Junk

(* env_import's CRC check on the image read from the MRAM.                 *)
ImageEnv(img) ==
  IF \E e \in Env : \A c \in Chunk : img[c] = e THEN img[0] ELSE Bad

Whole(img) == ImageEnv(img) # Bad

TypeOK ==
  /\ mram \in [Chunk -> Env \cup {Junk}]
  /\ file \in [Disk -> OnDisk]
  /\ durable \subseteq OnDisk
  /\ ram \in Env \cup {Unloaded}
  /\ pc \in {"reset", "ext4", "loaded", "prompt", "save", "mount", "seed", "sync",
             "sync_write", "tried", "bootcount", "flush", "up"}
  /\ at \in Nat
  /\ pc = "save" => at \in Chunk
  /\ mounted \in BOOLEAN
  /\ envs \in Env
  /\ faults \in 0 .. MaxFaults
  /\ saved \in Env
  /\ readOk \in BOOLEAN
  /\ damage \in 0 .. MaxFaults + 2
  /\ base \in Env

(* The MRAM as it left the factory, or holding an environment seeded by    *)
(* the operator; disks with the image's zeroed seed, an environment, a     *)
(* lost file, or no image at all.                                          *)
Init ==
  /\ envs = 1
  /\ \/ mram = [c \in Chunk |-> Junk] /\ saved = 0
     \/ mram = [c \in Chunk |-> 1] /\ saved = 1
  /\ file \in [Disk -> {NoPart, NoFile, Bad, 1}]
  /\ durable = {file["emmc"]}
  /\ ram = Unloaded
  /\ pc = "reset"
  /\ at = 0
  /\ mounted = FALSE
  /\ faults = 0
  /\ readOk = FALSE
  /\ damage = MaxFaults + 2
  /\ base = 0

kept == <<envs, saved>>

(* A copy is of use when it holds an environment somebody saved.           *)
Saved == Env \ {0}
MramHolds(img) == ImageEnv(img) \in Saved
FileHolds(left) == left \subseteq Saved

Older(a, b) == IF a < b THEN a ELSE b

Damaged(n) ==
  IF MramHolds(mram') /\ FileHolds(durable')
  THEN damage' = 0 /\ base' = Older(ImageEnv(mram'), file'["emmc"])
  ELSE /\ damage' = IF damage + n > MaxFaults THEN MaxFaults + 2 ELSE damage + n
       /\ UNCHANGED base
-----------------------------------------------------------------------------
(* U-Boot: env_relocate_spec.                                              *)

(* spi_setup_slave fails, or a chunk of mram_read does: env_import is not  *)
(* called.                                                                 *)
ReadMramFails ==
  /\ pc = "reset"
  /\ faults < MaxFaults
  /\ faults' = faults + 1
  /\ pc' = "ext4"
  /\ at' = 1
  /\ UNCHANGED <<mram, file, durable, ram, mounted, readOk, damage, base, kept>>

(* All chunks were read.  env_import installs the defaults before it       *)
(* reports a bad CRC.                                                      *)
LoadMram ==
  /\ pc = "reset"
  /\ readOk' = TRUE
  /\ IF Whole(mram) THEN ram' = ImageEnv(mram) /\ pc' = "loaded"
                    ELSE ram' = 0 /\ pc' = "ext4"
  /\ at' = 1
  /\ UNCHANGED <<mram, file, durable, mounted, faults, damage, base, kept>>

(* env_import_ext4_one answers -ENODEV, -EIO, 0 or 1, and any answer but 0 *)
(* ends the loop as a success.                                             *)
Ext4Answer(disk) ==
  CASE file[disk] \in {NoPart, NoFile} -> "error"
    [] file[disk] = Bad                -> "zero"
    [] OTHER                           -> "one"

Imported(disk) ==
  CASE Ext4Answer(disk) = "error" -> ram
    [] Ext4Answer(disk) = "zero"  -> 0
    [] OTHER                      -> file[disk]

(* Mutant: a file that does not import is tried again.                     *)
TryExt4_Retries ==
  /\ pc = "ext4"
  /\ at <= Len(Ext4Parts)
  /\ ram' = Imported(Ext4Parts[at])
  /\ pc' = IF Ext4Answer(Ext4Parts[at]) = "zero" THEN "ext4" ELSE "loaded"
  /\ UNCHANGED <<mram, file, durable, at, mounted, faults, readOk, damage, base, kept>>

TryExt4 ==
  /\ pc = "ext4"
  /\ at <= Len(Ext4Parts)
  /\ ram' = Imported(Ext4Parts[at])
  /\ IF Ext4Answer(Ext4Parts[at]) = "zero" THEN at' = at + 1 /\ UNCHANGED pc
                                           ELSE pc' = "loaded" /\ UNCHANGED at
  /\ UNCHANGED <<mram, file, durable, mounted, faults, readOk, damage, base, kept>>

SetDefaultEnv ==
  /\ pc = "ext4"
  /\ at > Len(Ext4Parts)
  /\ ram' = 0
  /\ pc' = "loaded"
  /\ UNCHANGED <<mram, file, durable, at, mounted, faults, readOk, damage, base, kept>>
-----------------------------------------------------------------------------
(* U-Boot: the operator changes the environment and runs saveenv.          *)

SaveEnv ==
  /\ pc \in {"loaded", "prompt"}
  /\ envs < MaxEnv
  /\ envs' = envs + 1
  /\ ram' = envs + 1
  /\ pc' = "save"
  /\ at' = 0
  /\ saved' = 0
  /\ UNCHANGED <<mram, file, durable, mounted, faults, readOk, damage, base>>

(* Mutant: the loop ends one chunk early.                                  *)
WriteChunk_Short ==
  /\ pc = "save"
  /\ mram' = [mram EXCEPT ![at] = ram]
  /\ IF at = NChunk - 2 THEN pc' = "prompt" /\ saved' = ram
                        ELSE UNCHANGED <<pc, saved>>
  /\ at' = at + 1
  /\ UNCHANGED <<file, durable, ram, mounted, envs, faults, readOk, damage, base>>

(* mram_write: one WREN and one WRITE frame for each chunk.                *)
WriteChunk ==
  /\ pc = "save"
  /\ mram' = [mram EXCEPT ![at] = ram]
  /\ IF at = NChunk - 1 THEN pc' = "prompt" /\ saved' = ram
                        ELSE UNCHANGED <<pc, saved>>
  /\ at' = at + 1
  /\ UNCHANGED <<file, durable, ram, mounted, envs, faults, readOk>>
  /\ Damaged(0)

(* spi_setup_slave, WREN or WRITE fails: saveenv leaves what it wrote.     *)
WriteChunkFails ==
  /\ pc = "save"
  /\ faults < MaxFaults
  /\ faults' = faults + 1
  /\ \E left \in {mram[at], Junk} : mram' = [mram EXCEPT ![at] = left]
  /\ pc' = "prompt"
  /\ UNCHANGED <<file, durable, ram, at, mounted, readOk, kept>>
  /\ Damaged(1)

BootLinux ==
  /\ pc \in {"loaded", "prompt"}
  /\ pc' = "mount"
  /\ UNCHANGED <<mram, file, durable, ram, at, mounted, faults, readOk, damage, base, kept>>
-----------------------------------------------------------------------------
(* Linux.  /envar is the eMMC's partition 3 (fstab names its signature);   *)
(* without it the scripts write to a directory U-Boot never reads.         *)

Goto(next) == pc' = next /\ UNCHANGED <<mram, ram, at, kept>>

WriteEnvar(value, left) ==
  IF mounted THEN file' = [file EXCEPT !["emmc"] = value] /\ durable' = left
             ELSE UNCHANGED <<file, durable>>

MountEnvar ==
  /\ pc = "mount"
  /\ \E m \in IF file["emmc"] = NoPart THEN {FALSE} ELSE BOOLEAN : mounted' = m
  /\ Goto("seed")
  /\ UNCHANGED <<file, durable, faults, readOk, damage, base>>

(* S02uboot-env: zeros for a file that is missing.  (An empty one, left by *)
(* a power cut, is Bad before and after.)                                  *)
SeedEnvar ==
  /\ pc = "seed"
  /\ IF mounted /\ file["emmc"] = NoFile THEN WriteEnvar(Bad, {Bad})
                                         ELSE UNCHANGED <<file, durable>>
  /\ Goto("sync")
  /\ UNCHANGED <<mounted, faults, readOk, damage, base>>

(* Mutant: the image is copied without a look at its CRC.                  *)
SyncEnvar_NoCrc ==
  /\ pc = "sync"
  /\ WriteEnvar(Bad, durable \cup {Bad})
  /\ Goto("sync_write")
  /\ UNCHANGED <<mounted, faults, readOk, damage, base>>

(* Mutant: a file that is good already is not brought up to date.          *)
SyncEnvar_KeepsFile ==
  /\ pc = "sync"
  /\ IF Whole(mram) /\ file["emmc"] \notin Env
     THEN WriteEnvar(Bad, durable \cup {Bad}) /\ Goto("sync_write")
     ELSE Goto("tried") /\ UNCHANGED <<file, durable>>
  /\ UNCHANGED <<mounted, faults, readOk, damage, base>>

(* S79mram-env-sync: File::create truncates, when the CRC of what was read *)
(* from the MRAM holds.  A cut during the write that follows leaves the    *)
(* old file, a part of the new one or all of it.                           *)
SyncEnvar ==
  /\ pc = "sync"
  /\ IF Whole(mram) THEN /\ WriteEnvar(Bad, durable \cup {Bad, ImageEnv(mram)})
                         /\ Goto("sync_write")
                    ELSE Goto("tried") /\ UNCHANGED <<file, durable>>
  /\ UNCHANGED <<mounted, faults, readOk, damage, base>>

SyncEnvarFails ==
  /\ pc = "sync"
  /\ faults < MaxFaults
  /\ faults' = faults + 1
  /\ readOk' = FALSE
  /\ Goto("tried")
  /\ UNCHANGED <<file, durable, mounted, damage, base>>

(* write_all and sync_all.                                                 *)
SyncWrite ==
  /\ pc = "sync_write"
  /\ WriteEnvar(ImageEnv(mram), {ImageEnv(mram)})
  /\ Goto("tried")
  /\ Damaged(0)
  /\ UNCHANGED <<mounted, faults, readOk>>

(* S99kubos-verify: fw_setenv (u-boot-tools) starts from its own defaults  *)
(* when the file's CRC does not hold, and rewrites the file in place.      *)
FwSetenv(here, next) ==
  /\ pc = here
  /\ LET new == IF file["emmc"] \in Env THEN file["emmc"] ELSE 0
     IN  WriteEnvar(new, durable \cup {Bad, new})
  /\ Goto(next)
  /\ UNCHANGED <<mounted, faults, readOk, damage, base>>

VerifyBoot ==
  \/ FwSetenv("tried", "bootcount")
  \/ FwSetenv("bootcount", "flush")

Sync ==
  /\ pc = "flush"
  /\ WriteEnvar(file["emmc"], {file["emmc"]})
  /\ Goto("up")
  /\ Damaged(0)
  /\ UNCHANGED <<mounted, faults, readOk>>
-----------------------------------------------------------------------------
Restart ==
  /\ pc' = "reset"
  /\ ram' = Unloaded
  /\ at' = 0
  /\ mounted' = FALSE
  /\ readOk' = FALSE
  /\ UNCHANGED kept

Reboot ==
  /\ pc \in {"loaded", "prompt", "up"}
  /\ Restart
  /\ UNCHANGED <<mram, file, durable, faults, damage, base>>

(* A cut in the middle of a chunk leaves it old, new or Junk; the file     *)
(* falls back to anything its writes may have left on the flash.           *)
PowerCut ==
  /\ faults < MaxFaults
  /\ faults' = faults + 1
  /\ \/ pc = "save" /\ \E left \in {mram[at], ram, Junk} :
                         mram' = [mram EXCEPT ![at] = left]
     \/ pc # "save" /\ UNCHANGED mram
  /\ \E left \in durable :
       file' = [file EXCEPT !["emmc"] = left] /\ durable' = {left}
  /\ Restart
  /\ Damaged(1)

UBoot == ReadMramFails \/ LoadMram \/ TryExt4 \/ SetDefaultEnv
         \/ SaveEnv \/ WriteChunk \/ WriteChunkFails \/ BootLinux

Linux == MountEnvar \/ SeedEnvar \/ SyncEnvar \/ SyncEnvarFails \/ SyncWrite
         \/ VerifyBoot \/ Sync

Next == UBoot \/ Linux \/ Reboot \/ PowerCut

Spec == Init /\ [][Next]_vars

(* U-Boot and the scripts run on; the operator and the faults need not.    *)
FairSpec == Spec /\ WF_vars(ReadMramFails \/ LoadMram \/ TryExt4 \/ SetDefaultEnv
                            \/ WriteChunk \/ WriteChunkFails \/ Linux)
-----------------------------------------------------------------------------
(* "saveenv then reset - env must persist from MRAM" (verify-mram-fram-    *)
(* boot:55): whatever happens after a saveenv that reported success, every *)
(* boot that can read the MRAM gets that environment.                      *)
SavedEnvPersists == pc = "loaded" /\ readOk /\ saved # 0 => ram = saved

(* "fw_printenv matches after S79" (verify-mram-fram-boot:55), and S99's   *)
(* fw_setenv leaves it so.                                                 *)
MirrorMatches ==
  pc \in {"tried", "bootcount", "flush", "up"} /\ mounted /\ readOk /\ saved # 0
    => file["emmc"] = saved

FirstValid == IF file["sd"] \in Env THEN file["sd"]
              ELSE IF file["emmc"] \in Env THEN file["emmc"] ELSE 0

(* env_mram.c "Falls back to EXT4 /uboot.env then compiled-in defaults on  *)
(* CRC/SPI failure" (patch 0014), "eMMC-only boot uses mmc1. Try both."    *)
(* (env_mram.c:148): without a whole image in the MRAM the boot gets the   *)
(* first valid file, or else the defaults.                                 *)
FallsBackAsDocumented ==
  pc = "loaded" /\ ~(readOk /\ Whole(mram)) => ram = FirstValid

(* The same with a card that answers: the loop passes over the card's      *)
(* zeroed uboot.env and finds the mirror on the eMMC.                      *)
FallbackFindsMirror == file["sd"] \in Env \cup {Bad} => FallsBackAsDocumented

(* Between them saveenv, S79 and S99 keep a saved environment through any  *)
(* one fault: once both copies were whole, no single power cut and no      *)
(* single failed save leaves a reset with neither.                         *)
OneFaultKeepsACopy ==
  pc = "reset" /\ damage <= 1 => MramHolds(mram) \/ FileHolds({file["emmc"]})

(* Nor does that one fault, be it a failed read of the MRAM, bring back an *)
(* older environment than both copies held, let alone the defaults: the    *)
(* partial save is passed over and the mirror found, on a flight card,     *)
(* whose own uboot.env is the image's zeros (env_mram.c:148, patch 0014).  *)
NoRollback ==
  pc = "loaded" /\ file["sd"] = Bad /\ damage <= (IF readOk THEN 1 ELSE 0)
    => ram \in Saved /\ ram >= base

(* The inductive invariant behind the invariants, by parts.                *)

Matches(e) == \A c \in Chunk : mram[c] = e

MramInv ==
  /\ mram \in [Chunk -> Saved \cup {Junk}]
  /\ envs \in Saved
  /\ saved # 0 => Matches(saved)
  /\ pc = "save" => ram \in Saved /\ saved = 0 /\ \A c \in 0 .. at - 1 : mram[c] = ram
  /\ pc = "sync_write" => Whole(mram)

LoadInv ==
  /\ pc = "loaded" /\ readOk /\ Whole(mram) => ram = ImageEnv(mram)
  /\ pc = "reset" => ram = Unloaded /\ ~readOk
  /\ pc = "ext4" => /\ at \in 1 .. 4
                    /\ ~(readOk /\ Whole(mram))
                    /\ at > 1 => ram = 0 /\ file["sd"] = Bad
                    /\ at > 3 => file["emmc"] = Bad
  /\ SavedEnvPersists
  /\ FallbackFindsMirror

FileInv ==
  /\ file["emmc"] \in durable
  /\ pc \notin {"sync_write", "tried", "bootcount", "flush"} \/ ~mounted
       => durable = {file["emmc"]}
  /\ MirrorMatches

(* Nothing lost: the MRAM is whole unless it is being written, and then    *)
(* the file is.  One fault: a whole copy, or a save under way.             *)
DamageInv ==
  /\ damage = 0 => /\ pc = "save" \/ MramHolds(mram)
                   /\ (pc = "sync_write" /\ mounted) \/ file["emmc"] \in Saved
  /\ damage <= 1 => pc = "save" \/ MramHolds(mram) \/ file["emmc"] \in Saved

(* Whatever is written is newer than what both copies held.                *)
BaseInv ==
  /\ base <= envs
  /\ pc = "save" => ram \in base .. envs
  /\ \A c \in Chunk : mram[c] # Junk => mram[c] \in base .. envs
  /\ \A left \in durable : left \in Saved => left >= base

IInv == TypeOK /\ MramInv /\ LoadInv /\ FileInv /\ DamageInv /\ BaseInv

(* env_relocate_spec always ends, whatever the stores hold.                *)
EnvLoadEnds == pc = "reset" ~> pc = "loaded"
=============================================================================
