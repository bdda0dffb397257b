------------------------------ MODULE InstallOs ------------------------------
(***************************************************************************)
(* Linux's half of the restore, composed with U-Boot's: the boot stamp     *)
(* S92radsat-boot-stamp, which starts install-os auto-recover when it sees *)
(* the latch on an SD boot, and install-os sd-to-emmc itself, reaching the *)
(* FRAM through fram-set / fram-get and the external fram-service.         *)
(*                                                                         *)
(* install-os copies the Essential chunks only (MBR through p3).           *)
(***************************************************************************)
EXTENDS UBootRecovery

CONSTANTS
  RootNames,     (* how / may show in /proc/mounts: "mmcblk", "devroot"    *)
  ServiceFaults  (* fram-service may die, or hang, between two requests    *)

ASSUME RootNamesAssumption == RootNames \subseteq {"mmcblk", "devroot"}

ASSUME ServiceAssumption == ServiceFaults \in BOOLEAN

VARIABLES
  svc,    (* fram-service: it answers, is not there, or hangs              *)
  io,     (* where S92 or install-os has got to                            *)
  pos,    (* install-os's _pos                                             *)
  sig,    (* the eMMC's MBR disk signature                                 *)
  root,   (* the disk the running root filesystem is on                    *)
  shown   (* what /proc/mounts calls it                                    *)

linux == <<svc, io, pos, sig, root, shown>>

allVars == <<fram, wr, emmc, pc, blk, boots, faults,
             svc, io, pos, sig, root, shown>>

IoPc == {"off", "boot", "stamped", "shell", "install", "stop", "start", "copy",
         "checkpoint", "sign", "mkfs", "verify", "clear_probe", "clear_media",
         "clear_offset", "clear_needed", "done"}

Service == {"up", "down", "hung"}

Disk == {"sd", "emmc"}

SdSignature == "KLNX"

InitAll ==
  /\ Init
  /\ svc = "down"
  /\ io = "off"
  /\ pos = 0
  /\ sig = "YNLK"
  /\ root = "none"
  /\ shown = "none"

UbootUnchanged == UNCHANGED <<pc, blk, boots>>

InLinux(label) == pc \in Disk /\ io = label /\ wr = Idle
-----------------------------------------------------------------------------
(* fram-service and its two clients.                                       *)

(* setFlag rewrites both slots, in an order of its own, with the next      *)
(* sequence number.  With the service down the connection is refused:      *)
(* fram-set changes nothing, and every caller ignores its exit status.  A  *)
(* service that hangs keeps the caller, whose curl has no timeout.         *)
FramSet(key, val) ==
  \/ /\ svc = "up"
     /\ \E first \in SlotName :
          wr' = [key |-> key, val |-> val, seq |-> NewestSeq(fram[key]) + 1,
                 slot |-> first, more |-> TRUE]
  \/ svc = "down" /\ UNCHANGED wr

(* What fram-get prints, 0 for nothing; it returns while Returns holds.    *)
Returns == svc # "hung"

FramGet(key) == IF svc = "up" THEN Newest(fram[key], 0) ELSE 0

ServiceDies ==
  /\ ServiceFaults
  /\ svc # "down"
  /\ wr = Idle
  /\ svc' = "down"
  /\ UNCHANGED <<fram, wr, emmc, io, pos, sig, root, shown, faults>>
  /\ UbootUnchanged

ServiceHangs ==
  /\ ServiceFaults
  /\ svc = "up"
  /\ wr = Idle
  /\ svc' = "hung"
  /\ UNCHANGED <<fram, wr, emmc, io, pos, sig, root, shown, faults>>
  /\ UbootUnchanged
-----------------------------------------------------------------------------
(* Boot: the kernel mounts root=PARTUUID of the booted disk, the services  *)
(* start, S92 stamps the media and may start the restore.                  *)

Signature(d) == IF d = "sd" THEN SdSignature ELSE sig

DisksMatching(s) == {d \in Disk : Signature(d) = s}

MountRoot ==
  /\ InLinux("off")
  /\ root' \in DisksMatching(Signature(pc))
  /\ shown' \in RootNames
  /\ svc' = "up"
  /\ io' = "boot"
  /\ UNCHANGED <<fram, wr, emmc, pos, sig, faults>>
  /\ UbootUnchanged

(* MEDIA: only a root shown as /dev/mmcblk* can be recognised as SD.       *)
SeenMedia == IF shown = "mmcblk" /\ root = "sd" THEN 1 ELSE 0

BootStamp ==
  /\ InLinux("boot")
  /\ FramSet("media", SeenMedia)
  /\ io' = "stamped"
  /\ UNCHANGED <<fram, emmc, svc, pos, sig, root, shown, faults>>
  /\ UbootUnchanged


(* The latch is asked for on an SD boot only.                              *)
AutoRecover ==
  /\ InLinux("stamped")
  /\ SeenMedia = 1 => Returns
  /\ io' = IF SeenMedia = 1 /\ FramGet("needed") # 0 THEN "install" ELSE "shell"
  /\ UNCHANGED <<fram, wr, emmc, svc, pos, sig, root, shown, faults>>
  /\ UbootUnchanged

RunInstallOs ==
  /\ InLinux("shell") \/ InLinux("done")
  /\ io' = "install"
  /\ UNCHANGED <<fram, wr, emmc, svc, pos, sig, root, shown, faults>>
  /\ UbootUnchanged
-----------------------------------------------------------------------------
(* install-os: do_sd_to_emmc                                               *)

(* root_disk_name: /dev/root is resolved through the signature in          *)
(* root=PARTUUID, to the first disk that carries it.                       *)
RootDiskNames ==
  IF shown = "mmcblk" THEN {root} ELSE DisksMatching(Signature(pc))

RefuseInstall ==
  /\ InLinux("install")
  /\ RootDiskNames # {"sd"}
  /\ io' = "shell"
  /\ UNCHANGED <<fram, wr, emmc, svc, pos, sig, root, shown, faults>>
  /\ UbootUnchanged

(* Mutant: the copy starts without the latch.                              *)
LatchRecovery_NoLatch ==
  /\ InLinux("install")
  /\ "sd" \in RootDiskNames
  /\ Returns
  /\ LET offset == FramGet("offset") IN
       pos' = IF offset >= Essential THEN 0 ELSE offset
  /\ io' = "stop"
  /\ UNCHANGED <<fram, wr, emmc, svc, sig, root, shown, faults>>
  /\ UbootUnchanged

LatchRecovery ==
  /\ InLinux("install")
  /\ "sd" \in RootDiskNames
  /\ Returns
  /\ LET offset == FramGet("offset") IN
       pos' = IF offset >= Essential THEN 0 ELSE offset
  /\ FramSet("needed", 1)
  /\ io' = "stop"
  /\ UNCHANGED <<fram, emmc, svc, sig, root, shown, faults>>
  /\ UbootUnchanged

(* Every pid in /var/run is sent SIGTERM, fram-service's among them, which *)
(* ends it; monit has quit, so nothing restarts it.                        *)
StopServices ==
  /\ InLinux("stop")
  /\ svc' = "down"
  /\ io' = "start"
  /\ UNCHANGED <<fram, wr, emmc, pos, sig, root, shown, faults>>
  /\ UbootUnchanged

StartCopy ==
  /\ InLinux("start")
  /\ IF pos = 0 THEN FramSet("offset", 0) ELSE UNCHANGED wr
  /\ io' = "copy"
  /\ UNCHANGED <<fram, emmc, svc, pos, sig, root, shown, faults>>
  /\ UbootUnchanged

(* The first chunk brings the SD card's signature along, in its first      *)
(* sector; a write of it that failed or was cut may have got that far.     *)
SignaturesAfter(c, unfinished) ==
  IF c # 0 THEN {sig}
  ELSE {SdSignature} \cup (IF unfinished THEN {sig} ELSE {})

(* dd's exit status is not looked at: a failed chunk counts as copied.     *)
DdChunk ==
  /\ InLinux("copy")
  /\ pos < Essential
  /\ \E left \in (IF MmcFaults THEN CutChunk(pos) ELSE {}) \cup {"sd"} :
       emmc' = [emmc EXCEPT ![pos] = left]
  /\ sig' \in SignaturesAfter(pos, MmcFaults)
  /\ pos' = pos + 1
  /\ io' = "checkpoint"
  /\ UNCHANGED <<fram, wr, svc, root, shown, faults>>
  /\ UbootUnchanged

(* Mutant: the offset is retried until fram-service takes it.              *)
SetRestoreOffset_Retries ==
  /\ InLinux("checkpoint")
  /\ svc = "up"
  /\ FramSet("offset", pos)
  /\ io' = "copy"
  /\ UNCHANGED <<fram, emmc, svc, pos, sig, root, shown, faults>>
  /\ UbootUnchanged

SetRestoreOffset ==
  /\ InLinux("checkpoint")
  /\ FramSet("offset", pos)
  /\ io' = "copy"
  /\ UNCHANGED <<fram, emmc, svc, pos, sig, root, shown, faults>>
  /\ UbootUnchanged

SpanCopied ==
  /\ InLinux("copy")
  /\ pos = Essential
  /\ io' = "sign"
  /\ UNCHANGED <<fram, wr, emmc, svc, pos, sig, root, shown, faults>>
  /\ UbootUnchanged

SetDiskSignature ==
  /\ InLinux("sign")
  /\ sig' = "YNLK"
  /\ io' = "mkfs"
  /\ UNCHANGED <<fram, wr, emmc, svc, pos, root, shown, faults>>
  /\ UbootUnchanged

(* p4 is formatted, or left alone when it is not visible.                  *)
MkfsHome ==
  /\ InLinux("mkfs")
  /\ \/ emmc' = [c \in Chunk |-> IF c < Essential THEN emmc[c] ELSE "fresh"]
     \/ UNCHANGED emmc
  /\ io' = "verify"
  /\ UNCHANGED <<fram, wr, svc, pos, sig, root, shown, faults>>
  /\ UbootUnchanged

(* verify_emmc_bootable mounts the FAT and asks whether a kernel is there, *)
(* without reading it: damage inside the file goes unseen.                 *)
KernelFound ==
  {TRUE} \cup (IF MmcFaults \/ \E c \in KernelChunks : emmc[c] # "sd"
               THEN {FALSE} ELSE {})

VerifyEmmc ==
  /\ InLinux("verify")
  /\ \E ok \in KernelFound : io' = IF ok THEN "clear_probe" ELSE "shell"
  /\ UNCHANGED <<fram, wr, emmc, svc, pos, sig, root, shown, faults>>
  /\ UbootUnchanged

(* fram_clear_recovery_after_verify: the latch is cleared last.            *)
ClearFlag(label, key, val, next) ==
  /\ InLinux(label)
  /\ FramSet(key, val)
  /\ io' = next
  /\ UNCHANGED <<fram, emmc, svc, pos, sig, root, shown, faults>>
  /\ UbootUnchanged

ClearAfterVerify ==
  \/ ClearFlag("clear_probe", "probe_ok", 1, "clear_media")
  \/ ClearFlag("clear_media", "media", 0, "clear_offset")
  \/ ClearFlag("clear_offset", "offset", 0, "clear_needed")
  \/ ClearFlag("clear_needed", "needed", 0, "done")
-----------------------------------------------------------------------------
(* U-Boot's raw copy carries the SD card's signature over with chunk 0.    *)
UBoot ==
  /\ UBootStep
  /\ sig' \in IF pc = "copy" /\ pc' \in {"checkpoint", "fallback"}
              THEN SignaturesAfter(blk, pc' = "fallback") ELSE {sig}
  /\ UNCHANGED <<svc, io, pos, root, shown>>

BeingCopied(c) ==
  \/ At("copy") /\ c = blk
  \/ InLinux("copy") /\ c = pos /\ pos < Essential

(* A reset ends Linux too, possibly in the middle of a chunk of dd.        *)
Reset ==
  /\ boots < MaxBoots
  /\ boots' = boots + 1
  /\ pc' = "reset" /\ wr' = Idle /\ blk' = 0
  /\ svc' = "down" /\ io' = "off" /\ pos' = 0 /\ root' = "none" /\ shown' = "none"
  /\ UNCHANGED faults
  /\ IF wr = Idle THEN UNCHANGED fram
     ELSE \E s \in Cut(fram[wr.key][wr.slot], NewContent, TornWrites) :
            fram' = SetSlot(wr.key, wr.slot, s)
  /\ \/ UNCHANGED <<emmc, sig>>
     \/ \E c \in Chunk :
          /\ BeingCopied(c)
          /\ \E left \in CutChunk(c) : emmc' = [emmc EXCEPT ![c] = left]
          /\ sig' \in SignaturesAfter(c, TRUE)

Decay == EmmcDecays /\ UNCHANGED linux

LinuxStep ==
  \/ MountRoot \/ BootStamp \/ AutoRecover \/ RefuseInstall \/ LatchRecovery
  \/ StopServices \/ StartCopy \/ DdChunk \/ SetRestoreOffset \/ SpanCopied
  \/ SetDiskSignature \/ MkfsHome \/ VerifyEmmc \/ ClearAfterVerify

NextAll ==
  \/ UBoot \/ LinuxStep \/ RunInstallOs \/ ServiceDies \/ ServiceHangs
  \/ Reset \/ Decay

SpecAll == InitAll /\ [][NextAll]_allVars

(* Both programs are sequential and keep stepping, unless a call into a    *)
(* hung fram-service keeps Linux's: such a step is not enabled.  The       *)
(* operator need not run install-os, and neither power cuts nor faults are *)
(* due.                                                                    *)
FairSpecAll == SpecAll /\ WF_allVars(UBoot) /\ WF_allVars(LinuxStep)
-----------------------------------------------------------------------------
(* The essential chunks a U-Boot resume would skip hold the SD image, even *)
(* when two restorers with different spans share the saved offset.         *)
ResumeSkipsOnlyCopied ==
  SavedOffset < Span =>
    \A c \in 0 .. Essential - 1 : c < SavedOffset => emmc[c] = "sd"


(* S92 is a boot script, runs install-os in the foreground and asks for    *)
(* fram-service through curl, which waits for an answer without a limit:   *)
(* whatever FRAM transaction fails, whatever a reset tore, with fram-      *)
(* service there or gone in the middle, a boot gets past S92 or is reset,  *)
(* unless a service that hangs keeps it.  Each dd and mount is taken to    *)
(* return.                                                                 *)
BootScriptEnds ==
  io = "boot" ~> io \in {"shell", "done", "off"} \/ svc = "hung"

(* install-os step 4 of its header: a finished restore cleared the latch.  *)
DoneClearsLatch == InLinux("done") => ~Latched
=============================================================================
