--------------------------- MODULE MramEnvProofs ----------------------------
(***************************************************************************)
(* Proofs about MramEnv, for any number of chunks, environments and        *)
(* faults.  IInv is inductive; the invariants the runs check follow.       *)
(***************************************************************************)
EXTENDS MramEnv, TLAPS

USE BoundAssumption, ValueAssumption

(* An image the code can build passes the CRC as a saved environment or    *)
(* not at all.                                                             *)
LEMMA ImageType ==
  ASSUME NEW img \in [Chunk -> Saved \cup {Junk}]
  PROVE  /\ ImageEnv(img) \in Saved \cup {Bad}
         /\ Whole(img) <=> MramHolds(img)
<1>1. 0 \in Chunk
  BY DEF Chunk
<1>2. ASSUME NEW e \in Env, \A c \in Chunk : img[c] = e
      PROVE  img[0] \in Saved
  BY <1>1, <1>2 DEF Saved, Env
<1>3. Bad \notin Saved
  BY DEF Saved
<1> QED
  BY <1>2, <1>3 DEF ImageEnv, Whole, MramHolds

(* An image that is one environment in every chunk passes as that one.     *)
LEMMA ImageOfOne ==
  ASSUME NEW img, NEW e \in Env, \A c \in Chunk : img[c] = e
  PROVE  ImageEnv(img) = e /\ Whole(img)
<1>1. 0 \in Chunk
  BY DEF Chunk
<1>2. ImageEnv(img) = e
  BY <1>1 DEF ImageEnv
<1> QED
  BY <1>2 DEF Whole

LEMMA InitIInv == Init => IInv
<1> SUFFICES ASSUME Init PROVE IInv
  OBVIOUS
<1> USE DEF Init
<1>1. 1 \in Saved /\ 1 \in Env /\ Bad \notin Saved
  BY DEF Saved, Env
<1>2. TypeOK
  <2>1. mram \in [Chunk -> Env \cup {Junk}]
    BY <1>1
  <2>2. file \in [Disk -> OnDisk]
    BY <1>1 DEF OnDisk
  <2>3. durable \subseteq OnDisk
    BY <2>2 DEF Disk
  <2>4. 0 \in Env /\ MaxFaults + 2 \in 0 .. MaxFaults + 2 /\ 0 \in 0 .. MaxFaults
    BY DEF Env
  <2> QED
    BY <1>1, <2>1, <2>2, <2>3, <2>4 DEF TypeOK
<1>3. MramInv
  <2>1. mram \in [Chunk -> Saved \cup {Junk}]
    BY <1>1
  <2>2. saved # 0 => Matches(saved)
    BY DEF Matches
  <2> QED
    BY <1>1, <2>1, <2>2 DEF MramInv
<1>4. LoadInv
  BY DEF LoadInv, SavedEnvPersists, FallbackFindsMirror, FallsBackAsDocumented
<1>5. FileInv
  BY DEF FileInv, MirrorMatches
<1>6. DamageInv
  BY DEF DamageInv
<1>7. BaseInv
  <2>1. \A c \in Chunk : mram[c] # Junk => mram[c] = 1
    OBVIOUS
  <2>2. \A left \in durable : left \in Saved => left >= 0
    BY DEF Saved, Env
  <2>3. base = 0 /\ envs = 1 /\ pc # "save" /\ 1 \in 0 .. 1
    OBVIOUS
  <2> QED
    BY <2>1, <2>2, <2>3 DEF BaseInv
<1> QED
  BY <1>2, <1>3, <1>4, <1>5, <1>6, <1>7 DEF IInv
-----------------------------------------------------------------------------
(* What an action that does not touch a part owes for it.                  *)

LEMMA MramKept ==
  ASSUME IInv, UNCHANGED <<mram, envs, saved>>, pc' \notin {"save", "sync_write"}
  PROVE  MramInv'
BY DEF IInv, MramInv, Matches

LEMMA LoadKept ==
  ASSUME pc' \notin {"reset", "ext4", "loaded"}
  PROVE  LoadInv'
BY DEF LoadInv, SavedEnvPersists, FallbackFindsMirror, FallsBackAsDocumented

LEMMA FileKept ==
  ASSUME IInv, UNCHANGED <<file, durable>>,
         pc \notin {"sync_write", "tried", "bootcount", "flush"},
         pc' \notin {"sync_write", "tried", "bootcount", "flush", "up"}
  PROVE  FileInv'
BY DEF IInv, FileInv, MirrorMatches

LEMMA DamageKept ==
  ASSUME IInv, UNCHANGED <<mram, file, damage>>, pc \notin {"save", "sync_write"}
  PROVE  DamageInv'
BY DEF IInv, DamageInv, MramHolds, ImageEnv

(* The image that passes the CRC is its first chunk, and so are the others.*)
LEMMA HeldImage ==
  ASSUME NEW img, MramHolds(img)
  PROVE  ImageEnv(img) = img[0] /\ img[0] \in Saved /\ \A c \in Chunk : img[c] = img[0]
<1>1. 0 \in Chunk /\ Bad \notin Saved
  BY DEF Chunk, Saved
<1> QED
  BY <1>1 DEF MramHolds, ImageEnv

LEMMA BaseKept ==
  ASSUME IInv, UNCHANGED <<mram, envs, base>>, pc' # "save",
         \A left \in durable' : left \in durable \/ left \notin Saved
                                 \/ left = ImageEnv(mram)
  PROVE  BaseInv'
<1>1. 0 \in Chunk /\ Junk \notin Saved
  BY DEF Chunk, Saved
<1>2. ImageEnv(mram) \in Saved => ImageEnv(mram) >= base
  BY <1>1, HeldImage DEF IInv, BaseInv, MramHolds
<1> QED
  BY <1>2 DEF IInv, BaseInv

(* When both copies hold, the new base is the older of them; what was      *)
(* newer than the old base is still newer.                                 *)
LEMMA DamagedBase ==
  ASSUME IInv, NEW n \in {0, 1}, Damaged(n), envs' = envs,
         \A c \in Chunk : mram'[c] # Junk => mram'[c] \in base .. envs,
         \A left \in durable' : left \in Saved => left >= base,
         durable' = {file'["emmc"]},
         pc' = "save" => ram' \in base .. envs /\ mram'[0] = ram'
  PROVE  BaseInv' /\ base' \in Env
<1>1. base \in Nat /\ envs \in Nat /\ base <= envs /\ 0 \in Chunk /\ Junk \notin Saved
      /\ envs <= MaxEnv
  BY DEF IInv, TypeOK, BaseInv, Chunk, Saved, Env
<1>2. CASE MramHolds(mram') /\ FileHolds(durable')
  <2>1. /\ ImageEnv(mram') = mram'[0] /\ mram'[0] \in Saved
        /\ \A c \in Chunk : mram'[c] = mram'[0]
    BY <1>2, HeldImage
  <2>2. base' = Older(mram'[0], file'["emmc"])
    BY <1>2, <2>1 DEF Damaged
  <2>3. mram'[0] \in base .. envs
    BY <1>1, <2>1
  <2>4. file'["emmc"] \in Saved /\ file'["emmc"] \in Nat /\ file'["emmc"] >= base
    BY <1>2 DEF FileHolds, Saved, Env
  <2>5. base' \in Nat /\ base' <= mram'[0] /\ base' <= file'["emmc"]
    BY <1>1, <2>2, <2>3, <2>4 DEF Older
  <2>6. base' \in Env
    BY <1>1, <2>3, <2>5 DEF Env
  <2>7. \A c \in Chunk : mram'[c] \in base' .. envs'
    BY <1>1, <2>1, <2>3, <2>5
  <2> QED
    BY <1>1, <2>3, <2>5, <2>6, <2>7 DEF BaseInv
<1>3. CASE ~(MramHolds(mram') /\ FileHolds(durable'))
  <2>1. base' = base
    BY <1>3 DEF Damaged
  <2> QED
    BY <1>1, <2>1 DEF BaseInv, IInv, TypeOK
<1> QED
  BY <1>2, <1>3

(* The counter moves within its range, and reaches zero only with both     *)
(* copies whole.                                                           *)
LEMMA DamagedCounts ==
  ASSUME TypeOK, NEW n \in {0, 1}, Damaged(n)
  PROVE  /\ damage' \in 0 .. MaxFaults + 2
         /\ \/ MramHolds(mram') /\ FileHolds(durable')
            \/ damage' >= damage + n
            \/ damage' >= 2
<1>1. damage \in 0 .. MaxFaults + 2
  BY DEF TypeOK
<1>2. CASE MramHolds(mram') /\ FileHolds(durable')
  BY <1>2 DEF Damaged
<1>3. CASE ~(MramHolds(mram') /\ FileHolds(durable'))
  <2>1. damage' = IF damage + n > MaxFaults THEN MaxFaults + 2 ELSE damage + n
    BY <1>3 DEF Damaged
  <2> QED
    BY <1>1, <2>1
<1> QED
  BY <1>2, <1>3
-----------------------------------------------------------------------------
(* One lemma per action.                                                   *)

LEMMA ReadMramFailsStep == IInv /\ ReadMramFails => IInv'
<1> SUFFICES ASSUME IInv, ReadMramFails PROVE IInv'
  OBVIOUS
<1> USE DEF ReadMramFails, kept
<1>1. TypeOK'
  BY DEF IInv, TypeOK
<1>2. MramInv'
  BY MramKept
<1>3. LoadInv'
  BY DEF IInv, LoadInv, SavedEnvPersists, FallbackFindsMirror, FallsBackAsDocumented
<1>4. FileInv'
  BY FileKept
<1>5. DamageInv'
  BY DamageKept
<1>base. BaseInv'
  BY BaseKept
<1> QED
  BY <1>1, <1>2, <1>3, <1>4, <1>5, <1>base DEF IInv

LEMMA LoadMramStep == IInv /\ LoadMram => IInv'
<1> SUFFICES ASSUME IInv, LoadMram PROVE IInv'
  OBVIOUS
<1> USE DEF LoadMram, kept
<1>1. mram \in [Chunk -> Saved \cup {Junk}] /\ saved \in Env
  BY DEF IInv, MramInv, TypeOK
<1>2. ImageEnv(mram) \in Saved \cup {Bad} /\ (Whole(mram) <=> MramHolds(mram))
  BY <1>1, ImageType
<1>3. 0 \in Env /\ Saved \subseteq Env /\ ram' \in Env
  BY <1>2 DEF Env, Saved, Whole, MramHolds
<1>4. TypeOK'
  BY <1>3 DEF IInv, TypeOK
<1>5. MramInv'
  BY MramKept
<1>6. LoadInv'
  <2>1. saved # 0 => ImageEnv(mram) = saved /\ Whole(mram)
    BY <1>1, ImageOfOne DEF IInv, MramInv, Matches
  <2>2. Whole(mram)' = Whole(mram)
    BY DEF Whole, ImageEnv
  <2> QED
    BY <1>3, <2>1, <2>2
    DEF LoadInv, SavedEnvPersists, FallbackFindsMirror, FallsBackAsDocumented
<1>7. FileInv'
  BY FileKept
<1>8. DamageInv'
  BY DamageKept
<1>base. BaseInv'
  BY BaseKept
<1> QED
  BY <1>4, <1>5, <1>6, <1>7, <1>8, <1>base DEF IInv

LEMMA TryExt4Step == IInv /\ TryExt4 => IInv'
<1> SUFFICES ASSUME IInv, TryExt4 PROVE IInv'
  OBVIOUS
<1> USE DEF TryExt4, kept
<1>1. /\ pc = "ext4" /\ at \in 1 .. 3 /\ ~(readOk /\ Whole(mram))
      /\ at > 1 => ram = 0 /\ file["sd"] = Bad
  BY DEF IInv, LoadInv, Ext4Parts
<1>2. file["sd"] \in OnDisk /\ file["emmc"] \in OnDisk /\ 0 \in Env
  BY DEF IInv, TypeOK, Disk, Env
<1>3. Ext4Parts[at] = IF at = 3 THEN "emmc" ELSE "sd"
  BY <1>1 DEF Ext4Parts
<1>4. ram' \in Env \cup {ram}
  BY <1>2, <1>3 DEF Imported, Ext4Answer, OnDisk
<1>5. TypeOK'
  BY <1>4 DEF IInv, TypeOK
<1>6. MramInv'
  BY <1>1, MramKept
<1>7. LoadInv'
  <2>1. (Whole(mram) <=> Whole(mram')) /\ file' = file /\ saved' = saved /\ readOk' = readOk
    BY DEF Whole, ImageEnv
  <2>2. saved # 0 => Whole(mram)
    BY ImageOfOne DEF IInv, MramInv, Matches, TypeOK
  <2>4. CASE Ext4Answer(Ext4Parts[at]) = "zero"
    <3>1. file[Ext4Parts[at]] = Bad /\ ram' = 0 /\ at' = at + 1 /\ pc' = "ext4"
      BY <1>1, <2>4 DEF Ext4Answer, Imported
    <3> QED
      BY <1>1, <1>3, <2>1, <3>1
      DEF LoadInv, SavedEnvPersists, FallbackFindsMirror, FallsBackAsDocumented
  <2>5. CASE Ext4Answer(Ext4Parts[at]) # "zero"
    <3>1. pc' = "loaded" /\ file[Ext4Parts[at]] # Bad
      BY <2>5 DEF Ext4Answer
    <3>2. ram' = IF file[Ext4Parts[at]] \in {NoPart, NoFile} THEN ram ELSE file[Ext4Parts[at]]
      BY <3>1 DEF Ext4Answer, Imported
    <3>3. file["sd"] \in Env \cup {Bad} => ram' = FirstValid
      BY <1>1, <1>2, <1>3, <3>1, <3>2 DEF FirstValid, OnDisk
    <3>4. FirstValid' = FirstValid
      BY <2>1 DEF FirstValid
    <3> QED
      BY <1>1, <2>1, <2>2, <3>1, <3>3, <3>4
      DEF LoadInv, SavedEnvPersists, FallbackFindsMirror, FallsBackAsDocumented
  <2> QED
    BY <2>4, <2>5
<1>8. FileInv'
  BY <1>1, FileKept
<1>9. DamageInv'
  BY <1>1, DamageKept
<1>base. BaseInv'
  BY <1>1, BaseKept
<1> QED
  BY <1>5, <1>6, <1>7, <1>8, <1>9, <1>base DEF IInv

LEMMA SetDefaultEnvStep == IInv /\ SetDefaultEnv => IInv'
<1> SUFFICES ASSUME IInv, SetDefaultEnv PROVE IInv'
  OBVIOUS
<1> USE DEF SetDefaultEnv, kept
<1>1. /\ at = 4 /\ ~(readOk /\ Whole(mram))
      /\ file["sd"] = Bad /\ file["emmc"] = Bad
  BY DEF IInv, LoadInv, Ext4Parts
<1>2. 0 \in Env
  BY DEF Env
<1>3. TypeOK'
  BY <1>2 DEF IInv, TypeOK
<1>4. MramInv'
  BY MramKept
<1>5. LoadInv'
  <2>1. saved # 0 => Whole(mram)
    BY ImageOfOne DEF IInv, MramInv, Matches, TypeOK
  <2>2. FirstValid' = 0
    BY <1>1 DEF FirstValid
  <2>3. Whole(mram') <=> Whole(mram)
    BY DEF Whole, ImageEnv
  <2> QED
    BY <1>1, <1>2, <2>1, <2>2, <2>3
    DEF LoadInv, SavedEnvPersists, FallbackFindsMirror, FallsBackAsDocumented
<1>6. FileInv'
  BY FileKept
<1>7. DamageInv'
  BY DamageKept
<1>base. BaseInv'
  BY BaseKept
<1> QED
  BY <1>3, <1>4, <1>5, <1>6, <1>7, <1>base DEF IInv

LEMMA SaveEnvStep == IInv /\ SaveEnv => IInv'
<1> SUFFICES ASSUME IInv, SaveEnv PROVE IInv'
  OBVIOUS
<1> USE DEF SaveEnv
<1>1. envs' \in Saved /\ ram' \in Saved /\ 0 \in Env /\ 0 \in Chunk /\ Saved \subseteq Env
  BY DEF IInv, MramInv, Saved, Env, Chunk
<1>2. TypeOK'
  BY <1>1 DEF IInv, TypeOK
<1>3. MramInv'
  BY <1>1 DEF IInv, MramInv
<1>4. LoadInv'
  BY <1>1, LoadKept
<1>5. FileInv'
  BY FileKept
<1>6. DamageInv'
  BY DamageKept
<1>base. BaseInv'
  <2>1. base <= envs /\ base \in Nat /\ envs \in Nat
    BY DEF IInv, TypeOK, BaseInv, Env
  <2> QED
    BY <2>1 DEF IInv, BaseInv
<1> QED
  BY <1>2, <1>3, <1>4, <1>5, <1>6, <1>base DEF IInv

LEMMA WriteChunkStep == IInv /\ WriteChunk => IInv'
<1> SUFFICES ASSUME IInv, WriteChunk PROVE IInv'
  OBVIOUS
<1> USE DEF WriteChunk
<1>1. /\ at \in Chunk /\ ram \in Saved /\ mram \in [Chunk -> Saved \cup {Junk}]
      /\ saved = 0 /\ \A c \in 0 .. at - 1 : mram[c] = ram
  BY DEF IInv, TypeOK, MramInv
<1>2. mram' \in [Chunk -> Saved \cup {Junk}] /\ \A c \in 0 .. at : mram'[c] = ram
  BY <1>1 DEF Chunk
<1>3. Saved \subseteq Env /\ 0 \notin Saved /\ 0 \in Env
  BY DEF Saved, Env
<1>4. at = NChunk - 1 => MramHolds(mram')
  <2>1. at = NChunk - 1 => \A c \in Chunk : mram'[c] = ram
    BY <1>2 DEF Chunk
  <2> QED
    BY <1>1, <1>3, <2>1, ImageOfOne DEF MramHolds
<1>base. BaseInv' /\ base' \in Env
  <2>1. ram \in base .. envs /\ mram'[0] = ram
    BY <1>1, <1>2 DEF IInv, BaseInv, Chunk
  <2>2. \A c \in Chunk : mram'[c] # Junk => mram'[c] \in base .. envs
    BY <1>1, <2>1 DEF IInv, BaseInv
  <2>3. durable' = {file'["emmc"]}
    BY DEF IInv, FileInv
  <2>4. \A left \in durable' : left \in Saved => left >= base
    BY DEF IInv, BaseInv
  <2>5. ram' = ram /\ envs' = envs /\ Damaged(0)
    OBVIOUS
  <2> QED
    BY <2>1, <2>2, <2>3, <2>4, <2>5, DamagedBase
<1>5. TypeOK'
  <2>1. damage' \in 0 .. MaxFaults + 2 /\ base' \in Env
    BY <1>base, DamagedCounts DEF IInv
  <2>2. mram' \in [Chunk -> Env \cup {Junk}]
    BY <1>2, <1>3
  <2>3. at' \in Nat /\ (pc' = "save" => at' \in Chunk)
    BY <1>1 DEF Chunk
  <2>4. saved' \in Env /\ pc' \in {"prompt", "save"}
    BY <1>1, <1>3 DEF IInv, TypeOK
  <2> QED
    BY <2>1, <2>2, <2>3, <2>4 DEF IInv, TypeOK
<1>6. MramInv'
  <2>1. CASE at = NChunk - 1
    <3>1. \A c \in Chunk : mram'[c] = saved'
      BY <1>2, <2>1 DEF Chunk
    <3> QED
      BY <1>2, <2>1, <3>1 DEF IInv, MramInv, Matches
  <2>2. CASE at # NChunk - 1
    <3>1. at' - 1 = at
      BY <1>1 DEF Chunk
    <3> QED
      BY <1>1, <1>2, <2>2, <3>1 DEF IInv, MramInv
  <2> QED
    BY <2>1, <2>2
<1>7. LoadInv'
  BY LoadKept
<1>8. FileInv'
  BY FileKept
<1>9. DamageInv'
  <2>1. \/ MramHolds(mram') /\ FileHolds(durable')
        \/ damage' >= damage
        \/ damage' >= 2
    BY DamagedCounts DEF IInv, TypeOK
  <2>2. file'["emmc"] \in durable'
    BY DEF IInv, FileInv
  <2>3. damage \in Nat /\ damage' \in Nat
    BY <1>5 DEF IInv, TypeOK
  <2>4. pc' = "save" \/ MramHolds(mram')
    BY <1>4
  <2>5. damage = 0 => file["emmc"] \in Saved
    BY DEF IInv, DamageInv
  <2>6. damage' = 0 => file'["emmc"] \in Saved
    BY <2>1, <2>2, <2>3, <2>5 DEF FileHolds
  <2> QED
    BY <2>4, <2>6 DEF DamageInv
<1> QED
  BY <1>5, <1>6, <1>7, <1>8, <1>9, <1>base DEF IInv

LEMMA WriteChunkFailsStep == IInv /\ WriteChunkFails => IInv'
<1> SUFFICES ASSUME IInv, WriteChunkFails PROVE IInv'
  OBVIOUS
<1> USE DEF WriteChunkFails, kept
<1>1. at \in Chunk /\ mram \in [Chunk -> Saved \cup {Junk}] /\ saved = 0
  BY DEF IInv, TypeOK, MramInv
<1>2. mram' \in [Chunk -> Saved \cup {Junk}]
  BY <1>1
<1>base. BaseInv' /\ base' \in Env
  <2>1. \A c \in Chunk : mram'[c] # Junk => mram'[c] \in base .. envs
    BY <1>1 DEF IInv, BaseInv
  <2>2. durable' = {file'["emmc"]}
    BY DEF IInv, FileInv
  <2>3. \A left \in durable' : left \in Saved => left >= base
    BY DEF IInv, BaseInv
  <2>4. pc' = "prompt" /\ envs' = envs /\ Damaged(1)
    OBVIOUS
  <2> QED
    BY <2>1, <2>2, <2>3, <2>4, DamagedBase
<1>3. TypeOK'
  <2>1. damage' \in 0 .. MaxFaults + 2 /\ base' \in Env
    BY <1>base, DamagedCounts DEF IInv
  <2>2. mram' \in [Chunk -> Env \cup {Junk}]
    BY <1>2 DEF Saved
  <2>3. faults' \in 0 .. MaxFaults
    BY DEF IInv, TypeOK
  <2> QED
    BY <2>1, <2>2, <2>3 DEF IInv, TypeOK
<1>4. MramInv'
  BY <1>1, <1>2 DEF IInv, MramInv
<1>5. LoadInv'
  BY LoadKept
<1>6. FileInv'
  BY FileKept
<1>7. DamageInv'
  <2>1. \/ MramHolds(mram') /\ FileHolds(durable')
        \/ damage' >= damage + 1
        \/ damage' >= 2
    BY DamagedCounts DEF IInv
  <2>2. file'["emmc"] \in durable'
    BY DEF IInv, FileInv
  <2>3. damage \in Nat /\ damage' \in Nat
    BY <1>3 DEF IInv, TypeOK
  <2>4. damage = 0 => file'["emmc"] \in Saved
    BY DEF IInv, DamageInv
  <2> QED
    BY <2>1, <2>2, <2>3, <2>4 DEF DamageInv, FileHolds
<1> QED
  BY <1>3, <1>4, <1>5, <1>6, <1>7, <1>base DEF IInv

LEMMA BootLinuxStep == IInv /\ BootLinux => IInv'
<1> SUFFICES ASSUME IInv, BootLinux PROVE IInv'
  OBVIOUS
<1> USE DEF BootLinux, kept
<1>1. TypeOK'
  BY DEF IInv, TypeOK
<1>2. MramInv'
  BY MramKept
<1>3. LoadInv'
  BY LoadKept
<1>4. FileInv'
  BY FileKept
<1>5. DamageInv'
  BY DamageKept
<1>base. BaseInv'
  BY BaseKept
<1> QED
  BY <1>1, <1>2, <1>3, <1>4, <1>5, <1>base DEF IInv

LEMMA MountEnvarStep == IInv /\ MountEnvar => IInv'
<1> SUFFICES ASSUME IInv, MountEnvar PROVE IInv'
  OBVIOUS
<1> USE DEF MountEnvar, Goto, kept
<1>1. TypeOK'
  BY DEF IInv, TypeOK
<1>2. MramInv'
  BY MramKept
<1>3. LoadInv'
  BY LoadKept
<1>4. FileInv'
  BY FileKept
<1>5. DamageInv'
  BY DamageKept
<1>base. BaseInv'
  BY BaseKept
<1> QED
  BY <1>1, <1>2, <1>3, <1>4, <1>5, <1>base DEF IInv

LEMMA SeedEnvarStep == IInv /\ SeedEnvar => IInv'
<1> SUFFICES ASSUME IInv, SeedEnvar PROVE IInv'
  OBVIOUS
<1> USE DEF SeedEnvar, Goto, kept
<1>1. file \in [Disk -> OnDisk] /\ durable = {file["emmc"]} /\ Bad \in OnDisk
  BY DEF IInv, TypeOK, FileInv, OnDisk
<1>2. file' \in [Disk -> OnDisk] /\ durable' = {file'["emmc"]}
      /\ (file'["emmc"] = file["emmc"] \/ file["emmc"] = NoFile)
  BY <1>1 DEF WriteEnvar, Disk
<1>3. TypeOK'
  <2>1. durable' \subseteq OnDisk
    BY <1>2 DEF Disk
  <2> QED
    BY <1>2, <2>1 DEF IInv, TypeOK
<1>4. MramInv'
  BY MramKept
<1>5. LoadInv'
  BY LoadKept
<1>6. FileInv'
  BY <1>2 DEF FileInv, MirrorMatches
<1>7. DamageInv'
  <2>1. MramHolds(mram') <=> MramHolds(mram)
    BY DEF MramHolds, ImageEnv
  <2>2. NoFile \notin Saved
    BY DEF Saved
  <2> QED
    BY <1>2, <2>1, <2>2 DEF IInv, DamageInv
<1>base. BaseInv'
  <2>1. \A left \in durable' : left \in durable \/ left \notin Saved
    BY DEF WriteEnvar, Saved
  <2> QED
    BY <2>1, BaseKept
<1> QED
  BY <1>3, <1>4, <1>5, <1>6, <1>7, <1>base DEF IInv

LEMMA SyncEnvarStep == IInv /\ SyncEnvar => IInv'
<1> SUFFICES ASSUME IInv, SyncEnvar PROVE IInv'
  OBVIOUS
<1> USE DEF SyncEnvar, Goto, kept
<1>1. /\ file \in [Disk -> OnDisk] /\ durable = {file["emmc"]}
      /\ mram \in [Chunk -> Saved \cup {Junk}] /\ mounted \in BOOLEAN
      /\ Bad \in OnDisk /\ mounted' = mounted /\ mram' = mram
  BY DEF IInv, TypeOK, FileInv, MramInv, OnDisk
<1>2. Whole(mram) <=> MramHolds(mram)
  BY <1>1, ImageType
<1>3. MramHolds(mram') <=> MramHolds(mram)
  BY DEF MramHolds, ImageEnv
<1>4. LoadInv'
  BY LoadKept
<1>base. BaseInv'
  <2>1. \A left \in durable' : left \in durable \/ left \notin Saved
                               \/ left = ImageEnv(mram)
    BY DEF WriteEnvar, Saved
  <2>2. pc' # "save" /\ UNCHANGED <<mram, envs, base>>
    OBVIOUS
  <2> QED
    BY <2>1, <2>2, BaseKept
<1>5. CASE Whole(mram)
  <2>0. ImageEnv(mram) \in OnDisk
    BY <1>2, <1>5 DEF MramHolds, OnDisk, Saved
  <2>1. /\ file' \in [Disk -> OnDisk] /\ durable' \subseteq OnDisk
        /\ file'["emmc"] \in durable'
        /\ ~mounted => file' = file /\ durable' = {file'["emmc"]}
    BY <1>1, <1>5, <2>0 DEF WriteEnvar, Disk
  <2>2. TypeOK'
    BY <1>5, <2>1 DEF IInv, TypeOK
  <2>3. MramInv'
    BY <1>5 DEF IInv, MramInv, Matches, Whole, ImageEnv
  <2>4. FileInv'
    BY <1>1, <1>5, <2>1 DEF FileInv, MirrorMatches
  <2>5. DamageInv'
    BY <1>1, <1>2, <1>3, <1>5, <2>1 DEF IInv, DamageInv
  <2> QED
    BY <1>4, <1>base, <2>2, <2>3, <2>4, <2>5 DEF IInv
<1>6. CASE ~Whole(mram)
  <2>1. TypeOK'
    BY <1>6 DEF IInv, TypeOK
  <2>2. MramInv'
    BY <1>6, MramKept
  <2>3. saved = 0
    BY <1>6, ImageOfOne DEF IInv, MramInv, Matches, TypeOK
  <2>4. FileInv'
    BY <1>1, <1>6, <2>3 DEF FileInv, MirrorMatches
  <2>5. DamageInv'
    BY <1>6, DamageKept
  <2> QED
    BY <1>4, <1>base, <2>1, <2>2, <2>4, <2>5 DEF IInv
<1> QED
  BY <1>5, <1>6

LEMMA SyncEnvarFailsStep == IInv /\ SyncEnvarFails => IInv'
<1> SUFFICES ASSUME IInv, SyncEnvarFails PROVE IInv'
  OBVIOUS
<1> USE DEF SyncEnvarFails, Goto, kept
<1>1. TypeOK'
  <2>1. faults' \in 0 .. MaxFaults
    BY DEF IInv, TypeOK
  <2>2. readOk' \in BOOLEAN
    OBVIOUS
  <2> QED
    BY <2>1, <2>2 DEF IInv, TypeOK
<1>2. MramInv'
  BY MramKept
<1>3. LoadInv'
  BY LoadKept
<1>4. FileInv'
  BY DEF IInv, FileInv, MirrorMatches
<1>5. DamageInv'
  BY DamageKept
<1>base. BaseInv'
  BY BaseKept
<1> QED
  BY <1>1, <1>2, <1>3, <1>4, <1>5, <1>base DEF IInv

LEMMA SyncWriteStep == IInv /\ SyncWrite => IInv'
<1> SUFFICES ASSUME IInv, SyncWrite PROVE IInv'
  OBVIOUS
<1> USE DEF SyncWrite, Goto, kept
<1>1. /\ file \in [Disk -> OnDisk] /\ durable \subseteq OnDisk /\ mounted \in BOOLEAN
      /\ file["emmc"] \in durable /\ (~mounted => durable = {file["emmc"]})
      /\ mram \in [Chunk -> Saved \cup {Junk}] /\ saved \in Env /\ Whole(mram)
  BY DEF IInv, TypeOK, FileInv, MramInv
<1>2. ImageEnv(mram) \in Saved /\ MramHolds(mram)
  BY <1>1, ImageType DEF Whole, MramHolds
<1>3. saved # 0 => ImageEnv(mram) = saved
  BY <1>1, ImageOfOne DEF IInv, MramInv, Matches
<1>4. /\ file' \in [Disk -> OnDisk] /\ durable' = {file'["emmc"]}
      /\ mounted => file'["emmc"] = ImageEnv(mram)
      /\ ~mounted => file' = file
  BY <1>1, <1>2 DEF WriteEnvar, Disk, OnDisk, Saved
<1>base. BaseInv' /\ base' \in Env
  <2>1. \A c \in Chunk : mram'[c] # Junk => mram'[c] \in base .. envs
    BY DEF IInv, BaseInv
  <2>2. durable' = {file'["emmc"]}
    BY <1>4
  <2>3. \A left \in durable : left \in Saved => left >= base
    BY DEF IInv, BaseInv
  <2>4. ImageEnv(mram) >= base
    <3>1. mram[0] # Junk /\ 0 \in Chunk
      BY <1>2, HeldImage DEF Saved, Chunk
    <3> QED
      BY <1>2, <2>1, <3>1, HeldImage
  <2>5. \A left \in durable' : left \in Saved => left >= base
    BY <1>1, <1>4, <2>3, <2>4
  <2>6. pc' # "save" /\ envs' = envs /\ Damaged(0)
    OBVIOUS
  <2> QED
    BY <2>1, <2>2, <2>5, <2>6, DamagedBase
<1>5. TypeOK'
  <2>1. damage' \in 0 .. MaxFaults + 2 /\ base' \in Env
    BY <1>base, DamagedCounts DEF IInv
  <2>2. durable' \subseteq OnDisk
    BY <1>4 DEF Disk
  <2> QED
    BY <1>4, <2>1, <2>2 DEF IInv, TypeOK
<1>6. MramInv'
  BY MramKept
<1>7. LoadInv'
  BY LoadKept
<1>8. FileInv'
  BY <1>1, <1>3, <1>4 DEF FileInv, MirrorMatches
<1>9. DamageInv'
  <2>1. MramHolds(mram')
    BY <1>2 DEF MramHolds, ImageEnv
  <2>2. \/ FileHolds(durable')
        \/ damage' >= damage
        \/ damage' >= 2
    BY DamagedCounts DEF IInv, TypeOK
  <2>3. damage \in Nat /\ damage' \in Nat
    BY <1>5 DEF IInv, TypeOK
  <2>4. damage = 0 /\ ~mounted => file["emmc"] \in Saved
    BY DEF IInv, DamageInv
  <2>5. damage' = 0 => file'["emmc"] \in Saved
    BY <1>1, <1>2, <1>4, <2>2, <2>3, <2>4 DEF FileHolds
  <2> QED
    BY <2>1, <2>5 DEF DamageInv
<1> QED
  BY <1>5, <1>6, <1>7, <1>8, <1>9, <1>base DEF IInv

LEMMA FwSetenvStep ==
  ASSUME IInv,
         NEW here \in {"tried", "bootcount"}, NEW next \in {"bootcount", "flush"},
         FwSetenv(here, next)
  PROVE  IInv'
<1> DEFINE new == IF file["emmc"] \in Env THEN file["emmc"] ELSE 0
<1> USE DEF FwSetenv, Goto, kept
<1>1. /\ file \in [Disk -> OnDisk] /\ durable \subseteq OnDisk /\ mounted \in BOOLEAN
      /\ file["emmc"] \in durable /\ (~mounted => durable = {file["emmc"]})
      /\ 0 \in Env
  BY DEF IInv, TypeOK, FileInv, Env
<1>2. /\ file' \in [Disk -> OnDisk] /\ durable' \subseteq OnDisk
      /\ file'["emmc"] \in durable'
      /\ ~mounted => file' = file /\ durable' = {file'["emmc"]}
      /\ file["emmc"] \in Env => file'["emmc"] = file["emmc"]
  <2>1. new \in OnDisk /\ Bad \in OnDisk
    BY <1>1 DEF OnDisk
  <2> HIDE DEF new
  <2>2. CASE mounted
    <3>1. file' = [file EXCEPT !["emmc"] = new] /\ durable' = durable \cup {Bad, new}
      BY <2>2 DEF WriteEnvar, new
    <3> QED
      BY <1>1, <2>1, <2>2, <3>1 DEF Disk, new
  <2>3. CASE ~mounted
    BY <1>1, <2>3 DEF WriteEnvar
  <2> QED
    BY <1>1, <2>2, <2>3
<1>3. TypeOK'
  BY <1>2 DEF IInv, TypeOK
<1>4. MramInv'
  BY MramKept
<1>5. LoadInv'
  BY LoadKept
<1>6. FileInv'
  BY <1>2 DEF IInv, FileInv, MirrorMatches, TypeOK
<1>7. DamageInv'
  <2>1. MramHolds(mram') <=> MramHolds(mram)
    BY DEF MramHolds, ImageEnv
  <2> QED
    BY <1>2, <2>1 DEF IInv, DamageInv, Saved
<1>base. BaseInv'
  <2>1. \A left \in durable' : left \in durable \/ left \notin Saved
    BY <1>1 DEF WriteEnvar, Saved
  <2>2. pc' # "save" /\ UNCHANGED <<mram, envs, base>>
    OBVIOUS
  <2> QED
    BY <2>1, <2>2, BaseKept
<1> QED
  BY <1>3, <1>4, <1>5, <1>6, <1>7, <1>base DEF IInv

LEMMA SyncStep == IInv /\ Sync => IInv'
<1> SUFFICES ASSUME IInv, Sync PROVE IInv'
  OBVIOUS
<1> USE DEF Sync, Goto, kept
<1>1. /\ file \in [Disk -> OnDisk] /\ mounted \in BOOLEAN
      /\ file["emmc"] \in durable /\ (~mounted => durable = {file["emmc"]})
  BY DEF IInv, TypeOK, FileInv
<1>2. file' = file /\ durable' = {file["emmc"]}
  BY <1>1 DEF WriteEnvar, Disk
<1>base. BaseInv' /\ base' \in Env
  <2>1. \A c \in Chunk : mram'[c] # Junk => mram'[c] \in base .. envs
    BY DEF IInv, BaseInv
  <2>2. durable' = {file'["emmc"]}
    BY <1>2
  <2>3. \A left \in durable : left \in Saved => left >= base
    BY DEF IInv, BaseInv
  <2>5. \A left \in durable' : left \in Saved => left >= base
    BY <1>1, <1>2, <2>3
  <2>6. pc' # "save" /\ envs' = envs /\ Damaged(0)
    OBVIOUS
  <2> QED
    BY <2>1, <2>2, <2>5, <2>6, DamagedBase
<1>3. TypeOK'
  <2>1. damage' \in 0 .. MaxFaults + 2 /\ base' \in Env
    BY <1>base, DamagedCounts DEF IInv
  <2>2. durable' \subseteq OnDisk
    BY <1>1, <1>2 DEF Disk
  <2> QED
    BY <1>1, <1>2, <2>1, <2>2 DEF IInv, TypeOK
<1>4. MramInv'
  BY MramKept
<1>5. LoadInv'
  BY LoadKept
<1>6. FileInv'
  BY <1>2 DEF IInv, FileInv, MirrorMatches
<1>7. DamageInv'
  <2>1. MramHolds(mram') <=> MramHolds(mram)
    BY DEF MramHolds, ImageEnv
  <2>2. \/ MramHolds(mram') /\ FileHolds(durable')
        \/ damage' >= damage
        \/ damage' >= 2
    BY DamagedCounts DEF IInv, TypeOK
  <2>3. damage \in Nat /\ damage' \in Nat
    BY <1>3 DEF IInv, TypeOK
  <2> QED
    BY <1>2, <2>1, <2>2, <2>3 DEF IInv, DamageInv, FileHolds
<1> QED
  BY <1>3, <1>4, <1>5, <1>6, <1>7, <1>base DEF IInv

(* What Restart settles: nothing is loaded, nothing being written.         *)
LEMMA RestartLoad ==
  ASSUME Restart
  PROVE  LoadInv'
BY DEF Restart, LoadInv, SavedEnvPersists, FallbackFindsMirror, FallsBackAsDocumented

LEMMA RebootStep == IInv /\ Reboot => IInv'
<1> SUFFICES ASSUME IInv, Reboot PROVE IInv'
  OBVIOUS
<1> USE DEF Reboot, Restart, kept
<1>1. TypeOK'
  <2>1. 0 \in Nat /\ mounted' \in BOOLEAN /\ readOk' \in BOOLEAN
    OBVIOUS
  <2> QED
    BY <2>1 DEF IInv, TypeOK
<1>2. MramInv'
  BY MramKept
<1>3. LoadInv'
  BY RestartLoad
<1>4. FileInv'
  BY FileKept
<1>5. DamageInv'
  BY DamageKept
<1>base. BaseInv'
  BY BaseKept
<1> QED
  BY <1>1, <1>2, <1>3, <1>4, <1>5, <1>base DEF IInv

LEMMA PowerCutStep == IInv /\ PowerCut => IInv'
<1> SUFFICES ASSUME IInv, PowerCut PROVE IInv'
  OBVIOUS
<1> USE DEF PowerCut, Restart, kept
<1>1. /\ file \in [Disk -> OnDisk] /\ durable \subseteq OnDisk
      /\ mram \in [Chunk -> Saved \cup {Junk}]
      /\ pc = "save" => at \in Chunk /\ ram \in Saved /\ saved = 0
  BY DEF IInv, TypeOK, MramInv
<1>2. PICK left \in durable :
        file' = [file EXCEPT !["emmc"] = left] /\ durable' = {left}
  OBVIOUS
<1>3. /\ file' \in [Disk -> OnDisk] /\ durable' = {file'["emmc"]}
      /\ durable' \subseteq OnDisk /\ file'["emmc"] \in durable
  BY <1>1, <1>2 DEF Disk
<1>4. mram' \in [Chunk -> Saved \cup {Junk}] /\ (pc # "save" => mram' = mram)
  <2>1. CASE pc = "save"
    <3>1. PICK left2 \in {mram[at], ram, Junk} : mram' = [mram EXCEPT ![at] = left2]
      BY <2>1
    <3>2. left2 \in Saved \cup {Junk}
      BY <1>1, <2>1
    <3> QED
      BY <1>1, <2>1, <3>1, <3>2
  <2>2. CASE pc # "save"
    BY <1>1, <2>2
  <2> QED
    BY <2>1, <2>2
<1>base. BaseInv' /\ base' \in Env
  <2>1. \A c \in Chunk : mram'[c] # Junk => mram'[c] \in base .. envs
    BY <1>1, <1>4 DEF IInv, BaseInv
  <2>2. \A l \in durable' : l \in Saved => l >= base
    BY <1>3 DEF IInv, BaseInv
  <2>3. pc' # "save" /\ envs' = envs /\ Damaged(1)
    OBVIOUS
  <2> QED
    BY <1>3, <2>1, <2>2, <2>3, DamagedBase
<1>5. TypeOK'
  <2>1. damage' \in 0 .. MaxFaults + 2 /\ base' \in Env
    BY <1>base, DamagedCounts DEF IInv
  <2>2. faults' \in 0 .. MaxFaults
    BY DEF IInv, TypeOK
  <2>3. mram' \in [Chunk -> Env \cup {Junk}]
    BY <1>4 DEF Saved
  <2>4. 0 \in Nat /\ mounted' \in BOOLEAN /\ readOk' \in BOOLEAN
    OBVIOUS
  <2> QED
    BY <1>3, <2>1, <2>2, <2>3, <2>4 DEF IInv, TypeOK
<1>6. MramInv'
  BY <1>1, <1>4 DEF IInv, MramInv, Matches
<1>7. LoadInv'
  BY RestartLoad
<1>8. FileInv'
  BY <1>3 DEF FileInv, MirrorMatches
<1>9. DamageInv'
  <2>1. \/ MramHolds(mram') /\ FileHolds(durable')
        \/ damage' >= damage + 1
        \/ damage' >= 2
    BY DamagedCounts DEF IInv
  <2>2. damage \in Nat /\ damage' \in Nat
    BY <1>5 DEF IInv, TypeOK
  <2>3. pc # "save" => (MramHolds(mram') <=> MramHolds(mram))
    BY <1>4 DEF MramHolds, ImageEnv
  <2>4. pc = "save" => file'["emmc"] = file["emmc"]
    BY <1>3 DEF IInv, FileInv
  <2>5. damage = 0 => MramHolds(mram') \/ file'["emmc"] \in Saved
    BY <2>3, <2>4 DEF IInv, DamageInv
  <2> QED
    BY <1>3, <2>1, <2>2, <2>5 DEF DamageInv, FileHolds
<1> QED
  BY <1>5, <1>6, <1>7, <1>8, <1>9, <1>base DEF IInv
-----------------------------------------------------------------------------
(* Every step keeps IInv.                                                  *)
LEMMA NextIInv == IInv /\ [Next]_vars => IInv'
<1> SUFFICES ASSUME IInv, [Next]_vars PROVE IInv'
  OBVIOUS
<1>1. CASE UBoot
  BY <1>1, ReadMramFailsStep, LoadMramStep, TryExt4Step, SetDefaultEnvStep, SaveEnvStep,
     WriteChunkStep, WriteChunkFailsStep, BootLinuxStep DEF UBoot
<1>2. CASE Linux
  BY <1>2, MountEnvarStep, SeedEnvarStep, SyncEnvarStep, SyncEnvarFailsStep, SyncWriteStep,
     FwSetenvStep, SyncStep DEF Linux, VerifyBoot
<1>3. CASE Reboot
  BY <1>3, RebootStep
<1>4. CASE PowerCut
  BY <1>4, PowerCutStep
<1>5. CASE UNCHANGED vars
  BY <1>5
  DEF vars, IInv, TypeOK, MramInv, LoadInv, FileInv, DamageInv, BaseInv, SavedEnvPersists,
      FallbackFindsMirror, FallsBackAsDocumented, FirstValid, MirrorMatches, Matches, Whole,
      MramHolds, ImageEnv
<1> QED
  BY <1>1, <1>2, <1>3, <1>4, <1>5 DEF Next

(* IInv holds in every reachable state.                                    *)
THEOREM Invariance == Spec => []IInv
BY InitIInv, NextIInv, PTL DEF Spec

(* Type correctness.                                                       *)
THEOREM TypeCorrect == Spec => []TypeOK
<1>1. IInv => TypeOK
  BY DEF IInv
<1> QED
  BY <1>1, Invariance, PTL

(* A saveenv that reported success is what every later boot that can read  *)
(* the MRAM runs with.                                                     *)
THEOREM SavedPersists == Spec => []SavedEnvPersists
<1>1. IInv => SavedEnvPersists
  BY DEF IInv, LoadInv
<1> QED
  BY <1>1, Invariance, PTL

(* After S79, fw_printenv shows what saveenv saved.                        *)
THEOREM MirrorFollows == Spec => []MirrorMatches
<1>1. IInv => MirrorMatches
  BY DEF IInv, FileInv
<1> QED
  BY <1>1, Invariance, PTL

(* With a card that answers, the fallback is the documented one.           *)
THEOREM FallbackFound == Spec => []FallbackFindsMirror
<1>1. IInv => FallbackFindsMirror
  BY DEF IInv, LoadInv
<1> QED
  BY <1>1, Invariance, PTL

(* No single power cut and no single failed save loses both copies.        *)
THEOREM OneFaultSurvived == Spec => []OneFaultKeepsACopy
<1>1. IInv => OneFaultKeepsACopy
  BY DEF IInv, DamageInv, OneFaultKeepsACopy, FileHolds
<1> QED
  BY <1>1, Invariance, PTL

(* After any one fault, be it a cut, a failed save or a failed read, a     *)
(* boot with a flight card runs with nothing older than what both copies   *)
(* held, and never with the defaults.                                      *)
THEOREM NothingRolledBack == Spec => []NoRollback
<1>1. IInv => NoRollback
  <2> SUFFICES ASSUME IInv, pc = "loaded", file["sd"] = Bad,
                      damage <= (IF readOk THEN 1 ELSE 0)
               PROVE  ram \in Saved /\ ram >= base
    BY DEF NoRollback
  <2>1. damage \in Nat /\ mram \in [Chunk -> Saved \cup {Junk}]
    BY DEF IInv, TypeOK, MramInv
  <2>2. Whole(mram) <=> MramHolds(mram)
    BY <2>1, ImageType
  <2>3. CASE readOk /\ Whole(mram)
    <3>1. ram = mram[0] /\ mram[0] \in Saved /\ 0 \in Chunk /\ Junk \notin Saved
      BY <2>2, <2>3, HeldImage DEF IInv, LoadInv, Chunk, Saved
    <3> QED
      BY <3>1 DEF IInv, BaseInv
  <2>4. CASE ~(readOk /\ Whole(mram))
    <3>1. ram = FirstValid
      BY <2>4 DEF IInv, LoadInv, FallbackFindsMirror, FallsBackAsDocumented
    <3>2. file["emmc"] \in Saved
      BY <2>1, <2>2, <2>4 DEF IInv, DamageInv
    <3>3. ram = file["emmc"]
      BY <3>1, <3>2 DEF FirstValid, Saved
    <3> QED
      BY <3>2, <3>3 DEF IInv, BaseInv, FileInv
  <2> QED
    BY <2>3, <2>4
<1> QED
  BY <1>1, Invariance, PTL
=============================================================================
