-------------------------- MODULE BootUnlockProofs --------------------------
(***************************************************************************)
(* For any number of backups and of faults: the bootloader is written only *)
(* when the way back exists, the device is reset only into bootloaders     *)
(* that were read back, a run that ends for a locked device leaves         *)
(* Fairphone's ABL whole in both slots, no script changes the slot, and    *)
(* what the unlock script resets into boots.                               *)
(*                                                                         *)
(* The steps fall into those that leave the bootloaders, the backups and   *)
(* the active slot alone (Quiet), for which only job and told matter, and  *)
(* the few that do not.                                                    *)
(***************************************************************************)
EXTENDS BootUnlock, TLAPS

Jobs == [pc : Pcs, phase : {"none", "swap", "restore"}, dir : Dirs \cup {NoDir},
         keep : Slots, cur : Slots]

Backups == [stage : {"none", "dumped", "summed", "indexed"},
            has : SUBSET Parts, abl : [Slots -> Abls], dtbo : [Slots -> Dtbos],
            devinfo : Devinfos, rotten : BOOLEAN, receipt : BOOLEAN]

(* What the actions are made of returns values of the right types.          *)
LEMMA IdleType == Idle \in Jobs
  BY DEF Idle, Jobs, Pcs, Slots

LEMMA OtherType == \A s \in Slots : Other(s) \in Slots
  BY DEF Slots, Other

LEMMA OutcomeFields ==
  ASSUME NEW ok \in BOOLEAN, NEW val, NEW cost
  PROVE  LET o == Outcome(ok, val, cost)
         IN  o.ok \in BOOLEAN /\ (o.ok <=> ok) /\ o.val = val /\ o.cost = cost
  BY DEF Outcome

LEMMA CostType ==
  ASSUME faults \in 0..MaxFaults, NEW cost, cost = 0 \/ (cost = 1 /\ Faulty)
  PROVE  faults + cost \in 0..MaxFaults
  BY UnlockAssumption DEF Faulty

LEMMA WritesType ==
  ASSUME NEW S, "bad" \in S, NEW old \in S, NEW img \in S, faults \in 0..MaxFaults,
         NEW o \in EdlWrites(old, img)
  PROVE  o.val \in S /\ o.ok \in BOOLEAN /\ faults + o.cost \in 0..MaxFaults
<1>1. \/ \E ok \in BOOLEAN, val \in S : o = Outcome(ok, val, 0)
      \/ Faulty /\ \E ok \in BOOLEAN, val \in S : o = Outcome(ok, val, 1)
  BY Zenon DEF EdlWrites
<1> QED
  BY <1>1, OutcomeFields, CostType

LEMMA ReadsType ==
  ASSUME NEW val, faults \in 0..MaxFaults, NEW o \in EdlReads(val)
  PROVE  o.val \in {val, "noise"} /\ o.ok \in BOOLEAN /\ faults + o.cost \in 0..MaxFaults
<1>1. \/ \E ok \in BOOLEAN, v \in {val, "noise"} : o = Outcome(ok, v, 0)
      \/ Faulty /\ \E ok \in BOOLEAN, v \in {val, "noise"} : o = Outcome(ok, v, 1)
  BY Zenon DEF EdlReads
<1> QED
  BY <1>1, OutcomeFields, CostType

LEMMA MayFailType ==
  ASSUME faults \in 0..MaxFaults, NEW o \in MayFail
  PROVE  o.ok \in BOOLEAN /\ faults + o.cost \in 0..MaxFaults
<1>1. o = Outcome(TRUE, "", 0) \/ (Faulty /\ o = Outcome(FALSE, "", 1))
  BY Zenon DEF MayFail
<1>2. CASE o = Outcome(TRUE, "", 0)
  <2>1. o.ok \in BOOLEAN /\ o.cost = 0
    BY <1>2 DEF Outcome
  <2> QED
    BY <2>1, CostType
<1>3. CASE Faulty /\ o = Outcome(FALSE, "", 1)
  <2>1. o.ok \in BOOLEAN /\ o.cost = 1
    BY <1>3 DEF Outcome
  <2> QED
    BY <1>3, <2>1, CostType
<1> QED
  BY <1>1, <1>2, <1>3

LEMMA ImageType ==
  ASSUME NEW S, "rot" \in S, NEW img \in S
  PROVE  Image(img) \in S
  BY DEF Image

LEMMA NewAblType ==
  ASSUME TypeOK, job.dir \in Dirs, NEW s \in Slots
  PROVE  NewAbl(s) \in Abls
<1>1. dirs[job.dir].abl[s] \in Abls
  BY DEF TypeOK
<1> QED
  BY <1>1, ImageType DEF NewAbl, Abls

-----------------------------------------------------------------------------
(* How an action passes the job on, or ends it.                              *)
LEMMA GoType ==
  ASSUME job \in Jobs, NEW pc \in Pcs, Go(pc)
  PROVE  job' \in Jobs /\ job' = [job EXCEPT !.pc = pc] /\ told' = told
  BY DEF Go, Jobs

LEMMA ExitType ==
  ASSUME NEW msg, Exit(msg)
  PROVE  job' \in Jobs /\ job' = Idle /\ told' = msg
  BY IdleType DEF Exit

LEMMA TypeInit == Init => TypeOK
<1> SUFFICES ASSUME Init PROVE TypeOK
  OBVIOUS
<1>1. NoBackup \in Backups
  BY DEF NoBackup, Backups, Slots, Abls, Dtbos, Devinfos
<1>2. faults \in 0..MaxFaults
  BY UnlockAssumption DEF Init
<1> QED
  BY <1>1, <1>2, IdleType DEF Init, TypeOK, Jobs, Backups, Slots, Abls, Dtbos, Devinfos

(* The scripts that read, and change nothing but the backups.                *)
LEMMA BackupType ==
  ASSUME TypeOK, JobInv,
         (\E d \in Dirs : BackupDump(d)) \/ BackupSums \/ BackupIndex
  PROVE  TypeOK'
<1> USE DEF parts, host
<1>0. job \in Jobs /\ dirs \in [Dirs -> Backups] /\ faults \in 0..MaxFaults
  BY DEF TypeOK, Jobs, Backups
<1>1. ASSUME NEW d \in Dirs, BackupDump(d) PROVE TypeOK'
  <2> PICK o \in MayFail, has \in SUBSET Parts :
           /\ has = Parts \/ Faulty
           /\ dirs' = [dirs EXCEPT ![d] =
                [@ EXCEPT !.stage = "dumped", !.has = has,
                          !.abl = abl, !.dtbo = dtbo, !.devinfo = devinfo]]
           /\ IF o.ok THEN job' = [Idle EXCEPT !.pc = "sum", !.dir = d] /\ told' = "none"
                      ELSE Exit("failed")
           /\ faults' = faults + (IF has # Parts THEN 1 ELSE o.cost)
    BY <1>1 DEF BackupDump
  <2>1. faults' \in 0..MaxFaults
    BY <1>0, MayFailType, CostType
  <2>2. [Idle EXCEPT !.pc = "sum", !.dir = d] \in Jobs
    BY DEF Idle, Jobs, Pcs, Slots
  <2>4. job' \in Jobs
    BY <2>2, ExitType
  <2>3. dirs' \in [Dirs -> Backups]
    <3>1. [dirs[d] EXCEPT !.stage = "dumped", !.has = has,
                          !.abl = abl, !.dtbo = dtbo, !.devinfo = devinfo] \in Backups
      <4>1. dirs[d] \in Backups /\ abl \in [Slots -> Abls] /\ dtbo \in [Slots -> Dtbos]
            /\ devinfo \in Devinfos
        BY <1>0 DEF TypeOK
      <4> QED
        BY <4>1 DEF Backups
    <3> QED
      BY <1>0, <3>1
  <2> QED
    BY <1>1, <2>1, <2>3, <2>4 DEF BackupDump, TypeOK, Jobs, Backups
<1>2. ASSUME BackupSums PROVE TypeOK'
  <2>1. dirs' \in [Dirs -> Backups]
    <3>1. job.dir \in Dirs /\ dirs[job.dir] \in Backups
      BY <1>0, <1>2 DEF BackupSums, JobInv
    <3>2. [dirs[job.dir] EXCEPT !.stage = "summed"] \in Backups
      BY <3>1 DEF Backups
    <3> QED
      BY <1>0, <1>2, <3>1, <3>2 DEF BackupSums
  <2>2. job' \in Jobs
    BY <1>0, <1>2, GoType DEF BackupSums, Pcs, UnlockPcs
  <2> QED
    BY <1>2, <2>1, <2>2 DEF BackupSums, TypeOK, Jobs, Backups
<1>3. ASSUME BackupIndex PROVE TypeOK'
  <2>1. dirs' \in [Dirs -> Backups]
    <3>1. job.dir \in Dirs /\ dirs[job.dir] \in Backups
      BY <1>0, <1>3 DEF BackupIndex, JobInv
    <3>2. [dirs[job.dir] EXCEPT !.stage = "indexed"] \in Backups
      BY <3>1 DEF Backups
    <3> QED
      BY <1>0, <1>3, <3>1, <3>2 DEF BackupIndex
  <2>2. job' \in Jobs
    BY <1>3, ExitType DEF BackupIndex
  <2> QED
    BY <1>3, <2>1, <2>2 DEF BackupIndex, TypeOK, Jobs, Backups
<1> QED
  BY <1>1, <1>2, <1>3

(* The overlay, devinfo and the receipt.                                     *)
LEMMA VerifyType ==
  ASSUME TypeOK, JobInv,
         (\E d \in Dirs, s \in Slots : VerifyStart(d, s)) \/ VerifyWrite \/ VerifyRead
  PROVE  TypeOK'
<1> USE DEF parts, host
<1>0. job \in Jobs /\ dirs \in [Dirs -> Backups] /\ faults \in 0..MaxFaults
  BY DEF TypeOK, Jobs, Backups
<1>1. ASSUME NEW d \in Dirs, NEW s \in Slots, VerifyStart(d, s) PROVE TypeOK'
  <2>1. [Idle EXCEPT !.pc = "v_write", !.dir = d, !.cur = Other(s)] \in Jobs
    BY OtherType DEF Idle, Jobs, Pcs, Slots
  <2> QED
    BY <1>1, <2>1 DEF VerifyStart, TypeOK, Jobs
<1>2. ASSUME VerifyWrite PROVE TypeOK'
  <2> PICK o \in EdlWrites(dtbo[job.cur], Image(dirs[job.dir].dtbo[job.cur])) :
             /\ dtbo' = [dtbo EXCEPT ![job.cur] = o.val]
             /\ IF o.ok THEN Go("v_read") ELSE Exit("failed")
             /\ Spend(o)
    BY <1>2 DEF VerifyWrite
  <2>1. job.dir \in Dirs /\ job.cur \in Slots
    BY <1>0, <1>2 DEF Jobs, JobInv, VerifyWrite
  <2>2. dtbo[job.cur] \in Dtbos /\ dirs[job.dir].dtbo[job.cur] \in Dtbos
    BY <2>1 DEF TypeOK
  <2>3. Image(dirs[job.dir].dtbo[job.cur]) \in Dtbos
    BY <2>2, ImageType DEF Dtbos
  <2>4. o.val \in Dtbos /\ faults' \in 0..MaxFaults
    <3>1. "bad" \in Dtbos
      BY DEF Dtbos
    <3> QED
      BY <1>0, <2>2, <2>3, <3>1, WritesType DEF Spend
  <2>5. job' \in Jobs
    BY <1>0, GoType, ExitType DEF Pcs
  <2> QED
    BY <1>2, <2>4, <2>5 DEF VerifyWrite, TypeOK, Jobs
<1>3. ASSUME VerifyRead PROVE TypeOK'
  <2> PICK o \in EdlReads(dtbo[job.cur]) :
             /\ dirs' = dirs \/ dirs' = [dirs EXCEPT ![job.dir].receipt = TRUE]
             /\ Exit("failed") \/ Exit("pass") \/ Exit("fail")
             /\ Spend(o)
    BY <1>3 DEF VerifyRead
  <2>1. faults' \in 0..MaxFaults
    BY <1>0, ReadsType DEF Spend
  <2>2. job' \in Jobs
    BY ExitType
  <2>3. dirs' \in [Dirs -> Backups]
    <3>1. job.dir \in Dirs /\ dirs[job.dir] \in Backups
      BY <1>0, <1>3 DEF JobInv, VerifyRead
    <3>2. [dirs[job.dir] EXCEPT !.receipt = TRUE] \in Backups
      BY <3>1 DEF Backups
    <3> QED
      BY <1>0, <3>1, <3>2
  <2> QED
    BY <1>3, <2>1, <2>2, <2>3 DEF VerifyRead, TypeOK, Jobs, Backups
<1> QED
  BY <1>1, <1>2, <1>3

LEMMA PatchType ==
  ASSUME TypeOK, JobInv,
         (\E d \in Dirs : PatchStart(d)) \/ PatchWrite \/ PatchRead \/ PatchUndo
  PROVE  TypeOK'
<1> USE DEF parts, host
<1>0. job \in Jobs /\ faults \in 0..MaxFaults /\ devinfo \in Devinfos /\ "bad" \in Devinfos
  BY DEF TypeOK, Jobs, Devinfos
<1>1. ASSUME NEW d \in Dirs, PatchStart(d) PROVE TypeOK'
  <2>1. [Idle EXCEPT !.pc = "p_write", !.dir = d] \in Jobs
    BY DEF Idle, Jobs, Pcs, Slots
  <2> QED
    BY <1>1, <2>1 DEF PatchStart, TypeOK, Jobs
<1>2. ASSUME PatchWrite PROVE TypeOK'
  <2> PICK o \in EdlWrites(devinfo, "critical") :
             /\ devinfo' = o.val
             /\ adb' = (adb /\ o.val = "locked")
             /\ IF o.ok THEN Go("p_read") ELSE Exit("failed")
             /\ Spend(o)
    BY <1>2 DEF PatchWrite
  <2>1. o.val \in Devinfos /\ faults' \in 0..MaxFaults
    <3>1. "critical" \in Devinfos
      BY DEF Devinfos
    <3> QED
      BY <1>0, <3>1, WritesType DEF Spend
  <2>2. job' \in Jobs
    BY <1>0, GoType, ExitType DEF Pcs
  <2>3. adb' \in BOOLEAN
    OBVIOUS
  <2> QED
    BY <1>2, <2>1, <2>2, <2>3 DEF PatchWrite, TypeOK, Jobs
<1>3. ASSUME PatchRead PROVE TypeOK'
  <2> PICK o \in EdlReads(devinfo) :
             /\ Go("p_undo") \/ \E msg : Exit(msg)
             /\ Spend(o)
    BY <1>3 DEF PatchRead
  <2>1. faults' \in 0..MaxFaults
    BY <1>0, ReadsType DEF Spend
  <2>2. job' \in Jobs
    BY <1>0, GoType, ExitType DEF Pcs
  <2> QED
    BY <1>3, <2>1, <2>2 DEF PatchRead, TypeOK, Jobs
<1>4. ASSUME PatchUndo PROVE TypeOK'
  <2> PICK o \in EdlWrites(devinfo, Image(dirs[job.dir].devinfo)) :
             /\ devinfo' = o.val
             /\ \E msg : Exit(msg)
             /\ Spend(o)
    BY <1>4 DEF PatchUndo
  <2>1. Image(dirs[job.dir].devinfo) \in Devinfos
    <3>1. dirs[job.dir].devinfo \in Devinfos /\ "rot" \in Devinfos
      BY <1>4 DEF TypeOK, JobInv, PatchUndo, Devinfos
    <3> QED
      BY <3>1, ImageType
  <2>2. devinfo' \in Devinfos /\ faults' \in 0..MaxFaults
    BY <1>0, <2>1, WritesType DEF Spend
  <2>3. job' \in Jobs
    BY ExitType
  <2> QED
    BY <1>4, <2>2, <2>3 DEF PatchUndo, TypeOK, Jobs
<1> QED
  BY <1>1, <1>2, <1>3, <1>4

(* unlock-bootloader.sh up to the swap's reset, and the restore.             *)
LEMMA SwapType ==
  ASSUME TypeOK, JobInv,
         (\E d \in Dirs : UnlockStart(d)) \/ UnlockConfirm \/ WriteAbl \/ VerifyAbl
         \/ UndoAbl \/ SetActiveSlot \/ Reset
  PROVE  TypeOK'
<1> USE DEF parts, host
<1>0. job \in Jobs /\ faults \in 0..MaxFaults /\ abl \in [Slots -> Abls] /\ "bad" \in Abls
      /\ active \in Slots
  BY DEF TypeOK, Jobs, Abls
<1>1. ASSUME NEW d \in Dirs, UnlockStart(d) PROVE TypeOK'
  <2>1. [Idle EXCEPT !.pc = "confirm", !.dir = d, !.keep = ActiveSlot] \in Jobs
    BY <1>0 DEF Idle, Jobs, Pcs, UnlockPcs, Slots, ActiveSlot
  <2>2. job' \in Jobs
    BY <1>1, <2>1, ExitType DEF UnlockStart
  <2> QED
    BY <1>1, <2>2 DEF UnlockStart, TypeOK, Jobs
<1>2. ASSUME UnlockConfirm PROVE TypeOK'
  <2>1. [job EXCEPT !.pc = "write", !.phase = "swap", !.cur = "a"] \in Jobs
    BY <1>0 DEF Jobs, Pcs, UnlockPcs, Slots
  <2>2. job' \in Jobs
    BY <1>2, <2>1, ExitType DEF UnlockConfirm
  <2> QED
    BY <1>2, <2>2 DEF UnlockConfirm, TypeOK, Jobs
<1>3. ASSUME WriteAbl PROVE TypeOK'
  <2> PICK o \in EdlWrites(abl[job.cur], NewAbl(job.cur)) :
             /\ abl' = [abl EXCEPT ![job.cur] = o.val]
             /\ IF o.ok THEN Go("read") ELSE Exit("failed")
             /\ Spend(o)
    BY <1>3 DEF WriteAbl
  <2>1. job.cur \in Slots /\ job.dir \in Dirs
    BY <1>0, <1>3 DEF JobInv, WriteAbl, Jobs
  <2>2. o.val \in Abls /\ faults' \in 0..MaxFaults
    BY <1>0, <2>1, NewAblType, WritesType DEF Spend
  <2>3. job' \in Jobs
    BY <1>0, GoType, ExitType DEF Pcs, UnlockPcs
  <2> QED
    BY <1>0, <1>3, <2>1, <2>2, <2>3 DEF WriteAbl, TypeOK, Jobs
<1>4. ASSUME VerifyAbl PROVE TypeOK'
  <2> PICK o \in EdlReads(abl[job.cur]) :
             /\ \/ Exit("failed")
                \/ job' = [job EXCEPT !.pc = "undo", !.cur = "a"]
                \/ job' = [job EXCEPT !.pc = "write", !.cur = "b"]
                \/ Go("setslot")
             /\ Spend(o)
    BY <1>4 DEF VerifyAbl
  <2>1. faults' \in 0..MaxFaults
    BY <1>0, ReadsType DEF Spend
  <2>2. /\ [job EXCEPT !.pc = "undo", !.cur = "a"] \in Jobs
        /\ [job EXCEPT !.pc = "write", !.cur = "b"] \in Jobs
    BY <1>0 DEF Jobs, Pcs, UnlockPcs, Slots
  <2>3. job' \in Jobs
    BY <1>0, <2>2, GoType, ExitType DEF Pcs, UnlockPcs
  <2> QED
    BY <1>4, <2>1, <2>3 DEF VerifyAbl, TypeOK, Jobs
<1>5. ASSUME UndoAbl PROVE TypeOK'
  <2> PICK o \in EdlWrites(abl[job.cur], Image(dirs[job.dir].abl[job.cur])) :
             /\ abl' = [abl EXCEPT ![job.cur] = o.val]
             /\ Spend(o)
    BY <1>5 DEF UndoAbl
  <2>1. job.dir \in Dirs /\ job.cur \in Slots
    BY <1>0, <1>5 DEF Jobs, JobInv, UndoAbl
  <2>2. Image(dirs[job.dir].abl[job.cur]) \in Abls
    <3>1. dirs[job.dir].abl[job.cur] \in Abls /\ "rot" \in Abls
      BY <2>1 DEF TypeOK, Abls
    <3> QED
      BY <3>1, ImageType
  <2>3. abl' \in [Slots -> Abls] /\ faults' \in 0..MaxFaults
    BY <1>0, <2>1, <2>2, WritesType DEF Spend
  <2>4. [job EXCEPT !.cur = "b"] \in Jobs
    BY <1>0 DEF Jobs, Slots
  <2>5. job' \in Jobs
    BY <1>5, <2>4, ExitType DEF UndoAbl
  <2> QED
    BY <1>5, <2>3, <2>5 DEF UndoAbl, TypeOK, Jobs
<1>6. ASSUME SetActiveSlot PROVE TypeOK'
  <2> PICK o \in MayFail :
             /\ IF o.ok THEN active' = job.keep /\ Go("reset")
                        ELSE active' = active /\ Exit("failed")
             /\ Spend(o)
    BY <1>6 DEF SetActiveSlot
  <2>1. faults' \in 0..MaxFaults
    BY <1>0, MayFailType DEF Spend
  <2>2. job' \in Jobs
    BY <1>0, GoType, ExitType DEF Pcs, UnlockPcs
  <2>3. active' \in Slots
    BY <1>0 DEF Jobs
  <2> QED
    BY <1>6, <2>1, <2>2, <2>3 DEF SetActiveSlot, TypeOK, Jobs
<1>7. ASSUME Reset PROVE TypeOK'
  <2> PICK o \in MayFail :
             /\ mode' = IF o.ok THEN Boots ELSE mode
             /\ Exit("failed") \/ Go("bootloader") \/ Exit("done")
             /\ Spend(o)
    BY <1>7 DEF Reset
  <2>1. faults' \in 0..MaxFaults
    BY <1>0, MayFailType DEF Spend
  <2>2. job' \in Jobs
    BY <1>0, GoType, ExitType DEF Pcs, UnlockPcs, Rebooted
  <2>3. mode' \in {"android", "edl", "fastboot", "brick"}
    BY DEF TypeOK, Boots
  <2> QED
    BY <1>7, <2>1, <2>2, <2>3 DEF Reset, TypeOK, Jobs
<1> QED
  BY <1>1, <1>2, <1>3, <1>4, <1>5, <1>6, <1>7

(* What happens in fastboot and by the operator's hand. Only RestoreByHand   *)
(* touches a bootloader, only Rot a backup.                                  *)
FastbootStep ==
  ToBootloader \/ FlashingUnlock \/ CheckUnlocked \/ UnlockCritical \/ DeviceInfo \/ BackToEdl

LEMMA FastbootType ==
  ASSUME TypeOK, FastbootStep
  PROVE  TypeOK'
<1> USE DEF parts, host
<1>0. job \in Jobs /\ [job EXCEPT !.pc = "write", !.phase = "restore", !.cur = "a"] \in Jobs
  BY DEF TypeOK, Jobs, Pcs, UnlockPcs, Slots
<1>1. job' \in Jobs
  BY <1>0, GoType, ExitType
     DEF FastbootStep, ToBootloader, FlashingUnlock, CheckUnlocked, UnlockCritical, DeviceInfo,
         BackToEdl, Pcs, UnlockPcs, Rebooted
<1>2. mode' \in {"android", "edl", "fastboot", "brick"} /\ adb' \in BOOLEAN
      /\ devinfo' \in Devinfos
  BY DEF TypeOK, FastbootStep, ToBootloader, FlashingUnlock, CheckUnlocked, UnlockCritical,
         DeviceInfo, BackToEdl, Boots, Devinfos
<1>3. UNCHANGED <<abl, dtbo, active, oem, land, dirs, faults>>
  BY DEF FastbootStep, ToBootloader, FlashingUnlock, CheckUnlocked, UnlockCritical,
         DeviceInfo, BackToEdl
<1> QED
  BY <1>1, <1>2, <1>3 DEF TypeOK, Jobs

OperatorStep ==
  \/ Stop \/ ToEdl \/ Restart \/ Settings
  \/ \E d \in Dirs, s \in Slots : RestoreByHand(d, s)
  \/ \E d \in Dirs : Rot(d)

LEMMA OperatorType ==
  ASSUME TypeOK, OperatorStep
  PROVE  TypeOK'
<1> USE DEF parts, host
<1>0. job \in Jobs /\ dirs \in [Dirs -> Backups] /\ faults \in 0..MaxFaults
  BY DEF TypeOK, Jobs, Backups
<1>1. ASSUME Stop PROVE TypeOK'
  <2>1. job' \in Jobs /\ faults' \in 0..MaxFaults
    BY <1>0, <1>1, ExitType, CostType DEF Stop
  <2> QED
    BY <1>1, <2>1 DEF Stop, TypeOK, Jobs
<1>2. ASSUME ToEdl \/ Restart \/ Settings PROVE TypeOK'
  BY <1>2 DEF ToEdl, Restart, Settings, TypeOK, Boots
<1>3. ASSUME NEW d \in Dirs, NEW s \in Slots, RestoreByHand(d, s) PROVE TypeOK'
  <2>1. dirs[d].abl[s] \in Abls /\ "rot" \in Abls
    BY DEF TypeOK, Abls
  <2> QED
    BY <1>3, <2>1 DEF RestoreByHand, TypeOK
<1>4. ASSUME NEW d \in Dirs, Rot(d) PROVE TypeOK'
  <2>1. [dirs[d] EXCEPT !.rotten = TRUE] \in Backups
    BY <1>0 DEF Backups
  <2>2. dirs' \in [Dirs -> Backups] /\ faults' \in 0..MaxFaults
    BY <1>0, <1>4, <2>1, CostType DEF Rot
  <2> QED
    BY <1>4, <2>2 DEF Rot, TypeOK, Backups
<1> QED
  BY <1>1, <1>2, <1>3, <1>4 DEF OperatorStep


LEMMA TypeNext == TypeOK /\ JobInv /\ [Next]_vars => TypeOK'
<1> SUFFICES ASSUME TypeOK, JobInv, [Next]_vars PROVE TypeOK'
  OBVIOUS
<1>1. CASE UNCHANGED vars
  BY <1>1 DEF vars, parts, host, TypeOK
<1> QED
  BY <1>1, BackupType, VerifyType, PatchType, SwapType, FastbootType, OperatorType
     DEF Next, FastbootStep, OperatorStep

-----------------------------------------------------------------------------
(* The way back, over the steps that touch a bootloader or a backup.         *)
LEMMA BackedUnchanged ==
  ASSUME BackedInv, UNCHANGED <<abl, dirs>>
  PROVE  BackedInv'
  BY DEF BackedInv, Stock, Backed

LEMMA BackedByWrite ==
  ASSUME IInv, job.pc \in UnlockPcs, dirs' = dirs
  PROVE  BackedInv'
<1>1. job.dir \in Dirs /\ Gates(job.dir)
  BY DEF IInv, JobInv, UnlockPcs, Rebooted
<1>2. CASE Stock
  BY <1>1, <1>2 DEF Stock, Backed, BackedInv, Gates
<1>3. CASE \E d \in Dirs : Backed(d)
  BY <1>3 DEF Backed, BackedInv
<1> QED
  BY <1>2, <1>3 DEF IInv, BackedInv

LEMMA BackedNext == IInv /\ [Next]_vars => BackedInv'
<1> SUFFICES ASSUME IInv, [Next]_vars PROVE BackedInv'
  OBVIOUS
<1> USE DEF parts, host
<1>0. dirs \in [Dirs -> Backups]
  BY DEF IInv, TypeOK, Backups
<1>1. ASSUME NEW d \in Dirs, BackupDump(d) PROVE BackedInv'
  <2>1. /\ dirs[d].stage = "none" /\ abl' = abl /\ dirs'[d].abl = abl
        /\ dirs' \in [Dirs -> Backups] /\ \A e \in Dirs \ {d} : dirs'[e] = dirs[e]
    <3>1. TypeOK'
      BY <1>1, BackupType DEF IInv
    <3>2. dirs' \in [Dirs -> Backups]
      BY <3>1 DEF TypeOK, Backups
    <3> QED
      BY <1>0, <1>1, <3>2 DEF BackupDump, Backups
  <2>2. CASE Stock
    BY <2>1, <2>2 DEF Stock, BackedInv
  <2>3. CASE \E e \in Dirs : Backed(e)
    BY <2>1, <2>3 DEF Backed, BackedInv
  <2> QED
    BY <2>2, <2>3 DEF IInv, BackedInv
<1>2. ASSUME BackupSums \/ BackupIndex \/ VerifyRead \/ \E d \in Dirs : Rot(d) PROVE BackedInv'
  <2> DEFINE Kept ==
        /\ abl' = abl
        /\ \A e \in Dirs :
             /\ dirs'[e].abl = dirs[e].abl /\ dirs'[e].has = dirs[e].has
             /\ dirs[e].stage = "indexed" => dirs'[e].stage = "indexed"
             /\ dirs[e].receipt => dirs'[e].receipt
  <2>1. Kept
    <3>1. CASE BackupSums
      <4>1. job.dir \in Dirs /\ dirs[job.dir].stage = "dumped"
        BY <3>1 DEF BackupSums, IInv, JobInv
      <4> QED
        BY <1>0, <3>1, <4>1 DEF BackupSums, Backups
    <3>2. CASE BackupIndex
      BY <1>0, <3>2 DEF BackupIndex, Backups
    <3>3. CASE VerifyRead
      BY <1>0, <3>3 DEF VerifyRead, Backups
    <3>4. ASSUME NEW d \in Dirs, Rot(d) PROVE Kept
      BY <1>0, <3>4 DEF Rot, Backups
    <3> QED
      BY <1>2, <3>1, <3>2, <3>3, <3>4
  <2>2. CASE Stock
    BY <2>1, <2>2 DEF Stock, BackedInv
  <2>3. CASE \E e \in Dirs : Backed(e)
    BY <2>1, <2>3 DEF Backed, BackedInv
  <2> QED
    BY <2>2, <2>3 DEF IInv, BackedInv
<1>3. ASSUME WriteAbl \/ UndoAbl PROVE BackedInv'
  BY <1>3, BackedByWrite DEF WriteAbl, UndoAbl, UnlockPcs
<1>4. ASSUME NEW d \in Dirs, NEW s \in Slots, RestoreByHand(d, s) PROVE BackedInv'
  <2>1. ~Stock /\ dirs' = dirs
    BY <1>4 DEF RestoreByHand, Stock
  <2> QED
    BY <2>1 DEF IInv, BackedInv, Backed
<1>5. CASE UNCHANGED <<abl, dirs>>
  BY <1>5, BackedUnchanged DEF IInv
<1>6. ASSUME Next PROVE \/ \E d \in Dirs : BackupDump(d) \/ Rot(d)
                        \/ BackupSums \/ BackupIndex \/ VerifyRead \/ WriteAbl \/ UndoAbl
                        \/ \E d \in Dirs, s \in Slots : RestoreByHand(d, s)
                        \/ UNCHANGED <<abl, dirs>>
  BY <1>6 DEF Next, VerifyStart, VerifyWrite, UnlockStart, UnlockConfirm, VerifyAbl, SetActiveSlot,
     Reset, ToBootloader, FlashingUnlock, CheckUnlocked, UnlockCritical, DeviceInfo, BackToEdl,
     PatchStart, PatchWrite, PatchRead, PatchUndo, Stop, ToEdl, Restart, Settings
<1> QED
  BY <1>1, <1>2, <1>3, <1>4, <1>5, <1>6 DEF vars

-----------------------------------------------------------------------------
(* The job, and the bootloaders that were read back.                         *)
LEMMA Idled ==
  ASSUME NEW msg, Exit(msg), msg # "still locked"
  PROVE  JobInv' /\ SwapInv'
  BY DEF Exit, Idle, JobInv, SwapInv, ResetVerified, FairphoneHeld, UnlockPcs, Rebooted

(* A step of the unlock that leaves the backups, the slot and the job's      *)
(* directory keeps the job's part, and what the phase writes.                *)
LEMMA UnlockGoes ==
  ASSUME IInv, job.pc \in UnlockPcs, UNCHANGED <<dirs, told>>, active' = job.keep,
         NEW pc \in UnlockPcs, job'.pc = pc, job'.dir = job.dir, job'.keep = job.keep
  PROVE  JobInv'
  BY DEF IInv, JobInv, Gates, UnlockPcs, Rebooted

LEMMA NewAblSame ==
  ASSUME dirs' = dirs, job'.dir = job.dir, job'.phase = job.phase
  PROVE  \A s \in Slots : NewAbl(s)' = NewAbl(s)
  BY DEF NewAbl, Image

LEMMA NeverNoise ==
  ASSUME TypeOK, job.dir \in Dirs, NEW s \in Slots, NEW o \in EdlReads(abl[s]),
         o.val = NewAbl(s)
  PROVE  abl[s] = NewAbl(s)
<1>1. faults \in 0..MaxFaults /\ NewAbl(s) # "noise"
  BY NewAblType DEF TypeOK, Abls
<1> QED
  BY <1>1, ReadsType

(* Outside the unlock.                                                       *)
LEMMA OtherScripts ==
  ASSUME IInv,
         \/ \E d \in Dirs : BackupDump(d) \/ PatchStart(d)
         \/ \E d \in Dirs, s \in Slots : VerifyStart(d, s)
         \/ BackupSums \/ BackupIndex \/ VerifyWrite \/ VerifyRead
         \/ PatchWrite \/ PatchRead \/ PatchUndo
  PROVE  JobInv' /\ SwapInv'
<1> USE DEF UnlockPcs, Rebooted
<1>1. ASSUME NEW d \in Dirs, BackupDump(d) PROVE JobInv' /\ SwapInv'
  <2>1. CASE Exit("failed")
    BY <2>1, Idled
  <2>2. CASE job' = [Idle EXCEPT !.pc = "sum", !.dir = d] /\ told' = "none"
    <3>0. dirs \in [Dirs -> Backups]
      BY DEF IInv, TypeOK, Backups
    <3>1. dirs'[d].stage = "dumped"
      BY <1>1, <3>0 DEF BackupDump, Backups
    <3> QED
      BY <2>2, <3>1 DEF Idle, JobInv, SwapInv, ResetVerified, FairphoneHeld
  <2> QED
    BY <1>1, <2>1, <2>2 DEF BackupDump
<1>2. ASSUME NEW d \in Dirs, PatchStart(d) \/ \E s \in Slots : VerifyStart(d, s)
      PROVE JobInv' /\ SwapInv'
  BY <1>2 DEF PatchStart, VerifyStart, Idle, JobInv, SwapInv, ResetVerified, FairphoneHeld
<1>3. ASSUME NEW pc \in {"index", "v_read", "p_read", "p_undo"}, Go(pc), job.pc # "idle"
      PROVE JobInv' /\ SwapInv'
  <2>1. job \in Jobs
    BY DEF IInv, TypeOK, Jobs
  <2>2. job'.pc = pc /\ job'.dir = job.dir /\ told' = told
    BY <1>3, <2>1 DEF Go, Jobs
  <2> QED
    BY <1>3, <2>2 DEF IInv, JobInv, SwapInv, ResetVerified, FairphoneHeld
<1>4. CASE BackupSums
  BY <1>3, <1>4 DEF BackupSums
<1>5. CASE BackupIndex
  BY <1>5, Idled DEF BackupIndex
<1>6. CASE VerifyWrite \/ VerifyRead
  BY <1>3, <1>6, Idled DEF VerifyWrite, VerifyRead
<1>7. CASE PatchWrite \/ PatchRead \/ PatchUndo
  <2>1. CASE PatchWrite
    BY <1>3, <2>1, Idled DEF PatchWrite
  <2>2. CASE PatchRead
    BY <1>3, <2>2, Idled DEF PatchRead
  <2>3. CASE PatchUndo
    <3>1. Exit("nothing changed") \/ Exit("failed")
      BY <2>3 DEF PatchUndo
    <3> QED
      BY <3>1, Idled
  <2> QED
    BY <1>7, <2>1, <2>2, <2>3
<1> QED
  BY <1>1, <1>2, <1>4, <1>5, <1>6, <1>7

(* The unlock writes and reads back: what passed the comparison is there.    *)
LEMMA SwapSteps ==
  ASSUME IInv,
         (\E d \in Dirs : UnlockStart(d)) \/ UnlockConfirm \/ WriteAbl \/ VerifyAbl
         \/ UndoAbl \/ SetActiveSlot \/ Reset
  PROVE  JobInv' /\ SwapInv'
<1>0. /\ job \in Jobs /\ job \in [pc : Pcs, phase : {"none", "swap", "restore"},
                                 dir : Dirs \cup {NoDir}, keep : Slots, cur : Slots]
      /\ abl \in [Slots -> Abls] /\ TypeOK
  BY DEF IInv, TypeOK, Jobs
<1>a. ASSUME job.pc \in UnlockPcs
      PROVE  job.dir \in Dirs /\ told = "none" /\ job.keep = active
  BY <1>a DEF IInv, JobInv, UnlockPcs, Rebooted
<1>1. ASSUME NEW d \in Dirs, UnlockStart(d) PROVE JobInv' /\ SwapInv'
  <2>1. CASE Exit("nothing to do")
    BY <2>1, Idled
  <2>2. CASE job' = [Idle EXCEPT !.pc = "confirm", !.dir = d, !.keep = ActiveSlot]
             /\ told' = "none"
    BY <1>1, <2>2 DEF UnlockStart, host, ActiveSlot, Gates, Idle, JobInv, SwapInv,
       ResetVerified, FairphoneHeld, Rebooted
  <2> QED
    BY <1>1, <2>1, <2>2 DEF UnlockStart
<1>2. CASE UnlockConfirm
  <2>1. CASE Exit("aborted")
    BY <2>1, Idled
  <2>2. CASE job' = [job EXCEPT !.pc = "write", !.phase = "swap", !.cur = "a"]
             /\ told' = told
    <3>1. job.pc \in UnlockPcs /\ UNCHANGED <<dirs, active>>
      BY <1>2 DEF UnlockConfirm, UnlockPcs
    <3>2. job'.pc = "write" /\ job'.dir = job.dir /\ job'.keep = job.keep /\ job'.cur = "a"
      BY <1>0, <2>2
    <3>3. JobInv'
      BY <1>a, <2>2, <3>1, <3>2, UnlockGoes DEF UnlockPcs
    <3> QED
      BY <1>a, <2>2, <3>1, <3>2, <3>3 DEF SwapInv, ResetVerified, FairphoneHeld, Rebooted
  <2> QED
    BY <1>2, <2>1, <2>2 DEF UnlockConfirm
<1>3. CASE WriteAbl
  <2>0. job.pc = "write" /\ UNCHANGED <<dirs, active>>
        /\ \E v : abl' = [abl EXCEPT ![job.cur] = v]
    BY <1>3 DEF WriteAbl, host
  <2>1. CASE Exit("failed")
    BY <2>1, Idled
  <2>2. CASE Go("read")
    <3>1. job' = [job EXCEPT !.pc = "read"] /\ told' = told
      BY <2>2 DEF Go
    <3>2. job'.pc = "read" /\ job'.dir = job.dir /\ job'.keep = job.keep
          /\ job'.cur = job.cur /\ job'.phase = job.phase
      BY <1>0, <3>1
    <3>3. JobInv'
      BY <1>a, <2>0, <3>1, <3>2, UnlockGoes DEF UnlockPcs
    <3>4. job.cur = "b" => abl'["a"] = NewAbl("a")'
      <4>1. job.cur = "b" => /\ abl["a"] = NewAbl("a") /\ NewAbl("a")' = NewAbl("a")
                             /\ abl'["a"] = abl["a"]
        BY <1>0, <2>0, <3>2, NewAblSame DEF IInv, SwapInv, Slots
      <4> QED
        BY <4>1
    <3> QED
      BY <1>a, <2>0, <3>1, <3>2, <3>3, <3>4
         DEF SwapInv, ResetVerified, FairphoneHeld, UnlockPcs, Rebooted
  <2> QED
    BY <1>3, <2>1, <2>2 DEF WriteAbl
<1>4. CASE VerifyAbl
  <2> PICK o \in EdlReads(abl[job.cur]) :
         /\ IF ~o.ok THEN Exit("failed")
            ELSE IF ~Matches(o.val, NewAbl(job.cur)) THEN job' = [job EXCEPT !.pc = "undo", !.cur = "a"] /\ told' = told
            ELSE IF job.cur # LastSlot(job.cur) THEN job' = [job EXCEPT !.pc = "write", !.cur = "b"] /\ told' = told
            ELSE Go("setslot")
         /\ Spend(o)
    BY <1>4 DEF VerifyAbl
  <2>0. job.pc = "read" /\ job.pc \in UnlockPcs /\ UNCHANGED <<abl, dirs, active>> /\ job.cur \in Slots
    BY <1>0, <1>4 DEF VerifyAbl, UnlockPcs, host, parts
  <2>1. o.val = NewAbl(job.cur) => abl[job.cur] = NewAbl(job.cur)
    BY <1>0, <1>a, <2>0, NeverNoise
  <2>2. CASE Exit("failed")
    BY <2>2, Idled
  <2>3. CASE job' = [job EXCEPT !.pc = "undo", !.cur = "a"] /\ told' = told
    <3>1. job'.pc = "undo" /\ job'.dir = job.dir /\ job'.keep = job.keep
      BY <1>0, <2>3
    <3>2. JobInv'
      BY <1>a, <2>0, <2>3, <3>1, UnlockGoes DEF UnlockPcs
    <3> QED
      BY <1>a, <2>0, <2>3, <3>1, <3>2 DEF SwapInv, ResetVerified, FairphoneHeld, Rebooted
  <2>4. CASE /\ job' = [job EXCEPT !.pc = "write", !.cur = "b"] /\ told' = told
             /\ o.val = NewAbl(job.cur) /\ job.cur = "a"
    <3>1. job'.pc = "write" /\ job'.dir = job.dir /\ job'.keep = job.keep
          /\ job'.phase = job.phase
      BY <1>0, <2>4
    <3>2. JobInv'
      BY <1>a, <2>0, <2>4, <3>1, UnlockGoes DEF UnlockPcs
    <3>3. abl'["a"] = NewAbl("a")'
      BY <2>0, <2>1, <2>4, <3>1, NewAblSame DEF Slots
    <3> QED
      BY <1>a, <2>0, <2>4, <3>1, <3>2, <3>3 DEF SwapInv, ResetVerified, FairphoneHeld, Rebooted
  <2>5. CASE Go("setslot") /\ o.val = NewAbl(job.cur) /\ job.cur = "b"
    <3>0. job' = [job EXCEPT !.pc = "setslot"] /\ told' = told
      BY <2>5 DEF Go
    <3>1. job'.pc = "setslot" /\ job'.dir = job.dir /\ job'.keep = job.keep
          /\ job'.phase = job.phase
      BY <1>0, <3>0
    <3>2. JobInv'
      BY <1>a, <2>0, <3>0, <3>1, UnlockGoes DEF UnlockPcs
    <3>3. \A s \in Slots : abl'[s] = NewAbl(s)'
      <4>1. abl["a"] = NewAbl("a") /\ abl["b"] = NewAbl("b")
        BY <2>0, <2>1, <2>5 DEF IInv, SwapInv
      <4>2. \A s \in Slots : abl[s] = NewAbl(s)
        BY <4>1 DEF Slots
      <4> QED
        BY <2>0, <3>1, <4>2, NewAblSame
    <3> QED
      BY <1>a, <2>0, <3>0, <3>1, <3>2, <3>3 DEF SwapInv, ResetVerified, FairphoneHeld, Rebooted
  <2> QED
    BY <2>0, <2>2, <2>3, <2>4, <2>5 DEF Matches, LastSlot, Slots
<1>5. CASE UndoAbl
  <2>1. CASE Exit("original state")
    BY <2>1, Idled
  <2>2. CASE job' = [job EXCEPT !.cur = "b"] /\ told' = told
    <3>1. job.pc = "undo" /\ UNCHANGED <<dirs, active>>
      BY <1>5 DEF UndoAbl, host
    <3>2. job'.pc = "undo" /\ job'.dir = job.dir /\ job'.keep = job.keep
      BY <1>0, <2>2, <3>1
    <3>3. JobInv'
      BY <1>a, <2>2, <3>1, <3>2, UnlockGoes DEF UnlockPcs
    <3> QED
      BY <1>a, <2>2, <3>1, <3>2, <3>3
         DEF SwapInv, ResetVerified, FairphoneHeld, UnlockPcs, Rebooted
  <2> QED
    BY <1>5, <2>1, <2>2 DEF UndoAbl
<1>6. CASE SetActiveSlot
  <2>1. CASE Exit("failed")
    BY <2>1, Idled
  <2>2. CASE active' = job.keep /\ Go("reset")
    <3>1. job.pc = "setslot" /\ UNCHANGED <<abl, dirs>> /\ told' = told
          /\ job' = [job EXCEPT !.pc = "reset"]
      BY <1>6, <2>2 DEF SetActiveSlot, Go, parts
    <3>2. job'.pc = "reset" /\ job'.dir = job.dir /\ job'.keep = job.keep
          /\ job'.phase = job.phase
      BY <1>0, <3>1
    <3>3. JobInv'
      BY <1>a, <2>2, <3>1, <3>2, UnlockGoes DEF UnlockPcs
    <3>4. \A s \in Slots : abl'[s] = NewAbl(s)'
      BY <3>1, <3>2, NewAblSame DEF IInv, SwapInv, ResetVerified
    <3> QED
      BY <1>a, <3>1, <3>2, <3>3, <3>4
         DEF SwapInv, ResetVerified, FairphoneHeld, UnlockPcs, Rebooted
  <2> QED
    BY <1>6, <2>1, <2>2 DEF SetActiveSlot
<1>7. CASE Reset
  <2>1. CASE Exit("failed") \/ Exit("done")
    BY <2>1, Idled
  <2>2. CASE job.phase = "swap" /\ Go("bootloader")
    <3>1. job.pc = "reset" /\ UNCHANGED <<abl, dirs, active>> /\ told' = told
          /\ job' = [job EXCEPT !.pc = "bootloader"]
      BY <1>7, <2>2 DEF Reset, Go, parts
    <3>2. job'.pc = "bootloader" /\ job'.dir = job.dir /\ job'.keep = job.keep
      BY <1>0, <3>1
    <3>3. JobInv'
      BY <1>a, <3>1, <3>2, UnlockGoes DEF UnlockPcs, Rebooted
    <3>4. \A s \in Slots : abl'[s] = "fp4"
      BY <2>2, <3>1 DEF IInv, SwapInv, ResetVerified, NewAbl
    <3> QED
      BY <3>2, <3>3, <3>4 DEF SwapInv, ResetVerified, FairphoneHeld
  <2> QED
    BY <1>7, <2>1, <2>2 DEF Reset
<1> QED
  BY <1>1, <1>2, <1>3, <1>4, <1>5, <1>6, <1>7

(* In fastboot neither bootloader changes.                                   *)
LEMMA FastbootSteps ==
  ASSUME IInv, FastbootStep
  PROVE  JobInv' /\ SwapInv'
<1>0. /\ job \in [pc : Pcs, phase : {"none", "swap", "restore"},
                  dir : Dirs \cup {NoDir}, keep : Slots, cur : Slots]
      /\ job.pc \in Rebooted /\ job.pc \in UnlockPcs /\ UNCHANGED <<abl, dirs, active>>
  BY DEF IInv, TypeOK, FastbootStep, ToBootloader, FlashingUnlock, CheckUnlocked,
         UnlockCritical, DeviceInfo, BackToEdl, Rebooted, UnlockPcs, parts
<1>1. /\ told = "none" /\ job.keep = active /\ job.dir \in Dirs
      /\ \A s \in Slots : abl[s] = "fp4"
  BY <1>0 DEF IInv, JobInv, SwapInv, FairphoneHeld, UnlockPcs, Rebooted
<1>2. ASSUME NEW pc \in Rebooted, Go(pc) PROVE JobInv' /\ SwapInv'
  <2>1. /\ job'.pc = pc /\ job'.dir = job.dir /\ job'.keep = job.keep /\ told' = told
        /\ pc \in UnlockPcs
    BY <1>0, <1>2 DEF Go, UnlockPcs
  <2>2. JobInv'
    BY <1>0, <1>1, <2>1, UnlockGoes
  <2> QED
    BY <1>0, <1>1, <2>1, <2>2 DEF SwapInv, ResetVerified, FairphoneHeld, Rebooted
<1>3. ASSUME Exit("still locked") PROVE JobInv' /\ SwapInv'
  BY <1>0, <1>1, <1>3
     DEF Exit, Idle, JobInv, SwapInv, ResetVerified, FairphoneHeld, UnlockPcs, Rebooted
<1>4. CASE BackToEdl
  <2>1. job' = [job EXCEPT !.pc = "write", !.phase = "restore", !.cur = "a"] /\ told' = told
    BY <1>4 DEF BackToEdl
  <2>2. job'.pc = "write" /\ job'.dir = job.dir /\ job'.keep = job.keep /\ job'.cur = "a"
    BY <1>0, <2>1
  <2>3. JobInv'
    BY <1>0, <1>1, <2>1, <2>2, UnlockGoes DEF UnlockPcs
  <2> QED
    BY <1>1, <2>1, <2>2, <2>3 DEF SwapInv, ResetVerified, FairphoneHeld, Rebooted
<1>5. ASSUME FastbootStep, ~BackToEdl
      PROVE  \/ \E pc \in Rebooted : Go(pc)
             \/ Exit("still locked") \/ Exit("not FP4") \/ Exit("lost") \/ Exit("failed")
  BY <1>5 DEF FastbootStep, ToBootloader, FlashingUnlock, CheckUnlocked, UnlockCritical,
     DeviceInfo, Rebooted
<1> QED
  BY <1>2, <1>3, <1>4, <1>5, Idled

(* The operator acts between scripts, or changes nothing they look at.       *)
LEMMA OperatorSteps ==
  ASSUME IInv, OperatorStep \/ UNCHANGED vars
  PROVE  JobInv' /\ SwapInv'
<1>1. CASE Stop
  BY <1>1, Idled DEF Stop
<1>2. CASE UNCHANGED <<job, told, abl, dirs, active>>
  BY <1>2 DEF IInv, JobInv, SwapInv, ResetVerified, FairphoneHeld, Gates, NewAbl, Image
<1>3. ASSUME NEW d \in Dirs, (\E s \in Slots : RestoreByHand(d, s)) \/ Rot(d)
      PROVE  JobInv' /\ SwapInv'
  <2>1. /\ job = Idle /\ job' = Idle
        /\ told' = "none" \/ (told' = told /\ abl' = abl)
    BY <1>3 DEF RestoreByHand, Rot, parts
  <2> QED
    BY <2>1 DEF IInv, Idle, JobInv, SwapInv, ResetVerified, FairphoneHeld, UnlockPcs, Rebooted
<1> QED
  BY <1>1, <1>2, <1>3 DEF OperatorStep, ToEdl, Restart, Settings, vars, parts, host

-----------------------------------------------------------------------------
LEMMA InvInit == Init => IInv
<1> SUFFICES ASSUME Init PROVE IInv
  OBVIOUS
<1>1. Stock
  BY DEF Init, NoBackup, Stock
<1>2. JobInv /\ SwapInv
  BY DEF Init, Idle, JobInv, SwapInv, ResetVerified, FairphoneHeld, UnlockPcs, Rebooted
<1> QED
  BY <1>1, <1>2, TypeInit DEF IInv, BackedInv

LEMMA InvNext == IInv /\ [Next]_vars => IInv'
<1> SUFFICES ASSUME IInv, [Next]_vars PROVE IInv'
  OBVIOUS
<1>1. TypeOK' /\ BackedInv'
  BY TypeNext, BackedNext DEF IInv
<1>2. JobInv' /\ SwapInv'
  BY OtherScripts, SwapSteps, FastbootSteps, OperatorSteps DEF Next, FastbootStep, OperatorStep
<1> QED
  BY <1>1, <1>2 DEF IInv

(* What every reachable state satisfies.                                     *)
THEOREM UnlockInvariant == Spec => []IInv
  BY InvInit, InvNext, PTL DEF Spec

(* The scripts' state stays well typed, for every set of backups.            *)
THEOREM UnlockTypeCorrect == Spec => []TypeOK
<1>1. IInv => TypeOK
  BY DEF IInv
<1> QED
  BY <1>1, UnlockInvariant, PTL

(* unlock-bootloader.sh, gates 2 and 3: while a slot holds Fairphone's ABL   *)
(* or half of one, a complete, checked and tried backup of Onyx's exists.    *)
THEOREM UnlockBackupBeforeSwap == Spec => []BackupBeforeSwap
<1>1. IInv => BackupBeforeSwap
  BY DEF IInv, BackedInv, Stock, BackupBeforeSwap
<1> QED
  BY <1>1, UnlockInvariant, PTL

(* unlock-bootloader.sh, write_verified for both slots comes before the      *)
(* reset: whatever lied or was interrupted before, both hold the image.      *)
THEOREM UnlockResetVerified == Spec => []ResetVerified
<1>1. IInv => ResetVerified
  BY DEF IInv, SwapInv
<1> QED
  BY <1>1, UnlockInvariant, PTL

(* unlock-bootloader.sh:286-307: a run that ends for a locked device leaves  *)
(* Fairphone's ABL in both slots, so that it can be run again.               *)
THEOREM UnlockFairphoneHeld == Spec => []FairphoneHeld
<1>1. IInv => FairphoneHeld
  BY DEF IInv, SwapInv
<1> QED
  BY <1>1, UnlockInvariant, PTL

(* unlock-bootloader.sh:143-147 and 229: the slot selected before each reset *)
(* is the one the device booted from.                                        *)
THEOREM UnlockSlotKept == Spec => SlotKept
<1>1. IInv /\ [Next]_vars => [active' = active]_vars
  <2> SUFFICES ASSUME IInv, Next PROVE active' = active
    BY DEF vars
  <2>1. CASE SetActiveSlot
    <3>1. job.keep = active
      BY <2>1 DEF SetActiveSlot, IInv, JobInv, UnlockPcs
    <3> QED
      BY <2>1, <3>1 DEF SetActiveSlot
  <2>2. CASE ~SetActiveSlot
    BY <2>2 DEF Next, BackupDump, BackupSums, BackupIndex, VerifyStart, VerifyWrite, VerifyRead,
       UnlockStart, UnlockConfirm, WriteAbl, VerifyAbl, UndoAbl, Reset, ToBootloader,
       FlashingUnlock, CheckUnlocked, UnlockCritical, DeviceInfo, BackToEdl, PatchStart,
       PatchWrite, PatchRead, PatchUndo, Stop, ToEdl, Restart, Settings, RestoreByHand, Rot,
       parts, host
  <2> QED
    BY <2>1, <2>2
<1> QED
  BY <1>1, UnlockInvariant, PTL DEF Spec, SlotKept

(* Android runs only from a slot whose overlay is whole, whichever slot gate *)
(* 3 took for the inactive one; and while the unlock is at work, which asked *)
(* that Android, nothing else writes.                                        *)
OverlayInv == mode = "android" \/ job.pc \in UnlockPcs => dtbo[active] = "onyx"

\* Of all steps only gate 3's write changes an overlay; of those that bring Android
\* up, and of those that start the unlock, none does so over a spoiled one.
LEMMA OverlayLeft ==
  ASSUME IInv, Next, ~VerifyWrite
  PROVE  /\ UNCHANGED <<dtbo, active>>
         /\ mode' = "android" => mode = "android" \/ mode' = Boots
<1>1. CASE SetActiveSlot
  <2>1. job.keep = active
    BY <1>1 DEF SetActiveSlot, IInv, JobInv, UnlockPcs
  <2> QED
    BY <1>1, <2>1 DEF SetActiveSlot, parts
<1>2. CASE Reset \/ FlashingUnlock \/ UnlockCritical \/ Restart
  BY <1>2 DEF Reset, FlashingUnlock, UnlockCritical, Restart, parts
<1>3. CASE \/ UnlockConfirm \/ ToBootloader \/ CheckUnlocked \/ DeviceInfo \/ BackToEdl \/ ToEdl
  BY <1>3 DEF UnlockConfirm, ToBootloader, CheckUnlocked, DeviceInfo, BackToEdl, ToEdl, parts
<1>4. CASE \/ \E d \in Dirs : BackupDump(d) \/ UnlockStart(d) \/ PatchStart(d) \/ Rot(d)
           \/ \E d \in Dirs, s \in Slots : VerifyStart(d, s) \/ RestoreByHand(d, s)
           \/ BackupSums \/ BackupIndex \/ VerifyRead \/ WriteAbl \/ VerifyAbl \/ UndoAbl
           \/ PatchWrite \/ PatchRead \/ PatchUndo \/ Stop \/ Settings
  BY <1>4 DEF BackupDump, UnlockStart, PatchStart, Rot, VerifyStart, RestoreByHand, BackupSums,
     BackupIndex, VerifyRead, WriteAbl, VerifyAbl, UndoAbl, PatchWrite, PatchRead, PatchUndo,
     Stop, Settings, parts, host
<1> QED
  BY <1>1, <1>2, <1>3, <1>4 DEF Next

\* A script of another kind does not turn into the unlock, and gate 5 begins that one.
LEMMA UnlockBegins ==
  ASSUME IInv, Next, job'.pc \in UnlockPcs
  PROVE  job.pc \in UnlockPcs \/ mode = "android"
<1>0. job \in Jobs
  BY DEF IInv, TypeOK, Jobs
<1>1. \A pc \in Pcs : Go(pc) => job'.pc = pc
  BY <1>0 DEF Go, Jobs
<1>2. \A msg : Exit(msg) => job'.pc = "idle"
  BY DEF Exit, Idle
<1>3. CASE \E d \in Dirs : BackupDump(d) \/ PatchStart(d)
  BY <1>2, <1>3 DEF BackupDump, PatchStart, Idle, UnlockPcs, Rebooted
<1>4. CASE \E d \in Dirs, s \in Slots : VerifyStart(d, s)
  BY <1>4 DEF VerifyStart, Idle, UnlockPcs, Rebooted
<1>5. CASE BackupSums \/ BackupIndex \/ VerifyWrite \/ VerifyRead \/ Stop
  BY <1>1, <1>2, <1>5 DEF BackupSums, BackupIndex, VerifyWrite, VerifyRead, Stop, Pcs, UnlockPcs,
     Rebooted
<1>6. CASE PatchWrite \/ PatchRead \/ PatchUndo
  BY <1>1, <1>2, <1>6 DEF PatchWrite, PatchRead, PatchUndo, Pcs, UnlockPcs, Rebooted
<1>7. CASE \E d \in Dirs : UnlockStart(d)
  BY <1>7 DEF UnlockStart
<1>8. CASE \/ UnlockConfirm \/ WriteAbl \/ VerifyAbl \/ UndoAbl \/ SetActiveSlot \/ Reset
           \/ ToBootloader \/ FlashingUnlock \/ CheckUnlocked \/ UnlockCritical
           \/ DeviceInfo \/ BackToEdl
  BY <1>8 DEF UnlockConfirm, WriteAbl, VerifyAbl, UndoAbl, SetActiveSlot, Reset, ToBootloader,
     FlashingUnlock, CheckUnlocked, UnlockCritical, DeviceInfo, BackToEdl, UnlockPcs, Rebooted
<1>9. CASE ToEdl \/ Restart \/ Settings \/ (\E d \in Dirs, s \in Slots : RestoreByHand(d, s))
           \/ (\E d \in Dirs : Rot(d))
  BY <1>9 DEF ToEdl, Restart, Settings, RestoreByHand, Rot
<1> QED
  BY <1>3, <1>4, <1>5, <1>6, <1>7, <1>8, <1>9 DEF Next

LEMMA OverlayNext ==
  ASSUME IInv, OverlayInv, [Next]_vars
  PROVE  OverlayInv'
<1>1. CASE UNCHANGED vars
  BY <1>1 DEF vars, parts, host, OverlayInv
<1>2. CASE VerifyWrite
  <2>1. job'.pc \notin UnlockPcs
    <3>1. Go("v_read") \/ Exit("failed")
      BY <1>2 DEF VerifyWrite
    <3>2. job \in Jobs
      BY DEF IInv, TypeOK, Jobs
    <3>3. job'.pc = "v_read" \/ job'.pc = "idle"
      BY <3>1, <3>2 DEF Go, Exit, Idle, Jobs
    <3> QED
      BY <3>3 DEF UnlockPcs, Rebooted
  <2>2. mode' = mode /\ active' = active
    BY <1>2 DEF VerifyWrite, host
  <2>3. ASSUME mode # "edl" PROVE dtbo' = dtbo
    <3> DEFINE old == dtbo[job.cur]
    <3>1. PICK o \in EdlWrites(old, Image(dirs[job.dir].dtbo[job.cur])) :
            dtbo' = [dtbo EXCEPT ![job.cur] = o.val]
      BY <1>2 DEF VerifyWrite
    <3>2. o = Outcome(FALSE, old, 0)
      BY <2>3, <3>1 DEF EdlWrites
    <3>3. o.val = dtbo[job.cur]
      BY <3>2 DEF Outcome
    <3> QED
      BY <3>1, <3>3 DEF IInv, TypeOK
  <2> QED
    BY <2>1, <2>2, <2>3 DEF OverlayInv
<1>3. CASE Next /\ ~VerifyWrite
  <2>1. mode' = "android" => mode = "android" \/ dtbo[active] = "onyx"
    BY <1>3, OverlayLeft DEF Boots
  <2>2. job'.pc \in UnlockPcs => job.pc \in UnlockPcs \/ mode = "android"
    BY <1>3, UnlockBegins
  <2> QED
    BY <1>3, <2>1, <2>2, OverlayLeft DEF OverlayInv
<1> QED
  BY <1>1, <1>2, <1>3

(* unlock-bootloader.sh:229-230 and 316-317: the reset that ends the swap,   *)
(* and the one that ends the restore, bring Android up whenever what was put *)
(* back can boot at all, after any faults and though gate 3 may have spoiled *)
(* the overlay of either slot before.                                        *)
THEOREM UnlockScriptBoots == Spec => ScriptBoots
<1>1. Init => OverlayInv
  BY DEF Init, OverlayInv, Idle
<1>2. IInv /\ OverlayInv /\ [Next]_vars =>
        [ (job.pc = "reset" /\ mode' # mode
           /\ \A s \in Slots : NewAbl(s) \in {"onyx", "fp4"}) => mode' = "android" ]_vars
  <2> SUFFICES ASSUME IInv, OverlayInv, Next, job.pc = "reset", mode' # mode,
                      \A s \in Slots : NewAbl(s) \in {"onyx", "fp4"}
               PROVE  mode' = "android"
    BY DEF vars
  <2>1. Reset
    <3>1. \/ Reset \/ ToBootloader \/ FlashingUnlock \/ CheckUnlocked \/ UnlockCritical
          \/ DeviceInfo \/ BackToEdl \/ ToEdl \/ Restart
      BY DEF Next, BackupDump, BackupSums, BackupIndex, VerifyStart, VerifyWrite, VerifyRead,
         UnlockStart, UnlockConfirm, WriteAbl, VerifyAbl, UndoAbl, SetActiveSlot, PatchStart,
         PatchWrite, PatchRead, PatchUndo, Stop, Settings, RestoreByHand, Rot, parts, host
    <3>2. job # Idle
      BY DEF Idle
    <3> QED
      BY <3>1, <3>2 DEF ToBootloader, FlashingUnlock, CheckUnlocked, UnlockCritical, DeviceInfo,
         BackToEdl, ToEdl, Restart
  <2>2. mode' = Boots
    BY <2>1 DEF Reset
  <2>3. abl[active] \in {"onyx", "fp4"} /\ dtbo[active] = "onyx"
    BY DEF IInv, TypeOK, SwapInv, ResetVerified, OverlayInv, UnlockPcs
  <2> QED
    BY <2>2, <2>3 DEF Boots
<1>3. IInv /\ OverlayInv /\ [Next]_vars => OverlayInv'
  BY OverlayNext
<1> QED
  BY <1>1, <1>2, <1>3, UnlockInvariant, PTL DEF Spec, ScriptBoots

=============================================================================
