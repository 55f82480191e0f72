----------------------------- MODULE BootUnlock -----------------------------
(***************************************************************************)
(* Unlocking the bootloader: scripts/edl-backup.sh dumps the device,       *)
(* edl-verify-restore.sh proves the way back and leaves a receipt,         *)
(* unlock-bootloader.sh swaps Fairphone's ABL in, unlocks, and swaps       *)
(* Onyx's back, patch-devinfo-unlock.sh sets the flags directly.           *)
(*                                                                         *)
(* One script runs at a time and may stop anywhere: all run under          *)
(* `set -e', so a command that fails ends its script where it stands. An   *)
(* edl write may also succeed and leave something else than the image, or, *)
(* on a unit whose writes do not land, nothing at all.                     *)
(***************************************************************************)
EXTENDS Naturals

CONSTANTS
  Dirs, NoDir,  \* backup directories, and none
  Landings,     \* may writes land on this unit? A set of Booleans
  MaxFaults     \* bound on commands that fail or lie, stops and rotten backups

ASSUME UnlockAssumption ==
  NoDir \notin Dirs /\ Landings \subseteq BOOLEAN /\ MaxFaults \in Nat

Slots == {"a", "b"}
Other(s) == CHOOSE o \in Slots : o # s
Parts == {"abl", "dtbo", "devinfo"}   \* the partitions told apart

\* What a partition or an image file may hold. "bad": an interrupted or silently
\* wrong write; "rot": a file of a backup that changed on disk; "noise": a read
\* that went wrong. devinfo is "locked", "unlocked" or, critical too, "critical".
Abls     == {"onyx", "fp4", "bad", "rot"}
Dtbos    == {"onyx", "bad", "rot"}
Devinfos == {"locked", "unlocked", "critical", "bad", "rot"}

VARIABLES
  abl, dtbo, devinfo, \* the device's partitions; abl and dtbo per slot
  active,             \* the active slot
  mode,               \* what runs: "android", "edl", "fastboot" or "brick"
  adb, oem,           \* USB debugging; "OEM unlocking"
  land,               \* do writes land
  dirs,               \* the backups
  job,                \* the script that runs, see Idle
  told,               \* how the last one ended
  faults              \* how many faults happened

parts  == <<abl, dtbo, devinfo>>
host   == <<active, mode, adb, oem, land>>
vars   == <<parts, host, dirs, job, told, faults>>

\* Nothing runs. dir: BACKUP_DIR; keep: ACTIVE_SLOT; phase: the swap or the
\* restore; cur: the slot whose partition is being written.
Idle == [pc |-> "idle", phase |-> "none", dir |-> NoDir, keep |-> "b", cur |-> "a"]

\* stage: the last command of edl-backup.sh that finished. The images are those
\* the device had.
NoBackup == [stage |-> "none", has |-> {}, abl |-> [s \in Slots |-> "onyx"],
             dtbo |-> [s \in Slots |-> "onyx"], devinfo |-> "locked",
             rotten |-> FALSE, receipt |-> FALSE]

Init ==
  /\ abl = [s \in Slots |-> "onyx"] /\ dtbo = [s \in Slots |-> "onyx"]
  /\ devinfo = "locked"
  /\ active \in Slots
  /\ mode = "android" /\ adb = TRUE /\ oem \in BOOLEAN
  /\ land \in Landings
  /\ dirs = [d \in Dirs |-> NoBackup]
  /\ job = Idle /\ told = "none" /\ faults = 0

-----------------------------------------------------------------------------
\* A command's outcome: exit status, what a partition holds afterwards (for a
\* write) or what was seen (for a read), and the faults it spent.
Outcome(ok, val, cost) == [ok |-> ok, val |-> val, cost |-> cost]
Faulty == faults < MaxFaults

\* `edl w' of img over old. Outside EDL mode there is nothing to talk to.
EdlWrites(old, img) ==
  LET landed(new) == IF land THEN new ELSE old IN
  IF mode # "edl" THEN {Outcome(FALSE, old, 0)}
  ELSE {Outcome(TRUE, landed(img), 0)}
       \cup {o \in {Outcome(FALSE, old, 1), Outcome(FALSE, landed("bad"), 1),
                    Outcome(TRUE, landed("bad"), 1)} : Faulty}

EdlReads(val) ==
  IF mode # "edl" THEN {Outcome(FALSE, val, 0)}
  ELSE {Outcome(TRUE, val, 0)}
       \cup {o \in {Outcome(TRUE, "noise", 1), Outcome(FALSE, val, 1)} : Faulty}

\* A command that may fail: setactiveslot, reset, adb reboot.
MayFail == {Outcome(TRUE, "", 0)} \cup {o \in {Outcome(FALSE, "", 1)} : Faulty}

Spend(o) == faults' = faults + o.cost
Go(pc) == job' = [job EXCEPT !.pc = pc] /\ told' = told
Exit(msg) == job' = Idle /\ told' = msg

\* A file of the backup in use, as it is now.
Image(img) == IF dirs[job.dir].rotten THEN "rot" ELSE img

\* Mutant: a mismatch is only reported.
AnyMatch(seen, img) == TRUE

\* The comparison with the image, over its length.
Matches(seen, img) == seen = img

\* What a boot arrives at: a bad ABL does not boot, a bad overlay nor does.
Boots == IF abl[active] \in {"onyx", "fp4"} /\ dtbo[active] = "onyx"
         THEN "android" ELSE "brick"

-----------------------------------------------------------------------------
\* edl-backup.sh into a new directory: the dump, which may miss partitions, ...
BackupDump(d) ==
  /\ job = Idle /\ mode = "edl" /\ dirs[d].stage = "none"
  /\ \E o \in MayFail, has \in SUBSET Parts :
       /\ has = Parts \/ Faulty
       /\ dirs' = [dirs EXCEPT ![d] =
            [@ EXCEPT !.stage = "dumped", !.has = has,
                      !.abl = abl, !.dtbo = dtbo, !.devinfo = devinfo]]
       /\ IF o.ok THEN job' = [Idle EXCEPT !.pc = "sum", !.dir = d] /\ told' = "none"
                  ELSE Exit("failed")
       /\ faults' = faults + (IF has # Parts THEN 1 ELSE o.cost)
  /\ UNCHANGED <<parts, host>>

\* ... the checksums, ...
BackupSums ==
  /\ job.pc = "sum"
  /\ dirs' = [dirs EXCEPT ![job.dir].stage = "summed"]
  /\ Go("index")
  /\ UNCHANGED <<parts, host, faults>>

\* ... and the index, last.
BackupIndex ==
  /\ job.pc = "index"
  /\ dirs' = [dirs EXCEPT ![job.dir].stage = "indexed"]
  /\ Exit("backed up")
  /\ UNCHANGED <<parts, host, faults>>

-----------------------------------------------------------------------------
\* edl-verify-restore.sh: the overlay of the slot that is not `assumed' to be active
\* goes back; that is ACTIVE_SLOT_OVERRIDE or b, and nothing asks the device. Without
\* an index the file is searched for; the checksums are not read.
VerifyStart(d, assumed) ==
  /\ job = Idle /\ "dtbo" \in dirs[d].has
  /\ job' = [Idle EXCEPT !.pc = "v_write", !.dir = d, !.cur = Other(assumed)]
  /\ told' = "none"
  /\ UNCHANGED <<parts, host, dirs, faults>>

VerifyWrite ==
  /\ job.pc = "v_write"
  /\ \E o \in EdlWrites(dtbo[job.cur], Image(dirs[job.dir].dtbo[job.cur])) :
       /\ dtbo' = [dtbo EXCEPT ![job.cur] = o.val]
       /\ IF o.ok THEN Go("v_read") ELSE Exit("failed")
       /\ Spend(o)
  /\ UNCHANGED <<abl, devinfo, host, dirs>>

\* The verdict. A failure leaves an earlier receipt where it is.
VerifyRead ==
  /\ job.pc = "v_read"
  /\ \E o \in EdlReads(dtbo[job.cur]) :
       /\ IF ~o.ok THEN Exit("failed") /\ dirs' = dirs
          ELSE IF Matches(o.val, Image(dirs[job.dir].dtbo[job.cur]))
               THEN Exit("pass") /\ dirs' = [dirs EXCEPT ![job.dir].receipt = TRUE]
               ELSE Exit("fail") /\ dirs' = dirs
       /\ Spend(o)
  /\ UNCHANGED <<parts, host>>

-----------------------------------------------------------------------------
\* Mutant: without gate 3.
GatesNoReceipt(d) ==
  /\ {"abl", "devinfo"} \subseteq dirs[d].has
  /\ dirs[d].stage = "indexed" /\ ~dirs[d].rotten

\* Gates 1 to 4 of unlock-bootloader.sh.
Gates(d) ==
  /\ {"abl", "devinfo"} \subseteq dirs[d].has
  /\ dirs[d].stage = "indexed" /\ ~dirs[d].rotten
  /\ dirs[d].receipt

\* Mutants: the value of the recon; ro.boot.slot_suffix as it is.
ReconSlot == "b"
SlotSuffix == IF active = "a" THEN "_a" ELSE "_b"

\* ACTIVE_SLOT: what the device booted from.
ActiveSlot == active

\* Gate 5 asks the running Android; a device that is unlocked already is left
\* alone unless the operator insists.
UnlockStart(d) ==
  /\ job = Idle /\ Gates(d)
  /\ mode = "android" /\ adb /\ oem
  /\ \/ /\ job' = [Idle EXCEPT !.pc = "confirm", !.dir = d, !.keep = ActiveSlot]
        /\ told' = "none"
     \/ devinfo \in {"unlocked", "critical"} /\ Exit("nothing to do")
  /\ UNCHANGED <<parts, host, dirs, faults>>

UnlockConfirm ==
  /\ job.pc = "confirm"
  /\ \/ /\ mode = "android" /\ adb /\ mode' = "edl"
        /\ job' = [job EXCEPT !.pc = "write", !.phase = "swap", !.cur = "a"] /\ told' = told
     \/ mode' = mode /\ Exit("aborted")
  /\ UNCHANGED <<parts, active, adb, oem, land, dirs, faults>>

\* What this phase writes to abl_s.
NewAbl(s) ==
  IF job.phase = "swap" THEN "fp4" ELSE Image(dirs[job.dir].abl[s])

\* write_verified: the write, ...
WriteAbl ==
  /\ job.pc = "write"
  /\ \E o \in EdlWrites(abl[job.cur], NewAbl(job.cur)) :
       /\ abl' = [abl EXCEPT ![job.cur] = o.val]
       /\ IF o.ok THEN Go("read") ELSE Exit("failed")
       /\ Spend(o)
  /\ UNCHANGED <<dtbo, devinfo, host, dirs>>

\* Mutant: slot b is left for later.
OneSlot(cur) == cur

\* ... the read back and the comparison; slot a, then slot b.
LastSlot(cur) == "b"

VerifyAbl ==
  /\ job.pc = "read"
  /\ \E o \in EdlReads(abl[job.cur]) :
       /\ IF ~o.ok THEN Exit("failed")
          ELSE IF ~Matches(o.val, NewAbl(job.cur)) THEN job' = [job EXCEPT !.pc = "undo", !.cur = "a"] /\ told' = told
          ELSE IF job.cur # LastSlot(job.cur) THEN job' = [job EXCEPT !.pc = "write", !.cur = "b"] /\ told' = told
          ELSE Go("setslot")
       /\ Spend(o)
  /\ UNCHANGED <<parts, host, dirs>>

\* A mismatch: Onyx's ABL to both slots, whatever comes of it (`|| true').
UndoAbl ==
  /\ job.pc = "undo"
  /\ \E o \in EdlWrites(abl[job.cur], Image(dirs[job.dir].abl[job.cur])) :
       /\ abl' = [abl EXCEPT ![job.cur] = o.val]
       /\ Spend(o)
  /\ IF job.cur = "a" THEN job' = [job EXCEPT !.cur = "b"] /\ told' = told
                      ELSE Exit("original state")
  /\ UNCHANGED <<dtbo, devinfo, host, dirs>>

SetActiveSlot ==
  /\ job.pc = "setslot"
  /\ \E o \in MayFail :
       /\ IF o.ok THEN active' = job.keep /\ Go("reset")
                  ELSE active' = active /\ Exit("failed")
       /\ Spend(o)
  /\ UNCHANGED <<parts, mode, adb, oem, land, dirs>>

Reset ==
  /\ job.pc = "reset"
  /\ \E o \in MayFail :
       /\ mode' = IF o.ok THEN Boots ELSE mode
       /\ IF ~o.ok THEN Exit("failed")
          ELSE IF job.phase = "swap" THEN Go("bootloader") ELSE Exit("done")
       /\ Spend(o)
  /\ UNCHANGED <<parts, active, adb, oem, land, dirs>>

-----------------------------------------------------------------------------
\* wait_for_adb or wait_for_fastboot giving up is an outcome of every wait.
CanReachFastboot == mode = "fastboot" \/ (mode = "android" /\ adb)

ToBootloader ==
  /\ job.pc = "bootloader"
  /\ \/ /\ mode = "android" /\ adb /\ mode' = "fastboot"
        /\ IF abl[active] = "fp4" THEN Go("unlock") ELSE Exit("not FP4")
     \/ mode' = mode /\ Exit("lost")
  /\ UNCHANGED <<parts, active, adb, oem, land, dirs, faults>>

\* The prompt on the device is confirmed or declined; a change of the lock state
\* costs the data, and with it USB debugging. The exit status is ignored.
FlashingUnlock ==
  /\ job.pc = "unlock"
  /\ \/ oem /\ devinfo = "locked" /\ devinfo' = "unlocked" /\ adb' = FALSE
     \/ UNCHANGED <<devinfo, adb>>
  /\ mode' \in {"fastboot", Boots}
  /\ Go("check")
  /\ UNCHANGED <<abl, dtbo, active, oem, land, dirs, faults>>

\* Mutant: the exit status of `fastboot flashing unlock' is taken for the answer.
CommandSucceeded == TRUE

\* unlocked_now, as `fastboot oem device-info' has it.
UnlockedNow == devinfo \in {"unlocked", "critical"}

\* Back to fastboot and ask. `grep -q' closes the pipe at the match, so under
\* pipefail the answer "true" may count as a failure.
CheckUnlocked ==
  /\ job.pc = "check"
  /\ \/ /\ CanReachFastboot /\ mode' = "fastboot"
        /\ \/ UnlockedNow /\ Go("critical")
           \/ Exit("still locked")
     \/ mode' = mode /\ Exit("lost")
  /\ UNCHANGED <<parts, active, adb, oem, land, dirs, faults>>

UnlockCritical ==
  /\ job.pc = "critical"
  /\ \/ devinfo = "unlocked" /\ devinfo' = "critical" /\ adb' = FALSE
     \/ UNCHANGED <<devinfo, adb>>
  /\ mode' \in {"fastboot", Boots}
  /\ Go("info")
  /\ UNCHANGED <<abl, dtbo, active, oem, land, dirs, faults>>

\* The final device info, only shown; but if it fails, the script ends here.
DeviceInfo ==
  /\ job.pc = "info"
  /\ \/ CanReachFastboot /\ mode' = "fastboot" /\ Go("to edl")
     \/ mode' = mode /\ Exit("failed")
  /\ UNCHANGED <<parts, active, adb, oem, land, dirs, faults>>

\* The operator puts the device back into EDL, or presses Enter without.
BackToEdl ==
  /\ job.pc = "to edl"
  /\ mode' \in {mode, "edl"}
  /\ job' = [job EXCEPT !.pc = "write", !.phase = "restore", !.cur = "a"] /\ told' = told
  /\ UNCHANGED <<parts, active, adb, oem, land, dirs, faults>>

-----------------------------------------------------------------------------
\* patch-devinfo-unlock.sh: refuses unless exactly two bytes would change.
PatchStart(d) ==
  /\ job = Idle /\ mode = "edl"
  /\ dirs[d].stage = "indexed" /\ "devinfo" \in dirs[d].has
  /\ devinfo = "locked"
  /\ job' = [Idle EXCEPT !.pc = "p_write", !.dir = d] /\ told' = "none"
  /\ UNCHANGED <<parts, host, dirs, faults>>

\* Flipping the flag costs the data all the same (docs/02).
PatchWrite ==
  /\ job.pc = "p_write"
  /\ \E o \in EdlWrites(devinfo, "critical") :
       /\ devinfo' = o.val
       /\ adb' = (adb /\ o.val = "locked")
       /\ IF o.ok THEN Go("p_read") ELSE Exit("failed")
       /\ Spend(o)
  /\ UNCHANGED <<abl, dtbo, active, mode, oem, land, dirs>>

PatchRead ==
  /\ job.pc = "p_read"
  /\ \E o \in EdlReads(devinfo) :
       /\ IF ~o.ok THEN Exit("failed")
          ELSE IF Matches(o.val, "critical") THEN Exit("patched") ELSE Go("p_undo")
       /\ Spend(o)
  /\ UNCHANGED <<parts, host, dirs>>

PatchUndo ==
  /\ job.pc = "p_undo"
  /\ \E o \in EdlWrites(devinfo, Image(dirs[job.dir].devinfo)) :
       /\ devinfo' = o.val
       /\ Exit(IF o.ok THEN "nothing changed" ELSE "failed")
       /\ Spend(o)
  /\ UNCHANGED <<abl, dtbo, host, dirs>>

-----------------------------------------------------------------------------
\* A script is stopped, or the host goes down. (A write that is cut off is a
\* write that fails.)
Stop ==
  /\ job # Idle /\ Faulty
  /\ Exit("stopped") /\ faults' = faults + 1
  /\ UNCHANGED <<parts, host, dirs>>

\* The operator between two scripts: reboots, into EDL by adb or by hardware;
\* settings; the recovery command the scripts print.
ToEdl ==
  /\ job = Idle /\ mode # "edl" /\ mode' = "edl"
  /\ UNCHANGED <<parts, active, adb, oem, land, dirs, job, told, faults>>

Restart ==
  /\ job = Idle /\ mode \in {"edl", "fastboot"} /\ mode' = Boots
  /\ UNCHANGED <<parts, active, adb, oem, land, dirs, job, told, faults>>

Settings ==
  /\ mode = "android"
  /\ \/ ~adb /\ adb' = TRUE /\ oem' = oem
     \/ job = Idle /\ oem' = ~oem /\ adb' = adb
  /\ UNCHANGED <<parts, active, mode, land, dirs, job, told, faults>>

RestoreByHand(d, s) ==
  /\ job = Idle /\ mode = "edl" /\ "abl" \in dirs[d].has /\ land
  /\ \E t \in Slots : abl[t] # "onyx"
  /\ abl' = [abl EXCEPT ![s] = IF dirs[d].rotten THEN "rot" ELSE dirs[d].abl[s]]
  /\ told' = "none"
  /\ UNCHANGED <<dtbo, devinfo, host, dirs, job, faults>>

\* Environment: a backup changes on disk, while nothing uses it.
Rot(d) ==
  /\ job = Idle /\ Faulty /\ dirs[d].stage # "none" /\ ~dirs[d].rotten
  /\ dirs' = [dirs EXCEPT ![d].rotten = TRUE]
  /\ faults' = faults + 1
  /\ UNCHANGED <<parts, host, job, told>>

Next ==
  \/ \E d \in Dirs : BackupDump(d)
  \/ BackupSums \/ BackupIndex
  \/ \E d \in Dirs, s \in Slots : VerifyStart(d, s)
  \/ VerifyWrite \/ VerifyRead
  \/ \E d \in Dirs : UnlockStart(d)
  \/ UnlockConfirm \/ WriteAbl \/ VerifyAbl \/ UndoAbl \/ SetActiveSlot \/ Reset
  \/ ToBootloader \/ FlashingUnlock \/ CheckUnlocked \/ UnlockCritical
  \/ DeviceInfo \/ BackToEdl
  \/ \E d \in Dirs : PatchStart(d)
  \/ PatchWrite \/ PatchRead \/ PatchUndo
  \/ Stop \/ ToEdl \/ Restart \/ Settings
  \/ \E d \in Dirs, s \in Slots : RestoreByHand(d, s)
  \/ \E d \in Dirs : Rot(d)

Spec == Init /\ [][Next]_vars

-----------------------------------------------------------------------------
Rebooted == {"bootloader", "unlock", "check", "critical", "info", "to edl"}
UnlockPcs == {"confirm", "write", "read", "undo", "setslot", "reset"} \cup Rebooted
Pcs == {"idle", "sum", "index", "v_write", "v_read", "p_write", "p_read", "p_undo"}
       \cup UnlockPcs

TypeOK ==
  /\ abl \in [Slots -> Abls] /\ dtbo \in [Slots -> Dtbos] /\ devinfo \in Devinfos
  /\ active \in Slots /\ mode \in {"android", "edl", "fastboot", "brick"}
  /\ adb \in BOOLEAN /\ oem \in BOOLEAN /\ land \in Landings
  /\ dirs \in [Dirs -> [stage : {"none", "dumped", "summed", "indexed"},
                        has : SUBSET Parts, abl : [Slots -> Abls], dtbo : [Slots -> Dtbos],
                        devinfo : Devinfos, rotten : BOOLEAN, receipt : BOOLEAN]]
  /\ job \in [pc : Pcs, phase : {"none", "swap", "restore"}, dir : Dirs \cup {NoDir},
              keep : Slots, cur : Slots]
  /\ faults \in 0..MaxFaults

\* A complete, summed and indexed dump of Onyx's ABL whose restore was tried.
Backed(d) ==
  /\ dirs[d].stage = "indexed" /\ "abl" \in dirs[d].has /\ dirs[d].receipt
  /\ \A s \in Slots : dirs[d].abl[s] = "onyx"

\* The way back exists before it is needed: whenever a slot holds anything that
\* is not from a backup, some directory is such a dump (gates 2 and 3).
BackupBeforeSwap ==
  (\E s \in Slots : abl[s] \in {"fp4", "bad"}) =>
     \E d \in Dirs : Backed(d)

\* unlock-bootloader.sh never resets the device into a bootloader it has not read
\* back in this run, in either slot, whatever failed, lied or was stopped before.
ResetVerified ==
  job.pc \in {"setslot", "reset"} => \A s \in Slots : abl[s] = NewAbl(s)

\* So its reset brings Android up, as long as what it puts back can boot: nothing that
\* any script left behind keeps the slot it selects from booting, though gate 3 may
\* have spoiled either slot's overlay before. It is gate 5 that sees to it: what it
\* asks is the Android that runs from that slot.
ScriptBoots ==
  [][ (job.pc = "reset" /\ mode' # mode
       /\ \A s \in Slots : NewAbl(s) \in {"onyx", "fp4"}) => mode' = "android" ]_vars

\* "The Fairphone ABL is still installed, so you can simply re-run": from the
\* swap's reset until the restore begins, and after a run that ended in between
\* for a locked device, both slots hold it, whole.
FairphoneHeld ==
  job.pc \in Rebooted \/ told = "still locked" => \A s \in Slots : abl[s] = "fp4"

\* "Done": both slots are back to what one backup holds, and the device is
\* unlocked.
DoneMeans ==
  told = "done" => /\ \E d \in Dirs : abl = dirs[d].abl /\ dirs[d].receipt
                   /\ devinfo \in {"unlocked", "critical"}

\* No script moves the device to its other slot, which may hold nothing that boots.
SlotKept == [][active' = active]_vars

\* "VERIFIED: devinfo written correctly" is said of the device, not of the file.
PatchTold == told = "patched" => devinfo = "critical"

-----------------------------------------------------------------------------
\* The inductive invariant: a script that runs has said nothing yet and works on
\* one directory, which passed the gates if it is the unlock; ...
JobInv ==
  /\ job.pc # "idle" => told = "none" /\ job.dir \in Dirs
  /\ job.pc = "sum" => dirs[job.dir].stage = "dumped"
  /\ job.pc \in UnlockPcs => job.keep = active /\ Gates(job.dir)

\* ... what was read back is still there; ...
SwapInv ==
  /\ job.pc \in {"write", "read"} /\ job.cur = "b" => abl["a"] = NewAbl("a")
  /\ ResetVerified /\ FairphoneHeld

\* ... and until the first write, nothing but Onyx's ABL is anywhere.
Stock == \A s \in Slots : abl[s] = "onyx" /\ \A d \in Dirs : dirs[d].abl[s] = "onyx"

BackedInv == Stock \/ \E d \in Dirs : Backed(d)

IInv == TypeOK /\ JobInv /\ SwapInv /\ BackedInv

-----------------------------------------------------------------------------
\* What the scripts say and do not keep.

\* edl-verify-restore.sh:5-6: the receipt confirms that writes land.
ReceiptProvesWrites == \A d \in Dirs : dirs[d].receipt => land

\* unlock-bootloader.sh:138: an unlocked device leaves "Nothing to do?".
NothingToDo == told = "nothing to do" => \A s \in Slots : abl[s] = "onyx"

\* unlock-bootloader.sh:219: "Device should still be in its original state."
OriginalState ==
  [][ told' = "original state" /\ told # told'
      => job.phase = "swap" /\ \A s \in Slots : abl'[s] = "onyx" ]_vars

\* unlock-bootloader.sh:160: step 4 restores Onyx's ABL.
OnyxBack == told = "done" => \A s \in Slots : abl[s] = "onyx"

\* unlock-bootloader.sh:301: "Device still reports locked."
LockedMeans == told = "still locked" => devinfo = "locked"

\* edl-verify-restore.sh:9-13: the overlay rewritten is that of the slot that is not
\* active, "verified at runtime below regardless", and "a no-op even if something goes
\* sideways": the one the device boots with stays as it was.
ActiveOverlayKept == dtbo[active] = "onyx"

\* edl-verify-restore.sh:94: after a FAIL the swap does not proceed.
FailStops == [][told = "fail" => job'.pc # "confirm"]_vars
=============================================================================
