# Verification of the Palma 2 Pro /e/OS port

TLA+ models of the parts of this repository in which order, interruption or arithmetic can go
wrong, TLC configurations that check them on small instances, and TLAPS proofs of the results
that matter most. Paths are relative to the repository; `docs/NN` is `docs/NN-*.md`.

    tlc -workers 2 -config ShmOrdered.cfg MCDamageShm      # a run
    tlapm DamageShmProofs.tla                              # a proof

## 1. The system

The port runs a stock Onyx kernel and vendor side under an AOSP system side. Two things had to
be built: a way to get SurfaceFlinger's frames onto the e-ink panel, and a way to get images
onto a device that does not boot.

### 1.1 The display path (runs on the device)

| component | state it keeps | operations | talks to |
|---|---|---|---|
| SurfaceFlinger's damage writer, `patches/main/0002` | the mapping (a function static), the seqlock's count | `epdcDamageMap` (create, size, map, header), `publishEpdcDamage`, the hook in `Output::finishFrame` | the mapping `/dev/epdc/damage` |
| the contract, `src/epdc_damage.h` | `magic, version, seq, count, full, rect[8]` in a page of tmpfs | a seqlock: odd while written, moved by 2 per publication | writer and reader, no lock |
| the composer shim, `src/epdcshim.c`: commit path | `pend[]`, the property cache `c_obj[]`, the tunables, `last_fb_sig`, `last_inject_ms`, `updates_since_full`, `g_parms[]`, `last_dmg_seq` | `drmModeAtomicAddProperty` records, `drmModeAtomicCommit` decides (`refresh_tunables`, `attach_damage`, `read_damage`, `init_parms`, `lookup`) and adds two properties | libdrm, the EPDC driver, the mapping |
| the shim's settle thread | `g_settle_pending`, `last_inject_ms`, `t_settlems` (shared with the commit thread, no lock), `marker` | poll every 50 ms, one full update when quiet | `/dev/ebc` |
| access to it, `patches/main/0001`, `epdc-clientcomp.rc` | none | permissions, a service call 8 s after boot | ueventd, SurfaceFlinger |
| the staged probes, `ebcprobe`, `ebcpush`, `ebcinit` | a journal file | one more ioctl or use of the mapping per stage; `jot` writes and syncs a line | `/dev/ebc`, flash, the operator |
| `ebctool`, `ebcrefresh`, `ebcfb`, `drmprops` | none | single ioctls, printed | `/dev/ebc`, DRM |
| `ebcptrace` | `in_syscall[]`, `tids[]` | `attach_all`, a polling loop over the stops of another process's threads, detaching | the kernel's ptrace |
| `ebctrace` | the kind of each file descriptor | wraps `ioctl` and prints | the vendor's display stack |

Hard here: two processes share memory without a lock; either may be restarted by init at any
point; damage that is taken and not refreshed leaves stale pixels for as long as nothing else
changes there; two threads hand out markers that the driver requires to be unique; the tunables
change under a running shim; any new ioctl may hang the kernel for good, and what a tool had to say
is then what was on flash; a tracer stops threads that wait for each other.

What makes it correct: no torn read is acted on; no publication is lost or acted on twice;
reading never blocks; what reaches the kernel is acceptable and covers the damage; a frame that
was committed is in the driver's buffer; the panel is cleaned as often as asked; settles answer
draws, eventually, and no more often than there are draws; the last line on flash names the step that
hung, and nothing else is blamed; a tracer misses no thread and no call, loses no signal and leaves
nothing stopped behind.

### 1.2 Getting images onto the device (runs on the host, over EDL)

| component | state it keeps | operations | talks to |
|---|---|---|---|
| `scripts/lp-resize-partition.py` | none; rewrites a dump of the head of `super` | `patch_slot` on both metadata copies of a slot | the operator, who dumps and writes back |
| `scripts/flash-logical-via-edl.py` | none | full write of an image into the extents of a partition | `lpdump.txt`, edl |
| `scripts/edl-delta-flash.py` | none; relies on the operator's `old.img` | write of the runs of sectors that changed | `lpdump.txt`, `old.img`, edl |
| `scripts/lpunpack.py`, `lpdump-from-super.py` | none | read the metadata, extract | a dump of `super` |
| `scripts/edl-backup.sh`, `edl-verify-restore.sh` | the backup directories: dump, `SHA256SUMS`, `partitions.idx`, the receipt `GATE3-PASS` | dump all, index; write one overlay back and compare | edl |
| `scripts/unlock-bootloader.sh`, `patch-devinfo-unlock.sh` | none of their own; the device's two ABLs and `devinfo` | gates, replace ABL, unlock, restore; or set the flags | a backup directory, edl, adb, fastboot |
| `scripts/patch-boot-*.py`, `patch-recovery-adb.py` | none | rewrite the sections of a boot image | files |
| GSI flashing, device tree batch, log catching | none | sequences of fastboot and adb commands | fastboot, adb |
| `scripts/builder.sh`, `sync-to-builder.sh`, `build/ssh` | a container, its build process, pid files | start a build unless one runs, resync, follow | ssh, podman |
| firmware extraction and analysis | none | offline parsing | files |

Hard here: any write may stop half way; what a script believes (a dump, `lpdump.txt`, `old.img`)
may be older than the device; the arithmetic maps three units (bytes, 512-byte and 4096-byte
sectors) through a list of extents; two metadata copies must not disagree; while the bootloader is
replaced, a script that ends at the wrong place leaves a device that cannot be reached.

What makes it correct: nothing outside the partition is written; after a success the partition
holds the image; an interruption can be repaired by running the same command again; growing a
partition never overlaps or moves another one, never exceeds a group's limit, and every table
index is right afterwards; before a bootloader is written, a way back exists and has been tried;
no reset goes into a bootloader that was not read back; what a script says of the device is so.

`PROJECT.json` lists every component with its status, and the hazards at their lines.

## 2. The modules

| module | models | role |
|---|---|---|
| `PanelRects` | `publishEpdcDamage`'s and `init_parms`'s rectangles | operators, used by the four below |
| `DamagePath` | a dirty region taken through both ends of the path | component |
| `DamageMailbox` | what the mapping promises: a one-slot mailbox | abstract specification |
| `DamageShm` | writer and reader of the mapping, one memory access at a time | implements `DamageMailbox` |
| `EpdcShim` | the shim's commit path around the mailbox | composes the mailbox with the shim and the driver's buffer |
| `EpdcSettle` | the settle thread against the commit thread | component |
| `LpSpace` | sectors, extents, layouts | operators |
| `LpLayout` | what growing a partition promises | abstract specification |
| `LpResize` | `lp-resize-partition.py` on the raw tables of both copies, dump, interrupted write back | implements `LpLayout` |
| `SuperFlash` | full and delta flashing, extent by extent | component |
| `BootUnlock` | backup, gate 3, unlock, restore and the `devinfo` patch, command by command | component |
| `EbcTools` | what each of the six tools does to `/dev/ebc`, step by step | operators |
| `EbcProbe` | a machine that runs such steps, the journal, hangs, power-offs, the operator | component, composed with `EbcTools` in `MCEbcProbe` |
| `EbcPtrace` | the ptrace tracer against the threads it traces | component |
| `MC*` | small instances of the above | |
| `DamageShmProofs`, `EpdcSettleProofs`, `BootUnlockProofs`, `EbcProbeProofs`, `EbcPtraceProofs`, `SuperFlashProofs` | the theorems of the module in the name | |
| `EpdcShimProofs` | those of `PanelRects`, `DamagePath` and `EpdcShim` | |
| `LpResizeProofs` | those of `LpLayout` and `LpResize` | |

### 2.1 DamageShm and DamageMailbox

`DamageShm` numbers the stores of a publication (`seq` odd, `count`, `full`, one per rectangle,
`seq` even) and of the header, and lets them become visible one by one; the reader's loads are
numbered the same way. `Ordered` chooses the memory order. With it everything happens in program
order. Without it only what the code's `__ATOMIC_RELEASE` and `__ATOMIC_ACQUIRE` give on AArch64
holds: a release store waits for all earlier accesses but does not hold back later ones, an
acquire load is before all later accesses but earlier plain loads may fall behind it (`late`).

`SfOpen`, `SfTruncate`, `SfMap` are `epdcDamageMap`; `SfPublish` is `publishEpdcDamage`, which
goes through the pending stores with `Drain`. `BeginCommit` and `CheckHeader` are
`attach_damage`; `LoadSeqBefore`, `Load`, `LoadSeqAfter` one attempt of `read_damage`, and
`TryAgain` its `continue`. `SfRestart` and `ComposerRestart` are init's doing. The version word
is stored before the magic and compared together with it, and is left out.

`posted`, `history` and `seen` are history variables: the refinement to `DamageMailbox` maps its
slot to `posted`, which moves with the store that makes a publication current, and `seen` is the
publication last acted on, which one whose number was read before is not.

The order allowed without `Ordered` is a little weaker than AArch64's, which keeps some pairs of
accesses apart that the model lets pass. The counterexample of
`ShmWeakTorn` needs no such pair, and what holds under the weaker order (`ShmWeak`) holds under AArch64's.

### 2.2 EpdcShim

The mailbox variables `posted, seen, verdict` stand for the mapping (that is what `IsMailbox`
justifies, see the limits in section 5); `frame` says for each pixel which frame drew it last, and
`ebc` which frame the driver's buffer shows there. A commit is one action per way through
`drmModeAtomicCommit`: `TestOnly`, `CommitDisabled`, `CommitNothingNew`, `CommitThrottled`,
`CommitInjects`, the last with an outcome. Each begins with `RefreshTunables` and ends with the
reset of `pend`. `AddProperty` records one object; the properties other than `FB_ID` are of no
consequence. `LookUpAll` is `lookup` for each recorded object in turn: `Looked(answers)` is the cache
after the loop, with what the driver answers for each object; with `LookupMayFail` the enumeration
of an object's properties may fail, which the cache then keeps. `Hash` is the commit's 32-bit
signature of a request, wrap included (`Signature` is that of `pend`). Different
requests may have the same one. `HashTells` says that of the requests there are (`Requests`) none has
the signature of one that shows another framebuffer, and TLC evaluates it for the run's objects.
`Drive` is the waveform and update
mode `init_parms` chooses: the fast waveform while the screen moves (`Moving`: the last update is
less than `fastms` old), the quality one with a flash when the clean is due. `Cleans` says that an
update cleans the panel: all of it, in the quality waveform, with a flash. `init_parms` counts updates
before the commit, which may then fail or name no plane that takes the properties. `Residue` keeps the
account of the panel itself: `rough` counts the updates that reached it since the last clean that did,
made while `fullevery` is not 0, and `missed` says how many of them came before a clean that was due
and did not reach it.

Assumed of the surroundings: SurfaceFlinger composes the next frame after the commit of the one
before; the commit that shows a frame names the plane; a request that was only tested is
assembled anew before it is committed; a composer request has no more than `MAX_OBJ` objects.
Left out: the flags and the waveform's number, which pass through; the parsing of property values.

### 2.3 EpdcSettle

The commit thread's steps are those of the code: `Refresh` is the reading of the tunables, which every
commit begins with, also one that draws nothing or is throttled; one that draws goes on with `Stamp`
(`last_inject_ms`), `Flag` (`g_settle_pending` and the thread) and `RealCommit` (the ioctl). They
interleave with the settle thread's, which reads one shared variable at a time: `WakeUp` (`t_settlems`
is not 0), `SeePending`, `ReadStamp`, `Decide` (`t_settlems` again, against the quiet time), `Clear`,
and `SettleNow` or `SettleOpenFails`. `Tick` moves the clock. The panel carries an update out for
`UpdateTime`, a commit takes at most `CommitTime` from its time stamp to the driver. `hurried` and
`refused` are history: a settle was let through because `settlems` had become 0 by the second read, and
how often `/dev/ebc` did not open.

### 2.4 LpSpace, LpLayout and LpResize

`LpLayout` has one variable, the extents of each partition, and one action: append what is
missing, taken from behind the last extent of all. `LpResize` holds the two metadata copies on
the device, in the dump and in the output, as tables with indices (`parts`, `exts`); `Patched` is
`patch_slot`, `PatchBoth` the loop over the copies. A copy without magic is one the parser
rejects. `Live` is the copy liblp goes by, and `LayoutOf(Live(super))` is the refinement mapping.
`SizeOf`, `Used` and `NewExts` are the code's sums and its loop over the partitions, as recursive
functions; `GroupSize` of the promise counts the sectors of a group instead, so that the two are
independent. Every table the slot may have at first is `WellFormed`: each partition is there once,
with its extents cut from the table in order, apart, inside `super` and within the group's limit, as
liblp writes them. The script does not check that (it looks at the magic only), so it is an
assumption (`ResizeAssumption`) and not a guard.
Checksums are not modelled: they are recomputed with every patch, and the script itself reads a
copy by its magic. A copy fits one sector of the device and is written whole or not at all.

The operator is assumed to follow docs/08: dump immediately before patching (`Fresh`), so the
output is written over what was dumped, or over what an interrupted write back made of it.

### 2.5 SuperFlash

`dev` says for every 512-byte unit of `super` what it holds. `Pieces` is the plan of
`flash-logical-via-edl.py`, `RunWrites` the plan of `edl-delta-flash.py`, with `Coalesced` its loop
over the changed sectors; a write is carried out
whole (`WriteOk`) or in part (`WriteFails`). `Grow` appends an extent behind the operator's back,
and `dump` is what `lpdump.txt` still says. Assumed: edl fills the last sector of a file with
zeroes; the operator keeps the image that was flashed last and passes it as `old.img` (`base`),
and after a failed full flash does a full flash again; the extents a partition has at first lie
within `super` and apart (`FlashAssumption`), which is what `LpResize` keeps true of them.

### 2.6 BootUnlock

The device is two ABLs, two overlays, `devinfo`, the active slot and what runs on it; `dirs` are
the backup directories, with the last command of `edl-backup.sh` that finished and the receipt;
`job` is the script that runs, one at a time, with its next command; `told` is how the last one
ended. Every command that changes the device is an action. An `edl` command has one of the
outcomes of `EdlWrites` and `EdlReads`: it does what it should; it fails, before, within or after
the write; it says it succeeded and left or read something else; or, where `land` is false,
writes are accepted and nothing changes. `Stop` ends a script anywhere, as a failing command does
under `set -e`. `write_verified` is `WriteAbl`, `VerifyAbl` and `UndoAbl`, first for slot a, then
for slot b, in the phase `swap` and again in the phase `restore`. `Matches` compares with the
image over its length, as the hashes do.

`VerifyStart` is told which slot is active and does not ask the device, as
`edl-verify-restore.sh:27` takes `ACTIVE_SLOT_OVERRIDE` or b: gate 3 may rewrite, and spoil, the overlay
of either slot.

Assumed of the surroundings: the image of Fairphone's ABL is good; what a dump holds is what the device
held, but files may be missing, and all files may rot while no script runs; the operator restores by
hand only on a device whose writes land; a slot boots with either whole ABL and Onyx's overlay. Any
change of the lock state costs the data and with it USB debugging (docs/02), which the operator may
enable again.

### 2.7 EbcTools and EbcProbe

A tool is a script: a sequence of lines announced (`Say`), lines with a result (`Tell`), steps whose
failure is reported and passed over (`Do`) and steps whose failure ends the tool (`Must`). A step is
an ioctl by its number, or a use of the mapping. `ebcprobe(stage)`, `ebcpush(stage)` and
`ebcinit(only)` are the three `main`s that journal; `UpTo` is their row of `if (stage == n) return 0`,
with what a number that is no stage does. `ebctool`, `ebcrefresh` and `ebcfb` announce nothing.

`EbcProbe` runs such scripts. `Jot` is `jot` up to its `write`, `Sync` its `fsync`; between them, and
at any other time, `WriteBack` may do the same. `written` and `durable` are the last line of the log
and the last that would survive the power going. `Return` is a step that comes back, `Fail` one that
ends the tool (which still has a line to write, `pc = 0`), `Hang` one of the steps in `fatal`, which
nobody knows. With `Late` a step is accepted and hangs the device any time afterwards. `PowerCycle` is
the operator: he holds what the last line announces to be fatal (`accused`) and `Start`s no plan with
such a step again; plans are run "lowest first", as the headers say. With `LogMayFail` the log may not
open, and a write may be lost.

`begun` and `survived` are history: the steps the present run has started on, and all that ever
returned. `Harmless` is what has been done to the device before these tools, and `Staged` says of the
plans that each stage has at most one step beyond that and the stages before it. The plans of
`EbcTools` are so: `ProbeSafe.cfg` passes with `INVARIANT Staged`. It is not an assumption of the
module, since a plan that is not `Staged` is a fault of the tools, which `OneNewStep` is to show.

Assumed of the surroundings: the tools run one at a time, on the log they are given; a power-off
keeps what was synced; opening the device and reading the geometry have been survived before
(`survived`), as `ebctool info` has shown. Left out: what the answers contain, the patterns drawn, the
sizes.

### 2.8 EbcPtrace

The threads and the kernel's side of ptrace are external actions: `Call` and `Return`, with a stop at
each if the tracer asked for it (`sysc`); `Clone`, which stops both threads when the parent is traced
and has the new one traced too; `TakeTrap`, the stop that PTRACE_INTERRUPT asks for; `TakeSignal`,
which stops a traced thread before it takes a signal; `Die`. A signal sent (`Kill`) is of the kind
"trapping" if it is a SIGTRAP or SIGSTOP: `PollOther` takes such a stop for one of ptrace's own and
resumes the thread with signal 0. The EBC ioctl waits for a buffer that
another thread in user space gives back (`CanReturn`). `Interruptible` says whether the wait ends when
the thread is to stop; stopping for a trap is then all it does.

`Seize`, `Interrupt` and `WaitStop` are `attach_all` for the next thread of the directory, which is
read while threads come and go. It is read in batches, and on by position: what is started is still to
come, but once a thread has exited (`gap`) any of those that follow may be passed over, and the
directory may end early; `ResumeAll` is the loop after it; `PollSyscall` and `PollOther` are the
two ways through the polling loop, for any thread that is stopped (`waitpid(-1)`); `Deadline`,
`Detach` and `Exit` the way out. `in_syscall` is indexed by the thread id modulo `MAXTID`, as in the
code. `logged`, `watched` and `first` are history: whose present call has been logged, who stopped
where that call began, and what a thread was stopped for when it was attached to.

Assumed of the kernel: the directory lists threads in the order in which they were started, which the
ids stand for, and all of them as long as none exits; the death of the main thread is reported once the
others are gone (`Reported`). Left out: group stops (a SIGSTOP to the whole process), exec, the reading
of registers and memory, which is taken to succeed.

## 3. The runs

All on two workers; the passing ones take between a few seconds and about two and a half minutes.

| run | bounds | question |
|---|---|---|
| `PanelRects` | panel of 2 x 1 pixels, up to 3 rectangles from one pixel outside of it to one pixel outside, two of them empty or turned inside out, room for 2 | is what reaches the kernel acceptable, does it cover the damage, and no more |
| `ShmOrdered` | 3 frames of four kinds (none, one, full array, overflow), 2 attempts, retry every 2 commits, one composer restart | is the mapping a mailbox, is no read torn, does every read end |
| `ShmWeak` | 2 frames of three kinds, one SurfaceFlinger restart, AArch64's order | is the last publication acted on |
| `ShimPolicy` | 2 pixels, 2 frames and idle commits, 3 updates, 2 ticks, plane and one other object, settings that differ in switch, interval, fullevery and waveform and may change at every commit, failing commits | is a committed frame in the buffer, is the panel cleaned in time |
| `SettleSafe` | 3 draws begun up to time 7, settlems 4 or off and changed with any commit, update 3, commit 1, time 12, open may fail | markers, settles against draws, is the screen redrawn once it is still |
| `FlashSafe` | super of 6 sectors of 2 units, 5 layouts, 10 images, 3 flashes, growth | are only own sectors written, is the image there, old or new |
| `UnlockSafe` | 2 backup directories, 2 faults, writes that land and that do not, both active slots, gate 3 with either slot | does the way back exist before it is needed, is what the device resets into read back, does it boot, does a locked device keep Fairphone's ABL |
| `LpSafe` | 3 partitions in 2 groups, 2 tables, either copy unreadable at first, 4 sizes, 4 runs | tables, overlap, groups, both copies, and refinement of `LpLayout` |
| `ProbeSafe` | all stages of the three probes, one number beyond the last, and a run of each other command, three assignments of one or two fatal steps, 1 failure | does the log name the step that hung, is nothing else blamed, is there one new step per run, does the operator get there |
| `PtraceSafe` | 2 threads and 1 to be cloned, 1 signal of either kind, all of them traced | is every thread traced unless one exits meanwhile, every call logged before it goes ahead, every signal but SIGTRAP and SIGSTOP handed on, is the process left running |

Why these are enough: a torn read needs one publication over another and a reader in between, two
frames, and the third shows a second reading after one. Three rectangles in room for two reach the
overflow. A missed clean needs two updates, and the third shows one that was lost with its commit. A
settle that collides needs a draw before and after it, the third draw shows what a flag that was lost
does. Three image sectors give a run that crosses an extent and one that does not, with the last sector
cut short. Two partitions in one group and one outside it give the group's limit, the shift of indices
and the tail. Two backup directories are needed for a second backup taken while Fairphone's ABL is
installed; two faults for a write that goes wrong and the read back, the undo or the re-run that goes
wrong after it. The probes' plans are all there are; two fatal steps are needed for a second hang after
one was found, one that is fatal in a tool without a log for a line of an earlier run to be blamed. Two
threads and a third show a clone by a thread already attached to and by one not yet, and a thread that
waits for one that is stopped.

`ShimPolicy` and `UnlockSafe` are checked under a `VIEW` that leaves out what no later step and no
property of the run looks at: the tunables and the verdict of the last commit, which the next one
replaces before it looks; and how the last script ended.

Two runs end in a violation, each of a sentence of the repository's own:

| run | shows |
|---|---|
| `ShmWeakTorn` | with AArch64's order the odd sequence number does not hold back the stores behind it, nor the last load of `seq` the loads in front of it: a torn read is accepted. The code wants a fence after the odd store and one before the second load |
| `FlashSpill` | a run of changed sectors across the end of an extent is written past it |

Further configurations lie beside the runs; they are not part of the regular ones. Each of these has a
counterexample to what a comment says, or shows what a run's result depends on:

| configuration | module | violates | because |
|---|---|---|---|
| `ShimThrottle.cfg` | `MCEpdcShim` | `SeenIsInBuffer` | a commit inside `interval` returns after its damage was marked as seen; the damage is never refreshed |
| `ShimIdle.cfg` | `MCEpdcShim` | `IdleIsQuiet` | an empty region is published as `full = 1` under a new number, and drives the whole panel |
| `ShimSkipSame.cfg` | `MCEpdcShim` | `BufferIsFrame` | `last_fb_sig` is not kept up while `skipsame` is off |
| `ShimLookup.cfg` | `MCEpdcShim` | `BufferIsFrame` | an enumeration of properties that failed once is remembered as "not a plane", and the plane is never driven again |
| `ShimPolicy.cfg` with `PROPERTY CleanMadeUp` | `MCEpdcShim` | `CleanMadeUp` | a clean is counted as done before its commit, which then fails: the next one is due `fullevery` updates later |
| `ShmFirstFull.cfg` | `MCDamageShm` | `FullPassFirst` | the header's `full = 1` is overwritten by the frame that made the mapping |
| ... with `INVARIANT AttachIsSafe` | | `AttachIsSafe` | the shim may map the file between `open` and `ftruncate`; the first access faults |
| `ShmRestartMiss.cfg` | `MCDamageShm` | `NoFrameMissed` | a restarted SurfaceFlinger counts from 2 again, and a new publication gets the number last seen |
| ... with `SPECIFICATION CommitSpec` and `PROPERTY LastFrameIsAlwaysSeen` | | `LastFrameIsAlwaysSeen` | and if nothing is published after it, it is never acted on |
| `SettleMarkers.cfg` | `EpdcSettle` | `MarkersUnique` | the two marker counters collide as soon as `settlems` is shorter than an update, as docs/18 has it (400 against about 450 ms) |
| `SettleSafe.cfg` with `INVARIANT Unique` | `EpdcSettle` | `Unique` | `t_settlems` is 0 when the thread reads it again: no time is less, and the settle falls into a running update with its marker |
| `SettleForgets.cfg` | `EpdcSettle` | `StillIsClean` | `g_settle_pending` is reset for a draw the settle does not cover |
| ... with `PROPERTY SettlesWhenQuiet` | | `SettlesWhenQuiet` | a draw between the check of the quiet time and the ioctl |
| `SettleOpen.cfg` | `EpdcSettle` | `StillIsClean` | `/dev/ebc` does not open, after the pending settle was cleared. With one draw this is the only cause: the same configuration with `OpenMayFail = FALSE` passes |
| `LpSafe.cfg` with `INVARIANT BothUpdated` | `MCLpResize` | `BothUpdated` | after an interrupted write back another request patches the copies differently |
| `UnlockReceipt.cfg` | `MCBootUnlock` | `ReceiptProvesWrites` | `edl-verify-restore.sh` writes what the overlay already holds, so where writes do not land the comparison passes and the receipt is written. The unlock notices by itself: its own read back differs |
| ... with `INVARIANT NothingToDo` | | `NothingToDo` | after an attempt that unlocked and stopped before the restore, "Nothing to do?" with Fairphone's ABL in place |
| ... with `INVARIANT LockedMeans` | | `LockedMeans` | `grep -q` under `pipefail`: an unlocked device reported as locked |
| `UnlockFail.cfg` | `MCBootUnlock` | `FailStops` | a FAIL leaves an earlier receipt, which opens gate 3 |
| ... with `PROPERTY OriginalState` | | `OriginalState` | "original state" is said whether or not the two writes back succeeded, and after the wipe too |
| ... with `INVARIANT ActiveOverlayKept` | | `ActiveOverlayKept` | `edl-verify-restore.sh` takes slot b for the active one and does not ask: on a device that runs from a, a write that fails spoils the overlay it boots with. It says "Target: the INACTIVE slot's device tree overlay" and "Verified at runtime below regardless" |
| `UnlockOnyxBack.cfg` | `MCBootUnlock` | `OnyxBack` | a backup taken while Fairphone's ABL was installed is restored as Onyx's |
| `ProbeSilent.cfg` | `MCEbcProbe` | `NamesTheStep` | `ebcpush` and `ebcinit` do not look at whether the log was opened, `ebcprobe` warns and goes on; none looks at what `write` returns |
| `ProbeLate.cfg` | `MCEbcProbe` | `Just` | a submission is accepted and hangs the device later: the line of another step is the last one by then |
| `ProbeSafe.cfg` with `Plan <- Mistyped` | `MCEbcProbe` | `OneNewStep` | a stage number beyond the last, typed too early, runs all the stages at once |
| `PtraceSlots.cfg` | `EbcPtrace` | `LoggedBefore` | two threads with one slot of `in_syscall` flip each other's bit |
| `PtraceFrozen.cfg` | `EbcPtrace` | `Released` | if the ioctl cannot be interrupted, `attach_all` waits for a thread that waits for one it has stopped |
| `PtraceSafe.cfg` with `INVARIANT ForwardsAll` | `EbcPtrace` | `ForwardsAll` | a SIGTRAP or SIGSTOP is taken for a stop of ptrace's own and not handed on; and the stop `attach_all` waits for may be a signal's, after which the thread is resumed with signal 0 |
| ... with `INVARIANT LogsAll` | | `LogsAll` | it may be a clone's, and the call's end is then taken for a beginning, and so on for ever |
| ... with `INVARIANT MissesNone` | | `MissesNone` | a thread that exits while the directory is read may cost one that follows it |
| ... with `PROPERTY ReleasedAlways` | | `ReleasedAlways` | the main thread exits by itself and its death is not reported: `attach_all` waits for it and the window never begins |

Where the table says "with", the named property takes the place of the configuration's own.
`UnlockTold.cfg` passes: `DoneMeans`, `PatchTold` and `SlotKept` of the unlock. The inductive
invariants of section 5 are checked before they are proved by putting `INVARIANT IInv` in the place of
the properties of `ShmOrdered.cfg`, `SettleSafe.cfg`, `ProbeSafe.cfg`, and of `UnlockSafe.cfg` with
`MaxFaults = 1` and without its view. The invariants of the other proofs stand in the proof
modules, which TLC does not read; to check one, copy it into a module that extends the `MC` module, as
was done with `ResizeInv`.

`CHECK_DEADLOCK FALSE` is set where the model really stops: the bounded number of frames, draws,
flashes or runs is used up, or there is nothing left to do. The mapping's runs have no such line:
the reader can always begin a commit.

## 4. Fairness

`DamageShm!FairSpec`: the reader's steps inside a commit (the composer's thread keeps running) and the
restart of a composer that has died (init). Nothing is assumed of SurfaceFlinger, so `ReadEnds`
includes one that stops with the sequence number odd. `CommitSpec`, which `ShmWeak` is run with, adds that
the composer keeps committing, which it does every frame; `LastFrameIsSeen` needs it. It says nothing of a
SurfaceFlinger that goes on publishing, nor of one that is restarted while the shim is attached.

`EpdcSettle!FairSpec`: time, the two threads.
Nothing is assumed about how often something is drawn. `Settles` holds although drawing may hold a
settle off for as long as it goes on, because drawing ends (`LastDraw`); "once drawing stops" is part
of what it says. It is about draws whose flag is up when their commit is over: one whose flag was lost
to `Clear` is what `SettleForgets` shows. And it lets the screen stay as it is if `/dev/ebc` does not
open, the pass is switched off or its thread could not be started.

`EbcProbe!Fairness`: a tool that
runs goes on, step by step; a step that is begun returns or hangs; the operator power-cycles after a
hang and does not give up starting runs. `Diagnosed` needs all of it, and no more: nothing makes the
kernel write back, or a step fail.

`EbcPtrace!Fairness`: the kernel lets each thread go on with what it
is in the middle of, the tracer goes on, and its deadline passes. Nothing makes a thread make a call or
end, and the kernel may return a call or not where both are possible. `Released` has the premise
`MainIsLast`, that the main thread does not exit before the others, which nothing in the kernel rules
out; `ReleasedAlways` is without it.

## 5. What is proved

For every panel, number of rectangles, attempts, retry interval and frames:

* `ShmTypeCorrect`: with either memory order and any restarts.
* `ShmNoTornRead`, `ShmAttachedToHeader`, `ShmIsMailbox`: with `Ordered` and no restart of
  SurfaceFlinger. `ShmWeakTorn` and `ShmRestartMiss` show that neither assumption can go. The
  invariant is `IInv`, which `ShmOrdered` checks too. That no read is torn does not follow from
  itself: `WriterInv` says that stores drain in order and `seq` is odd exactly between the first
  and the last; `ContentInv` what the mapping holds at each point of that; `ReaderInv` that as
  long as `seq` has not moved, all that was loaded is still there; `ChangeInv` that
  `last_dmg_seq` names the current publication exactly when it was taken, which makes the
  implementation's "unchanged" the mailbox's.
* `SettleTypeCorrect`, `SettleAnswersDraws`, for whatever `settlems` is and is changed to, and any
  timing: the settle marker lags behind the draws' (`LagInv`).
* `SettleMarkersUnique`, for a `settlems` that is 0 or at least an update and a commit together
  (`LongEnough`), until a settle is let through by switching the pass off (`hurried`). When a settle is
  sent, all draws that still run are newer by more than its lag, since none of them began less than
  `settlems` ago; as the thread reads the time of the last draw first and decides later, this is said of
  the time it read (`TimeInv`, `AheadInv`). `SettleMarkers`, and `SettleSafe` with `Unique`, show that
  neither limit can go.
* `UpdateRectsAccepted`, `UpdateRectsCover`: of any input, inside the panel or not, turned inside
  out or not. `PathDamageIsRefreshed`, `PathKernelAccepts`, `PathNoOverRefresh` say the same of the
  whole path, from a dirty region with any number of rectangles to what the kernel gets: more
  rectangles than the array holds become the region's bounds, which cover it (`BoundsHold`).
* `ShimTypeCorrect`, `ShimTouchesOnlyRequested`, `ShimCleanInTime`: of the shim's commit path, for any
  objects, limits and settings, with lookups and commits that fail. The first two rest on
  `RequestedOnly` (nothing is recorded that is not in the request being assembled), which fails as soon
  as one way through the commit forgets to reset `pend`; the third on `RoughCounted` (the code's counter is
  never behind the number of updates the panel has had since a clean, or since one that was lost with its
  commit, though `fullevery` changes in between).
* `ShimBufferIsFrame`: the frame that was committed is in the driver's buffer. The invariant
  (`BufferInv`) says that only what a frame that is due has damaged may be out of date
  (`StaleIsDamage`), that the damage of such a frame is posted and not seen yet (`DueIsUnseen`), and
  that the signature remembered is not that of a framebuffer with something new in it (`SigIsOld`).
  Assumed is `Sound`: no enumeration of properties fails (`ShimLookup` shows what else), the objects
  fit into `c_obj` and `pend` (`FewObjects`), `skipsame` is never turned off (`AlwaysSkips`;
  `ShimSkipSame`), and the signature tells requests apart (`HashTells`, section 2.2).
* `FlashOnlyOwnSectors`, `FlashDeviceIsBase`, `FlashOldOrNew`: for any extents, images, and points at
  which a write stops, as long as no run of a delta leaves its extent (`~MayCross`; `FlashSpill` shows
  why). `Where` is one to one on the units of the extents (`WhereInjective`); every write of either
  plan puts each unit of the image where the extents have it (`PiecesArePlaced`, `RunWritesArePlaced`);
  the writes left to do hold all
  that is not there yet (`Progress`); and an `lpdump.txt` that is older than the partition still names
  a prefix of its extents (`DumpIsOld`). `RunsAreTheChanged`: the runs of a delta hold the sectors that
  differ, and no other.
* `UnlockTypeCorrect`, `UnlockBackupBeforeSwap`, `UnlockResetVerified`, `UnlockFairphoneHeld`,
  `UnlockSlotKept`, `UnlockScriptBoots`, for any number of directories and faults, and writes that land
  or do not. The invariant says more than the properties in three places: while the unlock runs its
  directory still passes the gates and its slot is still the active one (`JobInv`); when slot b is
  being written, slot a holds what was read back (`SwapInv`), which no later write or read disturbs;
  and until there is a complete, tried backup, nothing but Onyx's ABL is on the device or in any backup
  (`BackedInv`), so that the first backup to pass the gates is one of it. That what the script resets
  into comes up rests on the overlay too, which gate 3 may have spoiled in either slot: but gate 5 asks
  Android, and Android runs only over a whole overlay of the active slot, which nothing rewrites from
  there to the reset (`OverlayInv`). Gate 3 itself promises more than that, and does not keep it
  (`UnlockFail` with `ActiveOverlayKept`).
* `ProbeTypeCorrect`, `ProbeNamesTheStep`, `ProbeJust`, for any tools whose plans announce every step
  right before it (`Announced`, which TLC evaluates on the plans of `EbcTools`), any steps that hang,
  any number of failures; the last two where the log works and no step hangs the device later than it
  runs (`LogsWork`; `ProbeSilent` and `ProbeLate` show that neither can go). The invariant says where
  the log stands: inside a journalled run all that has been said is on flash, and that is the
  announcement of the step at hand (`SyncedInv`); outside of one, and as one begins, the log announces
  nothing the operator does not know of already (`KnownInv`). The second is why a failure must be told:
  a hang of a tool without a log is followed by a look at the same last line.
* `ProbeOneNewStep`: a run of the staged tools does at most one thing that no run has lived through, for
  any plans that are `Staged`, whether or not the log works, as long as no step hangs the device later
  (`Late = {}`; with it, a run that came to its end has not been lived through). The invariant
  (`StageInv`) is that the stages below the next one have been.
* `PtraceTypeCorrect`, `PtraceAllTraced`, `PtraceLoggedBefore`, `PtraceForwarded`, for any threads,
  calls and signals: `AllTraced` as long as none exits during the attaching, `Forwarded` of signals
  other than SIGTRAP and SIGSTOP. All but the first assume that `tids` has room for as many threads as
  there ever are (`Room`) and that no two of them share a slot (`Distinct`, which a `pid_max` of up to
  65536 gives; `PtraceSlots` shows the rest). That threads started during the attaching are traced
  rests on the order of the directory: a thread started by one that is not traced yet is listed after
  all there were, so what is untraced is still ahead of `pos`, unless a thread has exited and others
  were passed over (`BornInv`, `OrderInv`, `SeizedInv`). That a call is logged rests on parity: for a
  thread not first stopped inside a clone, its bit in `in_syscall` says whether it is inside a call, at
  each stop of every kind (`ParityInv`, `WatchInv`). Signals are lost only in the first resumption
  (`HeldInv`, `LostInv`).
* `LayoutSound`, `LayoutKeepsData`, `LayoutStaysOnSectors`: of `LpLayout`, for any number of
  partitions, groups, sizes and any sound layout at the beginning.
* `ResizeTypeCorrect`, `ResizeTablesTile`, `ResizeCopiesSound`, `ResizeRerunAgrees`, for any tables that
  are `WellFormed` at first, any requests and interruptions. The invariant (`ResizeInv`) says that
  every copy with a magic, on the device, in the dump and in the output, is well formed; that the three
  have the same readable copies (`SameMagic`); that the output is the dump or what the script makes of
  it with arguments it was given (`ScriptRan`); and that with a single request each copy is as
  liblp wrote it or the script's patch of that (`OneRun`), which a second run leaves as it is
  (`PatchedSuffices`).
  Under it lies `PatchedWellFormed`: cutting the new table by the new indices gives back the
  plan (`RebuildHas`), and appending behind the last extent changes no other partition (`PatchedLayout`).
* `ResizeLiveGrows`: `LpResize` implements `LpLayout`. The dump and the script's run are stutters,
  since the device does not change; a write back, whole or of the primary copy alone, is one `Grow` or
  a stutter (`LiveSteps`), since `Fresh` leaves nothing else on the device. So `LpLayout`'s theorems
  hold of what liblp sees (`ResizeKeepsData`).

With these every safety invariant and every action property that a passing run checks is proved.

What the recursive functions compute (the sums, the offsets, the coalescing, the concatenation of
tables, the hash) is proved by induction on their length, from the definition. The library's induction
theorems cannot be used for that, as they take an operator; `NatInduct` takes a set of numbers in its
place, and `RecursionExists` gives the function a definition by recursion stands for. Both come from
there being a least number in a set of numbers, and that from strict inclusion being well founded on
finite sets (`FS_StrictSubsetOrderingWellFounded`). `EpdcShimProofs`, `SuperFlashProofs` and
`LpResizeProofs` each begin with these few lemmas.

Only model-checked: liveness, which is out of the proof system's reach (`ReadEnds`, `LastFrameIsSeen`,
`Settles`, `Diagnosed`, `Released`); `DoneMeans` and `PatchTold` of `BootUnlock`, which
`UnlockTold.cfg` checks; and that the assumptions on plans, signatures and first tables
(`Announced`, `Staged`, `HashTells`, `WellFormed`) hold of the instances.

## 6. Not modelled

Everything marked `not_modelled` in `PROJECT.json`, with the reason there. Within the modelled
parts: the 2^31 wrap of `g_parms[0].update_marker`; the descriptor and mapping that a failed
attach leaves behind; the one-time lookup of libdrm's functions in the shim; 64-bit and
text parsing in the scripts; the other metadata slots, which are copied unchanged; group stops of a
traced process.

## 7. Plan

Done in this order, the most important first: `PanelRects`, `DamageMailbox` with `DamageShm` and
its proofs, `EpdcShim`, `EpdcSettle` and its proofs, `SuperFlash`, `LpLayout` with `LpResize`,
`BootUnlock` and its proofs, `EbcTools` with `EbcProbe` and its proofs, `EbcPtrace` and its proofs;
then the proofs of `DamagePath` and `EpdcShim`, of `SuperFlash`, and of `LpResize`.

Next:

1. The remote build (`builder.sh`, `sync-to-builder.sh`, `entrypoint.sh`): two operators, the
   check for a running build, the pid file of the resync loop.
2. The boot patchers' page arithmetic, as operators checked against a reference parser.
3. Composition: `LpResize` under `SuperFlash` (a table that grows between two deltas), `DamageShm`
   under `EpdcShim` for the weak order (a torn read followed to the panel).
4. Proofs: `DoneMeans` and `PatchTold` of `BootUnlock`, from its invariant; and, of any sequence of
   requests, what `BothUpdated` fails to say: that copies that differ differ in one patch.
