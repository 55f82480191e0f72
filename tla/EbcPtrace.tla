------------------------------ MODULE EbcPtrace ------------------------------
(***************************************************************************)
(* The ptrace tracer (src/ebcptrace.c) and the threads it traces: it       *)
(* attaches to every thread of a running process, lets them run from one   *)
(* system call to the next, logs the EBC ioctls they enter, hands on their *)
(* signals, and is gone after a bounded time.                              *)
(*                                                                         *)
(* The threads and what the kernel does for a tracer are external: a       *)
(* traced thread stops when it enters and leaves a call, once the tracer   *)
(* has asked for that, inside a clone, before it takes a signal, and on    *)
(* request (trap). It stays stopped until the tracer resumes it.           *)
(***************************************************************************)
EXTENDS Integers, Sequences, FiniteSets

CONSTANTS
  Pids,           \* the thread ids, handed out in order
  Initial,        \* the threads there are when the tracer starts
  MainOnly,       \* main_only
  MaxTids,        \* the size of tids, 4096
  MAXTID,         \* the size of in_syscall
  Interruptible,  \* whether the ioctl that waits for a buffer can be interrupted
  MaxSignals      \* bound on the signals sent

ASSUME PtraceAssumption ==
  /\ Initial \subseteq Pids /\ Pids \subseteq Nat \ {0}
  /\ \A t \in Initial, u \in Pids \ Initial : t < u
  /\ MaxTids \in Nat \ {0} /\ MAXTID \in Nat \ {0} /\ MaxSignals \in Nat
  /\ {MainOnly, Interruptible} \subseteq BOOLEAN

VARIABLES
  life,     \* "unborn", "alive" or "dead"
  call,     \* the call the thread is in: "none", "ebc", "clone", "exit"
  stop,     \* "no", or what it is stopped for
  seized,   \* the threads that are traced
  sysc,     \* those that stop at calls: resumed with PTRACE_SYSCALL
  trap,     \* those asked to stop by PTRACE_INTERRUPT
  sig,      \* the signal sent to it: "none"; "pending"; "trapping", a SIGTRAP or
            \* SIGSTOP that is pending; "taken"; "lost"; "dropped", lost as one of these
  tpc,      \* what the tracer does next
  pos,      \* attach_all: the last thread read from the directory
  gap,      \* a thread has exited since the directory was opened
  tids,     \* the threads attached to
  k,        \* index in tids
  in_syscall,
  logged,   \* history: the threads whose present call has been logged
  watched,  \* history: the threads that stopped where their present call began
  first     \* history: what the thread was stopped for when it was attached to

threads == <<life, call, stop, sig, watched>>
tracing == <<seized, sysc, trap>>
tracer  == <<tpc, pos, tids, k, in_syscall, logged, first>>
vars == <<threads, tracing, tracer, gap>>

Slot(t) == t % MAXTID

\* The thread the process is named after.
Main(t) == t \in Initial /\ \A u \in Initial : t <= u

Init ==
  /\ life = [t \in Pids |-> IF t \in Initial THEN "alive" ELSE "unborn"]
  /\ call \in [Pids -> {"none", "ebc"}] /\ \A t \in Pids \ Initial : call[t] = "none"
  /\ stop = [t \in Pids |-> "no"] /\ sig = [t \in Pids |-> "none"]
  /\ seized = {} /\ sysc = {} /\ trap = {} /\ watched = {}
  /\ tpc = "list" /\ pos = 0 /\ gap = FALSE /\ tids = <<>> /\ k = 1
  /\ in_syscall = [n \in 0 .. MAXTID - 1 |-> FALSE]
  /\ logged = {} /\ first = [t \in Pids |-> "none"]

-----------------------------------------------------------------------------
(* The threads. *)

Runs(t) == life[t] = "alive" /\ stop[t] = "no"
InUser(t) == Runs(t) /\ call[t] = "none"

Call(t, what) ==
  /\ InUser(t) /\ t \notin trap
  /\ call' = [call EXCEPT ![t] = what]
  /\ stop' = [stop EXCEPT ![t] = IF t \in sysc THEN "entry" ELSE "no"]
  /\ watched' = IF t \in sysc /\ what = "ebc" THEN watched \cup {t} ELSE watched
  /\ UNCHANGED <<life, sig, tracing, tracer, gap>>

\* Mutant: PTRACE_O_TRACECLONE is not set.
CloneUntraced(t) ==
  \E u \in Pids :
    /\ Runs(t) /\ call[t] = "clone"
    /\ life[u] = "unborn" /\ \A v \in Pids : v < u => life[v] # "unborn"
    /\ life' = [life EXCEPT ![u] = "alive"]
    /\ call' = [call EXCEPT ![t] = "cloned"]
    /\ UNCHANGED <<stop, sig, watched, tracing, tracer, gap>>

\* A new thread of a traced one is traced, and both stop.
Clone(t) ==
  \E u \in Pids :
    /\ Runs(t) /\ call[t] = "clone"
    /\ life[u] = "unborn" /\ \A v \in Pids : v < u => life[v] # "unborn"
    /\ life' = [life EXCEPT ![u] = "alive"]
    /\ call' = [call EXCEPT ![t] = "cloned"]
    /\ stop' = IF t \in seized THEN [stop EXCEPT ![t] = "clone", ![u] = "event"] ELSE stop
    /\ seized' = IF t \in seized THEN seized \cup {u} ELSE seized
    /\ UNCHANGED <<sig, watched, sysc, trap, tracer, gap>>

\* The EBC ioctl waits for a buffer that another thread gives back.
CanReturn(t) ==
  \/ call[t] \in {"clone", "cloned"}
  \/ call[t] = "ebc" /\ Interruptible /\ t \in trap
  \/ call[t] = "ebc" /\ \E u \in Pids \ {t} : InUser(u)

Return(t) ==
  /\ Runs(t) /\ CanReturn(t)
  /\ call' = [call EXCEPT ![t] = "none"]
  /\ stop' = [stop EXCEPT ![t] = IF t \in sysc THEN "exit" ELSE "no"]
  /\ watched' = watched \ {t} /\ logged' = logged \ {t}
  /\ UNCHANGED <<life, sig, tracing, tpc, pos, tids, k, in_syscall, first, gap>>

Die(t) ==
  /\ Runs(t) /\ call[t] = "exit"
  /\ life' = [life EXCEPT ![t] = "dead"]
  /\ gap' = (gap \/ tpc \in {"list", "interrupt", "wait"})
  /\ UNCHANGED <<call, stop, sig, watched, tracing, tracer>>

Kill(t, s) ==
  /\ life[t] = "alive" /\ sig[t] = "none"
  /\ Cardinality({u \in Pids : sig[u] # "none"}) < MaxSignals
  /\ sig' = [sig EXCEPT ![t] = s]
  /\ UNCHANGED <<life, call, stop, watched, tracing, tracer, gap>>

\* On its way back to user space a thread stops if it was asked to, and else takes
\* its signal, which a traced one does only once the tracer lets it.
TakeTrap(t) ==
  /\ InUser(t) /\ t \in trap
  /\ trap' = trap \ {t}
  /\ stop' = [stop EXCEPT ![t] = "event"]
  /\ UNCHANGED <<life, call, sig, watched, seized, sysc, tracer, gap>>

TakeSignal(t) ==
  /\ InUser(t) /\ t \notin trap /\ sig[t] \in {"pending", "trapping"}
  /\ IF t \in seized THEN stop' = [stop EXCEPT ![t] = "signal"] /\ UNCHANGED sig
                     ELSE sig' = [sig EXCEPT ![t] = "taken"] /\ UNCHANGED stop
  /\ UNCHANGED <<life, call, watched, tracing, tracer, gap>>

-----------------------------------------------------------------------------
(* The tracer. *)

\* ptrace resumes a stopped thread; the signal it was about to take is lost unless
\* it is of those that are handed back.
Release(t, handed) ==
  /\ stop' = [stop EXCEPT ![t] = "no"]
  /\ sig' = IF stop[t] # "signal" THEN sig
            ELSE [sig EXCEPT ![t] = IF sig[t] \in handed THEN "taken"
                                    ELSE IF sig[t] = "trapping" THEN "dropped" ELSE "lost"]

PtraceSyscall(t, handed) ==
  /\ Release(t, handed)
  /\ sysc' = sysc \cup {t}
  /\ UNCHANGED <<life, call, watched, seized, trap, gap>>

\* What readdir may still come to: the threads in their order, those included that were
\* started since. It reads ahead and goes on by position, so once a thread has exited
\* any of those that follow may be passed over.
Listed == {t \in Pids : life[t] = "alive" /\ t > pos /\ (MainOnly => Main(t))}

\* attach_all: the next thread of the directory is seized, unless it is traced.
Seize(t) ==
  /\ tpc = "list" /\ Len(tids) < MaxTids
  /\ t \in Listed /\ (gap \/ \A u \in Listed : t <= u)
  /\ pos' = t
  /\ IF t \in seized THEN UNCHANGED <<seized, tpc>>
                     ELSE seized' = seized \cup {t} /\ tpc' = "interrupt"
  /\ UNCHANGED <<threads, sysc, trap, tids, k, in_syscall, logged, first, gap>>

Interrupt ==
  /\ tpc = "interrupt"
  /\ IF life[pos] = "dead" THEN tpc' = "list" /\ UNCHANGED trap
                           ELSE tpc' = "wait" /\ trap' = trap \cup {pos}
  /\ UNCHANGED <<threads, seized, sysc, pos, tids, k, in_syscall, logged, first, gap>>

\* Mutant: the tracer does not wait for the thread to stop.
WaitNot ==
  /\ tpc = "wait"
  /\ tids' = Append(tids, pos)
  /\ first' = [first EXCEPT ![pos] = stop[pos]]
  /\ tpc' = "list"
  /\ UNCHANGED <<threads, tracing, pos, k, in_syscall, logged, gap>>

\* The death of a thread is reported, that of the main thread once the others are gone.
Reported(t) == life[t] = "dead" /\ (Main(t) => \A u \in Pids : life[u] # "alive")

\* Any stop ends the wait.
WaitStop ==
  /\ tpc = "wait"
  /\ Reported(pos) \/ stop[pos] # "no"
  /\ tids' = Append(tids, pos)
  /\ first' = [first EXCEPT ![pos] = stop[pos]]
  /\ tpc' = "list"
  /\ UNCHANGED <<threads, tracing, pos, k, in_syscall, logged, gap>>

Attached ==
  /\ tpc = "list"
  /\ Listed = {} \/ gap \/ Len(tids) = MaxTids
  /\ tpc' = IF tids = <<>> THEN "gone" ELSE "resume"
  /\ UNCHANGED <<threads, tracing, pos, tids, k, in_syscall, logged, first, gap>>

\* main: every thread attached to is let go, with signal 0.
ResumeAll ==
  /\ tpc = "resume" /\ k \in DOMAIN tids
  /\ IF stop[tids[k]] = "no" THEN UNCHANGED <<threads, tracing>>
                             ELSE PtraceSyscall(tids[k], {})
  /\ k' = k + 1
  /\ UNCHANGED <<tpc, pos, tids, in_syscall, logged, first, gap>>

StartPolling ==
  /\ tpc = "resume" /\ k > Len(tids)
  /\ tpc' = "poll"
  /\ UNCHANGED <<threads, tracing, pos, tids, k, in_syscall, logged, first, gap>>

\* A call begins or ends: which of the two, in_syscall tells.
PollSyscall(t) ==
  /\ tpc = "poll" /\ stop[t] \in {"entry", "exit"}
  /\ in_syscall' = [in_syscall EXCEPT ![Slot(t)] = ~@]
  /\ logged' = IF in_syscall'[Slot(t)] /\ stop[t] = "entry" /\ call[t] = "ebc"
               THEN logged \cup {t} ELSE logged
  /\ PtraceSyscall(t, {})
  /\ UNCHANGED <<tpc, pos, tids, k, first, gap>>

\* Mutant: the stop inside a clone is taken for the end of the call.
PollOtherToggles(t) ==
  /\ tpc = "poll" /\ stop[t] \in {"event", "clone", "signal"}
  /\ in_syscall' = [in_syscall EXCEPT ![Slot(t)] = IF stop[t] = "clone" THEN ~@ ELSE @]
  /\ PtraceSyscall(t, {"pending"})
  /\ UNCHANGED <<tpc, pos, tids, k, logged, first, gap>>

\* Mutant: no signal is handed on.
PollOtherSwallows(t) ==
  /\ tpc = "poll" /\ stop[t] \in {"event", "clone", "signal"}
  /\ PtraceSyscall(t, {})
  /\ UNCHANGED <<tpc, pos, tids, k, in_syscall, logged, first, gap>>

\* A SIGTRAP or SIGSTOP, which the stops at events look like, is not handed on.
PollOther(t) ==
  /\ tpc = "poll" /\ stop[t] \in {"event", "clone", "signal"}
  /\ PtraceSyscall(t, {"pending"})
  /\ UNCHANGED <<tpc, pos, tids, k, in_syscall, logged, first, gap>>

\* Mutant: the clock is looked at only when no thread is stopped.
DeadlineIfIdle ==
  /\ tpc = "poll" /\ \A t \in Pids : stop[t] = "no"
  /\ tpc' = "detach" /\ k' = 1
  /\ UNCHANGED <<threads, tracing, pos, tids, in_syscall, logged, first, gap>>

Deadline ==
  /\ tpc = "poll"
  /\ tpc' = "detach" /\ k' = 1
  /\ UNCHANGED <<threads, tracing, pos, tids, in_syscall, logged, first, gap>>

\* PTRACE_DETACH works on stopped threads only.
Detach ==
  /\ tpc = "detach" /\ k \in DOMAIN tids
  /\ IF stop[tids[k]] = "no" THEN UNCHANGED <<stop, sig, tracing>>
     ELSE /\ Release(tids[k], {})
          /\ seized' = seized \ {tids[k]} /\ sysc' = sysc \ {tids[k]} /\ trap' = trap \ {tids[k]}
  /\ k' = k + 1
  /\ UNCHANGED <<life, call, watched, tpc, pos, tids, in_syscall, logged, first, gap>>

\* With the tracer goes every trace of it.
Exit ==
  /\ tpc = "detach" /\ k > Len(tids)
  /\ tpc' = "gone"
  /\ seized' = {} /\ sysc' = {} /\ trap' = {}
  /\ stop' = [t \in Pids |-> "no"]
  /\ sig' = [t \in Pids |-> IF stop[t] = "signal" THEN "taken" ELSE sig[t]]
  /\ UNCHANGED <<life, call, watched, pos, tids, k, in_syscall, logged, first, gap>>

ThreadStep(t) ==
  \/ Clone(t)
  \/ Return(t)
  \/ Die(t)
  \/ TakeTrap(t)
  \/ TakeSignal(t)

TracerStep ==
  \/ \E t \in Pids : Seize(t)
  \/ Interrupt
  \/ WaitStop
  \/ Attached
  \/ ResumeAll
  \/ StartPolling
  \/ \E t \in Pids : PollSyscall(t)
  \/ \E t \in Pids : PollOther(t)
  \/ Detach
  \/ Exit

Next ==
  \/ \E t \in Pids, what \in {"ebc", "clone", "exit"} : Call(t, what)
  \/ \E t \in Pids, s \in {"pending", "trapping"} : Kill(t, s)
  \/ \E t \in Pids : ThreadStep(t)
  \/ TracerStep
  \/ Deadline

\* The kernel lets every thread go on, the tracer goes on, and time passes.
Fairness ==
  /\ \A t \in Pids : WF_vars(ThreadStep(t))
  /\ WF_vars(TracerStep) /\ WF_vars(Deadline)

Spec == Init /\ [][Next]_vars /\ Fairness

-----------------------------------------------------------------------------
TypeOK ==
  /\ life \in [Pids -> {"unborn", "alive", "dead"}]
  /\ call \in [Pids -> {"none", "ebc", "clone", "cloned", "exit"}]
  /\ stop \in [Pids -> {"no", "entry", "exit", "clone", "event", "signal"}]
  /\ sig \in [Pids -> {"none", "pending", "trapping", "taken", "lost", "dropped"}]
  /\ {seized, sysc, trap, logged, watched} \subseteq SUBSET Pids
  /\ sysc \cup trap \subseteq seized
  /\ tpc \in {"list", "interrupt", "wait", "resume", "poll", "detach", "gone"}
  /\ pos \in Pids \cup {0} /\ gap \in BOOLEAN /\ tids \in Seq(Pids) /\ k \in Nat
  /\ in_syscall \in [0 .. MAXTID - 1 -> BOOLEAN]
  /\ first \in [Pids -> {"none", "no", "event", "clone", "signal"}]
  /\ \A t \in Pids : first[t] = "no" => life[t] = "dead"

\* "Attaches to every thread of the target" (src/ebcptrace.c:10), those included that
\* are started while it attaches, by threads it has reached or not reached yet, as long
\* as none exits meanwhile.
AllTraced ==
  tpc \in {"resume", "poll"} /\ ~MainOnly /\ ~gap =>
     \A t \in Pids : life[t] = "alive" => t \in seized

\* "Logs ioctl() calls": an EBC ioctl goes ahead only once it has been logged, in
\* every thread whose first stop was not taken inside a clone.
LoggedBefore ==
  tpc = "poll" => \A t \in Pids :
     Runs(t) /\ call[t] = "ebc" /\ t \in watched /\ first[t] # "clone" => t \in logged

\* "Forward any real signal" (src/ebcptrace.c:187): while it polls, none but a SIGTRAP
\* or SIGSTOP is lost that had not stopped its thread before it was first resumed.
Forwarded ==
  tpc = "poll" => \A t \in Pids : sig[t] = "lost" => first[t] = "signal"

\* "Detaches cleanly after a bounded window": the tracer goes, and leaves no thread
\* stopped, unless the main thread exits by itself, whose death is not reported then.
MainIsLast == \A t \in Pids : Main(t) /\ life[t] = "dead" => \A u \in Pids : life[u] # "alive"

Released == []MainIsLast => <>[](tpc = "gone" /\ \A t \in Pids : stop[t] = "no")

-----------------------------------------------------------------------------
\* What the tracer says and does not keep.

\* src/ebcptrace.c:187: "so we do not alter the target's behaviour".
ForwardsAll == \A t \in Pids : sig[t] \notin {"lost", "dropped"}

\* src/ebcptrace.c:78: "Attach to every thread", whatever exits meanwhile.
MissesNone ==
  tpc \in {"resume", "poll"} /\ ~MainOnly => \A t \in Pids : life[t] = "alive" => t \in seized

\* src/ebcptrace.c:10: the window is bounded whoever exits.
ReleasedAlways == <>[](tpc = "gone" /\ \A t \in Pids : stop[t] = "no")

\* src/ebcptrace.c:10: the ioctls of every thread are logged.
LogsAll ==
  tpc = "poll" => \A t \in Pids : Runs(t) /\ call[t] = "ebc" /\ t \in watched => t \in logged

=============================================================================
