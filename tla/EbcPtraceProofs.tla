-------------------------- MODULE EbcPtraceProofs --------------------------
(***************************************************************************)
(* For any threads, as many of them and of their signals as there may be:  *)
(* no thread escapes the tracer unless one exits while it attaches, the    *)
(* ioctls it means to log go ahead only once they are logged, and the      *)
(* signals it takes while it polls, other than SIGTRAP and SIGSTOP, it     *)
(* hands on. in_syscall tells entry from exit only as long as it holds,    *)
(* for each thread that is traced, whether the thread is inside a call     *)
(* (ParityInv).                                                            *)
(***************************************************************************)
EXTENDS EbcPtrace, FiniteSetTheorems, TLAPS

\* No two threads share a slot of in_syscall, and tids has room for all of them.
Distinct == \A t, u \in Pids : Slot(t) = Slot(u) => t = u
Room     == IsFiniteSet(Pids) /\ Cardinality(Pids) <= MaxTids

Attaching == tpc \in {"list", "interrupt", "wait"}
AtPos     == tpc \in {"interrupt", "wait"}
Working   == Attaching \/ tpc \in {"resume", "poll"}

\* Ids are handed out in order.
BornInv ==
  \A t, u \in Pids : life[t] # "unborn" /\ life[u] = "unborn" => t < u

\* What a thread that is stopped is in the middle of.
StopInv == \A t \in Pids :
  /\ stop[t] # "no" => t \in seized /\ life[t] = "alive"
  /\ stop[t] \in {"event", "signal", "exit"} => call[t] = "none"
  /\ stop[t] = "clone" => call[t] = "cloned"
  /\ stop[t] = "entry" => call[t] # "none"
  /\ stop[t] = "signal" => sig[t] \in {"pending", "trapping"}
  /\ stop[t] \in {"entry", "exit"} => t \in sysc
  /\ life[t] = "unborn" => call[t] = "none" /\ t \notin seized

\* attach_all goes through the threads in the order of their ids ...
OrderInv == Attaching \/ tpc = "resume" =>
  /\ \A i, j \in DOMAIN tids : i < j => tids[i] < tids[j]
  /\ \A i \in DOMAIN tids : tids[i] <= pos /\ (AtPos => tids[i] < pos)
  /\ k >= 1 /\ (Attaching => k = 1 /\ sysc = {})
  /\ AtPos => pos \in seized

\* ... each of them stays as it was found until it is resumed ...
HeldInv == Attaching \/ tpc = "resume" => \A j \in DOMAIN tids :
  j >= k => stop[tids[j]] = first[tids[j]] /\ first[tids[j]] # "none"

\* ... and whoever is traced and not resumed yet has its turn still to come.
WaitingInv == Working => \A t \in seized \ sysc :
  life[t] = "alive" =>
    \/ stop[t] = "event"
    \/ Attaching /\ AtPos /\ t = pos
    \/ tpc # "poll" /\ \E j \in DOMAIN tids : j >= k /\ tids[j] = t

\* The threads the directory has been read past are traced, as long as none was passed over.
SeizedInv == Working /\ ~MainOnly /\ ~gap => \A t \in Pids :
  life[t] = "alive" /\ (Attaching => t <= pos) => t \in seized

LostInv == Working => \A t \in Pids :
  sig[t] = "lost" => ~Attaching /\ first[t] = "signal"

\* in_syscall says whether the thread is inside a call, except in the thread that was
\* found inside a clone, and but for the stop that has not been polled.
ParityInv == Working => \A t \in Pids :
  /\ t \notin sysc => in_syscall[Slot(t)] = FALSE
  /\ t \in sysc /\ first[t] # "clone" =>
       in_syscall[Slot(t)] = (stop[t] = "exit" \/ (stop[t] # "entry" /\ call[t] # "none"))

WatchInv == Working => \A t \in watched :
  /\ t \in sysc /\ call[t] = "ebc" /\ stop[t] \in {"entry", "no"}
  /\ stop[t] = "no" /\ first[t] # "clone" => t \in logged

TraceInv == TypeOK /\ BornInv /\ StopInv /\ OrderInv
IInv == TraceInv /\ HeldInv /\ WaitingInv /\ SeizedInv /\ LostInv /\ ParityInv /\ WatchInv

LEMMA SlotType == \A t \in Pids : Slot(t) \in 0 .. MAXTID - 1
  BY PtraceAssumption DEF Slot

LEMMA TraceInit == Init => TraceInv
<1> SUFFICES ASSUME Init PROVE TraceInv
  OBVIOUS
<1>1. TypeOK
  <2>1. in_syscall \in [0 .. MAXTID - 1 -> BOOLEAN] /\ tids \in Seq(Pids) /\ k \in Nat
    BY DEF Init
  <2>2. gap \in BOOLEAN
    BY Zenon DEF Init
  <2>3. /\ life \in [Pids -> {"unborn", "alive", "dead"}]
        /\ call \in [Pids -> {"none", "ebc", "clone", "cloned", "exit"}]
    BY DEF Init
  <2> QED
    BY <2>1, <2>2, <2>3 DEF Init, TypeOK
<1>2. BornInv /\ StopInv /\ OrderInv
  BY PtraceAssumption DEF Init, BornInv, StopInv, OrderInv, Attaching, AtPos
<1> QED
  BY <1>1, <1>2 DEF TraceInv

LEMMA CallTrace ==
  ASSUME TraceInv, NEW t \in Pids, NEW what \in {"ebc", "clone", "exit"}, Call(t, what)
  PROVE  TraceInv'
<1> USE DEF TraceInv, Call, Runs, InUser, threads, tracing, tracer
<1>1. TypeOK'
  BY PtraceAssumption DEF TypeOK
<1>2. BornInv'
  BY PtraceAssumption DEF TypeOK, BornInv
<1>3. StopInv'
  BY PtraceAssumption DEF TypeOK, StopInv
<1>4. OrderInv'
  BY PtraceAssumption DEF TypeOK, OrderInv, Attaching, AtPos
<1> QED
  BY <1>1, <1>2, <1>3, <1>4

LEMMA KillTrace ==
  ASSUME TraceInv, NEW t \in Pids, NEW s \in {"pending", "trapping"}, Kill(t, s)
  PROVE  TraceInv'
<1> USE DEF TraceInv, Kill, threads, tracing, tracer
<1>1. TypeOK'
  BY PtraceAssumption DEF TypeOK
<1>2. BornInv'
  BY PtraceAssumption DEF TypeOK, BornInv
<1>3. StopInv'
  BY PtraceAssumption DEF TypeOK, StopInv
<1>4. OrderInv'
  BY PtraceAssumption DEF TypeOK, OrderInv, Attaching, AtPos
<1> QED
  BY <1>1, <1>2, <1>3, <1>4

LEMMA CloneTrace ==
  ASSUME TraceInv, NEW t \in Pids, Clone(t)
  PROVE  TraceInv'
<1> USE DEF TraceInv, Clone, Runs, InUser, threads, tracing, tracer
<1>1. TypeOK'
  BY PtraceAssumption DEF TypeOK
<1>2. BornInv'
  <2>1. PICK u \in Pids : /\ life[u] = "unborn" /\ \A v \in Pids : v < u => life[v] # "unborn"
                          /\ life' = [life EXCEPT ![u] = "alive"]
    OBVIOUS
  <2>2. \A v, w \in Pids : v < w \/ w < v \/ v = w
    BY PtraceAssumption
  <2> QED
    BY <2>1, <2>2 DEF TypeOK, BornInv
<1>3. StopInv'
  BY PtraceAssumption DEF TypeOK, StopInv
<1>4. OrderInv'
  BY PtraceAssumption DEF TypeOK, OrderInv, Attaching, AtPos
<1> QED
  BY <1>1, <1>2, <1>3, <1>4

LEMMA ReturnTrace ==
  ASSUME TraceInv, NEW t \in Pids, Return(t)
  PROVE  TraceInv'
<1> USE DEF TraceInv, Return, CanReturn, Runs, InUser, threads, tracing, tracer
<1>1. TypeOK'
  BY PtraceAssumption DEF TypeOK
<1>2. BornInv'
  BY PtraceAssumption DEF TypeOK, BornInv
<1>3. StopInv'
  BY PtraceAssumption DEF TypeOK, StopInv
<1>4. OrderInv'
  BY PtraceAssumption DEF TypeOK, OrderInv, Attaching, AtPos
<1> QED
  BY <1>1, <1>2, <1>3, <1>4

LEMMA DieTrace ==
  ASSUME TraceInv, NEW t \in Pids, Die(t)
  PROVE  TraceInv'
<1> USE DEF TraceInv, Die, Runs, InUser, threads, tracing, tracer
<1>1. TypeOK'
  BY PtraceAssumption DEF TypeOK
<1>2. BornInv'
  BY PtraceAssumption DEF TypeOK, BornInv
<1>3. StopInv'
  BY PtraceAssumption DEF TypeOK, StopInv
<1>4. OrderInv'
  BY PtraceAssumption DEF TypeOK, OrderInv, Attaching, AtPos
<1> QED
  BY <1>1, <1>2, <1>3, <1>4

LEMMA TakeTrapTrace ==
  ASSUME TraceInv, NEW t \in Pids, TakeTrap(t)
  PROVE  TraceInv'
<1> USE DEF TraceInv, TakeTrap, Runs, InUser, threads, tracing, tracer
<1>1. TypeOK'
  BY PtraceAssumption DEF TypeOK
<1>2. BornInv'
  BY PtraceAssumption DEF TypeOK, BornInv
<1>3. StopInv'
  BY PtraceAssumption DEF TypeOK, StopInv
<1>4. OrderInv'
  BY PtraceAssumption DEF TypeOK, OrderInv, Attaching, AtPos
<1> QED
  BY <1>1, <1>2, <1>3, <1>4

LEMMA TakeSignalTrace ==
  ASSUME TraceInv, NEW t \in Pids, TakeSignal(t)
  PROVE  TraceInv'
<1> USE DEF TraceInv, TakeSignal, Runs, InUser, threads, tracing, tracer
<1>1. TypeOK'
  BY PtraceAssumption DEF TypeOK
<1>2. BornInv'
  BY PtraceAssumption DEF TypeOK, BornInv
<1>3. StopInv'
  BY PtraceAssumption DEF TypeOK, StopInv
<1>4. OrderInv'
  BY PtraceAssumption DEF TypeOK, OrderInv, Attaching, AtPos
<1> QED
  BY <1>1, <1>2, <1>3, <1>4

LEMMA SeizeTrace ==
  ASSUME TraceInv, NEW t \in Pids, Seize(t)
  PROVE  TraceInv'
<1> USE DEF TraceInv, Seize, Listed, threads, tracing, tracer
<1>1. TypeOK'
  BY PtraceAssumption DEF TypeOK
<1>2. BornInv'
  BY PtraceAssumption DEF TypeOK, BornInv
<1>3. StopInv'
  BY PtraceAssumption DEF TypeOK, StopInv
<1>4. OrderInv'
  <2>1. pos' = t /\ pos < t /\ pos \in Nat /\ t \in Nat /\ tids' = tids /\ Len(tids) \in Nat
    BY PtraceAssumption DEF TypeOK
  <2>2. \A i \in DOMAIN tids : tids[i] \in Nat /\ tids[i] <= pos
    <3>1. \A i \in DOMAIN tids : tids[i] \in Pids
      BY DEF TypeOK
    <3>2. \A i \in DOMAIN tids : tids[i] <= pos
      BY DEF OrderInv, Attaching
    <3> QED
      BY <3>1, <3>2, PtraceAssumption
  <2>3. k = 1 /\ sysc = {} /\ \A i, j \in DOMAIN tids : i < j => tids[i] < tids[j]
    BY DEF OrderInv, Attaching
  <2>4. tpc' = "interrupt" => t \in seized'
    OBVIOUS
  <2> QED
    BY <2>1, <2>2, <2>3, <2>4 DEF OrderInv, Attaching, AtPos
<1> QED
  BY <1>1, <1>2, <1>3, <1>4

LEMMA InterruptTrace ==
  ASSUME TraceInv, Interrupt
  PROVE  TraceInv'
<1> USE DEF TraceInv, Interrupt, threads, tracing, tracer
<1>1. TypeOK'
  <2>1. pos \in seized
    BY DEF OrderInv, Attaching, AtPos
  <2> QED
    BY <2>1 DEF TypeOK
<1>2. BornInv'
  BY PtraceAssumption DEF TypeOK, BornInv
<1>3. StopInv'
  BY PtraceAssumption DEF TypeOK, StopInv
<1>4. OrderInv'
  BY PtraceAssumption DEF TypeOK, OrderInv, Attaching, AtPos
<1> QED
  BY <1>1, <1>2, <1>3, <1>4

LEMMA WaitStopTrace ==
  ASSUME TraceInv, WaitStop
  PROVE  TraceInv'
<1> USE DEF TraceInv, WaitStop, Reported, threads, tracing, tracer
<1>1. TypeOK'
  <2>1. pos \in seized /\ pos \in Pids /\ sysc = {}
    BY DEF OrderInv, Attaching, AtPos, TypeOK
  <2>2. stop[pos] \in {"no", "event", "clone", "signal"}
    BY <2>1 DEF StopInv, TypeOK
  <2>3. tids' \in Seq(Pids)
    BY <2>1 DEF TypeOK
  <2>4. first' \in [Pids -> {"none", "no", "event", "clone", "signal"}]
    BY <2>1, <2>2 DEF TypeOK
  <2>5. \A t \in Pids : first'[t] = "no" => life'[t] = "dead"
    BY <2>1 DEF TypeOK
  <2> QED
    BY <2>1, <2>3, <2>4, <2>5 DEF TypeOK
<1>2. BornInv'
  BY PtraceAssumption DEF TypeOK, BornInv
<1>3. StopInv'
  BY PtraceAssumption DEF TypeOK, StopInv
<1>4. OrderInv'
  BY PtraceAssumption DEF TypeOK, OrderInv, Attaching, AtPos
<1> QED
  BY <1>1, <1>2, <1>3, <1>4

LEMMA AttachedTrace ==
  ASSUME TraceInv, Attached
  PROVE  TraceInv'
<1> USE DEF TraceInv, Attached, Listed, threads, tracing, tracer
<1>1. TypeOK'
  BY PtraceAssumption DEF TypeOK
<1>2. BornInv'
  BY PtraceAssumption DEF TypeOK, BornInv
<1>3. StopInv'
  BY PtraceAssumption DEF TypeOK, StopInv
<1>4. OrderInv'
  BY PtraceAssumption DEF TypeOK, OrderInv, Attaching, AtPos
<1> QED
  BY <1>1, <1>2, <1>3, <1>4

LEMMA ResumeAllTrace ==
  ASSUME TraceInv, ResumeAll
  PROVE  TraceInv'
<1> USE DEF TraceInv, ResumeAll, PtraceSyscall, Release, threads, tracing, tracer
<1>1. TypeOK'
  <2>1. tids[k] \in Pids /\ k' \in Nat
    BY DEF TypeOK
  <2>2. stop' \in [Pids -> {"no", "entry", "exit", "clone", "event", "signal"}]
    BY <2>1 DEF TypeOK
  <2>3. sig' \in [Pids -> {"none", "pending", "trapping", "taken", "lost", "dropped"}]
    BY <2>1 DEF TypeOK
  <2>4. sysc' \subseteq seized'
    BY <2>1 DEF TypeOK, StopInv
  <2> QED
    BY <2>1, <2>2, <2>3, <2>4 DEF TypeOK
<1>2. BornInv'
  BY PtraceAssumption DEF TypeOK, BornInv
<1>3. StopInv'
  BY PtraceAssumption DEF TypeOK, StopInv
<1>4. OrderInv'
  BY PtraceAssumption DEF TypeOK, OrderInv, Attaching, AtPos
<1> QED
  BY <1>1, <1>2, <1>3, <1>4

LEMMA StartPollingTrace ==
  ASSUME TraceInv, StartPolling
  PROVE  TraceInv'
<1> USE DEF TraceInv, StartPolling, threads, tracing, tracer
<1>1. TypeOK'
  BY PtraceAssumption DEF TypeOK
<1>2. BornInv'
  BY PtraceAssumption DEF TypeOK, BornInv
<1>3. StopInv'
  BY PtraceAssumption DEF TypeOK, StopInv
<1>4. OrderInv'
  BY PtraceAssumption DEF TypeOK, OrderInv, Attaching, AtPos
<1> QED
  BY <1>1, <1>2, <1>3, <1>4

LEMMA PollSyscallTrace ==
  ASSUME TraceInv, NEW t \in Pids, PollSyscall(t)
  PROVE  TraceInv'
<1> USE DEF TraceInv, PollSyscall, PtraceSyscall, Release, threads, tracing, tracer
<1>1. TypeOK'
  <2>1. t \in seized
    BY DEF StopInv
  <2>2. stop' \in [Pids -> {"no", "entry", "exit", "clone", "event", "signal"}]
    BY <2>1 DEF TypeOK
  <2>3. sig' \in [Pids -> {"none", "pending", "trapping", "taken", "lost", "dropped"}]
    BY <2>1 DEF TypeOK
  <2>4. in_syscall' \in [0 .. MAXTID - 1 -> BOOLEAN] /\ logged' \subseteq Pids
    BY SlotType DEF TypeOK
  <2> QED
    BY <2>1, <2>2, <2>3, <2>4 DEF TypeOK
<1>2. BornInv'
  BY PtraceAssumption DEF TypeOK, BornInv
<1>3. StopInv'
  BY PtraceAssumption DEF TypeOK, StopInv
<1>4. OrderInv'
  BY PtraceAssumption DEF TypeOK, OrderInv, Attaching, AtPos
<1> QED
  BY <1>1, <1>2, <1>3, <1>4

LEMMA PollOtherTrace ==
  ASSUME TraceInv, NEW t \in Pids, PollOther(t)
  PROVE  TraceInv'
<1> USE DEF TraceInv, PollOther, PtraceSyscall, Release, threads, tracing, tracer
<1>1. TypeOK'
  <2>1. t \in seized
    BY DEF StopInv
  <2>2. stop' \in [Pids -> {"no", "entry", "exit", "clone", "event", "signal"}]
    BY <2>1 DEF TypeOK
  <2>3. sig' \in [Pids -> {"none", "pending", "trapping", "taken", "lost", "dropped"}]
    BY <2>1 DEF TypeOK
  <2>4. in_syscall' = in_syscall /\ logged' = logged
    OBVIOUS
  <2> QED
    BY <2>1, <2>2, <2>3, <2>4 DEF TypeOK
<1>2. BornInv'
  BY PtraceAssumption DEF TypeOK, BornInv
<1>3. StopInv'
  BY PtraceAssumption DEF TypeOK, StopInv
<1>4. OrderInv'
  BY PtraceAssumption DEF TypeOK, OrderInv, Attaching, AtPos
<1> QED
  BY <1>1, <1>2, <1>3, <1>4

LEMMA DeadlineTrace ==
  ASSUME TraceInv, Deadline
  PROVE  TraceInv'
<1> USE DEF TraceInv, Deadline, threads, tracing, tracer
<1>1. TypeOK'
  BY PtraceAssumption DEF TypeOK
<1>2. BornInv'
  BY PtraceAssumption DEF TypeOK, BornInv
<1>3. StopInv'
  BY PtraceAssumption DEF TypeOK, StopInv
<1>4. OrderInv'
  BY PtraceAssumption DEF TypeOK, OrderInv, Attaching, AtPos
<1> QED
  BY <1>1, <1>2, <1>3, <1>4

LEMMA DetachTrace ==
  ASSUME TraceInv, Detach
  PROVE  TraceInv'
<1> USE DEF TraceInv, Detach, Release, threads, tracing, tracer
<1>1. TypeOK'
  <2>1. tids[k] \in Pids /\ k' \in Nat
    BY DEF TypeOK
  <2>2. stop' \in [Pids -> {"no", "entry", "exit", "clone", "event", "signal"}]
    BY <2>1 DEF TypeOK
  <2>3. sig' \in [Pids -> {"none", "pending", "trapping", "taken", "lost", "dropped"}]
    BY <2>1 DEF TypeOK
  <2>4. /\ seized' \subseteq seized /\ sysc' \subseteq seized' /\ trap' \subseteq seized'
        /\ sysc' \subseteq sysc /\ trap' \subseteq trap
    BY DEF TypeOK
  <2> QED
    BY <2>1, <2>2, <2>3, <2>4 DEF TypeOK
<1>2. BornInv'
  BY PtraceAssumption DEF TypeOK, BornInv
<1>3. StopInv'
  BY PtraceAssumption DEF TypeOK, StopInv
<1>4. OrderInv'
  BY PtraceAssumption DEF TypeOK, OrderInv, Attaching, AtPos
<1> QED
  BY <1>1, <1>2, <1>3, <1>4

LEMMA ExitTrace ==
  ASSUME TraceInv, Exit
  PROVE  TraceInv'
<1> USE DEF TraceInv, Exit, threads, tracing, tracer
<1>1. TypeOK'
  BY PtraceAssumption DEF TypeOK
<1>2. BornInv'
  BY PtraceAssumption DEF TypeOK, BornInv
<1>3. StopInv'
  BY PtraceAssumption DEF TypeOK, StopInv
<1>4. OrderInv'
  BY PtraceAssumption DEF TypeOK, OrderInv, Attaching, AtPos
<1> QED
  BY <1>1, <1>2, <1>3, <1>4

-----------------------------------------------------------------------------
LEMMA InvInit == Init => IInv
<1> SUFFICES ASSUME Init PROVE IInv
  OBVIOUS
<1>1. TraceInv
  BY TraceInit
<1>2. HeldInv /\ WaitingInv /\ SeizedInv /\ LostInv /\ ParityInv /\ WatchInv
  BY SlotType, PtraceAssumption
     DEF Init, HeldInv, WaitingInv, SeizedInv, LostInv, ParityInv, WatchInv, Attaching
<1> QED
  BY <1>1, <1>2 DEF IInv

(* Those still to be resumed do not run: they are stopped, or dead.          *)
LEMMA Held ==
  ASSUME IInv, Attaching \/ tpc = "resume", NEW j \in DOMAIN tids, j >= k
  PROVE  tids[j] \in Pids /\ ~Runs(tids[j]) /\ life[tids[j]] # "unborn"
<1>1. tids[j] \in Pids
  BY DEF IInv, TraceInv, TypeOK
<1> QED
  BY <1>1 DEF IInv, TraceInv, HeldInv, StopInv, TypeOK, Runs

LEMMA CallInv ==
  ASSUME Distinct, Room, IInv, NEW t \in Pids, NEW what \in {"ebc", "clone", "exit"}, Call(t, what)
  PROVE  IInv'
<1> USE DEF IInv, TraceInv, Call, Runs, InUser, threads, tracing, tracer
<1>0. TraceInv'
  BY CallTrace
<1>1. HeldInv'
  BY PtraceAssumption DEF TypeOK, StopInv, OrderInv, HeldInv, Attaching, AtPos
<1>2. WaitingInv'
  BY PtraceAssumption DEF TypeOK, StopInv, OrderInv, HeldInv, WaitingInv, Working, Attaching, AtPos
<1>3. SeizedInv'
  BY PtraceAssumption DEF TypeOK, BornInv, SeizedInv, Working, Attaching
<1>4. LostInv'
  BY DEF TypeOK, StopInv, HeldInv, LostInv, Working, Attaching
<1>5. ParityInv'
  BY SlotType DEF Distinct, TypeOK, StopInv, ParityInv, Working, Attaching
<1>6. WatchInv'
  BY SlotType DEF TypeOK, StopInv, OrderInv, ParityInv, WatchInv, Working, Attaching
<1> QED
  BY <1>0, <1>1, <1>2, <1>3, <1>4, <1>5, <1>6

LEMMA KillInv ==
  ASSUME Distinct, Room, IInv, NEW t \in Pids, NEW s \in {"pending", "trapping"}, Kill(t, s)
  PROVE  IInv'
<1> USE DEF IInv, TraceInv, Kill, threads, tracing, tracer
<1>0. TraceInv'
  BY KillTrace
<1>1. HeldInv'
  BY PtraceAssumption DEF TypeOK, StopInv, OrderInv, HeldInv, Attaching, AtPos
<1>2. WaitingInv'
  BY PtraceAssumption DEF TypeOK, StopInv, OrderInv, HeldInv, WaitingInv, Working, Attaching, AtPos
<1>3. SeizedInv'
  BY PtraceAssumption DEF TypeOK, BornInv, SeizedInv, Working, Attaching
<1>4. LostInv'
  BY DEF TypeOK, StopInv, HeldInv, LostInv, Working, Attaching
<1>5. ParityInv'
  BY SlotType DEF Distinct, TypeOK, StopInv, ParityInv, Working, Attaching
<1>6. WatchInv'
  BY SlotType DEF TypeOK, StopInv, OrderInv, ParityInv, WatchInv, Working, Attaching
<1> QED
  BY <1>0, <1>1, <1>2, <1>3, <1>4, <1>5, <1>6

LEMMA CloneInv ==
  ASSUME Distinct, Room, IInv, NEW t \in Pids, Clone(t)
  PROVE  IInv'
<1> USE DEF IInv, TraceInv, Clone, Runs, InUser, threads, tracing, tracer
<1>0. TraceInv'
  BY CloneTrace
<1>1. HeldInv'
  <2>1. PICK u \in Pids :
          /\ life[u] = "unborn" /\ life' = [life EXCEPT ![u] = "alive"]
          /\ t \in seized => /\ stop' = [stop EXCEPT ![t] = "clone", ![u] = "event"]
                            /\ seized' = seized \cup {u}
          /\ t \notin seized => stop' = stop /\ seized' = seized
    <3> HIDE DEF IInv, TraceInv
    <3> QED
      OBVIOUS
  <2>2. Attaching \/ tpc = "resume" => \A j \in DOMAIN tids : j >= k =>
          tids[j] # t /\ tids[j] # u
    BY <2>1, Held
  <2> QED
    BY <2>1, <2>2 DEF TypeOK, HeldInv, Attaching
<1>2. WaitingInv'
  <2>1. PICK u \in Pids :
          /\ life[u] = "unborn" /\ life' = [life EXCEPT ![u] = "alive"]
          /\ t \in seized => /\ stop' = [stop EXCEPT ![t] = "clone", ![u] = "event"]
                            /\ seized' = seized \cup {u}
          /\ t \notin seized => stop' = stop /\ seized' = seized
    <3> HIDE DEF IInv, TraceInv
    <3> QED
      OBVIOUS
  <2>2. stop[t] = "no" /\ call[t] = "clone" /\ u # t
    BY <2>1 DEF TypeOK
  <2>3. CASE t \in seized
    <3>1. ASSUME Working, NEW v \in seized \ sysc, life[v] = "alive", v # t
          PROVE  \/ stop'[v] = "event"
                 \/ Attaching /\ AtPos /\ v = pos
                 \/ tpc # "poll" /\ \E j \in DOMAIN tids : j >= k /\ tids[j] = v
      BY <2>1, <3>1 DEF TypeOK, WaitingInv
    <3>2. ASSUME Working, t \notin sysc
          PROVE  Attaching /\ AtPos /\ t = pos
      BY <2>2, <2>3, <3>2, Held DEF WaitingInv, Working
    <3>3. stop'[u] = "event"
      BY <2>1, <2>2, <2>3 DEF TypeOK
    <3>4. seized' = seized \cup {u}
      BY <2>1, <2>3
    <3> QED
      BY <2>1, <3>1, <3>2, <3>3, <3>4 DEF TypeOK, StopInv, WaitingInv, Working, Attaching, AtPos
  <2>4. CASE t \notin seized
    <3>1. seized' = seized /\ stop' = stop
      BY <2>1, <2>4
    <3> QED
      BY <2>1, <2>2, <3>1 DEF TypeOK, StopInv, WaitingInv, Working, Attaching, AtPos
  <2> QED
    BY <2>3, <2>4
<1>3. SeizedInv'
  BY PtraceAssumption DEF TypeOK, BornInv, SeizedInv, Working, Attaching
<1>4. LostInv'
  BY DEF TypeOK, StopInv, HeldInv, LostInv, Working, Attaching
<1>5. ParityInv'
  BY SlotType DEF Distinct, TypeOK, StopInv, ParityInv, Working, Attaching
<1>6. WatchInv'
  BY SlotType DEF TypeOK, StopInv, OrderInv, ParityInv, WatchInv, Working, Attaching
<1> QED
  BY <1>0, <1>1, <1>2, <1>3, <1>4, <1>5, <1>6

LEMMA ReturnInv ==
  ASSUME Distinct, Room, IInv, NEW t \in Pids, Return(t)
  PROVE  IInv'
<1> USE DEF IInv, TraceInv, Return, CanReturn, Runs, InUser, threads, tracing, tracer
<1>0. TraceInv'
  BY ReturnTrace
<1>1. HeldInv'
  BY PtraceAssumption DEF TypeOK, StopInv, OrderInv, HeldInv, Attaching, AtPos
<1>2. WaitingInv'
  BY PtraceAssumption DEF TypeOK, StopInv, OrderInv, HeldInv, WaitingInv, Working, Attaching, AtPos
<1>3. SeizedInv'
  BY PtraceAssumption DEF TypeOK, BornInv, SeizedInv, Working, Attaching
<1>4. LostInv'
  BY DEF TypeOK, StopInv, HeldInv, LostInv, Working, Attaching
<1>5. ParityInv'
  BY SlotType DEF Distinct, TypeOK, StopInv, ParityInv, Working, Attaching
<1>6. WatchInv'
  BY SlotType DEF TypeOK, StopInv, OrderInv, ParityInv, WatchInv, Working, Attaching
<1> QED
  BY <1>0, <1>1, <1>2, <1>3, <1>4, <1>5, <1>6

LEMMA DieInv ==
  ASSUME Distinct, Room, IInv, NEW t \in Pids, Die(t)
  PROVE  IInv'
<1> USE DEF IInv, TraceInv, Die, Runs, InUser, threads, tracing, tracer
<1>0. TraceInv'
  BY DieTrace
<1>1. HeldInv'
  BY PtraceAssumption DEF TypeOK, StopInv, OrderInv, HeldInv, Attaching, AtPos
<1>2. WaitingInv'
  BY PtraceAssumption DEF TypeOK, StopInv, OrderInv, HeldInv, WaitingInv, Working, Attaching, AtPos
<1>3. SeizedInv'
  BY PtraceAssumption DEF TypeOK, BornInv, SeizedInv, Working, Attaching
<1>4. LostInv'
  BY DEF TypeOK, StopInv, HeldInv, LostInv, Working, Attaching
<1>5. ParityInv'
  BY SlotType DEF Distinct, TypeOK, StopInv, ParityInv, Working, Attaching
<1>6. WatchInv'
  BY SlotType DEF TypeOK, StopInv, OrderInv, ParityInv, WatchInv, Working, Attaching
<1> QED
  BY <1>0, <1>1, <1>2, <1>3, <1>4, <1>5, <1>6

LEMMA TakeTrapInv ==
  ASSUME Distinct, Room, IInv, NEW t \in Pids, TakeTrap(t)
  PROVE  IInv'
<1> USE DEF IInv, TraceInv, TakeTrap, Runs, InUser, threads, tracing, tracer
<1>0. TraceInv'
  BY TakeTrapTrace
<1>1. HeldInv'
  BY PtraceAssumption DEF TypeOK, StopInv, OrderInv, HeldInv, Attaching, AtPos
<1>2. WaitingInv'
  BY PtraceAssumption DEF TypeOK, StopInv, OrderInv, HeldInv, WaitingInv, Working, Attaching, AtPos
<1>3. SeizedInv'
  BY PtraceAssumption DEF TypeOK, BornInv, SeizedInv, Working, Attaching
<1>4. LostInv'
  BY DEF TypeOK, StopInv, HeldInv, LostInv, Working, Attaching
<1>5. ParityInv'
  BY SlotType DEF Distinct, TypeOK, StopInv, ParityInv, Working, Attaching
<1>6. WatchInv'
  BY SlotType DEF TypeOK, StopInv, OrderInv, ParityInv, WatchInv, Working, Attaching
<1> QED
  BY <1>0, <1>1, <1>2, <1>3, <1>4, <1>5, <1>6

LEMMA TakeSignalInv ==
  ASSUME Distinct, Room, IInv, NEW t \in Pids, TakeSignal(t)
  PROVE  IInv'
<1> USE DEF IInv, TraceInv, TakeSignal, Runs, InUser, threads, tracing, tracer
<1>0. TraceInv'
  BY TakeSignalTrace
<1>1. HeldInv'
  <2>1. Attaching \/ tpc = "resume" => \A j \in DOMAIN tids : j >= k => tids[j] # t
    BY Held
  <2> QED
    BY <2>1 DEF TypeOK, HeldInv, Attaching
<1>2. WaitingInv'
  <2>1. \A v \in Pids : v # t => stop'[v] = stop[v]
    BY DEF TypeOK
  <2>2. stop[t] = "no" /\ (Working /\ t \in seized \ sysc => Attaching /\ AtPos /\ t = pos)
    BY Held DEF WaitingInv, Working
  <2> QED
    BY <2>1, <2>2 DEF TypeOK, WaitingInv, Working, Attaching, AtPos
<1>3. SeizedInv'
  BY PtraceAssumption DEF TypeOK, BornInv, SeizedInv, Working, Attaching
<1>4. LostInv'
  <2>1. \A v \in Pids : sig'[v] = "lost" => sig[v] = "lost"
    BY DEF TypeOK
  <2> QED
    BY <2>1 DEF LostInv, Working, Attaching
<1>5. ParityInv'
  <2>1. /\ stop[t] = "no" /\ call[t] = "none"
        /\ stop' = stop \/ stop' = [stop EXCEPT ![t] = "signal"]
    OBVIOUS
  <2>2. /\ stop'[t] \in {"no", "signal"}
        /\ \A v \in Pids : v # t => stop'[v] = stop[v]
    BY <2>1 DEF TypeOK
  <2>3. UNCHANGED <<tpc, sysc, first, in_syscall, call>>
    OBVIOUS
  <2> HIDE DEF TakeSignal
  <2> QED
    BY <2>1, <2>2, <2>3 DEF ParityInv, Working, Attaching
<1>6. WatchInv'
  BY SlotType DEF TypeOK, StopInv, OrderInv, ParityInv, WatchInv, Working, Attaching
<1> QED
  BY <1>0, <1>1, <1>2, <1>3, <1>4, <1>5, <1>6

LEMMA SeizeInv ==
  ASSUME Distinct, Room, IInv, NEW t \in Pids, Seize(t)
  PROVE  IInv'
<1> USE DEF IInv, TraceInv, Seize, Listed, threads, tracing, tracer
<1>0. TraceInv'
  BY SeizeTrace
<1>1. HeldInv'
  BY PtraceAssumption DEF TypeOK, StopInv, OrderInv, HeldInv, Attaching, AtPos
<1>2. WaitingInv'
  BY PtraceAssumption DEF TypeOK, StopInv, OrderInv, HeldInv, WaitingInv, Working, Attaching, AtPos
<1>3. SeizedInv'
  BY PtraceAssumption DEF TypeOK, BornInv, SeizedInv, Working, Attaching
<1>4. LostInv'
  BY DEF TypeOK, StopInv, HeldInv, LostInv, Working, Attaching
<1>5. ParityInv'
  BY SlotType DEF Distinct, TypeOK, StopInv, ParityInv, Working, Attaching
<1>6. WatchInv'
  BY SlotType DEF TypeOK, StopInv, OrderInv, ParityInv, WatchInv, Working, Attaching
<1> QED
  BY <1>0, <1>1, <1>2, <1>3, <1>4, <1>5, <1>6

LEMMA InterruptInv ==
  ASSUME Distinct, Room, IInv, Interrupt
  PROVE  IInv'
<1> USE DEF IInv, TraceInv, Interrupt, threads, tracing, tracer
<1>0. TraceInv'
  BY InterruptTrace
<1>1. HeldInv'
  BY PtraceAssumption DEF TypeOK, StopInv, OrderInv, HeldInv, Attaching, AtPos
<1>2. WaitingInv'
  BY PtraceAssumption DEF TypeOK, StopInv, OrderInv, HeldInv, WaitingInv, Working, Attaching, AtPos
<1>3. SeizedInv'
  BY PtraceAssumption DEF TypeOK, BornInv, SeizedInv, Working, Attaching
<1>4. LostInv'
  BY DEF TypeOK, StopInv, HeldInv, LostInv, Working, Attaching
<1>5. ParityInv'
  BY SlotType DEF Distinct, TypeOK, StopInv, ParityInv, Working, Attaching
<1>6. WatchInv'
  BY SlotType DEF TypeOK, StopInv, OrderInv, ParityInv, WatchInv, Working, Attaching
<1> QED
  BY <1>0, <1>1, <1>2, <1>3, <1>4, <1>5, <1>6

LEMMA WaitStopInv ==
  ASSUME Distinct, Room, IInv, WaitStop
  PROVE  IInv'
<1> USE DEF IInv, TraceInv, WaitStop, Reported, threads, tracing, tracer
<1>0. TraceInv'
  BY WaitStopTrace
<1>1. HeldInv'
  BY PtraceAssumption DEF TypeOK, StopInv, OrderInv, HeldInv, Attaching, AtPos
<1>2. WaitingInv'
  <2>1. k = 1 /\ Len(tids) \in Nat /\ tids' = Append(tids, pos) /\ k' = k /\ tpc' = "list"
    BY DEF OrderInv, TypeOK, Attaching
  <2>2. tids'[Len(tids) + 1] = pos /\ Len(tids) + 1 \in DOMAIN tids' /\ Len(tids) + 1 >= k'
    BY <2>1 DEF TypeOK
  <2>3. \A j \in DOMAIN tids : j \in DOMAIN tids' /\ tids'[j] = tids[j]
    BY <2>1 DEF TypeOK
  <2> QED
    BY <2>1, <2>2, <2>3 DEF WaitingInv, Working, Attaching, AtPos
<1>3. SeizedInv'
  BY PtraceAssumption DEF TypeOK, BornInv, SeizedInv, Working, Attaching
<1>4. LostInv'
  BY DEF TypeOK, StopInv, HeldInv, LostInv, Working, Attaching
<1>5. ParityInv'
  <2>1. sysc = {}
    BY DEF OrderInv, Attaching
  <2> QED
    BY <2>1 DEF ParityInv, Working, Attaching
<1>6. WatchInv'
  BY SlotType DEF TypeOK, StopInv, OrderInv, ParityInv, WatchInv, Working, Attaching
<1> QED
  BY <1>0, <1>1, <1>2, <1>3, <1>4, <1>5, <1>6

\* While a thread is missing from tids there is room for it.
LEMMA RoomForOneMore ==
  ASSUME Room, NEW seq \in Seq(Pids), NEW t \in Pids,
         \A i, j \in DOMAIN seq : i < j => seq[i] < seq[j],
         \A i \in DOMAIN seq : seq[i] # t
  PROVE  Len(seq) < MaxTids
<1> DEFINE Others == Pids \ {t}
<1>1. seq \in [1 .. Len(seq) -> Others] /\ Len(seq) \in Nat /\ DOMAIN seq = 1 .. Len(seq)
  OBVIOUS
<1>2. IsInjective(seq)
  <2> SUFFICES ASSUME NEW i \in DOMAIN seq, NEW j \in DOMAIN seq, seq[i] = seq[j] PROVE i = j
    BY DEF IsInjective
  <2>1. i \in Int /\ j \in Int
    BY <1>1
  <2>2. seq[i] \in Pids /\ seq[j] \in Pids
    BY <1>1
  <2>3. seq[i] \in Nat /\ seq[j] \in Nat
    BY <2>2, PtraceAssumption
  <2>4. ~(i < j) /\ ~(j < i)
    BY <2>3
  <2> QED
    BY <2>1, <2>4
<1>3. seq \in Injection(1 .. Len(seq), Others)
  BY <1>1, <1>2 DEF Injection
<1>4. IsFiniteSet(Others) /\ Cardinality(Others) = Cardinality(Pids) - 1
  BY FS_RemoveElement DEF Room
<1>5. Cardinality(1 .. Len(seq)) <= Cardinality(Others)
  BY <1>3, <1>4, FS_Injection
<1>6. Cardinality(1 .. Len(seq)) = Len(seq)
  <2>1. 1 \in Int /\ Len(seq) \in Int
    BY <1>1
  <2>2. Cardinality(1 .. Len(seq)) = IF 1 > Len(seq) THEN 0 ELSE Len(seq) - 1 + 1
    BY <2>1, FS_Interval
  <2> QED
    BY <1>1, <2>2
<1>7. Cardinality(Pids) \in Nat
  BY FS_CardinalityType DEF Room
<1> QED
  BY <1>1, <1>4, <1>5, <1>6, <1>7, PtraceAssumption DEF Room

LEMMA AttachedInv ==
  ASSUME Distinct, Room, IInv, Attached
  PROVE  IInv'
<1> USE DEF IInv, TraceInv, Attached, Listed, threads, tracing, tracer
<1>0. TraceInv'
  BY AttachedTrace
<1>1. HeldInv'
  BY PtraceAssumption DEF TypeOK, StopInv, OrderInv, HeldInv, Attaching, AtPos
<1>2. WaitingInv'
  BY PtraceAssumption DEF TypeOK, StopInv, OrderInv, HeldInv, WaitingInv, Working, Attaching, AtPos
<1>3. SeizedInv'
  <2>1. ASSUME ~MainOnly, ~gap, NEW t \in Pids, life[t] = "alive"
        PROVE  t \in seized
    <3>1. tids \in Seq(Pids) /\ pos \in Nat /\ t \in Nat
      BY PtraceAssumption DEF TypeOK
    <3>2. /\ \A i, j \in DOMAIN tids : i < j => tids[i] < tids[j]
          /\ \A i \in DOMAIN tids : tids[i] <= pos
      BY DEF OrderInv, Attaching
    <3>3. CASE t <= pos
      BY <2>1, <3>3 DEF SeizedInv, Working, Attaching
    <3>4. CASE pos < t
      <4>1. \A i \in DOMAIN tids : tids[i] # t
        <5>1. \A i \in DOMAIN tids : tids[i] \in Pids
          BY DEF TypeOK
        <5>2. \A i \in DOMAIN tids : tids[i] \in Nat
          BY <5>1, PtraceAssumption
        <5> QED
          BY <3>1, <3>2, <3>4, <5>2
      <4>2. Len(tids) < MaxTids
        BY <3>1, <3>2, <4>1, RoomForOneMore
      <4>3. t \in Listed
        BY <2>1, <3>4 DEF Listed
      <4> QED
        BY <2>1, <3>1, <4>2, <4>3, PtraceAssumption DEF Listed
    <3> QED
      BY <3>1, <3>3, <3>4
  <2> QED
    BY <2>1 DEF SeizedInv
<1>4. LostInv'
  BY DEF TypeOK, StopInv, HeldInv, LostInv, Working, Attaching
<1>5. ParityInv'
  BY SlotType DEF Distinct, TypeOK, StopInv, ParityInv, Working, Attaching
<1>6. WatchInv'
  BY SlotType DEF TypeOK, StopInv, OrderInv, ParityInv, WatchInv, Working, Attaching
<1> QED
  BY <1>0, <1>1, <1>2, <1>3, <1>4, <1>5, <1>6

LEMMA ResumeAllInv ==
  ASSUME Distinct, Room, IInv, ResumeAll
  PROVE  IInv'
<1> USE DEF IInv, TraceInv, ResumeAll, PtraceSyscall, Release, threads, tracing, tracer
<1>0. TraceInv'
  BY ResumeAllTrace
<1>1. HeldInv'
  <2>1. ASSUME NEW j \in DOMAIN tids, j >= k + 1
        PROVE  j >= k /\ tids[j] # tids[k] /\ tids[j] \in Pids
    <3>1. j \in Nat /\ k \in Nat /\ tids[j] \in Pids /\ tids[k] \in Pids
      BY DEF TypeOK
    <3>2. tids[k] < tids[j]
      BY <2>1, <3>1 DEF OrderInv
    <3>3. tids[j] \in Nat /\ tids[k] \in Nat
      BY <3>1, PtraceAssumption
    <3> HIDE DEF IInv, TraceInv, ResumeAll, PtraceSyscall, Release
    <3> QED
      BY <2>1, <3>1, <3>2, <3>3
  <2> QED
    BY <2>1 DEF TypeOK, HeldInv, Attaching
<1>2. WaitingInv'
  <2>1. tids[k] \in Pids /\ k \in Nat
    BY DEF TypeOK
  <2>2. stop[tids[k]] = "no" => life[tids[k]] # "alive"
    BY <2>1, Held DEF Runs
  <2>3. \A j \in DOMAIN tids : j >= k /\ j # k => j >= k'
    BY <2>1 DEF TypeOK
  <2>4. \A v \in Pids : v # tids[k] => stop'[v] = stop[v]
    BY <2>1 DEF TypeOK
  <2>5. stop[tids[k]] # "no" => tids[k] \in sysc'
    OBVIOUS
  <2>6. sysc \subseteq sysc' /\ seized' = seized /\ life' = life /\ tids' = tids /\ seized \subseteq Pids
    BY DEF TypeOK
  <2>7. tpc = "resume" /\ tpc' = "resume"
    OBVIOUS
  <2> HIDE DEF ResumeAll, PtraceSyscall, Release
  <2> QED
    BY <2>1, <2>2, <2>3, <2>4, <2>5, <2>6, <2>7 DEF WaitingInv, Working, Attaching
<1>3. SeizedInv'
  BY PtraceAssumption DEF TypeOK, BornInv, SeizedInv, Working, Attaching
<1>4. LostInv'
  BY DEF TypeOK, StopInv, HeldInv, LostInv, Working, Attaching
<1>5. ParityInv'
  <2>1. tids[k] \in Pids /\ (stop[tids[k]] # "no" => stop[tids[k]] = first[tids[k]])
    BY DEF TypeOK, HeldInv
  <2>2. CASE stop[tids[k]] = "no"
    BY <2>2 DEF ParityInv, Working, Attaching
  <2>3. CASE stop[tids[k]] # "no"
    <3>1. stop[tids[k]] \in {"event", "clone", "signal"}
      BY <2>1, <2>3 DEF TypeOK
    <3>2. tids[k] \notin sysc \/ first[tids[k]] = "clone" \/ call[tids[k]] = "none"
      BY <2>1, <3>1 DEF StopInv
    <3>3. stop'[tids[k]] = "no" /\ \A v \in Pids : v # tids[k] => stop'[v] = stop[v]
      BY <2>1, <2>3 DEF TypeOK
    <3>4. /\ sysc' = sysc \cup {tids[k]} /\ in_syscall' = in_syscall /\ call' = call
          /\ first' = first /\ Working
      BY <2>3 DEF Working
    <3>5. stop[tids[k]] = first[tids[k]]
      BY <2>1, <2>3
    <3>6. stop[tids[k]] \in {"event", "signal"} => call[tids[k]] = "none"
      BY <2>1 DEF StopInv
    <3> HIDE DEF ResumeAll, PtraceSyscall, Release
    <3> QED
      BY <2>1, <2>3, <3>1, <3>3, <3>4, <3>5, <3>6 DEF ParityInv
  <2> QED
    BY <2>2, <2>3
<1>6. WatchInv'
  <2>1. tids[k] \in Pids /\ (stop[tids[k]] # "no" => stop[tids[k]] \in {"event", "clone", "signal"})
    BY DEF TypeOK, HeldInv
  <2>2. CASE stop[tids[k]] = "no"
    BY <2>2 DEF WatchInv, Working, Attaching
  <2>3. CASE stop[tids[k]] # "no"
    <3>1. tids[k] \notin watched
      BY <2>1, <2>3 DEF WatchInv, Working
    <3> QED
      BY <2>1, <2>3, <3>1 DEF TypeOK, WatchInv, Working, Attaching
  <2> QED
    BY <2>2, <2>3
<1> QED
  BY <1>0, <1>1, <1>2, <1>3, <1>4, <1>5, <1>6

LEMMA StartPollingInv ==
  ASSUME Distinct, Room, IInv, StartPolling
  PROVE  IInv'
<1> USE DEF IInv, TraceInv, StartPolling, threads, tracing, tracer
<1>0. TraceInv'
  BY StartPollingTrace
<1>1. HeldInv'
  BY PtraceAssumption DEF TypeOK, StopInv, OrderInv, HeldInv, Attaching, AtPos
<1>2. WaitingInv'
  BY PtraceAssumption DEF TypeOK, StopInv, OrderInv, HeldInv, WaitingInv, Working, Attaching, AtPos
<1>3. SeizedInv'
  BY PtraceAssumption DEF TypeOK, BornInv, SeizedInv, Working, Attaching
<1>4. LostInv'
  BY DEF TypeOK, StopInv, HeldInv, LostInv, Working, Attaching
<1>5. ParityInv'
  BY SlotType DEF Distinct, TypeOK, StopInv, ParityInv, Working, Attaching
<1>6. WatchInv'
  BY SlotType DEF TypeOK, StopInv, OrderInv, ParityInv, WatchInv, Working, Attaching
<1> QED
  BY <1>0, <1>1, <1>2, <1>3, <1>4, <1>5, <1>6

LEMMA PollSyscallInv ==
  ASSUME Distinct, Room, IInv, NEW t \in Pids, PollSyscall(t)
  PROVE  IInv'
<1> USE DEF IInv, TraceInv, PollSyscall, PtraceSyscall, Release, threads, tracing, tracer
<1>0. TraceInv'
  BY PollSyscallTrace
<1>1. HeldInv'
  BY PtraceAssumption DEF TypeOK, StopInv, OrderInv, HeldInv, Attaching, AtPos
<1>2. WaitingInv'
  BY PtraceAssumption DEF TypeOK, StopInv, OrderInv, HeldInv, WaitingInv, Working, Attaching, AtPos
<1>3. SeizedInv'
  BY PtraceAssumption DEF TypeOK, BornInv, SeizedInv, Working, Attaching
<1>4. LostInv'
  BY DEF TypeOK, StopInv, HeldInv, LostInv, Working, Attaching
<1>5. ParityInv'
  BY SlotType DEF Distinct, TypeOK, StopInv, ParityInv, Working, Attaching
<1>6. WatchInv'
  <2>1. stop[t] = "entry" /\ call[t] = "ebc" /\ first[t] # "clone" => t \in logged'
    <3>1. ASSUME stop[t] = "entry", call[t] = "ebc", first[t] # "clone"
          PROVE  t \in logged'
      <4>1. in_syscall[Slot(t)] = FALSE /\ Slot(t) \in 0 .. MAXTID - 1
        BY <3>1, SlotType DEF StopInv, ParityInv, Working
      <4>2. in_syscall'[Slot(t)] = TRUE
        BY <4>1 DEF TypeOK
      <4> QED
        BY <3>1, <4>2
    <3> QED
      BY <3>1
  <2>2. logged \subseteq logged' /\ \A v \in Pids : v # t => stop'[v] = stop[v]
    BY DEF TypeOK
  <2>3. stop'[t] = "no" /\ sysc \subseteq sysc' /\ watched' = watched /\ call' = call /\ first' = first
        /\ watched \subseteq Pids /\ Working
    BY DEF TypeOK, Working
  <2>4. t \in watched => stop[t] = "entry" /\ call[t] = "ebc"
    BY <2>3 DEF WatchInv
  <2> HIDE DEF PollSyscall, PtraceSyscall, Release
  <2> QED
    BY <2>1, <2>2, <2>3, <2>4 DEF WatchInv
<1> QED
  BY <1>0, <1>1, <1>2, <1>3, <1>4, <1>5, <1>6

LEMMA PollOtherInv ==
  ASSUME Distinct, Room, IInv, NEW t \in Pids, PollOther(t)
  PROVE  IInv'
<1> USE DEF IInv, TraceInv, PollOther, PtraceSyscall, Release, threads, tracing, tracer
<1>0. TraceInv'
  BY PollOtherTrace
<1>1. HeldInv'
  BY PtraceAssumption DEF TypeOK, StopInv, OrderInv, HeldInv, Attaching, AtPos
<1>2. WaitingInv'
  BY PtraceAssumption DEF TypeOK, StopInv, OrderInv, HeldInv, WaitingInv, Working, Attaching, AtPos
<1>3. SeizedInv'
  BY PtraceAssumption DEF TypeOK, BornInv, SeizedInv, Working, Attaching
<1>4. LostInv'
  BY DEF TypeOK, StopInv, HeldInv, LostInv, Working, Attaching
<1>5. ParityInv'
  <2>1. t \notin sysc => stop[t] = "event"
    BY DEF StopInv, WaitingInv, Working, Attaching
  <2>2. stop[t] \in {"event", "signal"} => call[t] = "none"
    BY DEF StopInv
  <2>3. stop'[t] = "no" /\ \A v \in Pids : v # t => stop'[v] = stop[v]
    BY DEF TypeOK
  <2>4. sysc' = sysc \cup {t} /\ in_syscall' = in_syscall /\ call' = call /\ first' = first /\ Working
    BY DEF Working
  <2>5. stop[t] = "clone" => call[t] # "none"
    BY DEF StopInv
  <2>6. stop[t] # "no" /\ stop[t] # "entry" /\ stop[t] # "exit"
    OBVIOUS
  <2> HIDE DEF PollOther, PtraceSyscall, Release
  <2> QED
    BY <2>1, <2>2, <2>3, <2>4, <2>5, <2>6 DEF ParityInv
<1>6. WatchInv'
  BY SlotType DEF TypeOK, StopInv, OrderInv, ParityInv, WatchInv, Working, Attaching
<1> QED
  BY <1>0, <1>1, <1>2, <1>3, <1>4, <1>5, <1>6

LEMMA DeadlineInv ==
  ASSUME Distinct, Room, IInv, Deadline
  PROVE  IInv'
<1> USE DEF IInv, TraceInv, Deadline, threads, tracing, tracer
<1>0. TraceInv'
  BY DeadlineTrace
<1>1. HeldInv'
  BY PtraceAssumption DEF TypeOK, StopInv, OrderInv, HeldInv, Attaching, AtPos
<1>2. WaitingInv'
  BY PtraceAssumption DEF TypeOK, StopInv, OrderInv, HeldInv, WaitingInv, Working, Attaching, AtPos
<1>3. SeizedInv'
  BY PtraceAssumption DEF TypeOK, BornInv, SeizedInv, Working, Attaching
<1>4. LostInv'
  BY DEF TypeOK, StopInv, HeldInv, LostInv, Working, Attaching
<1>5. ParityInv'
  BY SlotType DEF Distinct, TypeOK, StopInv, ParityInv, Working, Attaching
<1>6. WatchInv'
  BY SlotType DEF TypeOK, StopInv, OrderInv, ParityInv, WatchInv, Working, Attaching
<1> QED
  BY <1>0, <1>1, <1>2, <1>3, <1>4, <1>5, <1>6

LEMMA DetachInv ==
  ASSUME Distinct, Room, IInv, Detach
  PROVE  IInv'
<1> USE DEF IInv, TraceInv, Detach, Release, threads, tracing, tracer
<1>0. TraceInv'
  BY DetachTrace
<1>1. HeldInv'
  BY PtraceAssumption DEF TypeOK, StopInv, OrderInv, HeldInv, Attaching, AtPos
<1>2. WaitingInv'
  BY PtraceAssumption DEF TypeOK, StopInv, OrderInv, HeldInv, WaitingInv, Working, Attaching, AtPos
<1>3. SeizedInv'
  BY PtraceAssumption DEF TypeOK, BornInv, SeizedInv, Working, Attaching
<1>4. LostInv'
  BY DEF TypeOK, StopInv, HeldInv, LostInv, Working, Attaching
<1>5. ParityInv'
  BY SlotType DEF Distinct, TypeOK, StopInv, ParityInv, Working, Attaching
<1>6. WatchInv'
  BY SlotType DEF TypeOK, StopInv, OrderInv, ParityInv, WatchInv, Working, Attaching
<1> QED
  BY <1>0, <1>1, <1>2, <1>3, <1>4, <1>5, <1>6

LEMMA ExitInv ==
  ASSUME Distinct, Room, IInv, Exit
  PROVE  IInv'
<1> USE DEF IInv, TraceInv, Exit, threads, tracing, tracer
<1>0. TraceInv'
  BY ExitTrace
<1>1. HeldInv'
  BY PtraceAssumption DEF TypeOK, StopInv, OrderInv, HeldInv, Attaching, AtPos
<1>2. WaitingInv'
  BY PtraceAssumption DEF TypeOK, StopInv, OrderInv, HeldInv, WaitingInv, Working, Attaching, AtPos
<1>3. SeizedInv'
  BY PtraceAssumption DEF TypeOK, BornInv, SeizedInv, Working, Attaching
<1>4. LostInv'
  BY DEF TypeOK, StopInv, HeldInv, LostInv, Working, Attaching
<1>5. ParityInv'
  BY SlotType DEF Distinct, TypeOK, StopInv, ParityInv, Working, Attaching
<1>6. WatchInv'
  BY SlotType DEF TypeOK, StopInv, OrderInv, ParityInv, WatchInv, Working, Attaching
<1> QED
  BY <1>0, <1>1, <1>2, <1>3, <1>4, <1>5, <1>6

LEMMA InvNext == ASSUME Distinct, Room, IInv, [Next]_vars PROVE IInv'
<1>1. CASE UNCHANGED vars
  BY <1>1 DEF vars, threads, tracing, tracer, IInv, TraceInv, TypeOK, BornInv, StopInv, OrderInv,
     HeldInv, WaitingInv, SeizedInv, LostInv, ParityInv, WatchInv, Working, Attaching, AtPos
<1> QED
  BY <1>1, CallInv, KillInv, CloneInv, ReturnInv, DieInv, TakeTrapInv, TakeSignalInv, SeizeInv, InterruptInv,
     WaitStopInv, AttachedInv, ResumeAllInv, StartPollingInv, PollSyscallInv, PollOtherInv, DeadlineInv, DetachInv, ExitInv
     DEF Next, ThreadStep, TracerStep

(* The threads, the tracer and what the kernel keeps of both are well typed, *)
(* for any number of threads and sizes of the tracer's tables.               *)
THEOREM PtraceTypeCorrect == Spec => []TypeOK
<1>1. TraceInv /\ [Next]_vars => TraceInv'
  <2> SUFFICES ASSUME TraceInv, [Next]_vars PROVE TraceInv'
    OBVIOUS
  <2>1. CASE UNCHANGED vars
    BY <2>1 DEF vars, threads, tracing, tracer, TraceInv, TypeOK, BornInv, StopInv, OrderInv,
       Attaching, AtPos
  <2> QED
    BY <2>1, CallTrace, KillTrace, CloneTrace, ReturnTrace, DieTrace, TakeTrapTrace, TakeSignalTrace, SeizeTrace, InterruptTrace,
       WaitStopTrace, AttachedTrace, ResumeAllTrace, StartPollingTrace, PollSyscallTrace, PollOtherTrace, DeadlineTrace, DetachTrace, ExitTrace
       DEF Next, ThreadStep, TracerStep
<1>2. TraceInv => TypeOK
  BY DEF TraceInv
<1> QED
  BY <1>1, <1>2, TraceInit, PTL DEF Spec

LEMMA PtraceInvariant == ASSUME Distinct, Room PROVE Spec => []IInv
<1>1. IInv /\ [Next]_vars => IInv'
  BY InvNext
<1> QED
  BY <1>1, InvInit, PTL DEF Spec

(* attach_all, ebcptrace.c:78-113: once it has gone through the directory no *)
(* thread is left untraced, whatever was started in the meantime and by      *)
(* whom, if none exited.                                                     *)
THEOREM PtraceAllTraced == ASSUME Distinct, Room PROVE Spec => []AllTraced
<1>1. IInv => AllTraced
  BY DEF IInv, SeizedInv, Working, Attaching, AllTraced
<1> QED
  BY <1>1, PtraceInvariant, PTL

(* ebcptrace.c:151-181: the stops are told apart by counting them, and the   *)
(* count is right, in every thread that was not found inside a clone: no EBC *)
(* ioctl that stopped the thread goes ahead unlogged.                        *)
THEOREM PtraceLoggedBefore == ASSUME Distinct, Room PROVE Spec => []LoggedBefore
<1>1. IInv => LoggedBefore
  BY DEF IInv, WatchInv, Working, LoggedBefore, Runs
<1> QED
  BY <1>1, PtraceInvariant, PTL

(* ebcptrace.c:186-190: while the tracer polls, the only signals that are    *)
(* lost, next to SIGTRAP and SIGSTOP, are those that stopped a thread while  *)
(* it was attached to.                                                       *)
THEOREM PtraceForwarded == ASSUME Distinct, Room PROVE Spec => []Forwarded
<1>1. IInv => Forwarded
  BY DEF IInv, LostInv, Working, Forwarded
<1> QED
  BY <1>1, PtraceInvariant, PTL
=============================================================================
