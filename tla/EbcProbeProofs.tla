--------------------------- MODULE EbcProbeProofs ---------------------------
(***************************************************************************)
(* For any tools, scripts and deadly steps: a journal that is synced line  *)
(* by line ends on the step that hangs the device, provided that the log   *)
(* can be written and that a step hangs the device while it runs or not at *)
(* all; and then no other step is ever blamed. Where each stage adds one   *)
(* step at most, a run tries at most one that no run has lived through.    *)
(***************************************************************************)
EXTENDS EbcProbe, FiniteSetTheorems, TLAPS

LogsWork == ~LogMayFail /\ Late = {}

(* What a running tool executes is one of the scripts.                       *)
LEMMA ScriptType ==
  ASSUME TypeOK, tool # NoTool
  PROVE  /\ script \in Seq(Lines \cup Acts) /\ Len(script) \in Nat
         /\ pc \in 0 .. Len(script) + 1
         /\ tool \in Journalled => Announced(script)
  BY ProbeAssumption DEF TypeOK

LEMMA FatalSteps == TypeOK => fatal \subseteq Steps
  BY ProbeAssumption DEF TypeOK

(* An instruction is a line or an action, as its op says.                    *)
LEMMA InstrType ==
  ASSUME TypeOK, tool # NoTool, pc \in 0 .. Len(script)
  PROVE  /\ Instr \in Lines \/ (Instr \in Acts /\ pc >= 1)
         /\ Instr \in Lines <=> Instr.op \in {"say", "tell"}
         /\ Instr \in Acts <=> Instr.op \in {"do", "must"}
<1>1. Result \in Lines
  BY DEF Lines
<1>2. pc # 0 => pc \in DOMAIN script /\ script[pc] \in Lines \cup Acts
  BY ScriptType
<1>3. Instr \in Lines \/ (Instr \in Acts /\ pc >= 1)
  BY <1>1, <1>2, ScriptType DEF Instr
<1>4. Instr \in Lines => Instr.op \in {"say", "tell"} /\ Instr.op \notin {"do", "must"}
  BY DEF Lines, Result
<1>5. Instr \in Acts => Instr.op \in {"do", "must"} /\ Instr.op \notin {"say", "tell"}
  BY DEF Acts
<1> QED
  BY <1>3, <1>4, <1>5

LEMMA TypeInit == Init => TypeOK
<1> SUFFICES ASSUME Init PROVE TypeOK
  OBVIOUS
<1>1. failures \in 0 .. MaxFailures
  BY ProbeAssumption DEF Init
<1>2. next \in [Tools -> Nat \ {0}] /\ pc \in Nat
  BY DEF Init
<1>3. {written, durable} \subseteq Lines \cup {NoLine}
  BY DEF Init
<1>4. ~dirty /\ tool = NoTool
  BY DEF Init
<1>5. begun \subseteq Steps /\ working \subseteq Late /\ accused \subseteq Steps /\ hung = NoStep
  BY DEF Init
<1> QED
  BY <1>1, <1>2, <1>3, <1>4, <1>5 DEF Init, TypeOK

LEMMA TypeNext == TypeOK /\ [Next]_vars => TypeOK'
<1> SUFFICES ASSUME TypeOK, [Next]_vars PROVE TypeOK'
  OBVIOUS
<1>n. NoTool \notin Tools /\ NoStep \notin Steps /\ MaxFailures \in Nat
  BY ProbeAssumption
<1>1. ASSUME NEW u \in Tools, Start(u) PROVE TypeOK'
  <2>1. next[u] \in 1 .. Runs[u] /\ Plan(u, next[u]) \in Seq(Lines \cup Acts)
    <3>1. next[u] \in Nat \ {0} /\ Runs[u] \in Nat
      BY ProbeAssumption DEF TypeOK
    <3> QED
      BY <1>1, <3>1, ProbeAssumption DEF Start
  <2> QED
    BY <1>1, <2>1, <1>n DEF Start, TypeOK, history
<1>2. CASE Jot
  <2>1. tool # NoTool /\ pc \in 0 .. Len(script) /\ Instr \in Lines
    BY <1>2, InstrType DEF Jot, AtLine, Running
  <2>2. pc' \in 0 .. Len(script) + 1 /\ pc' \in Nat
    BY <1>2, <2>1, ScriptType DEF Jot, Advance
  <2>3. tool' \in {tool, NoTool} /\ written' \in {written, Instr}
    BY <1>2 DEF Jot, Advance
  <2>4. dirty' \in BOOLEAN /\ (dirty' => tool' = tool /\ pc' = pc /\ Instr' = Instr)
    <3>1. CASE log
      BY <1>2, <3>1 DEF Jot, Instr
    <3>2. CASE ~log
      BY <1>2, <3>2 DEF Jot, TypeOK
    <3> QED
      BY <3>1, <3>2
  <2>5. tool' # NoTool => /\ next'[tool'] \in 1 .. Runs[tool'] /\ script' = Plan(tool', next'[tool'])
                          /\ pc' \in 0 .. Len(script') + 1
    BY <1>2, <2>1, <2>2, <2>3 DEF Jot, TypeOK
  <2>6. dirty' => tool' # NoTool /\ pc' \in 0 .. Len(script') /\ Instr' \in Lines
    BY <1>2, <2>1, <2>4 DEF Jot
  <2>7. {written', durable'} \subseteq Lines \cup {NoLine}
    BY <1>2, <2>1, <2>3 DEF Jot, TypeOK
  <2> QED
    BY <1>2, <2>2, <2>3, <2>4, <2>5, <2>6, <2>7 DEF Jot, TypeOK, history
<1>3. CASE Sync
  <2>1. tool # NoTool /\ pc \in 0 .. Len(script)
    BY <1>3 DEF Sync, Running, TypeOK
  <2>2. pc' \in 0 .. Len(script) + 1 /\ pc' \in Nat /\ tool' \in {tool, NoTool}
    BY <1>3, <2>1, ScriptType DEF Sync, Advance
  <2> QED
    BY <1>3, <2>1, <2>2 DEF Sync, TypeOK, history
<1>4. CASE WriteBack
  BY <1>4 DEF WriteBack, TypeOK, history, Instr
<1>5. CASE Return
  <2>1. tool # NoTool /\ pc \in 1 .. Len(script) /\ Instr \in Acts
    BY <1>5, InstrType, ScriptType DEF Return, AtStep, Running, Lines, Result
  <2>2. Instr.step \in Steps /\ {Instr.step} \cap fatal \subseteq Late
    BY <1>5, <2>1 DEF Return, Acts
  <2>3. ~dirty
    BY <2>1 DEF TypeOK, Lines, Result, Acts
  <2>4. pc' \in 0 .. Len(script) + 1 /\ pc' \in Nat
    BY <1>5, <2>1, ScriptType DEF Return
  <2> QED
    BY <1>5, <2>1, <2>2, <2>3, <2>4 DEF Return, TypeOK, journal
<1>6. CASE Fail
  <2>1. tool # NoTool /\ Instr \in Acts
    BY <1>6, InstrType DEF Fail, AtStep, Running
  <2>2. ~dirty /\ Instr.step \in Steps /\ failures' \in 0 .. MaxFailures
    BY <1>6, <2>1, <1>n DEF TypeOK, Lines, Result, Acts, Fail
  <2>3. 0 \in 0 .. Len(script) + 1
    BY <2>1, ScriptType
  <2> QED
    BY <1>6, <2>1, <2>2, <2>3 DEF Fail, TypeOK, journal
<1>7. CASE Finish
  <2>1. tool \in Tools /\ ~dirty
    BY <1>7, ScriptType DEF Finish, Running, TypeOK
  <2>2. next' \in [Tools -> Nat \ {0}]
    BY <1>7, <2>1 DEF Finish, TypeOK
  <2> QED
    BY <1>7, <2>1, <2>2, <1>n DEF Finish, TypeOK, journal
<1>8. CASE Hang
  <2>1. hung' \in Steps /\ begun' \subseteq Steps
    BY <1>8, FatalSteps DEF Hang, TypeOK
  <2> QED
    BY <1>8, <2>1 DEF Hang, TypeOK, journal, Instr
<1>9. CASE PowerCycle
  <2>1. accused' \subseteq Steps
    BY <1>9, ProbeAssumption DEF PowerCycle, TypeOK, Lines, Result
  <2>2. next' \in [Tools -> Nat \ {0}]
    BY <1>9 DEF PowerCycle, TypeOK
  <2> QED
    BY <1>9, <2>1, <2>2, <1>n DEF PowerCycle, TypeOK, history
<1>10. CASE UNCHANGED vars
  BY <1>10 DEF vars, journal, history, TypeOK, Instr
<1> QED
  BY <1>1, <1>2, <1>3, <1>4, <1>5, <1>6, <1>7, <1>8, <1>9, <1>10 DEF Next

(* The machine, the log and the operator keep their types.                   *)
THEOREM ProbeTypeCorrect == Spec => []TypeOK
  BY TypeInit, TypeNext, PTL DEF Spec

-----------------------------------------------------------------------------
LEMMA InvInit == Init => IInv
<1> SUFFICES ASSUME Init PROVE IInv
  OBVIOUS
<1>1. TypeOK
  BY TypeInit
<1>2. NoTool \notin Journalled /\ written.op # "say" /\ durable.op # "say"
  BY ProbeAssumption DEF Init
<1>3. KnownInv
  BY <1>2 DEF Init, KnownInv, Blameless
<1> QED
  BY <1>1, <1>2, <1>3 DEF Init, IInv, SyncedInv, NamesTheStep, Just

(* What a journalled run does has just been announced, and is over when its  *)
(* result has been told.                                                     *)
LEMMA Around ==
  ASSUME TypeOK, tool \in Journalled, pc \in 0 .. Len(script), Instr \in Acts
  PROVE  pc > 1 /\ script[pc - 1] = [op |-> "say", step |-> Instr.step]
<1>1. tool # NoTool
  BY ProbeAssumption
<1>2. pc \in DOMAIN script /\ Instr = script[pc]
  BY <1>1, ScriptType, InstrType DEF Instr, Lines, Result, Acts
<1> QED
  BY <1>1, <1>2, ScriptType DEF Announced

LEMMA AtTheEnd ==
  ASSUME TypeOK, tool \in Journalled, pc = Len(script) + 1, pc > 1
  PROVE  script[pc - 1] \notin Acts /\ script[pc - 1].op # "say"
<1>1. tool # NoTool
  BY ProbeAssumption
<1>2. pc - 1 \in DOMAIN script /\ pc - 1 = Len(script) /\ ~(pc - 1 < Len(script))
  BY <1>1, ScriptType
<1>3. Announced(script)
  BY <1>1, ScriptType
<1> QED
  BY <1>2, <1>3 DEF Announced

LEMMA StartInv ==
  ASSUME LogsWork, IInv, NEW u \in Tools, Start(u)
  PROVE  KnownInv' /\ SyncedInv' /\ NamesTheStep' /\ Just'
<1>1. tool \notin Journalled /\ ~dirty /\ hung = NoStep
  BY ProbeAssumption DEF Start, IInv, KnownInv
<1>2. log' = (tool' \in Journalled)
  BY DEF Start, LogsWork
<1>3. KnownInv'
  BY <1>1, <1>2 DEF Start, IInv, KnownInv, Blameless
<1> QED
  BY <1>1, <1>3 DEF Start, IInv, SyncedInv, NamesTheStep, Just

LEMMA JotInv ==
  ASSUME LogsWork, IInv, Jot
  PROVE  KnownInv' /\ SyncedInv' /\ NamesTheStep' /\ Just'
<1>1. tool # NoTool /\ hung = NoStep /\ ~dirty /\ log = (tool \in Journalled)
  BY DEF Jot, AtLine, Running, IInv, KnownInv
<1>2. CASE tool \in Journalled
  <2>1. written' = Instr /\ dirty' = TRUE /\ tool' = tool /\ pc' = pc
    BY <1>1, <1>2 DEF Jot, LogsWork
  <2>2. AtLine' /\ Instr' = Instr
    BY <2>1 DEF Jot, AtLine, Running, Instr
  <2>3. KnownInv'
    BY <1>1, <2>1, <2>2 DEF Jot, KnownInv
  <2> QED
    BY <1>1, <2>1, <2>3 DEF Jot, IInv, SyncedInv, NamesTheStep, Just
<1>3. CASE tool \notin Journalled
  <2>1. tool' \notin Journalled /\ tool' \in {tool, NoTool} /\ written' = written /\ dirty' = dirty
    BY <1>1, <1>3, ProbeAssumption DEF Jot, Advance
  <2>2. KnownInv'
    BY <1>1, <1>3, <2>1 DEF Jot, IInv, KnownInv, Blameless
  <2> QED
    BY <1>1, <2>1, <2>2 DEF Jot, IInv, SyncedInv, NamesTheStep, Just
<1> QED
  BY <1>2, <1>3

LEMMA SyncInv ==
  ASSUME LogsWork, IInv, Sync
  PROVE  KnownInv' /\ SyncedInv' /\ NamesTheStep' /\ Just'
<1>1. /\ tool \in Journalled /\ tool # NoTool /\ AtLine /\ written = Instr /\ hung = NoStep
      /\ log = (tool \in Journalled) /\ ~dirty'
  BY DEF Sync, Running, IInv, KnownInv
<1>2. pc \in 0 .. Len(script) /\ Instr \in Lines /\ Instr \notin Acts
  BY <1>1, InstrType DEF AtLine, IInv, Lines, Acts, Result
<1>3. CASE pc = 0
  <2>1. tool' = NoTool /\ written'.op # "say" /\ durable'.op # "say"
    BY <1>1, <1>3 DEF Sync, Advance, Instr, Result
  <2> QED
    BY <1>1, <2>1, ProbeAssumption
       DEF Sync, IInv, KnownInv, SyncedInv, NamesTheStep, Just, Blameless
<1>4. CASE pc # 0
  <2>1. tool' = tool /\ pc' = pc + 1 /\ pc' > 1 /\ Instr = script[pc]
    BY <1>2, <1>4, <1>1, ScriptType DEF Sync, Advance, Instr, IInv
  <2>2. written' = durable' /\ durable' = script'[pc' - 1] /\ script'[pc' - 1] \notin Acts
    BY <1>1, <1>2, <2>1, ScriptType DEF Sync, IInv
  <2>3. KnownInv'
    BY <1>1, <2>1 DEF Sync, IInv, KnownInv
  <2>4. SyncedInv'
    BY <2>2 DEF SyncedInv
  <2> QED
    BY <1>1, <2>3, <2>4 DEF Sync, IInv, NamesTheStep, Just
<1> QED
  BY <1>3, <1>4

LEMMA WriteBackInv ==
  ASSUME LogsWork, IInv, WriteBack
  PROVE  KnownInv' /\ SyncedInv' /\ NamesTheStep' /\ Just'
<1>1. AtLine' = AtLine /\ Instr' = Instr
  BY DEF WriteBack, AtLine, Running, Instr
<1>2. KnownInv'
  BY <1>1 DEF WriteBack, IInv, KnownInv, Blameless
<1> QED
  BY <1>2 DEF WriteBack, IInv, SyncedInv, NamesTheStep, Just

LEMMA ReturnInv ==
  ASSUME LogsWork, IInv, Return
  PROVE  KnownInv' /\ SyncedInv' /\ NamesTheStep' /\ Just'
<1>1. tool # NoTool /\ hung = NoStep /\ pc \in 0 .. Len(script) /\ Instr \in Acts
  BY InstrType DEF Return, AtStep, Running, IInv
<1>2. ~dirty
  BY <1>1 DEF IInv, TypeOK, Lines, Acts, Result
<1>3. CASE tool \in Journalled
  <2>1. pc > 1 /\ pc' = pc + 1 /\ script[pc - 1] = [op |-> "say", step |-> Instr.step]
    BY <1>1, <1>3, Around DEF Return, IInv
  <2>2. written = durable /\ durable = script[pc - 1]
    BY <1>2, <1>3, <2>1 DEF IInv, SyncedInv, Acts
  <2>3. pc' - 1 = pc /\ pc' - 2 = pc - 1 /\ script[pc] \in Acts
    BY <1>1, <2>1 DEF Instr
  <2>4. SyncedInv'
    BY <2>2, <2>3 DEF Return, SyncedInv, journal
  <2>5. KnownInv'
    BY <1>1, <1>2, <1>3, <2>1 DEF Return, IInv, KnownInv, journal
  <2> QED
    BY <1>1, <2>4, <2>5 DEF Return, IInv, NamesTheStep, Just
<1>4. CASE tool \notin Journalled
  BY <1>1, <1>2, <1>4 DEF Return, IInv, KnownInv, SyncedInv, NamesTheStep, Just, Blameless, journal
<1> QED
  BY <1>3, <1>4

LEMMA FailInv ==
  ASSUME LogsWork, IInv, Fail
  PROVE  KnownInv' /\ SyncedInv' /\ NamesTheStep' /\ Just'
<1>1. tool # NoTool /\ hung = NoStep /\ pc \in 0 .. Len(script) /\ Instr \in Acts
  BY InstrType DEF Fail, AtStep, Running, IInv
<1>2. ~dirty
  BY <1>1 DEF IInv, TypeOK, Lines, Acts, Result
<1> QED
  BY <1>1, <1>2 DEF Fail, IInv, KnownInv, SyncedInv, NamesTheStep, Just, Blameless, journal

LEMMA FinishInv ==
  ASSUME LogsWork, IInv, Finish
  PROVE  KnownInv' /\ SyncedInv' /\ NamesTheStep' /\ Just'
<1>1. tool # NoTool /\ hung = NoStep /\ pc = Len(script) + 1 /\ tool' = NoTool
  BY DEF Finish, Running
<1>2. ~dirty
  BY <1>1, ScriptType DEF IInv, TypeOK
<1>3. Blameless(written) /\ Blameless(durable)
  <2>1. CASE tool \in Journalled /\ pc > 1
    BY <1>1, <1>2, <2>1, AtTheEnd DEF IInv, SyncedInv, Blameless
  <2>2. CASE tool \notin Journalled \/ pc = 1
    BY <1>2, <2>2 DEF IInv, KnownInv
  <2> QED
    BY <1>1, <2>1, <2>2, ScriptType DEF IInv
<1> QED
  BY <1>1, <1>2, <1>3, ProbeAssumption
     DEF Finish, IInv, KnownInv, SyncedInv, NamesTheStep, Just, Blameless, journal

LEMMA HangInv ==
  ASSUME LogsWork, IInv, Hang
  PROVE  KnownInv' /\ SyncedInv' /\ NamesTheStep' /\ Just'
<1>1. AtStep /\ hung' = Instr.step /\ tool # NoTool /\ hung = NoStep
  BY DEF Hang, IInv, TypeOK, LogsWork, AtStep, Running
<1>2. pc \in 0 .. Len(script) /\ Instr \in Acts
  BY <1>1, InstrType DEF AtStep, IInv
<1>3. ~dirty
  BY <1>2 DEF IInv, TypeOK, Lines, Acts, Result
<1>4. ASSUME tool \in Journalled
      PROVE  durable = [op |-> "say", step |-> Instr.step]
  <2>1. pc > 1 /\ script[pc - 1] = [op |-> "say", step |-> Instr.step]
    BY <1>2, <1>4, Around DEF IInv
  <2> QED
    BY <1>3, <1>4, <2>1 DEF IInv, SyncedInv, Acts
<1> QED
  BY <1>1, <1>3, <1>4 DEF Hang, IInv, KnownInv, SyncedInv, NamesTheStep, Just, Blameless, journal

LEMMA PowerCycleInv ==
  ASSUME LogsWork, IInv, PowerCycle
  PROVE  KnownInv' /\ SyncedInv' /\ NamesTheStep' /\ Just'
<1>1. durable.op = "say" => durable.step \in fatal
  <2>1. CASE tool \in Journalled
    BY <2>1 DEF PowerCycle, IInv, NamesTheStep
  <2>2. CASE tool \notin Journalled
    BY <2>2 DEF IInv, KnownInv, Blameless, Just
  <2> QED
    BY <2>1, <2>2
<1>2. accused' \subseteq fatal'
  BY <1>1 DEF PowerCycle, IInv, Just
<1>3. durable.op = "say" => durable.step \in accused'
  BY DEF PowerCycle
<1> QED
  BY <1>2, <1>3, ProbeAssumption
     DEF PowerCycle, IInv, KnownInv, SyncedInv, NamesTheStep, Just, Blameless

LEMMA InvNext == ASSUME LogsWork, IInv, [Next]_vars PROVE IInv'
<1>1. TypeOK'
  BY TypeNext DEF IInv
<1>2. KnownInv' /\ SyncedInv' /\ NamesTheStep' /\ Just'
  <2>1. CASE UNCHANGED vars
    BY <2>1 DEF vars, journal, history, IInv, KnownInv, SyncedInv, NamesTheStep, Just,
       Blameless, AtLine, Running, Instr
  <2> QED
    BY <2>1, StartInv, JotInv, SyncInv, WriteBackInv, ReturnInv, FailInv, FinishInv, HangInv,
       PowerCycleInv DEF Next
<1>3. hung' # NoStep => hung' \in fatal'
  BY DEF Next, Start, Jot, Sync, WriteBack, Return, Fail, Finish, Hang, PowerCycle, vars,
     IInv
<1> QED
  BY <1>1, <1>2, <1>3 DEF IInv

(* ebcpush.c:32, "a hang leaves the offending step as the last line":        *)
(* whatever the page cache does, the log of a run that hung ends on the step *)
(* that hung it.                                                             *)
THEOREM ProbeNamesTheStep == ASSUME LogsWork PROVE Spec => []NamesTheStep
<1>1. IInv /\ [Next]_vars => IInv'
  BY InvNext
<1>2. IInv => NamesTheStep
  BY DEF IInv
<1> QED
  BY <1>1, <1>2, InvInit, PTL DEF Spec

(* The operator, who goes by the log alone, holds no step to be fatal that   *)
(* is not: neither after a run that failed nor when a tool that keeps no log *)
(* was the one that hung.                                                    *)
THEOREM ProbeJust == ASSUME LogsWork PROVE Spec => []Just
<1>1. IInv /\ [Next]_vars => IInv'
  BY InvNext
<1>2. IInv => Just
  BY DEF IInv
<1> QED
  BY <1>1, <1>2, InvInit, PTL DEF Spec

-----------------------------------------------------------------------------
(* One stage, one new step.                                                  *)

(* A journalled tool's earlier stages have all been lived through; of the    *)
(* script that runs, what is behind pc has been done, and nothing else.      *)
StageInv ==
  /\ Harmless \subseteq survived
  /\ \A u \in Journalled : \A m \in 1 .. next[u] - 1 : Actions(Plan(u, m)) \subseteq survived
  /\ tool # NoTool => /\ begun \subseteq Actions(script)
                      /\ \A i \in 1 .. pc - 1 : script[i] \in Acts => script[i].step \in begun

LEMMA ActionOf ==
  ASSUME TypeOK, AtStep
  PROVE  /\ tool # NoTool /\ hung = NoStep /\ pc \in 1 .. Len(script) /\ Len(script) \in Nat
         /\ Instr = script[pc] /\ Instr \in Acts /\ Instr.step \in Actions(script)
<1>1. tool # NoTool /\ hung = NoStep /\ pc \in 0 .. Len(script) /\ Instr \in Acts
  BY InstrType DEF AtStep, Running
<1>2. pc \in 1 .. Len(script) /\ Len(script) \in Nat /\ DOMAIN script = 1 .. Len(script)
  BY <1>1, ScriptType, InstrType DEF Lines, Result, Acts
<1>3. Instr = script[pc]
  BY <1>2 DEF Instr
<1> QED
  BY <1>1, <1>2, <1>3 DEF Actions

LEMMA StageInit == Init => StageInv
  BY ProbeAssumption DEF Init, StageInv, Harmless

LEMMA StageNext ==
  ASSUME Late = {}, TypeOK, StageInv, [Next]_vars
  PROVE  StageInv'
<1>0. /\ Harmless \subseteq survived
      /\ \A u \in Journalled : \A m \in 1 .. next[u] - 1 : Actions(Plan(u, m)) \subseteq survived
      /\ next \in [Tools -> Nat \ {0}] /\ Journalled \subseteq Tools /\ NoTool \notin Tools
  BY ProbeAssumption DEF StageInv, TypeOK
<1>1. ASSUME NEW u \in Tools, Start(u) PROVE StageInv'
  <2>1. UNCHANGED <<survived, next>> /\ begun' = {} /\ pc' = 1
    BY <1>1 DEF Start
  <2>2. 1 .. pc' - 1 = {}
    BY <2>1
  <2> QED
    BY <1>0, <2>1, <2>2 DEF StageInv
<1>2. CASE Jot \/ Sync
  <2>1. UNCHANGED <<survived, next, begun, script>> /\ tool # NoTool /\ pc \in 0 .. Len(script)
    BY <1>2 DEF Jot, Sync, history, AtLine, Running, TypeOK
  <2>2. Instr \in Lines
    BY <1>2, <2>1, InstrType DEF Jot, Sync, AtLine, Running, TypeOK
  <2>3. \/ pc' = pc /\ tool' \in {tool, NoTool}
        \/ pc # 0 /\ pc' = pc + 1 /\ tool' = tool
    BY <1>2 DEF Jot, Sync, Advance
  <2>4. pc # 0 => script[pc] \notin Acts
    BY <2>2 DEF Instr, Lines, Acts, Result
  <2>5. ASSUME tool' # NoTool, NEW i \in 1 .. pc' - 1, script[i] \in Acts PROVE script[i].step \in begun
    <3>1. i \in 1 .. pc - 1 \/ (i = pc /\ pc # 0)
      BY <2>1, <2>3, <2>5, ScriptType
    <3> QED
      BY <2>1, <2>4, <2>5, <3>1 DEF StageInv
  <2> QED
    BY <1>0, <2>1, <2>3, <2>5 DEF StageInv
<1>3. CASE WriteBack \/ UNCHANGED vars
  BY <1>3 DEF WriteBack, vars, history, StageInv
<1>4. CASE Return
  <2>1. /\ UNCHANGED <<survived, next, tool, script>> /\ pc' = pc + 1
        /\ begun' = begun \cup {Instr.step} /\ AtStep
    BY <1>4 DEF Return
  <2>2. tool # NoTool /\ pc \in 1 .. Len(script) /\ Instr = script[pc] /\ Instr.step \in Actions(script)
    BY <2>1, ActionOf
  <2>3. \A i \in 1 .. pc' - 1 : i \in 1 .. pc - 1 \/ i = pc
    BY <2>1, <2>2
  <2>4. \A i \in 1 .. pc' - 1 : script[i] \in Acts => script[i].step \in begun'
    BY <2>1, <2>2, <2>3 DEF StageInv
  <2>5. begun' \subseteq Actions(script)
    BY <2>1, <2>2 DEF StageInv
  <2> QED
    BY <1>0, <2>1, <2>4, <2>5 DEF StageInv
<1>5. CASE Fail
  <2>1. /\ UNCHANGED <<survived, next, tool, script>> /\ pc' = 0
        /\ begun' = begun \cup {Instr.step} /\ AtStep
    BY <1>5 DEF Fail
  <2>2. tool # NoTool /\ Instr.step \in Actions(script)
    BY <2>1, ActionOf
  <2>3. begun' \subseteq Actions(script)
    BY <2>1, <2>2 DEF StageInv
  <2>4. 1 .. pc' - 1 = {}
    BY <2>1
  <2> QED
    BY <1>0, <2>1, <2>3, <2>4 DEF StageInv
<1>6. CASE Finish
  <2>1. /\ tool' = NoTool /\ next' = [next EXCEPT ![tool] = @ + 1] /\ survived' = survived \cup begun
        /\ pc = Len(script) + 1 /\ tool # NoTool
    BY <1>6 DEF Finish, Running
  <2>2. Len(script) \in Nat /\ DOMAIN script = 1 .. Len(script) /\ tool \in Tools
        /\ script = Plan(tool, next[tool])
    BY <2>1, ScriptType DEF TypeOK
  <2>3. Actions(script) \subseteq begun
    <3>1. pc - 1 = Len(script)
      BY <2>1, <2>2
    <3> QED
      BY <2>1, <2>2, <3>1 DEF StageInv, Actions
  <2>4. ASSUME NEW u \in Journalled, NEW m \in 1 .. next'[u] - 1
        PROVE  Actions(Plan(u, m)) \subseteq survived'
    <3>1. u \in Tools /\ next[u] \in Nat \ {0}
      BY <1>0
    <3>2. CASE u # tool
      <4>1. next'[u] = next[u]
        BY <1>0, <2>1, <3>1, <3>2
      <4> QED
        BY <1>0, <2>1, <2>4, <4>1
    <3>3. CASE u = tool
      <4>1. next'[u] = next[u] + 1
        BY <1>0, <2>1, <3>1, <3>3
      <4>2. m \in 1 .. next[u] - 1 \/ m = next[u]
        BY <2>4, <3>1, <4>1
      <4> QED
        BY <1>0, <2>1, <2>2, <2>3, <3>3, <4>2
    <3> QED
      BY <3>2, <3>3
  <2> QED
    BY <1>0, <2>1, <2>4 DEF StageInv
<1>7. CASE Hang
  <2>1. PICK s \in fatal :
          /\ s \in working \/ (AtStep /\ s = Instr.step)
          /\ begun' = begun \cup {s} /\ UNCHANGED <<survived, next, tool, script, pc>>
    BY <1>7 DEF Hang
  <2>2. AtStep /\ s = Instr.step
    BY <2>1 DEF TypeOK
  <2>3. tool # NoTool /\ s \in Actions(script)
    BY <2>2, ActionOf
  <2> QED
    BY <1>0, <2>1, <2>3 DEF StageInv
<1>8. CASE PowerCycle
  <2>1. tool' = NoTool /\ UNCHANGED survived
        /\ next' = [u \in Tools |-> IF u = tool /\ u \notin Journalled THEN next[u] + 1 ELSE next[u]]
    BY <1>8 DEF PowerCycle, history
  <2>2. \A u \in Journalled : next'[u] = next[u]
    BY <1>0, <2>1
  <2> QED
    BY <1>0, <2>1, <2>2 DEF StageInv
<1> QED
  BY <1>1, <1>2, <1>3, <1>4, <1>5, <1>6, <1>7, <1>8 DEF Next

(* "Exactly ONE stage per invocation" (src/ebcprobe.c:13): where every stage *)
(* has at most one step that no stage before it had (Staged, which the tools *)
(* of EbcTools are), a run of them does at most one thing that no run has    *)
(* lived through: after any failures, hangs and power-offs, and whether or   *)
(* not the log works.                                                        *)
THEOREM ProbeOneNewStep == ASSUME Late = {}, Staged PROVE Spec => []OneNewStep
<1>1. TypeOK /\ StageInv /\ [Next]_vars => StageInv'
  BY StageNext
<1>2. TypeOK /\ StageInv => OneNewStep
  <2> SUFFICES ASSUME TypeOK, StageInv, tool \in Journalled
               PROVE  Cardinality(begun \ survived) <= 1
    BY DEF OneNewStep
  <2>1. tool # NoTool
    BY ProbeAssumption
  <2>2. next[tool] \in 1 .. Runs[tool] /\ script = Plan(tool, next[tool])
    BY <2>1 DEF TypeOK
  <2>3. PICK s \in Steps :
          Actions(Plan(tool, next[tool])) \subseteq
            Harmless \cup {s} \cup UNION {Actions(Plan(tool, m)) : m \in 1 .. next[tool] - 1}
    BY <2>2 DEF Staged
  <2>4. UNION {Actions(Plan(tool, m)) : m \in 1 .. next[tool] - 1} \subseteq survived
    BY DEF StageInv
  <2>5. begun \ survived \subseteq {s}
    BY <2>1, <2>2, <2>3, <2>4 DEF StageInv
  <2>6. IsFiniteSet({s}) /\ Cardinality({s}) = 1
    BY FS_Singleton
  <2>7. Cardinality(begun \ survived) <= Cardinality({s})
    BY <2>5, <2>6, FS_Subset
  <2> QED
    BY <2>6, <2>7
<1> QED
  BY <1>1, <1>2, StageInit, TypeInit, TypeNext, PTL DEF Spec

=============================================================================
