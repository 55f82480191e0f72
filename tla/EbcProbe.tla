------------------------------ MODULE EbcProbe ------------------------------
(***************************************************************************)
(* Finding the step that hangs the device, one run at a time: the machine  *)
(* that runs the scripts of EbcTools, the journal jot() keeps of it, and   *)
(* the operator who power-cycles the device after a hang, reads the last   *)
(* line that survived, and never again runs a script with the step that    *)
(* line announces ("run ONE at a time, lowest first", src/ebcpush.c:25).   *)
(***************************************************************************)
EXTENDS Integers, Sequences, FiniteSets

CONSTANTS
  Steps,       \* what the tools do to the device
  Tools,
  Journalled,  \* the tools that are given a --log FILE
  Runs, Plan(_, _),  \* for each tool how often it is run, and the script of its n-th run
  Fatals,      \* the sets of steps that may be the ones that hang the device
  Late,        \* steps that are accepted, and may hang it afterwards
  LogMayFail,  \* whether opening the log or writing to it may fail
  MaxFailures, \* bound on the steps that fail
  NoTool, NoStep, NoLine

Result == [op |-> "tell", step |-> "result"]
Lines  == [op : {"say"}, step : Steps] \cup {Result}
Acts   == [op : {"do", "must"}, step : Steps]

Actions(run) == {run[i].step : i \in {j \in DOMAIN run : run[j] \in Acts}}

\* Every step comes right between its announcement and its result, and nothing else
\* is announced.
Announced(run) ==
  \A i \in DOMAIN run :
     /\ run[i] \in Acts => /\ i > 1 /\ run[i - 1] = [op |-> "say", step |-> run[i].step]
                           /\ i < Len(run) /\ run[i + 1].op = "tell"
     /\ run[i].op = "say" => i < Len(run) /\ run[i + 1] \in Acts

\* What has been done by others than these tools, without harm.
Harmless == {"open", "0x7003"}

\* A stage has at most one step that is neither harmless nor one of an earlier stage.
Staged ==
  \A u \in Journalled : \A n \in 1 .. Runs[u] :
    \E s \in Steps :
      Actions(Plan(u, n)) \subseteq
        Harmless \cup {s} \cup UNION {Actions(Plan(u, m)) : m \in 1 .. n - 1}

ASSUME ProbeAssumption ==
  /\ Journalled \subseteq Tools /\ NoTool \notin Tools
  /\ Runs \in [Tools -> Nat]
  /\ \A u \in Tools : \A n \in 1 .. Runs[u] :
        /\ Plan(u, n) \in Seq(Lines \cup Acts)
        /\ u \in Journalled => Announced(Plan(u, n))
  /\ Fatals \subseteq SUBSET Steps /\ Late \subseteq Steps /\ NoStep \notin Steps
  /\ LogMayFail \in BOOLEAN /\ MaxFailures \in Nat /\ NoLine.op = "none"

VARIABLES
  fatal,     \* the steps that hang the device: nobody knows
  next,      \* for each tool, the run of its plan that comes next
  tool, script, pc,  \* the tool that runs, and its next instruction; 0 once it gave up
  log,       \* log_fd >= 0
  dirty,     \* jot() has written its line and is about to fsync() it
  written,   \* the last line of the log ...
  durable,   \* ... and the last one that would survive the power going
  working,   \* accepted steps that will hang the device
  hung,      \* the step that has
  accused,   \* the steps the operator holds to be fatal
  begun, survived,  \* history: the steps of this run, and those of earlier runs
  failures

journal == <<log, dirty, written, durable>>
history == <<begun, survived, failures>>
vars == <<fatal, next, tool, script, pc, journal, working, hung, accused, history>>

Instr   == IF pc = 0 THEN Result ELSE script[pc]
Running == hung = NoStep /\ tool # NoTool
AtLine  == Running /\ pc \in 0 .. Len(script) /\ Instr.op \in {"say", "tell"}
AtStep  == Running /\ pc \in 0 .. Len(script) /\ Instr.op \in {"do", "must"}

Init ==
  /\ fatal \in Fatals
  /\ next = [u \in Tools |-> 1]
  /\ tool = NoTool /\ script = <<>> /\ pc = 0
  /\ log = FALSE /\ dirty = FALSE /\ written = NoLine /\ durable = NoLine
  /\ working = {} /\ hung = NoStep /\ accused = {}
  /\ begun = {} /\ survived = Harmless /\ failures = 0

-----------------------------------------------------------------------------
\* A tool is run, as far as it is known not to hang. A log that cannot be opened
\* is no reason for it not to go on.
Start(u) ==
  /\ hung = NoStep /\ tool = NoTool
  /\ next[u] <= Runs[u]
  /\ Actions(Plan(u, next[u])) \cap accused = {}
  /\ tool' = u /\ script' = Plan(u, next[u]) /\ pc' = 1
  /\ log' \in {b \in BOOLEAN : b = (u \in Journalled) \/ (LogMayFail /\ ~b)}
  /\ begun' = {}
  /\ UNCHANGED <<fatal, next, dirty, written, durable, working, hung, accused,
                 survived, failures>>

Advance ==
  IF pc = 0 THEN tool' = NoTool /\ UNCHANGED pc
            ELSE pc' = pc + 1 /\ UNCHANGED tool

\* Mutant: the line is printed and journalled once the step is over.
JotLate ==
  /\ AtLine /\ ~dirty
  /\ IF log /\ Instr.op = "tell" THEN written' = Instr /\ dirty' = TRUE /\ UNCHANGED <<tool, pc>>
                                 ELSE Advance /\ UNCHANGED <<written, dirty>>
  /\ UNCHANGED <<fatal, next, script, log, durable, working, hung, accused, history>>

\* jot(), up to its write(): what that returns is thrown away.
Jot ==
  /\ AtLine /\ ~dirty
  /\ IF log THEN /\ written' \in {Instr} \cup {w \in {written} : LogMayFail}
                 /\ dirty' = TRUE
                 /\ UNCHANGED <<tool, pc>>
            ELSE Advance /\ UNCHANGED <<written, dirty>>
  /\ UNCHANGED <<fatal, next, script, log, durable, working, hung, accused, history>>

\* Mutant: jot() without its fsync().
SyncMissing ==
  /\ Running /\ dirty
  /\ dirty' = FALSE
  /\ Advance
  /\ UNCHANGED <<fatal, next, script, log, written, durable, working, hung, accused, history>>

\* The rest of jot().
Sync ==
  /\ Running /\ dirty
  /\ durable' = written
  /\ dirty' = FALSE
  /\ Advance
  /\ UNCHANGED <<fatal, next, script, log, written, working, hung, accused, history>>

\* The kernel writes a page back when it likes.
WriteBack ==
  /\ hung = NoStep /\ durable # written
  /\ durable' = written
  /\ UNCHANGED <<fatal, next, tool, script, pc, log, dirty, written, working, hung, accused, history>>

\* A step comes back, with or without an error.
Return ==
  /\ AtStep /\ Instr.step \notin fatal \ Late
  /\ working' = working \cup ({Instr.step} \cap fatal)
  /\ begun' = begun \cup {Instr.step}
  /\ pc' = pc + 1
  /\ UNCHANGED <<fatal, next, tool, script, journal, hung, accused, survived, failures>>

\* Mutant: the tool ends without a line that says so.
FailSilent ==
  /\ AtStep /\ Instr.op = "must" /\ Instr.step \notin fatal
  /\ failures < MaxFailures
  /\ failures' = failures + 1
  /\ begun' = begun \cup {Instr.step}
  /\ tool' = NoTool
  /\ UNCHANGED <<fatal, next, script, pc, journal, working, hung, accused, survived>>

\* A step the tool cannot do without fails.
Fail ==
  /\ AtStep /\ Instr.op = "must" /\ Instr.step \notin fatal
  /\ failures < MaxFailures
  /\ failures' = failures + 1
  /\ begun' = begun \cup {Instr.step}
  /\ pc' = 0
  /\ UNCHANGED <<fatal, next, tool, script, journal, working, hung, accused, survived>>

\* Mutant: the stage is done and the tool does not return.
FinishRunsOn ==
  /\ Running /\ pc = Len(script) + 1
  /\ next' = [next EXCEPT ![tool] = @ + 1]
  /\ survived' = survived \cup begun
  /\ UNCHANGED <<fatal, tool, script, pc, journal, working, hung, accused, begun, failures>>

Finish ==
  /\ Running /\ pc = Len(script) + 1
  /\ tool' = NoTool
  /\ next' = [next EXCEPT ![tool] = @ + 1]
  /\ survived' = survived \cup begun
  /\ UNCHANGED <<fatal, script, pc, journal, working, hung, accused, begun, failures>>

Hang ==
  \E s \in fatal :
     /\ hung = NoStep
     /\ s \in working \/ (AtStep /\ s = Instr.step)
     /\ hung' = s
     /\ begun' = begun \cup {s}
     /\ UNCHANGED <<fatal, next, tool, script, pc, journal, working, accused, survived, failures>>

\* The hard power-off, and the operator's look at the log: the step it ends on is
\* not run again, and a tool without a log that hung is given up.
PowerCycle ==
  /\ hung # NoStep
  /\ written' = durable
  /\ accused' = accused \cup {s \in {durable.step} : durable.op = "say"}
  /\ next' = [u \in Tools |-> IF u = tool /\ u \notin Journalled THEN next[u] + 1 ELSE next[u]]
  /\ tool' = NoTool /\ dirty' = FALSE /\ working' = {} /\ hung' = NoStep
  /\ UNCHANGED <<fatal, script, pc, log, durable, history>>

Next ==
  \/ \E u \in Tools : Start(u)
  \/ Jot
  \/ Sync
  \/ WriteBack
  \/ Return
  \/ Fail
  \/ Finish
  \/ Hang
  \/ PowerCycle

\* A tool that runs goes on, a hang does not take for ever to show, and the operator
\* does not give up.
Fairness ==
  /\ WF_vars(\E u \in Tools : Start(u))
  /\ WF_vars(Jot) /\ WF_vars(Sync) /\ WF_vars(Return \/ Hang) /\ WF_vars(Finish)
  /\ WF_vars(PowerCycle)

Spec == Init /\ [][Next]_vars /\ Fairness

-----------------------------------------------------------------------------
TypeOK ==
  /\ fatal \in Fatals /\ next \in [Tools -> Nat \ {0}]
  /\ tool \in Tools \cup {NoTool} /\ pc \in Nat
  /\ tool # NoTool => /\ next[tool] \in 1 .. Runs[tool] /\ script = Plan(tool, next[tool])
                      /\ pc \in 0 .. Len(script) + 1
  /\ log \in BOOLEAN /\ dirty \in BOOLEAN
  /\ dirty => tool # NoTool /\ pc \in 0 .. Len(script) /\ Instr \in Lines
  /\ {written, durable} \subseteq Lines \cup {NoLine}
  /\ working \subseteq Late /\ hung \in Steps \cup {NoStep} /\ accused \subseteq Steps
  /\ begun \subseteq Steps /\ failures \in 0 .. MaxFailures

\* "A hang leaves the offending step as the last line" (src/ebcpush.c:32, and
\* src/ebcprobe.c:14): what survives the power-off of a run that was asked for a log
\* announces the step that hung, whatever the page cache had written back by then.
NamesTheStep ==
  hung # NoStep /\ tool \in Journalled => durable = [op |-> "say", step |-> hung]

\* No step is ever blamed that does not hang the device, not even when what hung
\* was a tool that keeps no log, after a run that failed.
Just == accused \subseteq fatal

(* Why the line names it and nobody is blamed for nothing, where the log works and   *)
(* no step hangs the device later than it runs:                                      *)

Blameless(line) == line.op = "say" => line.step \in accused

\* Outside a journalled run, and where one begins, the log announces nothing that the
\* operator does not know of.
KnownInv ==
  /\ tool # NoTool => log = (tool \in Journalled)
  /\ dirty => tool \in Journalled /\ AtLine /\ written = Instr
  /\ tool \notin Journalled \/ (pc = 1 /\ ~dirty) => Blameless(written) /\ Blameless(durable)

\* In a journalled run all that has been said is on flash.
SyncedInv ==
  tool \in Journalled /\ ~dirty /\ pc > 1 =>
    /\ written = durable
    /\ durable = IF script[pc - 1] \in Acts THEN script[pc - 2] ELSE script[pc - 1]

IInv ==
  /\ TypeOK /\ KnownInv /\ SyncedInv /\ NamesTheStep /\ Just
  /\ hung # NoStep => hung \in fatal

\* "Exactly ONE stage per invocation" (src/ebcprobe.c:13): a run of the staged tools
\* does at most one thing that no run before it has lived through.
OneNewStep ==
  tool \in Journalled => Cardinality(begun \ survived) <= 1

\* In the end the operator knows: every plan of a tool with a log has been lived
\* through, or would next run into a step that is known to hang.
Diagnosed ==
  <>[](\A u \in Journalled :
         next[u] > Runs[u] \/ Actions(Plan(u, next[u])) \cap accused # {})

=============================================================================
