------------------------------ MODULE EbcTools ------------------------------
(***************************************************************************)
(* What the tools that reach for /dev/ebc do to it, as scripts: ebcprobe,  *)
(* ebcpush and ebcinit, which journal every step, and ebctool, ebcrefresh  *)
(* and ebcfb, which only print. A step is an ioctl, by its number, or a    *)
(* use of the mapping. An instruction is                                   *)
(*   say   a journal line that announces a step                            *)
(*   tell  a journal line that gives a result                              *)
(*   do    a step whose failure is reported and passed over                *)
(*   must  a step whose failure ends the tool                              *)
(***************************************************************************)
EXTENDS Integers, SequencesExt

EBC_GET_BUFFER      == "0x7000"
EBC_SEND_BUFFER     == "0x7001"
EBC_GET_BUFFER_INFO == "0x7003"
EBC_SEND_UPDATE     == "0x700c"

Say(s)  == <<[op |-> "say",  step |-> s]>>
Tell    == <<[op |-> "tell", step |-> "result"]>>
Do(s)   == <<[op |-> "do",   step |-> s]>>
Must(s) == <<[op |-> "must", step |-> s]>>

Tries(s) == Say(s) \o Do(s) \o Tell
Needs(s) == Say(s) \o Must(s) \o Tell

\* Mutant: from stage 2 on, a stage does not return and runs into the next ones.
UpToRunsOn(stages, stage) ==
  FlattenSeq(SubSeq(stages, 1, IF stage + 1 \in 1 .. 2 THEN stage + 1 ELSE Len(stages)))

\* The stages from 0 to the one asked for; a number that is none asks for them all.
UpTo(stages, stage) ==
  LET last == IF stage + 1 \in DOMAIN stages THEN stage + 1 ELSE Len(stages)
  IN  FlattenSeq(SubSeq(stages, 1, last))

-----------------------------------------------------------------------------
(* The journalled tools. The header line comes right before the open, and so *)
(* announces it where nothing else does.                                     *)

ebcprobe(stage) ==
  Tell \o Needs("open")
  \o UpTo(<<Tries(EBC_GET_BUFFER_INFO), Tries(EBC_GET_BUFFER), Needs("mmap 0"),
            Tries("read"), Tries("write"), Tries(EBC_SEND_UPDATE)>>, stage)
  \o Tell

ebcpush(stage) ==
  Needs("open")
  \o UpTo(<<Tries(EBC_GET_BUFFER_INFO), Needs(EBC_GET_BUFFER), Needs("mmap offset"),
            Tries("fill"), Tries(EBC_SEND_BUFFER)>>, stage)
  \o Tell

kSeq == <<"0x7029", "0x7021", "0x701e", "0x7022">>

\* --only picks one of the four by its number.
Everything == "all"
ebcinit(only) ==
  Needs("open")
  \o FlattenSeq([i \in DOMAIN kSeq |-> IF only \in {Everything, kSeq[i]}
                                       THEN Tries(kSeq[i]) ELSE <<>>])
  \o Tell

-----------------------------------------------------------------------------
(* The others. *)

kDriverSnCandidates ==
  <<"0x7002", "0x7003", "0x7004", "0x7005", "0x7006", "0x7007", "0x7008">>

cmd_info(cmd) == Must("open") \o Must(cmd)

\* Every candidate is tried, whatever the ones before it answered.
cmd_ident ==
  Must("open")
  \o FlattenSeq([i \in DOMAIN kDriverSnCandidates |-> Do(kDriverSnCandidates[i])])

cmd_refresh(submit) ==
  Must("open") \o IF submit THEN Must(EBC_SEND_UPDATE) ELSE <<>>

ebctool(command) ==
  CASE command = "info"         -> cmd_info(EBC_GET_BUFFER_INFO)
    [] command = "ident"        -> cmd_ident
    [] command = "refresh"      -> cmd_refresh(FALSE)
    [] command = "refresh --go" -> cmd_refresh(TRUE)

\* EINVAL stops the repetition, as does a signal: count is what was left of it.
ebcrefresh(count) ==
  Must("open") \o Do(EBC_GET_BUFFER_INFO)
  \o FlattenSeq([i \in 1 .. count |-> Must(EBC_SEND_UPDATE)])

ebcfb == Must("open") \o Do(EBC_GET_BUFFER_INFO) \o Must("mmap 0") \o Do("read")

=============================================================================
