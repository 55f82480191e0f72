----------------------------- MODULE MCEbcProbe -----------------------------
(* The tools as they are, in the order their headers give; what keeps no log *)
(* is run in between. The last run of a staged tool asks for a stage beyond  *)
(* its last one, which is all of them once more.                             *)
EXTENDS EbcProbe, EbcTools

HowOften == "ebcprobe" :> 7 @@ "ebcpush" :> 6 @@ "ebcinit" :> 5 @@ "others" :> 6

RunOf(u, n) ==
  CASE u = "ebcprobe" -> ebcprobe(n - 1)
    [] u = "ebcpush"  -> ebcpush(n - 1)
    [] u = "ebcinit"  -> ebcinit(IF n = 5 THEN Everything ELSE kSeq[n])
    [] u = "others"   -> CASE n = 1 -> ebctool("info")
                           [] n = 2 -> ebctool("refresh")
                           [] n = 3 -> ebctool("refresh --go")
                           [] n = 4 -> ebcfb
                           [] n = 5 -> ebcrefresh(2)
                           [] n = 6 -> ebctool("ident")

\* The operator types a 6 after stage 1, and runs all the others at once.
Mistyped(u, n) == IF u = "ebcprobe" /\ n = 3 THEN ebcprobe(6) ELSE RunOf(u, n)

AllTools    == DOMAIN HowOften
WithLog     == {"ebcprobe", "ebcpush", "ebcinit"}
AllSteps ==
  {"open", "mmap 0", "mmap offset", "read", "write", "fill",
   "0x7000", "0x7001", "0x7002", "0x7003", "0x7004", "0x7005", "0x7006", "0x7007", "0x7008",
   "0x700c", "0x701e", "0x7021", "0x7022", "0x7029"}

OneOrTwo == {{EBC_GET_BUFFER}, {EBC_SEND_UPDATE, "0x7021"}, {"mmap offset", "write"}}
Submissions == {EBC_SEND_UPDATE, EBC_SEND_BUFFER}
EmptyLog == [op |-> "none", step |-> "none"]

=============================================================================
