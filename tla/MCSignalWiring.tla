--------------------------- MODULE MCSignalWiring ---------------------------
(* Instances of SignalWiring for TLC. *)
EXTENDS SignalWiring, TLC

\* A sender with two candidates: one may be queued while the other is applied.
TwoAndNone == [sender |-> 2, receiver |-> 0]
OneEach == [sender |-> 1, receiver |-> 1]

\* Either side is a CLI and either a browser.
Crossed == {[sender |-> "cli", receiver |-> "browser"], [sender |-> "browser", receiver |-> "cli"]}

Make(cands, ordered, settles, faults) ==
  {[kind |-> k, cands |-> n, ordered |-> o, settles |-> s, faults |-> f] :
     k \in Crossed, n \in cands, o \in ordered, s \in settles, f \in faults}

Mixed ==
  Make({TwoAndNone, OneEach}, {TRUE}, {TRUE}, {{}})
    \cup Make({TwoAndNone}, {TRUE}, {TRUE}, {{"replay"}})
    \cup Make({OneEach}, {FALSE}, {TRUE}, {{}})
    \cup Make({OneEach}, {TRUE}, {FALSE}, {{"drop"}})
    \cup Make({OneEach}, {TRUE}, {TRUE},
              {{"drop"}, {"interrupt"}, {"badsig", "rtc", "apply", "seal", "alien"}})
OnlyDrops == Make({OneEach}, {TRUE}, {TRUE}, {{"drop"}})
=============================================================================
