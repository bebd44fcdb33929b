-------------------------- MODULE MCBrowserTransfer --------------------------
(* Instances of BrowserTransfer for TLC. *)
EXTENDS BrowserTransfer

Transfer(mode, size, limit, saved, old, faults) ==
  [mode |-> mode, size |-> size, limit |-> limit, saved |-> saved, old |-> old, faults |-> faults]

\* Every fault for each storage, a short queue, one transfer too large for blobs; and
\* each storage without faults, resuming whatever an earlier attempt left.
Mixed ==
  {Transfer("folder", <<2, 1>>, 4, "nothing", 0, FaultKind),
   Transfer("folder", <<2>>, 2, "nothing", 0, {"link", "disk", "timeout"}),
   Transfer("folder", <<2, 0, 1>>, 8, "nothing", 0, {}),
   Transfer("blob", <<2, 1>>, 4, "nothing", 0, FaultKind),
   Transfer("blob", <<2, 1>>, 8, "nothing", 0, {}),
   Transfer("blob", <<3, 1>>, 8, "nothing", 0, {})}
  \cup {Transfer("resume", <<3>>, 4, s, 1, F) : s \in {"nothing", "same", "other", "missing"},
                                                F \in {{}, FaultKind}}
=============================================================================
