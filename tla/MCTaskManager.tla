--------------------------- MODULE MCTaskManager ---------------------------
(* Instances of TaskManager for TLC.                                       *)
EXTENDS TaskManager, TLC

NoFaults == {}
AllFaults == FaultKinds
OnlyZero == {"zero"}
ZeroOrJunk == {"zero", "junk"}

=============================================================================
