---------------------------- MODULE MCSysServer ----------------------------
(* An instance of SysServer for TLC.                                       *)
EXTENDS SysServer, TLC

AllFaults == FaultKinds
OnlyZero == {"zero"}

=============================================================================
