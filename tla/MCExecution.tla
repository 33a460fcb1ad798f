---------------------------- MODULE MCExecution ----------------------------
(* Small instances of Execution for TLC.                                     *)
EXTENDS Execution

FlipTargets  == {-1, 2}
FlatTargets  == {0, 1}
MixedTargets == {-1, 0, 2}

NoFaults       == {}
AllFaults      == FaultKinds
OnlyWedge      == {"wedge"}
OnlyUnreadFill == {"unread_fill"}
=============================================================================
