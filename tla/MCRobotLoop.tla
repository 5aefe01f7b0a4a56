---------------------------- MODULE MCRobotLoop ----------------------------
(***************************************************************************)
(* Instances of RobotLoop for TLC: which modes, dashboard controls and     *)
(* Jetson commands occur in a run.                                         *)
(***************************************************************************)
EXTENDS RobotLoop

\* Driver-station modes.
DisabledAuto == {"disabled", "auto"}
DisabledTest == {"disabled", "test"}
AutoOnly == {"auto"}
AutoTest == {"auto", "test"}

\* Dashboard controls.
NoKeys == {}
StartOne == {"Enable", "StartForward"}
TestKeys == {"Enable", "ResetOdometry", "StartForward"}
TestAndConfigKeys ==
    {"Enable", "ResetOdometry", "Cancel", "StartForward", "WriteNVM", "ApplyAndWriteNVM"}
=============================================================================
