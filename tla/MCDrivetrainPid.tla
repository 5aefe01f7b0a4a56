--------------------------- MODULE MCDrivetrainPid ---------------------------
(***************************************************************************)
(* Instances of DrivetrainPid for TLC: which buttons the operator uses and *)
(* which gains the operator edits.                                         *)
(***************************************************************************)
EXTENDS DrivetrainPid

AllButtons == Buttons
NoButtons == {}

\* The slots an apply writes first and last, one on each controller: a failure
\* between them leaves the gains torn.
OuterSlots == {"V1", "H1"}
=============================================================================
