----------------------------- MODULE MCOdometry -----------------------------
(***************************************************************************)
(* Instances of Odometry for TLC: which wheels turn.                       *)
(***************************************************************************)
EXTENDS Odometry

VerticalWheels == Vertical
AllWheels == Wheels
=============================================================================
