---------------------------- MODULE MCRoboClawLink ----------------------------
(***************************************************************************)
(* Instances of RoboClawLink for TLC: answers of two bytes, the first of   *)
(* them data and the second a CRC, for the 7 and 18 of the code.           *)
(***************************************************************************)
EXTENDS RoboClawLink

AnswerLength(r) == 2
=============================================================================
