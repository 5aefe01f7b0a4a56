---------------------------- MODULE MCMatchPeriod ----------------------------
(***************************************************************************)
(* MatchPeriod for TLC; the times of Match.cfg keep the order of the       *)
(* code's: a loop is shorter than a leg, the 16-bit field wraps twice in a *)
(* match, and the sweep ends well before it.                               *)
(***************************************************************************)
EXTENDS MatchPeriod

=============================================================================
