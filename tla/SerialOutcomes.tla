---------------------------- MODULE SerialOutcomes ----------------------------
(***************************************************************************)
(* What the caller of a RoboClawDriver transaction can tell from its       *)
(* result: only what holds if nothing of an earlier transaction is late.   *)
(***************************************************************************)

\* late: bytes of an earlier transaction may still come.  reached: a controller
\* took the request.  A byte that came late may pass for the ack, and then the
\* ack itself is what comes late.
Outcomes(late, reached) ==
    {o \in [ok : BOOLEAN, late : BOOLEAN] :
        /\ o.ok => reached \/ late
        /\ o.late => late \/ (reached /\ ~o.ok)}

=============================================================================
