-------------------------- MODULE SerialTransactions --------------------------
(***************************************************************************)
(* The serial line as its callers know it: one transaction after the       *)
(* other, each with an outcome of SerialOutcomes.  RoboClawLink implements *)
(* it byte by byte; DrivetrainPid is built on the same outcomes.           *)
(***************************************************************************)
EXTENDS SerialOutcomes

VARIABLES
    busy,     \* a transaction is under way
    reached,  \* a controller took its request
    late,     \* bytes of earlier transactions may still come
    ok        \* result of the last transaction

vars == <<busy, reached, late, ok>>

Init == busy = FALSE /\ reached = FALSE /\ late = FALSE /\ ok = FALSE

Begin ==
    /\ ~busy /\ busy' = TRUE
    /\ reached' = FALSE /\ ok' = FALSE
    /\ late' \in {FALSE, late}  \* FlushRx

Reach == busy /\ reached' = TRUE /\ UNCHANGED <<busy, late, ok>>

\* The last late byte came in, or is lost.
Settle == late' = FALSE /\ UNCHANGED <<busy, reached, ok>>

Return ==
    /\ busy /\ busy' = FALSE
    /\ \E o \in Outcomes(late, reached) : ok' = o.ok /\ late' = o.late
    /\ UNCHANGED reached

Next == Begin \/ Reach \/ Settle \/ Return

Spec == Init /\ [][Next]_vars

=============================================================================
