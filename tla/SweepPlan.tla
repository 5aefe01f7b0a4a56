------------------------------- MODULE SweepPlan -------------------------------
(***************************************************************************)
(* The autonomous sweep as a plan: legs in their order, each commanded for *)
(* longer than its time.  It begins when the robot enters autonomous mode  *)
(* and is given up only if the robot leaves it.                            *)
(***************************************************************************)
EXTENDS Naturals, Sequences

CONSTANT Plan  \* sequence of legs, each with its move and its time

VARIABLES
    auto,   \* the robot is in autonomous mode
    leg,    \* the leg under way, 0 if the plan is not under way
    spent,  \* time since the leg began
    move    \* move the plan commands, or "none"

vars == <<auto, leg, spent, move>>

Init == auto = FALSE /\ leg = 0 /\ spent = 0 /\ move = "none"

Stopped == leg' = 0 /\ spent' = 0 /\ move' = "none"

Begin ==
    /\ ~auto /\ auto' = TRUE
    /\ leg = 0 /\ leg' = 1 /\ spent' = 0 /\ UNCHANGED move

\* The mode is left, and with it the plan, perhaps a little later.
LeaveMode == auto' = FALSE /\ UNCHANGED <<leg, spent, move>>
GiveUp == auto' = FALSE /\ Stopped

UnderWay == auto /\ leg > 0 /\ UNCHANGED auto

Command ==
    /\ UnderWay /\ spent <= Plan[leg].time
    /\ move' = Plan[leg].move /\ UNCHANGED <<leg, spent>>

NextLeg ==
    /\ UnderWay /\ spent > Plan[leg].time
    /\ leg < Len(Plan) /\ leg' = leg + 1 /\ spent' = 0
    /\ move' = Plan[leg].move

Finish == UnderWay /\ leg = Len(Plan) /\ spent > Plan[leg].time /\ Stopped

\* Somebody else's command takes the place of the plan's.
Override == move' = "none" /\ UNCHANGED <<auto, leg, spent>>

TimePasses == leg > 0 /\ spent' = spent + 1 /\ UNCHANGED <<auto, leg, move>>

Next ==
    \/ Begin \/ LeaveMode \/ GiveUp
    \/ Command \/ NextLeg \/ Finish
    \/ Override \/ TimePasses

Spec == Init /\ [][Next]_vars

=============================================================================
