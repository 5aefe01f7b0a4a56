------------------------------ MODULE MatchPeriod ------------------------------
(***************************************************************************)
(* A match as the program sees it: the driver station changes modes, the   *)
(* mode handlers start and cancel the autonomous command, the scheduler    *)
(* executes it, phase by phase, and RobotPeriodic tells the Jetson how     *)
(* much of the match is left, in a 16-bit field.  Loops come late, and the *)
(* program may crash and boot again in the middle of a match.              *)
(***************************************************************************)
EXTENDS Integers, Sequences

CONSTANTS
    DepartTime, ForwardTime, TurnTime,  \* 2.0 s, 3.0 s and 0.7 s, in ticks
    MatchTime,     \* 180 s, in ticks
    Word,          \* 65.536 s, what the uint16_t of milliseconds can count to
    MaxLoop        \* bound: ticks from one loop to the next

ASSUME TimesAssumption ==
    /\ {DepartTime, ForwardTime, TurnTime, MatchTime} \subseteq Nat
    /\ {Word, MaxLoop} \subseteq Nat \ {0}

kTotalSweepLanes == 4

VARIABLES
    pc,          \* "wait", "robot", "sched"
    loopTicks,   \* ticks since the loop started
    mode,        \* mode of the driver station as the loop saw it
    command,     \* m_autonomousCommand is set
    scheduled,   \* the scheduler runs it
    phase,       \* m_phase
    phaseTimer,  \* m_phaseTimer
    lane,        \* m_sweepLane
    move,        \* AutonomousCommand's command in m_cmdVx, m_cmdVy, or "none"
    started,     \* m_matchStarted
    matchTimer,  \* m_matchTimer
    remaining,   \* m_matchTimeRemaining
    txTime       \* match_time_ms in m_txPacket

loopVars == <<pc, loopTicks, mode>>
sweepVars == <<phase, phaseTimer, lane>>
clockVars == <<started, matchTimer, remaining>>
vars == <<loopVars, command, scheduled, sweepVars, move, clockVars, txTime>>

Modes == {"disabled", "auto", "teleop", "test"}

Init ==
    /\ pc = "wait" /\ loopTicks = 0 /\ mode = "none"
    /\ command = FALSE /\ scheduled = FALSE
    /\ phase = "DEPART" /\ phaseTimer = 0 /\ lane = 0
    /\ move = "none"
    /\ started = FALSE /\ matchTimer = 0 /\ remaining = MatchTime
    /\ txTime = 0

\* The program boots again; nothing of the match is remembered.
Restart ==
    /\ pc' = "wait" /\ loopTicks' = 0 /\ mode' = "none"
    /\ command' = FALSE /\ scheduled' = FALSE
    /\ phase' = "DEPART" /\ phaseTimer' = 0 /\ lane' = 0
    /\ move' = "none"
    /\ started' = FALSE /\ matchTimer' = 0 /\ remaining' = MatchTime
    /\ txTime' = 0

-----------------------------------------------------------------------------
(* The mode handlers.                                                      *)

Initialize == phase' = "DEPART" /\ phaseTimer' = 0 /\ lane' = 0

\* Mutant: a cancelled command does not stop the drive.
CancelMutant == scheduled' = FALSE /\ UNCHANGED move

\* End stops the drive, whoever cancels the command.
Cancel ==
    /\ scheduled' = FALSE
    /\ move' = IF scheduled THEN "none" ELSE move

LoopStart(m) ==
    /\ pc = "wait" /\ loopTicks >= 1
    /\ pc' = "robot" /\ loopTicks' = 0
    /\ mode' = m
    /\ UNCHANGED txTime

\* Mutant: the clock runs on from an earlier autonomous period.
AutonomousInitMutant ==
    /\ mode # "auto" /\ LoopStart("auto")
    /\ started' = TRUE /\ UNCHANGED <<matchTimer, remaining>>
    /\ command' = TRUE
    /\ IF scheduled THEN UNCHANGED <<scheduled, sweepVars>> ELSE scheduled' = TRUE /\ Initialize
    /\ UNCHANGED move

\* The clock is set back even if an autonomous period was interrupted.
AutonomousInit ==
    /\ mode # "auto" /\ LoopStart("auto")
    /\ started' = TRUE /\ matchTimer' = 0 /\ remaining' = MatchTime
    /\ command' = TRUE
    /\ IF scheduled THEN UNCHANGED <<scheduled, sweepVars>> ELSE scheduled' = TRUE /\ Initialize
    /\ UNCHANGED move

\* Mutant: the pointer is cleared and the command runs on.
TeleopInitMutant ==
    /\ mode # "teleop" /\ LoopStart("teleop")
    /\ command' = FALSE
    /\ UNCHANGED <<scheduled, move, sweepVars, clockVars>>

TeleopInit ==
    /\ mode # "teleop" /\ LoopStart("teleop")
    /\ command' = FALSE
    /\ IF command THEN Cancel ELSE UNCHANGED <<scheduled, move>>
    /\ UNCHANGED <<sweepVars, clockVars>>

\* LiveWindow starts in Test mode: the scheduler cancels everything and stops.
TestInit ==
    /\ mode # "test" /\ LoopStart("test")
    /\ Cancel
    /\ UNCHANGED <<command, sweepVars, clockVars>>

\* DisabledInit is empty, and so is every Periodic.
NoInit(m) ==
    /\ m = mode \/ m = "disabled"
    /\ LoopStart(m)
    /\ UNCHANGED <<command, scheduled, sweepVars, move, clockVars>>

-----------------------------------------------------------------------------
(* RobotPeriodic.                                                          *)

\* Mutant: a late loop takes the time left below zero.
TimeLeftMutant == IF started THEN MatchTime - matchTimer ELSE remaining
TimeLeft ==
    IF ~started THEN remaining
    ELSE IF matchTimer < MatchTime THEN MatchTime - matchTimer ELSE 0

\* A cast of a double that does not fit is undefined: the build truncates, or
\* saturates where it folds constants.
ToUint16(t) == IF t \in 0 .. Word - 1 THEN {t} ELSE {t % Word, Word - 1}

\* Mutant: the time left is brought up to date after it was handed over.
RobotPeriodicMutant ==
    /\ pc = "robot"
    /\ pc' = IF mode = "test" THEN "wait" ELSE "sched"
    /\ txTime' \in ToUint16(remaining)
    /\ remaining' = TimeLeft
    /\ move' = "none"
    /\ UNCHANGED <<loopTicks, mode, command, scheduled, sweepVars, started, matchTimer>>

\* Either branch stores a command of its own, the Jetson's, a test's or zero.
RobotPeriodic ==
    /\ pc = "robot"
    /\ pc' = IF mode = "test" THEN "wait" ELSE "sched"
    /\ remaining' = TimeLeft
    /\ txTime' \in ToUint16(TimeLeft)
    /\ move' = "none"
    /\ UNCHANGED <<loopTicks, mode, command, scheduled, sweepVars, started, matchTimer>>

-----------------------------------------------------------------------------
(* CommandScheduler::Run.                                                  *)

Limit(p) == CASE p = "DEPART" -> DepartTime
              [] p = "SWEEP_FORWARD" -> ForwardTime
              [] p = "SWEEP_TURN" -> TurnTime

Due == phaseTimer > Limit(phase)

Move == IF phase # "SWEEP_TURN" THEN "forward" ELSE IF lane % 2 = 0 THEN "plus" ELSE "minus"

\* Mutant: the lanes are not counted.
NextPhaseMutant ==
    /\ phase' = IF phase # "SWEEP_FORWARD" THEN "SWEEP_FORWARD" ELSE "SWEEP_TURN"
    /\ phaseTimer' = 0 /\ UNCHANGED lane

\* The phase after DEPART and after SWEEP_FORWARD, and SWEEP_TURN's, which
\* counts the lane.
NextPhase ==
    /\ lane' = IF phase = "SWEEP_TURN" THEN lane + 1 ELSE lane
    /\ phase' = CASE phase = "DEPART" -> "SWEEP_FORWARD"
                  [] phase = "SWEEP_FORWARD" -> "SWEEP_TURN"
                  [] OTHER -> IF lane' < kTotalSweepLanes THEN "SWEEP_FORWARD" ELSE "STOP"
    /\ phaseTimer' = 0

RunCommands == pc = "sched" /\ pc' = "wait"
                  /\ UNCHANGED <<loopTicks, mode, command, clockVars, txTime>>

Idle == ~scheduled /\ RunCommands /\ UNCHANGED <<scheduled, sweepVars, move>>

\* The command does not run when disabled.
CancelDisabled ==
    /\ scheduled /\ mode = "disabled" /\ RunCommands
    /\ Cancel /\ UNCHANGED sweepVars

\* Execute, and End in the same pass if it reached STOP.
Execute ==
    /\ scheduled /\ mode # "disabled" /\ RunCommands
    /\ IF Due THEN NextPhase ELSE UNCHANGED sweepVars
    /\ scheduled' = (phase' # "STOP")
    /\ move' = IF phase' = "STOP" THEN "none" ELSE Move

-----------------------------------------------------------------------------
(* Time.                                                                   *)

\* The match timer is not followed further than RobotPeriodic tells apart, the
\* phase timer only while it is read.
Tick ==
    /\ loopTicks < MaxLoop /\ loopTicks' = loopTicks + 1
    /\ phaseTimer' = IF scheduled THEN phaseTimer + 1 ELSE phaseTimer
    /\ matchTimer' = IF started /\ matchTimer <= MatchTime THEN matchTimer + 1 ELSE matchTimer
    /\ UNCHANGED <<pc, mode, command, scheduled, phase, lane, move, started, remaining, txTime>>

Handlers ==
    \/ AutonomousInit \/ TeleopInit \/ TestInit \/ \E m \in Modes : NoInit(m)
    \/ RobotPeriodic
    \/ Idle \/ CancelDisabled \/ Execute

Next == Handlers \/ Tick \/ Restart

Spec == Init /\ [][Next]_vars

\* The loop's Notifier fires and its handlers return.
FairSpec == Spec /\ WF_vars(Handlers) /\ WF_vars(Tick)

-----------------------------------------------------------------------------
(* Properties.                                                             *)

TypeOK ==
    /\ pc \in {"wait", "robot", "sched"}
    /\ loopTicks \in 0 .. MaxLoop
    /\ mode \in Modes \cup {"none"}
    /\ {command, scheduled, started} \subseteq BOOLEAN
    /\ phase \in {"DEPART", "SWEEP_FORWARD", "SWEEP_TURN", "STOP"}
    /\ phaseTimer \in Nat
    /\ lane \in 0 .. kTotalSweepLanes
    /\ move \in {"none", "forward", "plus", "minus"}
    /\ matchTimer \in 0 .. MatchTime + 1
    /\ remaining \in 0 .. MatchTime
    /\ txTime \in 0 .. Word - 1

\* What the autonomous command is meant to do: depart, then a lane forward and
\* a shift, four times, the shifts to either side in turn.
SweepLegs ==
    <<[move |-> "forward", time |-> DepartTime]>> \o
    [i \in 1 .. 2 * kTotalSweepLanes |->
       CASE i % 2 = 1 -> [move |-> "forward", time |-> ForwardTime]
         [] i % 4 = 2 -> [move |-> "plus", time |-> TurnTime]
         [] i % 4 = 0 -> [move |-> "minus", time |-> TurnTime]]

Sweep == INSTANCE SweepPlan WITH
    Plan <- SweepLegs,
    auto <- mode = "auto",
    leg <- IF ~scheduled THEN 0
           ELSE IF phase = "DEPART" THEN 1
           ELSE 2 * lane + (IF phase = "SWEEP_FORWARD" THEN 2 ELSE 3),
    spent <- IF scheduled THEN phaseTimer ELSE 0

\* However late the loops come and whatever the driver station does, the
\* command is this plan: it begins whenever the robot enters autonomous mode,
\* no leg is cut short, left out or done twice, it is given up only with the
\* mode, and outside of the mode it stores no command.
ImplementsPlan == Sweep!Spec

\* No command of the sweep is left in the drivetrain when it is over, or was
\* cancelled by teleop, by Test mode or by disabling the robot.
CommandEndsWithSweep == ~scheduled => move = "none"

\* The sweep is over before the match is, by the clock that AutonomousInit set
\* back: a leg takes two late loops longer than its time at most.
LegSum == DepartTime + kTotalSweepLanes * (ForwardTime + TurnTime)
SweepBound == LegSum + Len(SweepLegs) * 2 * MaxLoop
SweepEndsInTime == scheduled => matchTimer <= SweepBound

\* As soon as the time left fits the field for a whole loop, the Jetson is told
\* the time that is left, at most a loop and its handlers ago; it never wraps
\* below zero, however late the loops come.
MatchTimeIsRight ==
    started /\ matchTimer > 2 * MaxLoop /\ MatchTime - matchTimer + 2 * MaxLoop < Word =>
        txTime - (MatchTime - matchTimer) \in 0 .. 2 * MaxLoop

\* The sweep ends by itself: STOP is reached and IsFinished says so, even if the
\* robot is left in autonomous mode and nothing else ends the command.  That
\* it "never ends on its own" (src/README.md:42) was said of an empty command.
SweepEnds == scheduled ~> ~scheduled

=============================================================================
