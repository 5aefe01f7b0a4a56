--------------------------- MODULE MatchPeriodProofs ---------------------------
(***************************************************************************)
(* Theorems about MatchPeriod, for any times of the legs, any length of    *)
(* the match, of a loop and of the 16-bit field: the autonomous command is *)
(* the plan, ends in time and leaves no command, and the match time that   *)
(* fits its field is right.                                                *)
(***************************************************************************)
EXTENDS MatchPeriod, SequenceTheorems, TLAPS

LEMMA TimeTypes ==
    /\ DepartTime \in Nat /\ ForwardTime \in Nat /\ TurnTime \in Nat /\ MatchTime \in Nat
    /\ MaxLoop \in Nat /\ MaxLoop >= 1 /\ Word \in Nat /\ Word >= 1
BY TimesAssumption

(***************************************************************************)
(* Type correctness, with what the phases mean.                            *)
(***************************************************************************)

\* A command that is scheduled has a leg to drive, and is about to be cancelled
\* if the robot has left autonomous mode.
ScheduleInv ==
    scheduled =>
      /\ command /\ started
      /\ mode = "auto" \/ (mode = "disabled" /\ pc # "wait")
      /\ phase # "STOP" /\ lane < kTotalSweepLanes
      /\ phase = "DEPART" => lane = 0

PeriodInv == TypeOK /\ ScheduleInv

LEMMA InitPeriod == Init => PeriodInv
<1> SUFFICES ASSUME Init PROVE PeriodInv
  OBVIOUS
<1>1. {command, scheduled, started} \subseteq BOOLEAN
  BY Zenon DEF Init
<1> QED
  BY <1>1, TimeTypes DEF Init, PeriodInv, ScheduleInv, TypeOK, kTotalSweepLanes

LEMMA CastFits == \A t \in Nat : ToUint16(t) \subseteq 0 .. Word - 1
BY TimeTypes, SMT DEF ToUint16

LEMMA TimeLeftTypes == TypeOK => TimeLeft \in 0 .. MatchTime
BY TimeTypes DEF TypeOK, TimeLeft

\* What a pass over the scheduled command leaves behind.
LEMMA ExecuteTypes ==
    ASSUME PeriodInv, Execute
    PROVE  /\ phase' \in {"DEPART", "SWEEP_FORWARD", "SWEEP_TURN", "STOP"}
           /\ phaseTimer' \in Nat /\ lane' \in 0 .. kTotalSweepLanes
           /\ phase' # "STOP" => lane' < kTotalSweepLanes
           /\ phase' = "DEPART" => lane' = 0
<1> USE DEF PeriodInv, ScheduleInv, TypeOK, kTotalSweepLanes
<1>1. CASE ~Due
  BY <1>1 DEF Execute, sweepVars
<1>2. CASE Due
  BY <1>2 DEF Execute, NextPhase
<1> QED
  BY <1>1, <1>2

LEMMA StepPeriod == PeriodInv /\ [Next]_vars => PeriodInv'
<1> SUFFICES ASSUME PeriodInv, [Next]_vars PROVE PeriodInv'
  OBVIOUS
<1> USE TimeTypes DEF PeriodInv, ScheduleInv, TypeOK, Modes, kTotalSweepLanes,
                      loopVars, sweepVars, clockVars, vars
<1>1. CASE AutonomousInit
  <2>1. CASE scheduled
    BY <1>1, <2>1 DEF AutonomousInit, LoopStart
  <2>2. CASE ~scheduled
    BY <1>1, <2>2 DEF AutonomousInit, LoopStart, Initialize
  <2> QED
    BY <2>1, <2>2
<1>2. CASE TeleopInit
  <2>1. CASE command
    <3>1. ~command' /\ ~scheduled' /\ started' = started
      BY <1>2, <2>1 DEF TeleopInit, Cancel
    <3>2. {command', scheduled', started'} \subseteq BOOLEAN
      BY <1>2, <2>1, Zenon DEF TeleopInit, Cancel
    <3> QED
      BY <1>2, <2>1, <3>1, <3>2 DEF TeleopInit, LoopStart, Cancel
  <2>2. CASE ~command
    <3>1. ~scheduled /\ scheduled' = scheduled /\ {command', scheduled', started'} \subseteq BOOLEAN
      BY <1>2, <2>2 DEF TeleopInit
    <3> QED
      BY <1>2, <2>2, <3>1 DEF TeleopInit, LoopStart
  <2> QED
    BY <2>1, <2>2
<1>3. CASE TestInit
  <2>1. {command', scheduled', started'} \subseteq BOOLEAN /\ ~scheduled'
    BY <1>3, Zenon DEF TestInit, Cancel
  <2> QED
    BY <1>3, <2>1 DEF TestInit, LoopStart, Cancel
<1>4. ASSUME NEW m \in Modes, NoInit(m) PROVE PeriodInv'
  BY <1>4 DEF NoInit, LoopStart
<1>5. CASE RobotPeriodic
  <2>1. remaining' \in 0 .. MatchTime /\ txTime' \in 0 .. Word - 1
    BY <1>5, TimeLeftTypes, CastFits DEF RobotPeriodic
  <2> QED
    BY <1>5, <2>1 DEF RobotPeriodic
<1>6. CASE Idle
  BY <1>6 DEF Idle, RunCommands
<1>7. CASE CancelDisabled
  BY <1>7 DEF CancelDisabled, RunCommands, Cancel
<1>8. CASE Execute
  <2>1. /\ phase' \in {"DEPART", "SWEEP_FORWARD", "SWEEP_TURN", "STOP"}
        /\ phaseTimer' \in Nat /\ lane' \in 0 .. kTotalSweepLanes
        /\ phase' # "STOP" => lane' < kTotalSweepLanes
        /\ phase' = "DEPART" => lane' = 0
    BY <1>8, ExecuteTypes
  <2>2. /\ pc' = "wait" /\ mode' = mode /\ mode = "auto" /\ loopTicks' = loopTicks
        /\ command' = command /\ command /\ started' = started /\ started
        /\ matchTimer' = matchTimer /\ remaining' = remaining /\ txTime' = txTime
        /\ scheduled' = (phase' # "STOP")
    BY <1>8 DEF Execute, RunCommands
  <2>3. move' \in {"none", "forward", "plus", "minus"}
    BY <1>8 DEF Execute, Move
  <2> QED
    BY <2>1, <2>2, <2>3
<1>9. CASE Tick
  BY <1>9 DEF Tick
<1>10. CASE Restart
  <2>1. {command', scheduled', started'} \subseteq BOOLEAN /\ ~scheduled'
    BY <1>10, Zenon DEF Restart
  <2> QED
    BY <1>10, <2>1 DEF Restart
<1>11. CASE UNCHANGED vars
  BY <1>11
<1> QED
  BY <1>1, <1>2, <1>3, <1>4, <1>5, <1>6, <1>7, <1>8, <1>9, <1>10, <1>11 DEF Next, Handlers

LEMMA PeriodInvariant == Spec => []PeriodInv
BY InitPeriod, StepPeriod, PTL DEF Spec

\* Every variable of a match keeps its type, and the field its 16 bits.
THEOREM MatchTypeCorrect == Spec => []TypeOK
<1>1. PeriodInv => TypeOK
  BY DEF PeriodInv
<1> QED
  BY <1>1, PeriodInvariant, PTL

(***************************************************************************)
(* No command outlives the sweep.                                          *)
(***************************************************************************)

LEMMA StepCommand == CommandEndsWithSweep /\ PeriodInv /\ [Next]_vars => CommandEndsWithSweep'
<1> SUFFICES ASSUME CommandEndsWithSweep, PeriodInv, [Next]_vars PROVE CommandEndsWithSweep'
  OBVIOUS
<1> USE DEF CommandEndsWithSweep, loopVars, sweepVars, clockVars, vars
<1>1. CASE AutonomousInit
  BY <1>1 DEF AutonomousInit
<1>2. CASE TeleopInit
  BY <1>2 DEF TeleopInit, Cancel
<1>3. CASE TestInit
  BY <1>3 DEF TestInit, Cancel
<1>4. ASSUME NEW m \in Modes, NoInit(m) PROVE CommandEndsWithSweep'
  BY <1>4 DEF NoInit
<1>5. CASE RobotPeriodic
  BY <1>5 DEF RobotPeriodic
<1>6. CASE Idle
  BY <1>6 DEF Idle
<1>7. CASE CancelDisabled
  BY <1>7 DEF CancelDisabled, Cancel
<1>8. CASE Execute
  BY <1>8 DEF Execute
<1>9. CASE Tick \/ Restart \/ UNCHANGED vars
  BY <1>9 DEF Tick, Restart
<1> QED
  BY <1>1, <1>2, <1>3, <1>4, <1>5, <1>6, <1>7, <1>8, <1>9 DEF Next, Handlers

\* Whoever cancels the sweep and however it ends, none of its commands stays in
\* the drivetrain.
THEOREM CommandAlwaysEndsWithSweep == Spec => []CommandEndsWithSweep
<1>1. Init => CommandEndsWithSweep
  BY DEF Init, CommandEndsWithSweep
<1> QED
  BY <1>1, StepCommand, PeriodInvariant, PTL DEF Spec

(***************************************************************************)
(* The sweep ends in time.                                                 *)
(***************************************************************************)

\* What a late loop adds to a leg: up to MaxLoop ticks from its Execute to the
\* next loop, and up to MaxLoop in that loop.
Late == loopTicks + (IF pc = "wait" THEN 0 ELSE MaxLoop)

\* Time that the legs before this one have taken at most.
Lanes == CASE lane = 0 -> 0
           [] lane = 1 -> ForwardTime + TurnTime + 4 * MaxLoop
           [] lane = 2 -> 2 * (ForwardTime + TurnTime) + 8 * MaxLoop
           [] lane = 3 -> 3 * (ForwardTime + TurnTime) + 12 * MaxLoop
Before == CASE phase = "DEPART" -> 0
            [] phase = "SWEEP_FORWARD" -> DepartTime + 2 * MaxLoop + Lanes
            [] phase = "SWEEP_TURN" -> DepartTime + ForwardTime + 4 * MaxLoop + Lanes

AgeInv == scheduled => phaseTimer <= Limit(phase) + Late /\ matchTimer <= Before + phaseTimer

LEMMA StepAge == AgeInv /\ PeriodInv /\ [Next]_vars => AgeInv'
<1> SUFFICES ASSUME AgeInv, PeriodInv, [Next]_vars, scheduled' PROVE AgeInv'
  BY DEF AgeInv
<1> USE TimeTypes DEF AgeInv, PeriodInv, ScheduleInv, TypeOK, Late, Modes,
                      loopVars, sweepVars, clockVars, vars
<1> DEFINE Same == phase' = phase /\ phaseTimer' = phaseTimer /\ lane' = lane
<1>1. CASE AutonomousInit
  <2>1. ~scheduled
    BY <1>1 DEF AutonomousInit, LoopStart
  <2> QED
    BY <1>1, <2>1 DEF AutonomousInit, LoopStart, Initialize, Limit, Before
<1>2. ASSUME Same, matchTimer' = matchTimer, scheduled, LoopStart(mode')
      PROVE  AgeInv'
  <2>1. Limit(phase)' = Limit(phase) /\ Before' = Before
    BY <1>2 DEF Limit, Before, Lanes
  <2>2. Limit(phase) \in Nat
    BY <1>2 DEF Limit
  <2> QED
    BY <1>2, <2>1, <2>2 DEF LoopStart
<1>3. CASE TeleopInit
  BY <1>3 DEF TeleopInit, Cancel
<1>4. CASE TestInit
  BY <1>4 DEF TestInit, Cancel
<1>5. ASSUME NEW m \in Modes, NoInit(m) PROVE AgeInv'
  BY <1>5, <1>2 DEF NoInit, LoopStart
<1>6. CASE RobotPeriodic
  <2>1. Limit(phase)' = Limit(phase) /\ Before' = Before
    BY <1>6 DEF RobotPeriodic, Limit, Before, Lanes
  <2>2. scheduled /\ Limit(phase) \in Nat
    BY <1>6 DEF RobotPeriodic, Limit
  <2> QED
    BY <1>6, <2>1, <2>2 DEF RobotPeriodic
<1>7. CASE Idle
  BY <1>7 DEF Idle
<1>8. CASE CancelDisabled
  BY <1>8 DEF CancelDisabled, Cancel
<1>9. CASE Execute
  <2>a. scheduled /\ pc = "sched" /\ pc' = "wait" /\ loopTicks' = loopTicks
        /\ matchTimer' = matchTimer /\ phase' # "STOP"
    BY <1>9 DEF Execute, RunCommands
  <2>b. lane \in {0, 1, 2, 3} /\ phase # "STOP" /\ (phase = "DEPART" => lane = 0)
        /\ Limit(phase) \in Nat
    BY <2>a DEF kTotalSweepLanes, Limit
  <2>c. matchTimer <= Before + phaseTimer /\ phaseTimer <= Limit(phase) + 2 * MaxLoop
    BY <2>a, <2>b
  <2>0. Late = loopTicks + MaxLoop /\ Late' = loopTicks
    BY <2>a
  <2>1. CASE ~Due
    <3>1. Same
      BY <1>9, <2>1 DEF Execute
    <3>2. Limit(phase)' = Limit(phase) /\ Before' = Before
      BY <3>1 DEF Limit, Before, Lanes
    <3> QED
      BY <2>a, <2>b, <2>c, <2>0, <2>1, <3>1, <3>2 DEF Due
  <2>2. CASE Due
    <3>1. NextPhase
      BY <1>9, <2>2 DEF Execute
    <3>2. Before + Limit(phase) + 2 * MaxLoop <= Before'
      <4>1. CASE phase = "DEPART"
        BY <2>a, <2>b, <2>c, <2>0, <3>1, <4>1 DEF NextPhase, Before, Lanes, Limit
      <4>2. CASE phase = "SWEEP_FORWARD"
        BY <2>a, <2>b, <2>c, <2>0, <3>1, <4>2 DEF NextPhase, Before, Lanes, Limit
      <4>3. CASE phase = "SWEEP_TURN"
        <5>1. lane' = lane + 1 /\ lane' \in {1, 2, 3} /\ phase' = "SWEEP_FORWARD"
          BY <2>a, <2>b, <2>c, <2>0, <3>1, <4>3 DEF NextPhase, kTotalSweepLanes
        <5>2. Before = DepartTime + ForwardTime + 4 * MaxLoop + Lanes
              /\ Before' = DepartTime + 2 * MaxLoop + Lanes' /\ Limit(phase) = TurnTime
          BY <4>3, <5>1 DEF Before, Limit
        <5>3. Lanes \in Nat /\ Lanes' = Lanes + ForwardTime + TurnTime + 4 * MaxLoop
          BY <2>a, <2>b, <2>c, <2>0, <5>1 DEF Lanes
        <5> QED
          BY <5>2, <5>3
      <4> QED
        BY <2>a, <2>b, <2>c, <2>0, <4>1, <4>2, <4>3
    <3>3. Before \in Nat /\ Before' \in Nat /\ phaseTimer' = 0 /\ Limit(phase)' \in Nat
      <4>1. phaseTimer' = 0 /\ lane' \in {0, 1, 2, 3}
            /\ phase' \in {"SWEEP_FORWARD", "SWEEP_TURN"}
        BY <2>a, <2>b, <2>c, <2>0, <3>1 DEF NextPhase, kTotalSweepLanes
      <4>2. Lanes \in Nat /\ Lanes' \in Nat
        BY <2>a, <2>b, <2>c, <2>0, <4>1 DEF Lanes
      <4> QED
        BY <2>a, <2>b, <2>c, <2>0, <4>1, <4>2 DEF Before, Limit
    <3>4. matchTimer' <= Before' + phaseTimer'
      <4> HIDE DEF AgeInv, PeriodInv, TypeOK, Late
      <4>1. matchTimer \in Nat /\ phaseTimer \in Nat /\ MaxLoop \in Nat
        BY DEF PeriodInv, TypeOK
      <4>2. matchTimer <= Before + (Limit(phase) + 2 * MaxLoop)
        BY <2>b, <2>c, <3>3, <4>1
      <4>3. \A b, l, c \in Nat : b + l + 2 * MaxLoop <= c /\ matchTimer <= b + (l + 2 * MaxLoop)
                                 => matchTimer <= c + 0
        BY <4>1
      <4>4. matchTimer <= Before' + 0
        BY <2>b, <3>2, <3>3, <4>2, <4>3, Zenon
      <4> QED
        BY <2>a, <3>3, <4>4, Zenon
    <3>5. Late' \in Nat
      BY <2>a
    <3>6. phaseTimer' <= Limit(phase)' + Late'
      <4> HIDE DEF AgeInv, PeriodInv, TypeOK, Late
      <4> QED
        BY <3>3, <3>5
    <3> QED
      BY <3>4, <3>6
  <2> QED
    BY <2>1, <2>2
<1>10. CASE Tick
  <2>0. scheduled /\ lane \in {0, 1, 2, 3} /\ phase # "STOP"
    BY <1>10 DEF Tick, kTotalSweepLanes
  <2>1. Limit(phase)' = Limit(phase) /\ Before' = Before
    BY <1>10 DEF Tick, Limit, Before, Lanes
  <2>2. Lanes \in Nat
    BY <2>0 DEF Lanes
  <2>3. Limit(phase) \in Nat /\ Before \in Nat
    BY <2>0, <2>2 DEF Limit, Before
  <2> QED
    BY <1>10, <2>0, <2>1, <2>3 DEF Tick
<1>11. CASE Restart
  BY <1>11 DEF Restart
<1>12. CASE UNCHANGED vars
  BY <1>12 DEF Limit, Before, Lanes
<1> QED
  BY <1>1, <1>3, <1>4, <1>5, <1>6, <1>7, <1>8, <1>9, <1>10, <1>11, <1>12 DEF Next, Handlers

\* The legs of the plan, one by one.
LEMMA Legs ==
    /\ Len(SweepLegs) = 9
    /\ SweepLegs[1] = [move |-> "forward", time |-> DepartTime]
    /\ \A i \in {2, 4, 6, 8} : SweepLegs[i] = [move |-> "forward", time |-> ForwardTime]
    /\ \A i \in {3, 7} : SweepLegs[i] = [move |-> "plus", time |-> TurnTime]
    /\ \A i \in {5, 9} : SweepLegs[i] = [move |-> "minus", time |-> TurnTime]
<1> DEFINE depart == [move |-> "forward", time |-> DepartTime]
           forward == [move |-> "forward", time |-> ForwardTime]
           plus == [move |-> "plus", time |-> TurnTime]
           minus == [move |-> "minus", time |-> TurnTime]
           Set == {depart, forward, plus, minus}
           rest == [i \in 1 .. 8 |-> CASE i % 2 = 1 -> forward [] i % 4 = 2 -> plus [] i % 4 = 0 -> minus]
<1>1. SweepLegs = <<depart>> \o rest
  BY DEF SweepLegs, kTotalSweepLanes
<1> HIDE DEF depart, forward, plus, minus
<1>2. /\ \A i \in {1, 3, 5, 7} : rest[i] = forward
      /\ \A i \in {2, 6} : rest[i] = plus
      /\ \A i \in {4, 8} : rest[i] = minus
  OBVIOUS
<1>3. \A i \in 1 .. 8 : rest[i] \in Set
  <2> TAKE i \in 1 .. 8
  <2>1. i \in {1, 3, 5, 7} \/ i \in {2, 6} \/ i \in {4, 8}
    OBVIOUS
  <2> QED
    BY <2>1, <1>2
<1>4. rest \in [1 .. 8 -> Set]
  BY <1>3
<1>5. rest \in Seq(Set) /\ Len(rest) = 8
  BY <1>4
<1>6. <<depart>> \in Seq(Set) /\ Len(<<depart>>) = 1 /\ <<depart>>[1] = depart
  OBVIOUS
<1> DEFINE first == <<depart>>
<1> HIDE DEF rest, first, Set
<1>7. Len(first \o rest) = Len(first) + Len(rest)
      /\ \A i \in 1 .. Len(first) + Len(rest) :
           (first \o rest)[i] = IF i <= Len(first) THEN first[i] ELSE rest[i - Len(first)]
  <2>1. first \in Seq(Set) /\ rest \in Seq(Set)
    BY <1>5, <1>6 DEF first
  <2> QED
    BY <2>1, ConcatProperties
<1>8. Len(first \o rest) = 9
      /\ \A i \in 1 .. 9 : (first \o rest)[i] = IF i <= 1 THEN first[i] ELSE rest[i - 1]
  BY <1>5, <1>6, <1>7 DEF first
<1> QED
  BY <1>1, <1>2, <1>6, <1>8 DEF first, depart, forward, plus, minus

\* The sweep is over before the match is: it takes two late loops longer a leg
\* than its nine legs at most.
THEOREM SweepAlwaysEndsInTime == Spec => []SweepEndsInTime
<1>1. Init => AgeInv
  BY DEF Init, AgeInv
<1>2. AgeInv /\ PeriodInv => SweepEndsInTime
  <2> SUFFICES ASSUME AgeInv, PeriodInv, scheduled PROVE matchTimer <= SweepBound
    BY DEF SweepEndsInTime
  <2>1. lane \in {0, 1, 2, 3} /\ phase \in {"DEPART", "SWEEP_FORWARD", "SWEEP_TURN"}
        /\ (phase = "DEPART" => lane = 0)
    BY DEF PeriodInv, TypeOK, ScheduleInv, kTotalSweepLanes
  <2>2. matchTimer <= Before + Limit(phase) + 2 * MaxLoop
    <3>1. Lanes \in Nat
      BY <2>1, TimeTypes DEF Lanes
    <3>2. Before \in Nat /\ Limit(phase) \in Nat
      BY <2>1, <3>1, TimeTypes DEF Before, Limit
    <3> QED
      BY <3>2, TimeTypes DEF AgeInv, PeriodInv, TypeOK, Late
  <2>3. SweepBound = DepartTime + 4 * (ForwardTime + TurnTime) + 18 * MaxLoop
    BY Legs, TimeTypes DEF SweepBound, LegSum, kTotalSweepLanes
  <2>4. Lanes \in Nat /\ Lanes <= 3 * (ForwardTime + TurnTime) + 12 * MaxLoop
    BY <2>1, TimeTypes DEF Lanes
  <2>5. Before + Limit(phase) + 2 * MaxLoop <= SweepBound
    BY <2>1, <2>3, <2>4, TimeTypes DEF Before, Limit
  <2>6. Before \in Nat /\ Limit(phase) \in Nat /\ matchTimer \in Nat /\ SweepBound \in Nat
    BY <2>1, <2>3, <2>4, TimeTypes DEF Before, Limit, PeriodInv, TypeOK
  <2> QED
    BY <2>2, <2>5, <2>6, TimeTypes
<1> QED
  BY <1>1, <1>2, StepAge, PeriodInvariant, PTL DEF Spec

(***************************************************************************)
(* The match time is right.                                                *)
(***************************************************************************)

\* The Jetson has been told the time left of a moment m0 that is at most a loop
\* and its handlers ago, unless the match clock was only just set back.
ClockInv ==
    started =>
      \/ pc = "robot" /\ matchTimer <= loopTicks
      \/ \E m0 \in 0 .. matchTimer :
           /\ matchTimer - m0 <= loopTicks + (IF pc = "robot" THEN MaxLoop ELSE 0)
           /\ txTime \in ToUint16(IF m0 < MatchTime THEN MatchTime - m0 ELSE 0)

LEMMA StepClock == ClockInv /\ PeriodInv /\ [Next]_vars => ClockInv'
<1> SUFFICES ASSUME ClockInv, PeriodInv, [Next]_vars, started' PROVE ClockInv'
  BY DEF ClockInv
<1> USE TimeTypes DEF PeriodInv, TypeOK, Modes, loopVars, sweepVars, clockVars, vars
<1> DEFINE Told(m) == ToUint16(IF m < MatchTime THEN MatchTime - m ELSE 0)
<1>0. \A m : Told(m)' = Told(m)
  BY DEF ToUint16
<1>1. CASE AutonomousInit
  BY <1>1 DEF AutonomousInit, LoopStart, ClockInv
<1>2. ASSUME LoopStart(mode'), UNCHANGED clockVars PROVE ClockInv'
  <2>1. started /\ pc = "wait" /\ pc' = "robot" /\ loopTicks' = 0
        /\ matchTimer' = matchTimer /\ txTime' = txTime
    BY <1>2 DEF LoopStart
  <2>2. PICK m0 \in 0 .. matchTimer : matchTimer - m0 <= loopTicks /\ txTime \in Told(m0)
    BY <2>1 DEF ClockInv
  <2>3. m0 \in 0 .. matchTimer' /\ matchTimer' - m0 <= loopTicks' + MaxLoop
    BY <2>1, <2>2
  <2>4. txTime' \in Told(m0)
    BY <2>1, <2>2
  <2> QED
    BY <2>1, <2>3, <2>4 DEF ClockInv, ToUint16
<1>3. CASE TeleopInit
  BY <1>2, <1>3 DEF TeleopInit, LoopStart
<1>4. CASE TestInit
  BY <1>2, <1>4 DEF TestInit, LoopStart
<1>5. ASSUME NEW m \in Modes, NoInit(m) PROVE ClockInv'
  BY <1>2, <1>5 DEF NoInit, LoopStart
<1>6. CASE RobotPeriodic
  <2>1. started /\ matchTimer' = matchTimer /\ loopTicks' = loopTicks /\ pc' # "robot"
    BY <1>6 DEF RobotPeriodic
  <2>2. PICK m0 \in 0 .. matchTimer : m0 = matchTimer
    OBVIOUS
  <2>3. txTime' \in Told(m0)
    BY <1>6, <2>1, <2>2 DEF RobotPeriodic, TimeLeft
  <2>4. m0 \in 0 .. matchTimer' /\ matchTimer' - m0 <= loopTicks'
    BY <2>1, <2>2
  <2> QED
    BY <2>1, <2>3, <2>4 DEF ClockInv, ToUint16
<1>7. ASSUME RunCommands PROVE ClockInv'
  <2>1. started /\ pc = "sched" /\ pc' = "wait" /\ loopTicks' = loopTicks
        /\ matchTimer' = matchTimer /\ txTime' = txTime
    BY <1>7 DEF RunCommands
  <2>2. PICK m0 \in 0 .. matchTimer : matchTimer - m0 <= loopTicks /\ txTime \in Told(m0)
    BY <2>1 DEF ClockInv
  <2>3. m0 \in 0 .. matchTimer' /\ matchTimer' - m0 <= loopTicks'
    BY <2>1, <2>2
  <2>4. txTime' \in Told(m0)
    BY <2>1, <2>2
  <2> QED
    BY <2>1, <2>3, <2>4 DEF ClockInv, ToUint16
<1>8. CASE Tick
  <2>1. started /\ pc' = pc /\ loopTicks' = loopTicks + 1 /\ txTime' = txTime
        /\ matchTimer' \in {matchTimer, matchTimer + 1}
    BY <1>8 DEF Tick
  <2>a. matchTimer \in Nat /\ matchTimer' \in Nat /\ loopTicks \in Nat /\ matchTimer <= matchTimer'
        /\ matchTimer' <= matchTimer + 1
    BY <2>1
  <2>2. CASE pc = "robot" /\ matchTimer <= loopTicks
    <3>1. pc' = "robot" /\ matchTimer' <= loopTicks'
      BY <2>1, <2>a, <2>2
    <3> QED
      BY <3>1 DEF ClockInv
  <2>3. ASSUME NEW m0 \in 0 .. matchTimer,
               matchTimer - m0 <= loopTicks + (IF pc = "robot" THEN MaxLoop ELSE 0),
               txTime \in Told(m0)
        PROVE  ClockInv'
    <3>0. m0 \in 0 .. matchTimer'
      BY <2>1, <2>3
    <3>1. matchTimer' - m0 <= loopTicks' + (IF pc' = "robot" THEN MaxLoop ELSE 0)
      <4>1. \A m, n, l, d \in Nat : n <= m + 1 /\ m - m0 <= l + d => n - m0 <= (l + 1) + d
        OBVIOUS
      <4>2. (IF pc = "robot" THEN MaxLoop ELSE 0) \in Nat
        OBVIOUS
      <4>3. matchTimer' - m0 <= (loopTicks + 1) + (IF pc = "robot" THEN MaxLoop ELSE 0)
        BY <2>a, <2>3, <4>1, <4>2, Zenon
      <4> QED
        BY <2>1, <4>3, Zenon
    <3>2. txTime' \in Told(m0)
      BY <2>1, <2>3
    <3> QED
      BY <3>0, <3>1, <3>2 DEF ClockInv, ToUint16
  <2> QED
    BY <2>1, <2>2, <2>3 DEF ClockInv
<1>9. CASE Restart
  BY <1>9 DEF Restart
<1>10. CASE UNCHANGED vars
  BY <1>10 DEF ClockInv, ToUint16
<1> QED
  BY <1>1, <1>3, <1>4, <1>5, <1>6, <1>7, <1>8, <1>9, <1>10
     DEF Next, Handlers, Idle, CancelDisabled, Execute

\* However late the loops come and however often the clock is set back, a match
\* time that fits its field is the time left, at most two loops old.
THEOREM MatchTimeAlwaysRight == Spec => []MatchTimeIsRight
<1>1. Init => ClockInv
  BY DEF Init, ClockInv
<1>2. ClockInv /\ PeriodInv => MatchTimeIsRight
  <2> SUFFICES ASSUME ClockInv, PeriodInv, started, matchTimer > 2 * MaxLoop,
                      MatchTime - matchTimer + 2 * MaxLoop < Word
               PROVE  txTime - (MatchTime - matchTimer) \in 0 .. 2 * MaxLoop
    BY DEF MatchTimeIsRight
  <2> USE TimeTypes DEF PeriodInv, TypeOK
  <2>1. PICK m0 \in 0 .. matchTimer :
          /\ matchTimer - m0 <= 2 * MaxLoop
          /\ txTime \in ToUint16(IF m0 < MatchTime THEN MatchTime - m0 ELSE 0)
    BY DEF ClockInv
  <2>2. CASE m0 < MatchTime
    <3>1. MatchTime - m0 \in 0 .. Word - 1
      BY <2>1, <2>2
    <3>2. txTime = MatchTime - m0
      BY <2>1, <2>2, <3>1 DEF ToUint16
    <3> QED
      BY <2>1, <2>2, <3>2
  <2>3. CASE ~(m0 < MatchTime)
    <3>1. 0 \in 0 .. Word - 1
      OBVIOUS
    <3>2. txTime = 0
      BY <2>1, <2>3, <3>1 DEF ToUint16
    <3> QED
      BY <2>1, <2>3, <3>2
  <2> QED
    BY <2>2, <2>3
<1> QED
  BY <1>1, <1>2, StepClock, PeriodInvariant, PTL DEF Spec

(***************************************************************************)
(* The command is the plan.                                                *)
(***************************************************************************)

\* The plan's variables, as INSTANCE replaces them.
LegNow == IF ~scheduled THEN 0
          ELSE IF phase = "DEPART" THEN 1
          ELSE 2 * lane + (IF phase = "SWEEP_FORWARD" THEN 2 ELSE 3)
Spent == IF scheduled THEN phaseTimer ELSE 0

\* The phase and the lane are the leg they stand for.
LEMMA PhaseIsLeg ==
    ASSUME PeriodInv, scheduled
    PROVE  /\ LegNow \in 1 .. 9 /\ Spent = phaseTimer
           /\ SweepLegs[LegNow].time = Limit(phase)
           /\ SweepLegs[LegNow].move = Move
           /\ LegNow = 9 <=> phase = "SWEEP_TURN" /\ lane = 3
<1>1. lane \in {0, 1, 2, 3} /\ phase \in {"DEPART", "SWEEP_FORWARD", "SWEEP_TURN"}
      /\ (phase = "DEPART" => lane = 0)
  BY DEF PeriodInv, TypeOK, ScheduleInv, kTotalSweepLanes
<1>2. CASE phase = "DEPART"
  BY <1>2, Legs DEF LegNow, Spent, Limit, Move
<1>3. CASE phase = "SWEEP_FORWARD"
  <2>1. LegNow = 2 * lane + 2
    BY <1>3 DEF LegNow
  <2>2. LegNow \in {2, 4, 6, 8}
    BY <1>1, <2>1
  <2>3. SweepLegs[LegNow] = [move |-> "forward", time |-> ForwardTime]
    BY <2>2, Legs
  <2> QED
    BY <1>3, <2>2, <2>3 DEF Spent, Limit, Move
<1>4. CASE phase = "SWEEP_TURN"
  <2>1. LegNow = 2 * lane + 3
    BY <1>4 DEF LegNow
  <2>2. CASE lane \in {0, 2}
    <3>1. LegNow \in {3, 7} /\ lane % 2 = 0
      BY <2>1, <2>2
    <3>2. SweepLegs[LegNow] = [move |-> "plus", time |-> TurnTime]
      BY <3>1, Legs
    <3> QED
      BY <1>4, <2>2, <3>1, <3>2 DEF Spent, Limit, Move
  <2>3. CASE lane \in {1, 3}
    <3>1. LegNow \in {5, 9} /\ lane % 2 # 0 /\ (LegNow = 9 <=> lane = 3)
      BY <2>1, <2>3
    <3>2. SweepLegs[LegNow] = [move |-> "minus", time |-> TurnTime]
      BY <3>1, Legs
    <3> QED
      BY <1>4, <3>1, <3>2 DEF Spent, Limit, Move
  <2> QED
    BY <1>1, <2>2, <2>3
<1> QED
  BY <1>1, <1>2, <1>3, <1>4

\* A pass over the scheduled command is a step of the plan.
LEMMA ExecutePlan == PeriodInv /\ Execute => Sweep!Next
<1> SUFFICES ASSUME PeriodInv, Execute PROVE Sweep!Next
  OBVIOUS
<1>1. scheduled /\ mode = "auto" /\ mode' = mode /\ scheduled' = (phase' # "STOP")
  BY DEF Execute, RunCommands, PeriodInv, ScheduleInv
<1>2. /\ LegNow \in 1 .. 9 /\ Spent = phaseTimer
      /\ SweepLegs[LegNow].time = Limit(phase)
      /\ SweepLegs[LegNow].move = Move
      /\ LegNow = 9 <=> phase = "SWEEP_TURN" /\ lane = 3
  BY <1>1, PhaseIsLeg
<1>3. Sweep!UnderWay
  <2>1. LegNow > 0
    BY <1>2
  <2> QED
    BY <1>1, <2>1, Zenon DEF Sweep!UnderWay, LegNow
<1>4. CASE ~Due
  <2>1. phase # "STOP" /\ phase' = phase /\ phaseTimer' = phaseTimer /\ lane' = lane
    BY <1>1, <1>4 DEF Execute, sweepVars, PeriodInv, ScheduleInv
  <2>2. scheduled' /\ move' = Move
    BY <1>1, <2>1 DEF Execute
  <2>3. LegNow' = LegNow /\ Spent' = Spent
    BY <1>1, <2>1, <2>2 DEF LegNow, Spent
  <2>4. Spent <= SweepLegs[LegNow].time
    <3>1. Limit(phase) \in Nat /\ phaseTimer \in Nat
      BY <1>1, TimeTypes DEF PeriodInv, TypeOK, ScheduleInv, Limit
    <3> QED
      BY <1>2, <1>4, <3>1 DEF Due
  <2>5. Sweep!Command
    BY <1>2, <1>3, <2>2, <2>3, <2>4, Zenon DEF Sweep!Command, LegNow, Spent
  <2> QED
    BY <2>5, Zenon DEF Sweep!Next
<1>5. CASE Due
  <2>1. NextPhase /\ Spent > SweepLegs[LegNow].time
    BY <1>2, <1>5 DEF Execute, Due
  <2>2. lane \in {0, 1, 2, 3} /\ phase \in {"DEPART", "SWEEP_FORWARD", "SWEEP_TURN"}
        /\ (phase = "DEPART" => lane = 0)
    BY <1>1 DEF PeriodInv, TypeOK, ScheduleInv, kTotalSweepLanes
  <2>3. CASE phase = "SWEEP_TURN" /\ lane = 3
    <3>1. phase' = "STOP"
      BY <2>1, <2>3 DEF NextPhase, kTotalSweepLanes
    <3>2. ~scheduled' /\ move' = "none"
      BY <1>1, <3>1 DEF Execute
    <3>3. LegNow' = 0 /\ Spent' = 0
      BY <3>2 DEF LegNow, Spent
    <3>4. LegNow = Len(SweepLegs)
      BY <1>2, <2>3, Legs
    <3>5. Sweep!Finish
      BY <1>3, <2>1, <3>2, <3>3, <3>4, Zenon DEF Sweep!Finish, Sweep!Stopped, LegNow, Spent
    <3> QED
      BY <3>5, Zenon DEF Sweep!Next
  <2>4. CASE ~(phase = "SWEEP_TURN" /\ lane = 3)
    <3>1. phase' \in {"SWEEP_FORWARD", "SWEEP_TURN"} /\ phaseTimer' = 0
      BY <2>1, <2>2, <2>4 DEF NextPhase, kTotalSweepLanes
    <3>2. scheduled' /\ move' = Move
      BY <1>1, <3>1 DEF Execute
    <3>3. LegNow' = LegNow + 1
      <4>1. CASE phase = "DEPART"
        BY <1>1, <2>1, <2>2, <3>2, <4>1 DEF LegNow, NextPhase
      <4>2. CASE phase = "SWEEP_FORWARD"
        BY <1>1, <2>1, <2>2, <3>2, <4>2 DEF LegNow, NextPhase
      <4>3. CASE phase = "SWEEP_TURN"
        BY <1>1, <2>1, <2>2, <2>4, <3>2, <4>3 DEF LegNow, NextPhase, kTotalSweepLanes
      <4> QED
        BY <2>2, <4>1, <4>2, <4>3
    <3>4. LegNow < Len(SweepLegs) /\ Spent' = 0
      BY <1>2, <2>4, <3>1, <3>2, Legs DEF Spent
    <3>5. Sweep!NextLeg
      BY <1>2, <1>3, <2>1, <3>2, <3>3, <3>4, Zenon DEF Sweep!NextLeg, LegNow, Spent
    <3> QED
      BY <3>5, Zenon DEF Sweep!Next
  <2> QED
    BY <2>3, <2>4
<1> QED
  BY <1>4, <1>5

LEMMA StepPlan == PeriodInv /\ CommandEndsWithSweep /\ [Next]_vars => [Sweep!Next]_(Sweep!vars)
<1> SUFFICES ASSUME PeriodInv, CommandEndsWithSweep, [Next]_vars PROVE [Sweep!Next]_(Sweep!vars)
  OBVIOUS
<1> USE DEF loopVars, sweepVars, clockVars, vars
<1>s. ASSUME LegNow' = LegNow, Spent' = Spent, mode' = mode, move' = move
      PROVE  UNCHANGED Sweep!vars
  BY <1>s, Zenon DEF Sweep!vars, LegNow, Spent
<1>g. ASSUME mode' # "auto", ~scheduled', move' = "none"
      PROVE  Sweep!Next
  <2>1. LegNow' = 0 /\ Spent' = 0
    BY <1>g DEF LegNow, Spent
  <2>2. Sweep!GiveUp
    BY <1>g, <2>1, Zenon DEF Sweep!GiveUp, Sweep!Stopped, LegNow, Spent
  <2> QED
    BY <2>2, Zenon DEF Sweep!Next
<1>l. ASSUME mode' # "auto", UNCHANGED <<scheduled, sweepVars, move>>
      PROVE  Sweep!Next
  <2>1. LegNow' = LegNow /\ Spent' = Spent /\ move' = move
    BY <1>l DEF LegNow, Spent
  <2>2. Sweep!LeaveMode
    BY <1>l, <2>1, Zenon DEF Sweep!LeaveMode, LegNow, Spent
  <2> QED
    BY <2>2, Zenon DEF Sweep!Next
<1>1. CASE AutonomousInit
  <2>1. mode # "auto" /\ mode' = "auto" /\ ~scheduled /\ scheduled'
        /\ phase' = "DEPART" /\ phaseTimer' = 0 /\ move' = move
    BY <1>1 DEF AutonomousInit, LoopStart, Initialize, PeriodInv, ScheduleInv
  <2>2. LegNow = 0 /\ LegNow' = 1 /\ Spent' = 0
    BY <2>1 DEF LegNow, Spent
  <2>3. Sweep!Begin
    BY <2>1, <2>2, Zenon DEF Sweep!Begin, LegNow, Spent
  <2> QED
    BY <2>3, Zenon DEF Sweep!Next
<1>2. CASE TeleopInit
  <2>1. mode' = "teleop" /\ UNCHANGED sweepVars
    BY <1>2 DEF TeleopInit, LoopStart
  <2>2. CASE scheduled
    BY <1>2, <1>g, <2>1, <2>2 DEF TeleopInit, Cancel, PeriodInv, ScheduleInv
  <2>3. CASE ~scheduled
    <3>1. ~scheduled' /\ move' = "none"
      BY <1>2, <2>3 DEF TeleopInit, Cancel, CommandEndsWithSweep
    <3> QED
      BY <1>g, <2>1, <3>1
  <2> QED
    BY <2>2, <2>3
<1>3. CASE TestInit
  <2>1. mode' = "test" /\ ~scheduled' /\ move' = "none"
    BY <1>3 DEF TestInit, LoopStart, Cancel, CommandEndsWithSweep
  <2> QED
    BY <1>g, <2>1
<1>4. ASSUME NEW m \in Modes, NoInit(m) PROVE [Sweep!Next]_(Sweep!vars)
  <2>1. mode' = m /\ UNCHANGED <<scheduled, sweepVars, move>>
    BY <1>4 DEF NoInit, LoopStart
  <2>2. CASE m = mode
    <3>1. LegNow' = LegNow /\ Spent' = Spent /\ mode' = mode /\ move' = move
      BY <2>1, <2>2 DEF LegNow, Spent
    <3> QED
      BY <1>s, <3>1
  <2>3. CASE m = "disabled"
    BY <1>l, <2>1, <2>3
  <2> QED
    BY <1>4, <2>2, <2>3 DEF NoInit
<1>5. CASE RobotPeriodic
  <2>1. LegNow' = LegNow /\ Spent' = Spent /\ mode' = mode /\ move' = "none"
    BY <1>5 DEF RobotPeriodic, LegNow, Spent
  <2>2. Sweep!Override
    BY <2>1, Zenon DEF Sweep!Override, LegNow, Spent
  <2> QED
    BY <2>2, Zenon DEF Sweep!Next
<1>6. CASE Idle
  <2>1. LegNow' = LegNow /\ Spent' = Spent /\ mode' = mode /\ move' = move
    BY <1>6 DEF Idle, RunCommands, LegNow, Spent
  <2> QED
    BY <1>s, <2>1
<1>7. CASE CancelDisabled
  <2>1. mode' = "disabled" /\ ~scheduled' /\ move' = "none"
    BY <1>7 DEF CancelDisabled, RunCommands, Cancel
  <2> QED
    BY <1>g, <2>1
<1>8. CASE Execute
  BY <1>8, ExecutePlan
<1>9. CASE Tick
  <2>1. LegNow' = LegNow /\ mode' = mode /\ move' = move
    BY <1>9 DEF Tick, LegNow
  <2>2. CASE scheduled
    <3>1. LegNow \in 1 .. 9 /\ Spent' = Spent + 1
      BY <1>9, <2>2, PhaseIsLeg DEF Tick, Spent
    <3>2. LegNow > 0
      BY <3>1
    <3>3. Sweep!TimePasses
      BY <2>1, <3>1, <3>2, Zenon DEF Sweep!TimePasses, LegNow, Spent
    <3> QED
      BY <3>3, Zenon DEF Sweep!Next
  <2>3. CASE ~scheduled
    <3>1. Spent' = Spent
      BY <1>9, <2>3 DEF Tick, Spent
    <3> QED
      BY <1>s, <2>1, <3>1
  <2> QED
    BY <2>2, <2>3
<1>10. CASE Restart
  <2>1. mode' # "auto" /\ ~scheduled' /\ move' = "none"
    BY <1>10 DEF Restart
  <2> QED
    BY <1>g, <2>1
<1>11. CASE UNCHANGED vars
  <2>1. LegNow' = LegNow /\ Spent' = Spent /\ mode' = mode /\ move' = move
    BY <1>11 DEF LegNow, Spent
  <2> QED
    BY <1>s, <2>1
<1> QED
  BY <1>1, <1>2, <1>3, <1>4, <1>5, <1>6, <1>7, <1>8, <1>9, <1>10, <1>11 DEF Next, Handlers

\* The autonomous command is the plan: every step of a match is one of the
\* plan's or leaves it alone, whatever the driver station does and however late
\* the loops come.
THEOREM SweepImplementsPlan == Spec => ImplementsPlan
<1>1. Init => Sweep!Init
  <2> SUFFICES ASSUME Init PROVE Sweep!Init
    OBVIOUS
  <2>1. LegNow = 0 /\ Spent = 0 /\ mode # "auto" /\ move = "none"
    BY DEF Init, LegNow, Spent
  <2> QED
    BY <2>1, Zenon DEF Sweep!Init, LegNow, Spent
<1> QED
  BY <1>1, StepPlan, PeriodInvariant, CommandAlwaysEndsWithSweep, PTL
     DEF Spec, ImplementsPlan, Sweep!Spec

=============================================================================
