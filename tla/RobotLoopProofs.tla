-------------------------- MODULE RobotLoopProofs --------------------------
(***************************************************************************)
(* What RobotLoop guarantees for every set of commands, every timeout and  *)
(* every bound: types first, then one inductive invariant per property.    *)
(***************************************************************************)
EXTENDS RobotLoop, TLAPS

\* A link that counts as alive has delivered a packet.
ConnectedHasPacket == connected => rx \in Packet

TypeInv == TypeOK /\ ConnectedHasPacket

USE DEF vars, loopVars, ntVars, testVars, linkVars, serialVars, driveVars

-----------------------------------------------------------------------------

\* The stop is a speed of every wheel, and so is what a command stands for.
LEMMA SpeedsType ==
    /\ AllStop \in [Wheels -> WheelSpeeds]
    /\ \A c \in Commands : CommandedSpeeds(c) \in [Wheels -> WheelSpeeds]
BY DEF AllStop, CommandedSpeeds, HorizSpeed, WheelSpeeds, Commands

\* Writing typed speeds keeps the wheels' variables typed, lost or not.
LEMMA SerialType ==
    ASSUME asked \in [Wheels -> WheelSpeeds], motor \in [Wheels -> WheelSpeeds],
           faults \in 0 .. MaxFaults,
           NEW speeds \in [Wheels -> WheelSpeeds], NEW lost \in Losses, Serial(speeds, lost)
    PROVE  /\ asked' \in [Wheels -> WheelSpeeds] /\ motor' \in [Wheels -> WheelSpeeds]
           /\ faults' \in 0 .. MaxFaults
BY BoundsAssumption, TimeoutAssumption DEF Serial, Losses

\* A stop stores the zero command and keeps the types.
LEMMA StopType ==
    ASSUME asked \in [Wheels -> WheelSpeeds], motor \in [Wheels -> WheelSpeeds],
           faults \in 0 .. MaxFaults, NEW lost \in Losses, StopWrites(lost)
    PROVE  /\ asked' \in [Wheels -> WheelSpeeds] /\ motor' \in [Wheels -> WheelSpeeds]
           /\ faults' \in 0 .. MaxFaults
BY SerialType, SpeedsType DEF StopWrites

-----------------------------------------------------------------------------

LEMMA TypeInit == Init => TypeInv
<1> SUFFICES ASSUME Init PROVE TypeInv
  OBVIOUS
<1>0. FlagsTypeOK
  BY DEF Init, LinkInit, FlagsTypeOK
<1>1. LoopTypeOK
  BY BoundsAssumption, TimeoutAssumption DEF Init, LinkInit, LoopTypeOK
<1>2. DashboardTypeOK
  BY BoundsAssumption, TimeoutAssumption DEF Init, LinkInit, DashboardTypeOK, TestTimerCap, TestBound
<1>3. LinkTypeOK
  BY BoundsAssumption, TimeoutAssumption DEF Init, LinkInit, LinkTypeOK, SilenceCap, LinkBound
<1>4. WheelTypeOK
  BY BoundsAssumption, TimeoutAssumption, SpeedsType DEF Init, LinkInit, WheelTypeOK, Commands
<1>5. QED
  BY <1>0, <1>1, <1>2, <1>3, <1>4 DEF Init, LinkInit, TypeInv, TypeOK, ConnectedHasPacket

LEMMA LoopTypeStep == LoopTypeOK /\ [Next]_vars => LoopTypeOK'
<1> SUFFICES ASSUME LoopTypeOK, [Next]_vars PROVE LoopTypeOK'
  OBVIOUS
<1> USE BoundsAssumption, TimeoutAssumption DEF LoopTypeOK
<1>1. ASSUME NEW m \in Modes, NEW lost, LoopStart(m, lost) PROVE LoopTypeOK'
  BY <1>1 DEF LoopStart
<1>2. ASSUME EndDriveStep PROVE LoopTypeOK'
  BY <1>2 DEF EndDriveStep
<1>3. ASSUME NEW lost, DrivetrainPeriodic(lost) PROVE LoopTypeOK'
  BY <1>3 DEF DrivetrainPeriodic, PeriodicOf, ConfigWrites
<1>4. CASE BridgePeriodic
  BY <1>4 DEF BridgePeriodic, Periodic, PeriodicOf
<1>5. ASSUME NEW lost, RunCommands(lost) PROVE LoopTypeOK'
  BY <1>5 DEF RunCommands
<1>6. ASSUME NEW lost, Restart(lost) PROVE LoopTypeOK'
  BY <1>6 DEF Restart, LinkRestart
<1>7. CASE ReadOwner
  BY <1>7 DEF ReadOwner
<1>8. CASE Tick
  BY <1>8 DEF Tick, LinkTick
<1>9. CASE UNCHANGED <<loopVars, mode, cfgWrite>>
  BY <1>9
<1>10. QED
  BY <1>1, <1>2, <1>3, <1>4, <1>5, <1>6, <1>7, <1>8, <1>9
     DEF Next, CodeStep, WritingStep, Environment, TestReset, TestCancel, TestStart, TestArmed,
         TestTimesOut, TestReachesGoal, TestEndsNow, TestRuns, UpdateDriveTest,
         JetsonDrives, JetsonStops, JetsonStep, DatagramArrives, ClientPress, ClientToggle

LEMMA FlagsTypeStep == FlagsTypeOK /\ [Next]_vars => FlagsTypeOK'
<1> SUFFICES ASSUME FlagsTypeOK, [Next]_vars PROVE FlagsTypeOK'
  OBVIOUS
<1> USE DEF FlagsTypeOK
<1>1. ASSUME NEW m \in Modes, NEW lost, LoopStart(m, lost) PROVE FlagsTypeOK'
  BY <1>1, Zenon DEF LoopStart
<1>2. CASE ReadOwner
  BY <1>2, Zenon DEF ReadOwner
<1>3. ASSUME NEW lost, TestReset(lost) PROVE FlagsTypeOK'
  BY <1>3, Zenon DEF TestReset, UpdateDriveTest, ResetDriveTestState,
     PublishDriveTestTelemetry, EndDriveStep
<1>4. ASSUME NEW lost, TestCancel(lost) PROVE FlagsTypeOK'
  BY <1>4, Zenon DEF TestCancel, UpdateDriveTest, ResetDriveTestState,
     PublishDriveTestTelemetry, EndDriveStep
<1>5. ASSUME NEW lost, NEW i \in DOMAIN StartOrder, TestStart(i, lost) PROVE FlagsTypeOK'
  BY <1>5, Zenon DEF TestStart, UpdateDriveTest, PublishDriveTestTelemetry, EndDriveStep
<1>6. ASSUME NEW lost, TestArmed(lost) PROVE FlagsTypeOK'
  BY <1>6, Zenon DEF TestArmed, UpdateDriveTest, PublishDriveTestTelemetry, EndDriveStep
<1>7. ASSUME NEW lost, TestEndsNow(lost) PROVE FlagsTypeOK'
  BY <1>7, Zenon DEF TestEndsNow, UpdateDriveTest, PublishDriveTestTelemetry, EndDriveStep
<1>8. CASE TestRuns
  BY <1>8, Zenon DEF TestRuns, UpdateDriveTest, PublishDriveTestTelemetry, EndDriveStep
<1>9. ASSUME NEW lost, JetsonDrives(lost) PROVE FlagsTypeOK'
  BY <1>9, Zenon DEF JetsonDrives, JetsonStep, LeaveDriveTest, ResetDriveTestState,
     PublishDriveTestTelemetry, EndDriveStep
<1>10. ASSUME NEW lost, JetsonStops(lost) PROVE FlagsTypeOK'
  BY <1>10, Zenon DEF JetsonStops, JetsonStep, LeaveDriveTest, ResetDriveTestState,
     PublishDriveTestTelemetry, EndDriveStep
<1>11. ASSUME NEW lost, DrivetrainPeriodic(lost) PROVE FlagsTypeOK'
  BY <1>11, Zenon DEF DrivetrainPeriodic, PeriodicOf
<1>12. CASE BridgePeriodic
  BY <1>12, Zenon DEF BridgePeriodic, Periodic, PeriodicOf, LinkAlive
<1>13. ASSUME NEW lost, RunCommands(lost) PROVE FlagsTypeOK'
  BY <1>13, Zenon DEF RunCommands
<1>14. ASSUME NEW lost, Restart(lost) PROVE FlagsTypeOK'
  BY <1>14, Zenon DEF Restart, LinkRestart
<1>15. CASE ClientToggle
  BY <1>15, Zenon DEF ClientToggle
<1>16. CASE UNCHANGED <<manual, auto, ntEnable, ntActive, testActive, socketsReady, connected, outputs>>
  BY <1>16, Zenon
<1>17. QED
  BY <1>1, <1>2, <1>3, <1>4, <1>5, <1>6, <1>7, <1>8, <1>9, <1>10, <1>11, <1>12, <1>13,
     <1>14, <1>15, <1>16
     DEF Next, CodeStep, WritingStep, Environment, TestTimesOut, TestReachesGoal,
         Tick, LinkTick, DatagramArrives, Arrive, ClientPress

LEMMA DashboardTypeStep == DashboardTypeOK /\ [Next]_vars => DashboardTypeOK'
<1> SUFFICES ASSUME DashboardTypeOK, [Next]_vars PROVE DashboardTypeOK'
  OBVIOUS
<1> USE BoundsAssumption, TimeoutAssumption DEF DashboardTypeOK, TestTimerCap, TestBound
<1>1. ASSUME NEW lost, TestReset(lost) PROVE DashboardTypeOK'
  BY <1>1 DEF TestReset, UpdateDriveTest, ResetDriveTestState
<1>2. ASSUME NEW lost, TestCancel(lost) PROVE DashboardTypeOK'
  BY <1>2 DEF TestCancel, UpdateDriveTest, ResetDriveTestState
<1>3. ASSUME NEW lost, NEW i \in DOMAIN StartOrder, TestStart(i, lost) PROVE DashboardTypeOK'
  BY <1>3 DEF TestStart, UpdateDriveTest, StartKeys
<1>4. ASSUME NEW consumed, UpdateDriveTest(consumed), UNCHANGED testVars PROVE DashboardTypeOK'
  BY <1>4 DEF UpdateDriveTest
<1>5. ASSUME NEW lost, TestEndsNow(lost) PROVE DashboardTypeOK'
  BY <1>5 DEF TestEndsNow, UpdateDriveTest
<1>6. CASE JetsonStep
  BY <1>6 DEF JetsonStep, LeaveDriveTest, ResetDriveTestState
<1>7. ASSUME NEW lost, DrivetrainPeriodic(lost) PROVE DashboardTypeOK'
  BY <1>7 DEF DrivetrainPeriodic, PeriodicOf
<1>8. ASSUME NEW lost, Restart(lost) PROVE DashboardTypeOK'
  BY <1>8 DEF Restart, LinkRestart
<1>9. CASE Tick
  BY <1>9 DEF Tick, LinkTick, Capped
<1>10. ASSUME NEW key, ClientPress(key) PROVE DashboardTypeOK'
  BY <1>10 DEF ClientPress
<1>11. CASE UNCHANGED <<pressed, testVars>>
  BY <1>11
<1>12. QED
  BY <1>1, <1>2, <1>3, <1>4, <1>5, <1>6, <1>7, <1>8, <1>9, <1>10, <1>11
     DEF Next, CodeStep, WritingStep, Environment, TestTimesOut, TestReachesGoal, TestArmed,
         TestRuns, LoopStart, ReadOwner, JetsonDrives, JetsonStops, BridgePeriodic, PeriodicOf,
         RunCommands, DatagramArrives, ClientToggle

\* Only the bridge, its socket and the clock touch the link.
LEMMA LinkFrame ==
    ASSUME [Next]_vars
    PROVE  \/ BridgePeriodic \/ Tick
           \/ \E packet \in Packet : DatagramArrives(packet)
           \/ \E lost \in Losses : Restart(lost)
           \/ UNCHANGED <<linkVars, silence>>
BY DEF Next, CodeStep, WritingStep, Environment, TestTimesOut, TestReachesGoal, TestEndsNow,
       TestArmed, TestReset, TestCancel, TestStart, TestRuns, UpdateDriveTest, EndDriveStep,
       LoopStart, ReadOwner, JetsonDrives, JetsonStops, JetsonStep, DrivetrainPeriodic,
       RunCommands, ClientPress, ClientToggle

LinkInv == LinkTypeOK /\ ConnectedHasPacket

LEMMA LinkTypeStep == LinkInv /\ [Next]_vars => LinkInv'
<1> SUFFICES ASSUME LinkInv, [Next]_vars PROVE LinkInv'
  OBVIOUS
<1> USE BoundsAssumption, TimeoutAssumption DEF LinkInv, LinkTypeOK, ConnectedHasPacket, SilenceCap, LinkBound
<1>1. CASE BridgePeriodic
  <2>1. LinkTypeOK'
    BY <1>1 DEF BridgePeriodic, Periodic, PeriodicOf
  <2>2. ConnectedHasPacket'
    BY <1>1 DEF BridgePeriodic, Periodic, PeriodicOf, LinkAlive
  <2>3. QED
    BY <2>1, <2>2
<1>2. CASE Tick
  BY <1>2 DEF Tick, LinkTick, Capped
<1>3. ASSUME NEW packet \in Packet, DatagramArrives(packet) PROVE LinkInv'
  BY <1>3 DEF DatagramArrives, Arrive
<1>4. ASSUME NEW lost, Restart(lost) PROVE LinkInv'
  BY <1>4 DEF Restart, LinkRestart
<1>5. CASE UNCHANGED <<linkVars, silence>>
  BY <1>5
<1>6. QED
  BY LinkFrame, <1>1, <1>2, <1>3, <1>4, <1>5

LEMMA WheelTypeStep == WheelTypeOK /\ LinkInv /\ [Next]_vars => WheelTypeOK'
<1> SUFFICES ASSUME WheelTypeOK, LinkInv, [Next]_vars PROVE WheelTypeOK'
  OBVIOUS
<1> USE DEF WheelTypeOK
<1>1. ASSUME NEW lost \in Losses, StopDrive(lost) PROVE WheelTypeOK'
  BY <1>1, StopType DEF StopDrive, Commands
<1>2. CASE UNCHANGED serialVars /\ cmd' \in Commands
  BY <1>2
<1>3. ASSUME NEW lost \in Losses, JetsonDrives(lost) PROVE WheelTypeOK'
  <2>1. cmd' \in Commands
    BY <1>3 DEF JetsonDrives, ShouldDriveJetson, LinkInv, ConnectedHasPacket, Packet, Commands
  <2>2. StopWrites(lost) \/ UNCHANGED serialVars
    BY <1>3 DEF JetsonDrives, NoSerial
  <2>3. QED
    BY <2>1, <2>2, StopType
<1>4. ASSUME NEW lost \in Losses, DrivetrainPeriodic(lost) PROVE WheelTypeOK'
  BY <1>4, <1>1, <1>2, SerialType, SpeedsType DEF DrivetrainPeriodic, NoSerial
<1>5. CASE UNCHANGED <<cmd, serialVars>>
  BY <1>5
<1>6. QED
  BY <1>1, <1>2, <1>3, <1>4, <1>5
     DEF Next, CodeStep, WritingStep, Environment, TestTimesOut, TestReachesGoal, TestEndsNow,
         TestArmed, TestReset, TestCancel, TestStart, TestRuns, LoopStart, NoSerial, ReadOwner,
         JetsonStops, BridgePeriodic, RunCommands, Tick, DatagramArrives, ClientPress, ClientToggle,
         Restart, Commands

\* Types, and a packet behind every link that counts as alive.
LEMMA TypeStep == TypeInv /\ [Next]_vars => TypeInv'
BY LoopTypeStep, FlagsTypeStep, DashboardTypeStep, LinkTypeStep, WheelTypeStep
   DEF TypeInv, TypeOK, LinkInv

\* Type correctness: every variable keeps its type, the controllers included.
THEOREM TypeCorrect == Spec => []TypeOK
<1>1. TypeInv => TypeOK
  BY DEF TypeInv
<1>2. QED
  BY <1>1, TypeInit, TypeStep, PTL DEF Spec

LEMMA TypeInvariant == Spec => []TypeInv
BY TypeInit, TypeStep, PTL DEF Spec

-----------------------------------------------------------------------------
(* Outputs off means stopped.                                              *)

LEMMA OffStep == OffMeansAskedStop /\ [Next]_vars => OffMeansAskedStop'
<1> SUFFICES ASSUME OffMeansAskedStop, [Next]_vars PROVE OffMeansAskedStop'
  OBVIOUS
<1> USE DEF OffMeansAskedStop
<1>1. ASSUME NEW lost, StopDrive(lost) PROVE OffMeansAskedStop'
  BY <1>1 DEF StopDrive, StopWrites, Serial
<1>2. CASE outputs'
  BY <1>2
<1>3. CASE UNCHANGED <<outputs, asked>>
  BY <1>3
<1>4. ASSUME NEW lost, DrivetrainPeriodic(lost) PROVE OffMeansAskedStop'
  BY <1>4, <1>1, <1>2, <1>3 DEF DrivetrainPeriodic, NoSerial
<1>5. QED
  BY <1>1, <1>2, <1>3, <1>4
     DEF Next, CodeStep, WritingStep, Environment, TestTimesOut, TestReachesGoal, TestEndsNow,
         TestArmed, TestReset, TestCancel, TestStart, TestRuns, LoopStart, NoSerial, ReadOwner,
         JetsonDrives, JetsonStops, BridgePeriodic, RunCommands, Tick, DatagramArrives, ClientPress,
         ClientToggle, Restart

\* Wherever the outputs are off, a stop is the last thing that was written.
THEOREM OffIsStopped == Spec => []OffMeansAskedStop
<1>1. Init => OffMeansAskedStop
  BY DEF Init, LinkInit, OffMeansAskedStop
<1>2. QED
  BY <1>1, OffStep, PTL DEF Spec

-----------------------------------------------------------------------------
(* The age of what the Jetson is obeyed on.                                *)

\* How long a datagram that arrived before the bridge's last Periodic, or
\* before the one to come, can have been in the socket.
BridgeRan == pc = "wait" \/ (pc = "sched" /\ "bridge" \notin todo)
LinkDelay == IF BridgeRan THEN loopTicks ELSE MaxLoop + loopTicks

\* The age of the datagram at each station on its way to the wheels: in the
\* socket, in m_rxPacket, behind m_jetsonConnected, behind the outputs.
LinkAgeInv ==
    /\ inbox # NoPacket => silence <= LinkDelay
    /\ (rx # NoPacket /\ rxAge <= JetsonTimeout) => silence <= rxAge + 2 * MaxLoop
    /\ connected => silence <= JetsonTimeout + 2 * MaxLoop + LinkDelay
    /\ (pc = "sched" /\ "drivetrain" \in todo /\ outputs /\ ~manual) =>
         silence <= JetsonTimeout + 3 * MaxLoop + loopTicks

LEMMA LinkAgeInit == Init => LinkAgeInv
BY BoundsAssumption, TimeoutAssumption DEF Init, LinkInit, LinkAgeInv

LEMMA LinkAgeStep ==
    ASSUME "test" \notin Modes
    PROVE  TypeInv /\ LinkAgeInv /\ [Next]_vars => LinkAgeInv'
<1> SUFFICES ASSUME TypeInv, LinkAgeInv, [Next]_vars PROVE LinkAgeInv'
  OBVIOUS
<1> /\ loopTicks \in 0 .. MaxLoop /\ silence \in 0 .. SilenceCap
    /\ rxAge \in 0 .. JetsonTimeout + 1 /\ mode \in Modes \cup {"none"}
    /\ SilenceCap \in Nat /\ MaxLoop \in Nat /\ JetsonTimeout \in Nat
  BY BoundsAssumption, TimeoutAssumption DEF TypeInv, TypeOK, LoopTypeOK, LinkTypeOK, SilenceCap, LinkBound
<1> USE BoundsAssumption, TimeoutAssumption DEF LinkAgeInv, LinkDelay, BridgeRan
<1>1. ASSUME NEW m, NEW lost, LoopStart(m, lost) PROVE LinkAgeInv'
  BY <1>1 DEF LoopStart
<1>2. CASE ReadOwner
  BY <1>2 DEF ReadOwner
<1>3. ASSUME NEW lost, JetsonDrives(lost) PROVE LinkAgeInv'
  BY <1>3 DEF JetsonDrives, ShouldDriveJetson, JetsonStep, EndDriveStep
<1>4. ASSUME EndDriveStep, manual \/ ~outputs' PROVE LinkAgeInv'
  BY <1>4 DEF EndDriveStep
<1>5. ASSUME NEW lost, DrivetrainPeriodic(lost) PROVE LinkAgeInv'
  BY <1>5 DEF DrivetrainPeriodic, PeriodicOf
<1>6. CASE BridgePeriodic
  <2>1. pc = "sched" /\ pc' = pc /\ loopTicks' = loopTicks /\ silence' = silence
        /\ "bridge" \notin todo' /\ todo' \subseteq todo /\ inbox' = NoPacket
    BY <1>6 DEF BridgePeriodic, Periodic, PeriodicOf
  <2>2. (outputs' /\ ~manual') => (outputs /\ ~manual)
    BY <1>6, Zenon DEF BridgePeriodic, Periodic, PeriodicOf
  <2>3. (rx' # NoPacket /\ rxAge' <= JetsonTimeout) => silence' <= rxAge' + 2 * MaxLoop
    BY <1>6 DEF BridgePeriodic, Periodic
  <2>4. connected' => inbox # NoPacket \/ (rx # NoPacket /\ rxAge <= JetsonTimeout)
    BY <1>6, Zenon DEF BridgePeriodic, Periodic, LinkAlive
  <2>5. connected' => silence <= JetsonTimeout + 2 * MaxLoop
    BY <2>1, <2>4
  <2>6. LinkDelay' = loopTicks
    BY <2>1
  <2>7. connected' => silence' <= JetsonTimeout + 2 * MaxLoop + LinkDelay'
    BY <2>1, <2>5, <2>6
  <2>8. (pc' = "sched" /\ "drivetrain" \in todo' /\ outputs' /\ ~manual') =>
          silence' <= JetsonTimeout + 3 * MaxLoop + loopTicks'
    BY <2>1, <2>2
  <2>9. QED
    BY <2>1, <2>3, <2>7, <2>8
<1>7. ASSUME NEW lost, RunCommands(lost) PROVE LinkAgeInv'
  BY <1>7 DEF RunCommands
<1>8. CASE Tick
  BY <1>8 DEF Tick, LinkTick, Capped
<1>9. ASSUME NEW packet, DatagramArrives(packet) PROVE LinkAgeInv'
  BY <1>9 DEF DatagramArrives, Arrive
<1>10. ASSUME NEW lost, Restart(lost) PROVE LinkAgeInv'
  BY <1>10 DEF Restart, LinkRestart
<1>11. CASE UNCHANGED <<pc, todo, loopTicks, inbox, rx, rxAge, connected, silence, outputs, manual>>
  BY <1>11
<1>12. QED
  BY <1>1, <1>2, <1>3, <1>4, <1>5, <1>6, <1>7, <1>8, <1>9, <1>10, <1>11
     DEF Next, CodeStep, WritingStep, Environment, TestTimesOut, TestReachesGoal, TestEndsNow,
         TestArmed, TestReset, TestCancel, TestStart, TestRuns, DriveTestBranch, UpdateDriveTest,
         JetsonStops, JetsonStep, ClientPress, ClientToggle

\* Without Test mode, whatever the timeout and the length of a loop, no wheel
\* is commanded for the Jetson on a datagram older than LinkBound.
THEOREM LinkLoss ==
    ASSUME "test" \notin Modes
    PROVE  Spec => []LinkLossBound
<1>1. TypeInv /\ LinkAgeInv => LinkLossBound
  BY BoundsAssumption, TimeoutAssumption
     DEF TypeInv, TypeOK, LoopTypeOK, LinkTypeOK, LinkAgeInv, LinkDelay, LinkLossBound,
         LinkBound, SilenceCap
<1>2. TypeInv /\ LinkAgeInv /\ [Next]_vars => LinkAgeInv'
  BY LinkAgeStep
<1>3. QED
  BY <1>1, <1>2, LinkAgeInit, TypeInvariant, PTL DEF Spec

\* Nor does the program tell anybody that the Jetson is connected.
THEOREM ConnectedStaysRecent ==
    ASSUME "test" \notin Modes
    PROVE  Spec => []ConnectedIsRecent
<1>1. TypeInv /\ LinkAgeInv => ConnectedIsRecent
  BY BoundsAssumption, TimeoutAssumption
     DEF TypeInv, TypeOK, LoopTypeOK, LinkTypeOK, LinkAgeInv, LinkDelay, ConnectedIsRecent,
         LinkBound, SilenceCap
<1>2. TypeInv /\ LinkAgeInv /\ [Next]_vars => LinkAgeInv'
  BY LinkAgeStep
<1>3. QED
  BY <1>1, <1>2, LinkAgeInit, TypeInvariant, PTL DEF Spec

-----------------------------------------------------------------------------
(* The owner of the drive.                                                 *)

LEMMA OwnerStep == LinkInv /\ OwnerCommands /\ [Next]_vars => OwnerCommands'
<1> SUFFICES ASSUME LinkInv, OwnerCommands, [Next]_vars PROVE OwnerCommands'
  OBVIOUS
<1> USE DEF OwnerCommands
<1>1. CASE pc' # "sched" \/ "drivetrain" \notin todo' \/ ~outputs'
  BY <1>1
<1>2. ASSUME NEW lost, TestReset(lost) PROVE OwnerCommands'
  BY <1>2 DEF TestReset, DriveTestBranch, StopDrive, UpdateDriveTest, EndDriveStep
<1>3. CASE TestRuns
  BY <1>3 DEF TestRuns, DriveTestBranch, UpdateDriveTest, EndDriveStep
<1>4. ASSUME NEW lost, JetsonDrives(lost) PROVE OwnerCommands'
  <2>1. /\ cmd' = rx.cmd /\ connected /\ (mode = "auto" \/ rx.soft)
        /\ ~manual' /\ UNCHANGED <<rx, connected, mode>>
    BY <1>4 DEF JetsonDrives, JetsonBranch, ShouldDriveJetson, JetsonStep, EndDriveStep, linkVars
  <2>2. rx.cmd \in JetsonCmds
    BY <2>1 DEF LinkInv, ConnectedHasPacket, Packet
  <2>3. QED
    BY <2>1, <2>2
<1>5. CASE /\ UNCHANGED <<pc, cmd, mode, testActive, rx, connected>>
           /\ todo' \subseteq todo /\ (outputs' => outputs) /\ (manual' <=> manual)
  BY <1>5
<1>6. CASE BridgePeriodic
  <2>1. /\ UNCHANGED <<pc, cmd, manual, testActive, outputs>>
        /\ todo' \subseteq todo /\ "bridge" \notin todo'
    BY <1>6 DEF BridgePeriodic, PeriodicOf, Periodic, testVars, driveVars
  <2>2. QED
    BY <2>1
<1>7. CASE Environment
  <2>1. CASE Tick
    BY <1>5, <2>1 DEF Tick, LinkTick
  <2>2. ASSUME NEW packet, DatagramArrives(packet) PROVE OwnerCommands'
    BY <1>5, <2>2 DEF DatagramArrives, Arrive
  <2>3. ASSUME NEW key, ClientPress(key) PROVE OwnerCommands'
    BY <1>5, <2>3 DEF ClientPress
  <2>4. CASE ClientToggle
    BY <1>5, <2>4 DEF ClientToggle
  <2>5. QED
    BY <1>7, <2>1, <2>2, <2>3, <2>4 DEF Environment
<1>8. ASSUME NEW lost, DrivetrainPeriodic(lost) PROVE OwnerCommands'
  BY <1>1, <1>8 DEF DrivetrainPeriodic, PeriodicOf
<1>9. ASSUME NEW lost, TestCancel(lost) \/ TestArmed(lost) \/ TestEndsNow(lost)
      PROVE OwnerCommands'
  BY <1>1, <1>9 DEF TestCancel, TestArmed, TestEndsNow
<1>10. ASSUME NEW lost, NEW i, TestStart(i, lost) PROVE OwnerCommands'
  BY <1>1, <1>10 DEF TestStart
<1>11. ASSUME NEW lost, JetsonStops(lost) PROVE OwnerCommands'
  BY <1>1, <1>11 DEF JetsonStops
<1>12. ASSUME NEW m, NEW lost, LoopStart(m, lost) PROVE OwnerCommands'
  BY <1>1, <1>12 DEF LoopStart
<1>13. CASE ReadOwner
  BY <1>1, <1>13 DEF ReadOwner
<1>14. ASSUME NEW lost, RunCommands(lost) PROVE OwnerCommands'
  BY <1>1, <1>14 DEF RunCommands
<1>15. ASSUME NEW lost, Restart(lost) PROVE OwnerCommands'
  BY <1>1, <1>15 DEF Restart
<1>16. CASE UNCHANGED vars
  BY <1>5, <1>16
<1>17. QED
  BY <1>2, <1>3, <1>4, <1>6, <1>7, <1>8, <1>9, <1>10, <1>11, <1>12, <1>13, <1>14, <1>15, <1>16
     DEF Next, CodeStep, WritingStep, TestTimesOut, TestReachesGoal

\* Whoever owns this loop, and nobody else, chose the command the wheels get:
\* the running test or the end of one, or the Jetson's packet in use over a
\* link that counts as alive.
THEOREM OwnerOnly == Spec => []OwnerCommands
<1>1. Init => OwnerCommands
  BY DEF Init, LinkInit, OwnerCommands
<1>2. TypeInv => LinkInv
  BY DEF TypeInv, TypeOK, LinkInv
<1>3. QED
  BY <1>1, <1>2, OwnerStep, TypeInvariant, PTL DEF Spec

-----------------------------------------------------------------------------
(* Configuration writes.                                                   *)

\* A running test is published as running, and nothing has been configured
\* yet when the drive's owner is chosen.
ConfigInv ==
    /\ ConfigGate
    /\ testActive => ntActive
    /\ pc \in {"own", "drive"} => cfgWrite = {}

LEMMA ConfigStep == ConfigInv /\ [Next]_vars => ConfigInv'
<1> SUFFICES ASSUME ConfigInv, [Next]_vars PROVE ConfigInv'
  OBVIOUS
<1> USE DEF ConfigInv, ConfigGate
<1>1. CASE cfgWrite' = {} /\ (testActive' => ntActive')
  BY <1>1
<1>2. ASSUME EndDriveStep, pc = "drive" PROVE cfgWrite' = {}
  BY <1>2 DEF EndDriveStep
<1>3. ASSUME NEW consumed, DriveTestBranch, UpdateDriveTest(consumed) PROVE ConfigInv'
  BY <1>1, <1>2, <1>3 DEF DriveTestBranch, UpdateDriveTest, PublishDriveTestTelemetry
<1>4. CASE JetsonBranch /\ JetsonStep
  BY <1>1, <1>2, <1>4 DEF JetsonBranch, JetsonStep, LeaveDriveTest, LeftOverTest, PublishDriveTestTelemetry
<1>5. ASSUME NEW lost, DrivetrainPeriodic(lost) PROVE ConfigInv'
  <2>1. /\ pc' = "sched" /\ mode' = mode /\ cfgWrite' = ConfigWrites
        /\ testActive' <=> testActive
        /\ ntActive' <=> ntActive
    BY <1>5 DEF DrivetrainPeriodic, PeriodicOf
  <2>2. ConfigWrites # {} => PidGateOpen
    BY DEF ConfigWrites, AppliesPid
  <2>3. "ram" \in ConfigWrites => AppliesPid
    BY DEF ConfigWrites
  <2>4. AppliesPid => ~outputs' /\ asked' = AllStop
    BY <1>5 DEF DrivetrainPeriodic, StopDrive, StopWrites, Serial
  <2>5. QED
    BY <2>1, <2>2, <2>3, <2>4 DEF PidGateOpen
<1>6. ASSUME NEW lost, RunCommands(lost) PROVE ConfigInv'
  <2>1. /\ pc' = "wait" /\ mode' = mode /\ cfgWrite' = cfgWrite
        /\ testActive' <=> testActive
        /\ ntActive' <=> ntActive
        /\ outputs' <=> outputs
    BY <1>6 DEF RunCommands
  <2>2. asked' \in {asked, AllStop}
    BY <1>6 DEF RunCommands, StopDrive, StopWrites, Serial, NoSerial
  <2>3. QED
    BY <2>1, <2>2
<1>7. CASE /\ UNCHANGED <<mode, cfgWrite, asked>> /\ (testActive' <=> testActive)
           /\ (ntActive' <=> ntActive) /\ (outputs' <=> outputs)
           /\ (pc' = "drive" => pc \in {"own", "drive"}) /\ (pc' = "own" => pc = "own")
  BY <1>7
<1>8. CASE Environment
  BY <1>7, <1>8 DEF Environment, Tick, DatagramArrives, ClientPress, ClientToggle
<1>9. CASE BridgePeriodic
  BY <1>7, <1>9 DEF BridgePeriodic, Periodic, PeriodicOf
<1>10. CASE ReadOwner
  BY <1>7, <1>10 DEF ReadOwner
<1>11. ASSUME NEW m, NEW lost, LoopStart(m, lost) PROVE ConfigInv'
  BY <1>1, <1>11 DEF LoopStart
<1>12. ASSUME NEW lost, Restart(lost) PROVE ConfigInv'
  BY <1>1, <1>12 DEF Restart, LinkRestart
<1>13. CASE UNCHANGED vars
  BY <1>7, <1>13
<1>14. QED
  BY <1>3, <1>4, <1>5, <1>6, <1>8, <1>9, <1>10, <1>11, <1>12, <1>13
     DEF Next, CodeStep, WritingStep, TestTimesOut, TestReachesGoal, TestEndsNow, TestArmed,
         TestReset, TestCancel, TestStart, TestRuns, JetsonDrives, JetsonStops

\* Controllers are configured only while the robot is disabled and no drive
\* test runs, gains only at a standstill.
THEOREM ConfigOnlyAtRest == Spec => []ConfigGate
<1>1. Init => ConfigInv
  BY DEF Init, LinkInit, ConfigInv, ConfigGate
<1>2. ConfigInv => ConfigGate
  BY DEF ConfigInv
<1>3. QED
  BY <1>1, <1>2, ConfigStep, PTL DEF Spec

-----------------------------------------------------------------------------
(* The time limit of a drive test.                                         *)

\* A test that UpdateDriveTest has let run was within its limit then; a loop
\* passes until the next look.
TestAgeInv ==
    testActive => testTimer <= TestTimeout + loopTicks + (IF pc \in {"own", "drive"} THEN MaxLoop ELSE 0)

LEMMA TestAgeStep == TypeInv /\ TestAgeInv /\ [Next]_vars => TestAgeInv'
<1> SUFFICES ASSUME TypeInv, TestAgeInv, [Next]_vars PROVE TestAgeInv'
  OBVIOUS
<1> /\ loopTicks \in Nat /\ loopTicks <= MaxLoop /\ testTimer \in Nat
    /\ MaxLoop \in Nat /\ TestTimeout \in Nat
  BY BoundsAssumption, TimeoutAssumption DEF TypeInv, TypeOK, LoopTypeOK, DashboardTypeOK, TestTimerCap, TestBound
<1> USE DEF TestAgeInv
<1>1. CASE ~testActive'
  BY <1>1
<1>2. ASSUME NEW m, NEW lost, LoopStart(m, lost) PROVE TestAgeInv'
  BY <1>2 DEF LoopStart
<1>3. CASE ReadOwner
  BY <1>3 DEF ReadOwner
<1>4. ASSUME NEW lost, NEW i \in DOMAIN StartOrder, TestStart(i, lost) PROVE TestAgeInv'
  BY <1>4 DEF TestStart, UpdateDriveTest, EndDriveStep
<1>5. CASE TestRuns
  BY <1>5 DEF TestRuns, TestExpired, UpdateDriveTest, EndDriveStep
<1>6. CASE JetsonStep
  <2>1. ~testActive'
    BY <1>6, Zenon DEF JetsonStep, LeaveDriveTest, LeftOverTest, ResetDriveTestState
  <2>2. QED
    BY <2>1, <1>1
<1>7. CASE Tick
  BY <1>7 DEF Tick, LinkTick, Capped
<1>8. CASE UNCHANGED <<loopTicks, testTimer>> /\ (testActive' => testActive)
           /\ (pc \in {"own", "drive"} => pc' \in {"own", "drive"})
  BY <1>8
<1>9. QED
  BY <1>1, <1>2, <1>3, <1>4, <1>5, <1>6, <1>7, <1>8
     DEF Next, CodeStep, WritingStep, Environment, TestTimesOut, TestReachesGoal, TestEndsNow,
         TestArmed, TestReset, TestCancel, ResetDriveTestState, JetsonDrives, JetsonStops,
         DrivetrainPeriodic, BridgePeriodic, PeriodicOf, RunCommands, DatagramArrives, ClientPress,
         ClientToggle, Restart

\* No drive test outlives its time limit by more than two loops.
THEOREM TestsAreBounded == Spec => []TestBounded
<1>1. Init => TestAgeInv
  BY DEF Init, LinkInit, TestAgeInv
<1>2. TypeInv /\ TestAgeInv => TestBounded
  BY BoundsAssumption, TimeoutAssumption
     DEF TypeInv, TypeOK, LoopTypeOK, DashboardTypeOK, TestAgeInv, TestBounded, TestBound,
         TestTimerCap
<1>3. QED
  BY <1>1, <1>2, TestAgeStep, TypeInvariant, PTL DEF Spec
=============================================================================
