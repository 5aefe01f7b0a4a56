------------------------------ MODULE RobotLoop ------------------------------
(***************************************************************************)
(* One roboRIO program: who owns the three drive motors, loop after loop.  *)
(*                                                                         *)
(* A 20 ms TimedRobot loop runs, in this order: the handler of a mode      *)
(* change, Robot::RobotPeriodic up to the drive-ownership test ("own"),    *)
(* UpdateDriveTest or the Jetson branch ("drive"), then                    *)
(* CommandScheduler::Run ("sched"): the subsystems' Periodic in no         *)
(* particular order, then the scheduled command.  Dashboard clients, the   *)
(* Jetson's datagrams, the clock and a crash of the program interleave     *)
(* with those steps.  Any serial write to a motor controller may be lost.  *)
(*                                                                         *)
(* A command is a name: what Drive(vx, vy, omega) stored, by its origin.   *)
(***************************************************************************)
EXTENDS JetsonLink, Sequences, FiniteSets

CONSTANTS
    Modes,          \* driver-station modes that occur
    ClientKeys,     \* dashboard controls the operator uses
    TestTimeout,    \* DriveTest/TimeoutSec, in ticks
    MaxLoop,        \* bound: ticks from the start of a loop to the next one
    MaxPressed,     \* bound: dashboard buttons that read true at a time
    MaxFaults       \* bound: handlers of a behaviour whose serial writes are lost

\* The order in which UpdateDriveTest looks at the start buttons.
StartOrder == <<"StartForward", "StartBackward", "StartTurnLeft90",
                "StartTurnRight90", "StartTurn180">>
StartKeys == {StartOrder[i] : i \in DOMAIN StartOrder}
ConfigKeys == {"ApplyPendingToControllers", "WriteNVM", "ApplyAndWriteNVM"}
Buttons == StartKeys \cup ConfigKeys \cup {"ResetOdometry", "Cancel"}

ASSUME ModesAssumption == Modes \subseteq {"disabled", "auto", "teleop", "test"}
ASSUME KeysAssumption == ClientKeys \subseteq Buttons \cup {"Enable"}
ASSUME BoundsAssumption ==
    /\ TestTimeout \in Nat
    /\ MaxLoop \in Nat \ {0}
    /\ MaxPressed \in Nat
    /\ MaxFaults \in Nat

Commands == {"zero", "test", "auto"} \cup JetsonCmds
Wheels == {"M1", "M2", "H"}
WheelSpeeds == {"stop", "base", "auto"} \cup JetsonCmds
AllStop == [w \in Wheels |-> "stop"]

\* How long after the last valid arrival the Jetson may still be obeyed:
\* the timeout itself, a loop in the socket queue, a loop until the next
\* Periodic, a loop until the next RobotPeriodic, and the loop under way.
LinkBound == JetsonTimeout + 4 * MaxLoop
SilenceCap == LinkBound + 1
TestBound == TestTimeout + 2 * MaxLoop
TestTimerCap == TestBound + 1

VARIABLES
    pc,         \* where in the loop: "wait", "own", "drive", "sched"
    todo,       \* subsystems whose Periodic has not run in this scheduler pass
    loopTicks,  \* ticks since this loop started
    mode,       \* driver-station mode sampled for this loop; "none" before the first
    manual,     \* manualOwnsDrive, the local of RobotPeriodic
    ntEnable,   \* DriveTest/Enable on the dashboard
    pressed,    \* dashboard buttons that currently read true
    ntActive,   \* DriveTest/Active as published
    testMode,   \* m_driveTestMode
    testActive, \* m_driveTestActive
    testTimer,  \* m_driveTestTimer while a test is active, else 0
    silence,    \* history: ticks since the last valid datagram arrived
    cmd,        \* m_cmdVx, m_cmdVy, m_cmdOmega, by origin
    outputs,    \* m_driveOutputsEnabled
    asked,      \* history: the speed last written for each wheel
    motor,      \* the speed each motor controller last received
    faults,     \* history: handlers whose writes were lost
    auto,       \* AutonomousCommand is scheduled
    cfgWrite    \* history: controller memories written since the loop started, "ram", "nvm"

loopVars == <<pc, todo, loopTicks>>
ntVars == <<ntEnable, pressed, ntActive>>
testVars == <<testMode, testActive, testTimer>>
serialVars == <<asked, motor, faults>>
driveVars == <<cmd, outputs>>
vars == <<loopVars, mode, manual, ntVars, testVars, linkVars, silence, driveVars,
          serialVars, auto, cfgWrite>>

-----------------------------------------------------------------------------
(* Serial writes and the drivetrain's operations.                          *)

\* The wheels that the writes of one handler may fail to reach.
Losses == IF faults < MaxFaults THEN SUBSET Wheels ELSE {{}}

\* Writes every wheel's speed; the writes to the wheels in lost do not arrive.
Serial(speeds, lost) ==
    /\ asked' = speeds
    /\ motor' = [w \in Wheels |-> IF w \in lost THEN motor[w] ELSE speeds[w]]
    /\ faults' = IF lost = {} THEN faults ELSE faults + 1

NoSerial(lost) == lost = {} /\ UNCHANGED serialVars

\* M1 and M2 share one packet, the horizontal wheel has its own.
StopLosses == {{}, {"M1", "M2"}, {"H"}, Wheels}

StopWrites(lost) == lost \in StopLosses /\ Serial(AllStop, lost)

StopDrive(lost) == cmd' = "zero" /\ StopWrites(lost)

\* Mutant: the horizontal wheel takes the command as it is.
HorizSpeedMutant(c) == c
\* The horizontal speed is the command's vy, which a drive test sets to zero.
HorizSpeed(c) == IF c \in {"zero", "test"} THEN "stop" ELSE c

\* The vertical wheels run at the base speed whatever the command is.
CommandedSpeeds(c) == [w \in Wheels |-> IF w = "H" THEN HorizSpeed(c) ELSE "base"]

-----------------------------------------------------------------------------
(* Boot and restart.                                                       *)

Init ==
    /\ pc = "wait" /\ todo = {} /\ loopTicks = 0
    /\ mode = "none" /\ manual = FALSE
    /\ ntEnable = FALSE /\ pressed = {} /\ ntActive = FALSE
    /\ testMode = "kNone" /\ testActive = FALSE /\ testTimer = 0
    /\ LinkInit /\ silence = 0
    /\ cmd = "zero" /\ outputs = FALSE
    /\ asked = AllStop /\ motor = AllStop /\ faults = 0
    /\ auto = FALSE /\ cfgWrite = {}

\* The program dies at any point and boots again.  The controllers keep the
\* speed they had until RobotInit's StopDrive reaches them; dashboard clients
\* may or may not publish the values they held again.
Restart(lost) ==
    /\ pc' = "wait" /\ todo' = {} /\ loopTicks' = 0
    /\ mode' = "none" /\ manual' = FALSE
    /\ ntEnable' \in {FALSE, ntEnable} /\ pressed' \in {{}, pressed} /\ ntActive' = FALSE
    /\ testMode' = "kNone" /\ testActive' = FALSE /\ testTimer' = 0
    /\ LinkRestart /\ UNCHANGED silence
    /\ outputs' = FALSE /\ StopDrive(lost)
    /\ auto' = FALSE /\ cfgWrite' = {}

-----------------------------------------------------------------------------
(* The loop, up to the drive-ownership test.                               *)

\* Entering teleop or test cancels the autonomous command, whose End stops
\* the drive; entering autonomous schedules it.
CancelsAuto(m) == auto /\ m # mode /\ m \in {"teleop", "test"}

LoopStart(m, lost) ==
    /\ pc = "wait" /\ loopTicks >= 1
    /\ pc' = "own" /\ loopTicks' = 0
    /\ mode' = m
    /\ cfgWrite' = {}
    /\ \/ CancelsAuto(m) /\ auto' = FALSE /\ StopDrive(lost)
       \/ /\ ~CancelsAuto(m)
          /\ auto' = (auto \/ (m = "auto" /\ mode # "auto"))
          /\ UNCHANGED cmd /\ NoSerial(lost)
    /\ UNCHANGED <<todo, manual, ntVars, testVars, linkVars, silence, outputs>>

ReadOwner ==
    /\ pc = "own" /\ pc' = "drive"
    /\ manual' = ntEnable
    /\ UNCHANGED <<todo, loopTicks, mode, ntVars, testVars, linkVars, silence, driveVars,
                   serialVars, auto, cfgWrite>>

\* RobotPeriodic ends with CommandScheduler::Run, which does nothing in Test
\* mode: EnableLiveWindowInTest(true) disables the scheduler there.
EndDriveStep ==
    /\ IF mode = "test" THEN pc' = "wait" /\ todo' = {}
                        ELSE pc' = "sched" /\ todo' = {"drivetrain", "bridge"}
    /\ UNCHANGED <<loopTicks, mode, manual, ntEnable, linkVars, silence, auto, cfgWrite>>

-----------------------------------------------------------------------------
(* Robot::UpdateDriveTest, one action per way through it.                  *)

DriveTestBranch == pc = "drive" /\ manual

ResetDriveTestState == testMode' = "kNone" /\ testActive' = FALSE /\ testTimer' = 0

PublishDriveTestTelemetry == ntActive' = testActive'

\* What every way through UpdateDriveTest does.
UpdateDriveTest(consumed) ==
    /\ pressed' = pressed \ consumed
    /\ PublishDriveTestTelemetry
    /\ EndDriveStep

\* Stops the drive but leaves the outputs as they are.
TestReset(lost) ==
    /\ DriveTestBranch
    /\ "ResetOdometry" \in pressed
    /\ StopDrive(lost) /\ UNCHANGED outputs
    /\ ResetDriveTestState
    /\ UpdateDriveTest({"ResetOdometry"})

TestCancel(lost) ==
    /\ DriveTestBranch
    /\ "Cancel" \in pressed /\ "ResetOdometry" \notin pressed
    /\ StopDrive(lost) /\ outputs' = FALSE
    /\ ResetDriveTestState
    /\ UpdateDriveTest({"Cancel"})

NoInterruptKey == pressed \cap {"ResetOdometry", "Cancel"} = {}

ModeOf(key) == [StartForward |-> "kForward", StartBackward |-> "kBackward",
                StartTurnLeft90 |-> "kTurnLeft90", StartTurnRight90 |-> "kTurnRight90",
                StartTurn180 |-> "kTurn180"][key]

\* Only the first button in StartOrder is consumed, the others stay pressed.
TestStart(i, lost) ==
    /\ DriveTestBranch
    /\ ~testActive /\ NoInterruptKey
    /\ StartOrder[i] \in pressed
    /\ \A j \in 1 .. i - 1 : StartOrder[j] \notin pressed
    /\ testMode' = ModeOf(StartOrder[i]) /\ testActive' = TRUE /\ testTimer' = 0
    /\ outputs' = FALSE /\ StopDrive(lost)
    /\ UpdateDriveTest({StartOrder[i]})

TestArmed(lost) ==
    /\ DriveTestBranch
    /\ ~testActive /\ NoInterruptKey
    /\ pressed \cap StartKeys = {}
    /\ outputs' = FALSE /\ StopDrive(lost)
    /\ UNCHANGED testVars
    /\ UpdateDriveTest({})

\* Mutant: a drive test has no time limit.
TestExpiredMutant == FALSE
TestExpired == testTimer > TestTimeout

\* The time limit is looked at before the goal; the goal, a comparison of the
\* odometry with the target, may be reached in any loop.
TestEndsNow(lost) ==
    /\ DriveTestBranch /\ testActive /\ NoInterruptKey
    /\ outputs' = FALSE /\ StopDrive(lost)
    /\ testActive' = FALSE /\ testTimer' = 0 /\ UNCHANGED testMode
    /\ UpdateDriveTest({})

TestTimesOut(lost) == TestExpired /\ TestEndsNow(lost)
TestReachesGoal(lost) == ~TestExpired /\ TestEndsNow(lost)

TestRuns ==
    /\ DriveTestBranch /\ testActive /\ NoInterruptKey /\ ~TestExpired
    /\ outputs' = TRUE /\ cmd' = "test" /\ UNCHANGED serialVars
    /\ UNCHANGED testVars
    /\ UpdateDriveTest({})

-----------------------------------------------------------------------------
(* The Jetson branch of RobotPeriodic.                                     *)

JetsonBranch == pc = "drive" /\ ~manual

\* Mutant: the liveness of the link is not asked.
ShouldDriveJetsonMutant == mode = "auto" \/ rx.soft
ShouldDriveJetson == connected /\ (mode = "auto" \/ rx.soft)

\* The operator just took manual control away: the test's state is reset.
LeftOverTest == testActive \/ testMode # "kNone"

LeaveDriveTest ==
    IF LeftOverTest THEN ResetDriveTestState /\ PublishDriveTestTelemetry
                    ELSE UNCHANGED <<testVars, ntActive>>

JetsonStep ==
    /\ LeaveDriveTest
    /\ UNCHANGED pressed
    /\ EndDriveStep

JetsonDrives(lost) ==
    /\ JetsonBranch /\ ShouldDriveJetson
    /\ outputs' = TRUE /\ cmd' = rx.cmd
    /\ IF LeftOverTest THEN StopWrites(lost) ELSE NoSerial(lost)
    /\ JetsonStep

\* Mutant: the stop is written only when the outputs were enabled.
JetsonStopsMutant(lost) ==
    /\ JetsonBranch /\ ~ShouldDriveJetson
    /\ outputs' = FALSE /\ cmd' = "zero"
    /\ IF LeftOverTest \/ outputs THEN StopWrites(lost) ELSE NoSerial(lost)
    /\ JetsonStep

\* Every loop in which nobody may drive writes the stop again.
JetsonStops(lost) ==
    /\ JetsonBranch /\ ~ShouldDriveJetson
    /\ outputs' = FALSE /\ StopDrive(lost)
    /\ JetsonStep

-----------------------------------------------------------------------------
(* CommandScheduler::Run.                                                  *)

\* Mutant: only the request for a drive test is asked, not a running one.
PidGateOpenMutant == ~ntEnable /\ mode = "disabled"
\* ApplyPidPendingToControllers and the WriteNVM button ask the same two
\* questions: no drive test on the dashboard, and a disabled robot.
PidGateOpen == ~ntEnable /\ ~ntActive /\ mode = "disabled"

AppliesPid == PidGateOpen /\ pressed \cap {"ApplyPendingToControllers", "ApplyAndWriteNVM"} # {}

\* A rejected WriteNVM returns before ApplyAndWriteNVM is looked at.
ConsumedConfigKeys ==
    IF "WriteNVM" \in pressed /\ ~PidGateOpen THEN ConfigKeys \ {"ApplyAndWriteNVM"}
                                              ELSE ConfigKeys

ConfigWrites ==
    (IF AppliesPid THEN {"ram"} ELSE {}) \cup
    (IF PidGateOpen /\ pressed \cap {"WriteNVM", "ApplyAndWriteNVM"} # {} THEN {"nvm"} ELSE {})

PeriodicOf(subsystem) ==
    /\ pc = "sched" /\ subsystem \in todo
    /\ todo' = todo \ {subsystem}
    /\ UNCHANGED <<pc, loopTicks, mode, manual, ntEnable, ntActive, testVars, auto>>

\* Mutant: an apply disables the outputs without stopping the wheels.
DrivetrainPeriodicMutant(lost) ==
    /\ PeriodicOf("drivetrain")
    /\ pressed' = pressed \ ConsumedConfigKeys
    /\ cfgWrite' = ConfigWrites
    /\ outputs' = IF AppliesPid THEN FALSE ELSE outputs
    /\ IF ~AppliesPid /\ outputs THEN Serial(CommandedSpeeds(cmd), lost) ELSE NoSerial(lost)
    /\ UNCHANGED <<linkVars, silence, cmd>>

\* Drivetrain::Periodic: the PID buttons first, then the wheels' speeds, which
\* are written only while the outputs are enabled.
DrivetrainPeriodic(lost) ==
    /\ PeriodicOf("drivetrain")
    /\ pressed' = pressed \ ConsumedConfigKeys
    /\ cfgWrite' = ConfigWrites
    /\ \/ AppliesPid /\ outputs' = FALSE /\ StopDrive(lost)
       \/ ~AppliesPid /\ outputs /\ Serial(CommandedSpeeds(cmd), lost) /\ UNCHANGED driveVars
       \/ ~AppliesPid /\ ~outputs /\ NoSerial(lost) /\ UNCHANGED driveVars
    /\ UNCHANGED <<linkVars, silence>>

\* SerialBridgeSubsystem::Periodic.
BridgePeriodic ==
    /\ PeriodicOf("bridge")
    /\ Periodic
    /\ UNCHANGED <<silence, pressed, driveVars, serialVars, cfgWrite>>

\* The scheduler cancels the autonomous command when the robot is disabled,
\* and ends it after its last phase: End stops the drive either way.  Until
\* then Execute stores a command that no Periodic of this pass can see.
RunCommands(lost) ==
    /\ pc = "sched" /\ todo = {} /\ pc' = "wait"
    /\ \/ auto /\ auto' = FALSE /\ StopDrive(lost)
       \/ auto /\ mode # "disabled" /\ cmd' = "auto" /\ UNCHANGED auto /\ NoSerial(lost)
       \/ ~auto /\ UNCHANGED <<auto, cmd>> /\ NoSerial(lost)
    /\ UNCHANGED <<todo, loopTicks, mode, manual, ntVars, testVars, linkVars, silence, outputs, cfgWrite>>

-----------------------------------------------------------------------------
(* The environment: time, the Jetson, the dashboard.                       *)

Tick ==
    /\ loopTicks < MaxLoop /\ loopTicks' = loopTicks + 1
    /\ LinkTick
    /\ silence' = Capped(silence, SilenceCap)
    /\ testTimer' = IF testActive THEN Capped(testTimer, TestTimerCap) ELSE testTimer
    /\ UNCHANGED <<pc, todo, mode, manual, ntVars, testMode, testActive, driveVars, serialVars, auto, cfgWrite>>

\* A valid datagram reaches the socket.
DatagramArrives(packet) ==
    /\ Arrive(packet) /\ silence' = 0
    /\ UNCHANGED <<loopVars, mode, manual, ntVars, testVars, driveVars, serialVars, auto,
                   cfgWrite>>

ClientPress(key) ==
    /\ key \in Buttons \ pressed /\ Cardinality(pressed) < MaxPressed
    /\ pressed' = pressed \cup {key}
    /\ UNCHANGED <<loopVars, mode, manual, ntEnable, ntActive, testVars, linkVars, silence,
                   driveVars, serialVars, auto, cfgWrite>>

ClientToggle ==
    /\ "Enable" \in ClientKeys
    /\ ntEnable' = ~ntEnable
    /\ UNCHANGED <<loopVars, mode, manual, pressed, ntActive, testVars, linkVars, silence,
                   driveVars, serialVars, auto, cfgWrite>>

-----------------------------------------------------------------------------

WritingStep(lost) ==
    \/ \E m \in Modes : LoopStart(m, lost)
    \/ TestReset(lost)
    \/ TestCancel(lost)
    \/ \E i \in DOMAIN StartOrder : TestStart(i, lost)
    \/ TestArmed(lost)
    \/ TestTimesOut(lost)
    \/ TestReachesGoal(lost)
    \/ JetsonDrives(lost)
    \/ JetsonStops(lost)
    \/ DrivetrainPeriodic(lost)
    \/ RunCommands(lost)

CodeStep ==
    \/ ReadOwner
    \/ TestRuns
    \/ BridgePeriodic
    \/ \E lost \in Losses : WritingStep(lost)

Environment ==
    \/ Tick
    \/ \E packet \in Packet : DatagramArrives(packet)
    \/ \E key \in ClientKeys : ClientPress(key)
    \/ ClientToggle

Next ==
    \/ CodeStep
    \/ Environment
    \/ \E lost \in Losses : Restart(lost)

Spec == Init /\ [][Next]_vars

\* The Notifier runs the loop as long as the program lives, and time passes.
FairSpec == Spec /\ WF_vars(CodeStep) /\ WF_vars(Tick)

-----------------------------------------------------------------------------
(* Properties.                                                             *)

FlagsTypeOK ==
    /\ manual \in BOOLEAN /\ auto \in BOOLEAN
    /\ ntEnable \in BOOLEAN /\ ntActive \in BOOLEAN /\ testActive \in BOOLEAN
    /\ socketsReady \in BOOLEAN /\ connected \in BOOLEAN /\ outputs \in BOOLEAN

LoopTypeOK ==
    /\ pc \in {"wait", "own", "drive", "sched"}
    /\ todo \subseteq {"drivetrain", "bridge"}
    /\ loopTicks \in 0 .. MaxLoop
    /\ mode \in Modes \cup {"none"}
    /\ cfgWrite \subseteq {"ram", "nvm"}

DashboardTypeOK ==
    /\ pressed \subseteq Buttons
    /\ testMode \in {"kNone"} \cup {ModeOf(key) : key \in StartKeys}
    /\ testTimer \in 0 .. TestTimerCap

LinkTypeOK ==
    /\ inbox \in Packet \cup {NoPacket}
    /\ rx \in Packet \cup {NoPacket}
    /\ rxAge \in 0 .. JetsonTimeout + 1
    /\ silence \in 0 .. SilenceCap

WheelTypeOK ==
    /\ cmd \in Commands
    /\ asked \in [Wheels -> WheelSpeeds]
    /\ motor \in [Wheels -> WheelSpeeds]
    /\ faults \in 0 .. MaxFaults

\* Every variable has its type; in particular a controller is only ever told
\* a speed that a command or the base speed stands for, and RobotPeriodic never
\* stores the contents of a packet it has not received.
TypeOK == FlagsTypeOK /\ LoopTypeOK /\ DashboardTypeOK /\ LinkTypeOK /\ WheelTypeOK

\* Disabling the outputs only stops Drivetrain::Periodic from writing: the
\* controllers keep their speed.  So wherever the outputs are off, the last
\* thing any handler wrote is a stop, on all three wheels.
OffMeansAskedStop == ~outputs => asked = AllStop

\* When Drivetrain::Periodic is about to write the wheels, the command is the
\* owner's of this loop: the drive test that is running, or the stop that
\* ended it, if RobotPeriodic found DriveTest/Enable set, and otherwise the
\* Jetson's.  Until the bridge's Periodic of the same pass judges the link and
\* takes a newer packet, it is the command of the packet in use, over a link
\* that counts as alive, in autonomous or enabled by the packet itself.
OwnerCommands ==
    pc = "sched" /\ "drivetrain" \in todo /\ outputs =>
      IF manual THEN cmd = "zero" \/ (cmd = "test" /\ testActive)
                ELSE /\ cmd \in JetsonCmds
                     /\ "bridge" \in todo =>
                          connected /\ (mode = "auto" \/ rx.soft) /\ cmd = rx.cmd

\* AutonomousCommand drives its lanes: "drive ~0.9m per lane" and "shift one
\* lane" (AutonomousCommand.cpp:54, 60).  A move it stored is still the
\* command, with the outputs enabled, when RobotPeriodic of the next loop
\* hands over to the Periodics, unless a drive test or a connected Jetson
\* owns the drive.
SweepDrives ==
    [][pc = "drive" /\ pc' = "sched" /\ auto /\ cmd = "auto" /\ ~manual /\ ~connected
         => cmd' = "auto" /\ outputs']_vars

\* While the Jetson owns the drive, no wheel is commanded on the strength of
\* a datagram older than LinkBound, however the two Periodics are ordered and
\* however long a datagram waited in the socket.
LinkLossBound ==
    (pc = "sched" /\ "drivetrain" \in todo /\ outputs /\ ~manual) => silence <= LinkBound

\* Control/JetsonConnected and Bridge/JetsonConnected are never true longer
\* than the timeout and the loops that notice it after the last arrival.
ConnectedIsRecent == connected => silence <= LinkBound

\* After boot, PID gains and NVM are written only to a disabled robot with no drive test
\* running, even when the operator leaves DriveTest/Enable between the
\* ownership test and Drivetrain::Periodic of one loop, and gains are written
\* only to stopped wheels.
ConfigGate ==
    /\ cfgWrite # {} => mode = "disabled" /\ ~testActive
    /\ "ram" \in cfgWrite => ~outputs /\ asked = AllStop

\* A drive test outlives its time limit by two loops at most.
TestBounded == testActive => testTimer <= TestBound

\* StopDrive stops the drive: when a loop ends with the stop command still
\* stored, the wheels were told to stop.
StopDriveStops == (pc = "wait" /\ cmd = "zero") => asked = AllStop

\* Once the operator has let go of the drive and the Jetson is silent, all
\* three wheels come to a lasting stop, whatever writes were lost before:
\* the stop is written again in every loop.  (In Test mode the bridge's
\* Periodic does not run, so the loss is not noticed.)
IdleRobotStops ==
    <>[](~ntEnable /\ silence = SilenceCap /\ mode # "test") => <>[](motor = AllStop)

\* Every drive test ends, by its goal, its time limit, the operator or a restart.
TestEnds == testActive ~> ~testActive

=============================================================================
