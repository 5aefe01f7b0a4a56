# R5 Mining Mayhem 2026: a verification development

TLA+ models of the roboRIO program in this repository (`src/src/main`), TLC
configurations that model-check them, and TLAPS proofs of the main theorems.

The program drives a robot with three motors behind two RoboClaw controllers.
A Jetson sends velocity commands over UDP, an operator uses NetworkTables
dashboards, the driver station changes modes, and one 20 ms `TimedRobot` loop
ties them together. The program is single-threaded; what is hard about it is
the order of the handlers within a loop and everything that interleaves with
them: datagrams, dashboard clicks, mode changes, late loops, lost serial
transactions, late acknowledgements, reboots.

## 1. Inventory

Paths are below `src/src/main/cpp` unless they are given in full.

| Component | State | Operations | Interacts with |
|---|---|---|---|
| Robot loop (`Robot.cpp`) | drive-test state and timer, `m_autonomousCommand`, match timer, IMU bias | `RobotInit`, mode handlers, `RobotPeriodic` | calls Drivetrain and bridge directly, reads the dashboard, ends with `CommandScheduler::Run` |
| Drive test (`Robot.cpp:328-474`) | `m_driveTestMode`, `m_driveTestActive`, `m_driveTestTimer`, targets | `UpdateDriveTest`, `StartDriveTest`, `ResetDriveTestState` | buttons under `DriveTest/`, Drivetrain, odometry |
| Jetson link (`subsystems/SerialBridgeSubsystem.cpp`) | two sockets, `m_rxPacket`, sequence byte, counts, `m_lastRxTimer`, `m_jetsonConnected`, TX packet | `Periodic` (drain, judge, transmit), getters, setters | read by `RobotPeriodic`; run by the scheduler |
| Drivetrain outputs (`subsystems/Drivetrain.cpp`) | command, `m_driveOutputsEnabled` | `Drive`, `StopDrive`, `SetDriveOutputsEnabled`, `Periodic` | writes motor speeds through RoboClawDriver |
| Drivetrain PID configuration (`subsystems/Drivetrain.cpp:437-715`) | Config, Pending, Actual, `m_hasActualPidValues`, `m_pidLastApplyOk`, Dirty, MatchesConfig | boot apply, six dashboard buttons, edits | controllers' RAM and NVM over the serial line |
| RoboClaw driver (`RoboClawDriver.cpp`) | the serial port's receive buffer | speed writes, PID writes and reads, NVM writes, encoder reads and resets; all of them flush, send, and wait for bytes until a timeout | one transaction at a time; a write is acked by a single byte 0xFF, a read is answered with data and a CRC |
| Autonomous command (`commands/AutonomousCommand.cpp`) | phase, lane, timer | Initialize, Execute, IsFinished, End | scheduled by `AutonomousInit`, cancelled by `TeleopInit`, by LiveWindow's start in Test mode and by disabling |
| Match clock (`Robot.cpp:87-92, 169-172`) | `m_matchStarted`, `m_matchTimer`, `m_matchTimeRemaining` | started by `AutonomousInit`, brought up to date by `RobotPeriodic` | `match_time_ms` of the TX packet |
| Odometry and encoders (`subsystems/Drivetrain.cpp:105-142, 265-282`) | counts, previous counts, pose | reads in `Periodic`, `ResetDriveEncoders`, `ResetOdometry` | drive tests, autonomous, TX packet |
| IMU (`Robot.cpp:205-241`) | bias, yaw rate | `ReadIMU`, `CalibrateGyroBias` | odometry |
| RoboClawPIDManager | its own Config/Pending/Actual | | no object of the class is created |
| Intake, Latch, SortingSystem, DriveSetDistance, RobotContainer | none that matters | | `RobotContainer` constructs the rest |

Hard behaviours, component by component, and what makes each component right:

* **Loop and ownership.** `RobotPeriodic` samples `DriveTest/Enable` once, then
  the test or the Jetson branch sets the command, then the Periodics run.
  `SetDriveOutputsEnabled(false)` does not stop a motor; each path that uses it
  must write the stop. Correct: only the owner of the loop commands the wheels,
  disabled outputs mean stopped wheels, a silent Jetson loses the drive.
* **Drive test.** Buttons are consumed in a fixed order and stay pressed
  meanwhile; the time limit is checked before the goal. Correct: a test ends,
  and in time, and whatever ended it stopped the drive.
* **Jetson link.** The drain runs while datagrams arrive; liveness is judged
  once per Periodic; the sequence byte wraps. Correct: the link is the newest
  arrival and its age; the dropped count is right.
* **PID configuration.** An apply is a chain of transactions that stops at the
  first failure and leaves the rest of the controllers as they were; an ack
  carries no address, so a late one can be taken for the next. Correct: what
  the dashboard shows is what the controllers run on.
* **RoboClaw driver.** Bytes of an answer that came too late stand in front of the
  next; an ack names no request. Correct: a read that succeeds is an answer to
  that very query, and an ack is believed only of a controller that acted.
* **Autonomous.** Phases by timer, polled once per loop; the command is ended in four
  ways. Correct: it is the plan of nine legs, none of them short, and no command
  of it survives it.
* **Odometry.** One encoder per loop, reads that fail, resets that are lost, a
  crash that the controllers' registers survive. Correct: no count is lost or
  added twice, and what the Jetson is told is consistent.
* **Match clock.** A cast of up to 180000 ms to 16 bits. Correct: what fits is right.

The complete list, each hazard at its line and with the properties that answer
it, is `hazards` in `PROJECT.json`.

## 2. Modules

```
JetsonLink  <--EXTENDS--  RobotLoop  <--  MCRobotLoop,  RobotLoopProofs
     ^
     |  INSTANCE (refinement)
SerialBridge  <--  MCSerialBridge,  SerialBridgeProofs

SerialOutcomes  <--EXTENDS--  DrivetrainPid  <--  MCDrivetrainPid,  DrivetrainPidProofs
      ^
      |  EXTENDS
SerialTransactions  <--INSTANCE (refinement)--  RoboClawLink  <--  MCRoboClawLink,  RoboClawLinkProofs

Odometry  <--  MCOdometry,  OdometryProofs

SweepPlan  <--INSTANCE (refinement)--  MatchPeriod  <--  MCMatchPeriod,  MatchPeriodProofs
```

* **`JetsonLink`** is the abstract specification of the bridge: the newest valid
  packet that arrived (`inbox`), the packet in use (`rx`), its age and
  `connected`. `RobotLoop` extends it and takes its actions as they are.
* **`RobotLoop`** is one program run: loops, ownership, drive tests, the Jetson
  branch, the scheduler, the drivetrain's writes and the gate of the PID buttons.
* **`SerialBridge`** is the bridge's receiving side at the level of `recvfrom`;
  it implements `JetsonLink`.
* **`DrivetrainPid`** is the PID configuration at the level of one serial
  transaction. What a transaction may return comes from `SerialOutcomes`.
* **`RoboClawLink`** is the serial driver byte by byte: requests, answers, loss,
  damage, delay, timeouts. It implements **`SerialTransactions`**, transactions whose
  results are those of **`SerialOutcomes`**: this is what justifies `DrivetrainPid`.
* **`Odometry`** goes from the turning wheels over the controllers' registers and
  `Drivetrain`'s counts and distances to the snapshot for the Jetson.
* **`MatchPeriod`** is a match: modes, the autonomous command under the scheduler and
  the match clock. It implements **`SweepPlan`**, the plan of legs.
* The `MC` modules name the sets that the configurations use; the `Proofs`
  modules hold the theorems.

### How state and actions correspond to the code

`map` in `PROJECT.json` gives the source lines of every definition. In short:

* `RobotLoop`: `pc` walks a loop: `LoopStart` (mode handlers) -> `ReadOwner`
  (`RobotPeriodic` until `manualOwnsDrive`) -> one of the `Test*` actions
  (`UpdateDriveTest`, one action for each way through it) or `JetsonDrives` /
  `JetsonStops` -> `DrivetrainPeriodic` and `BridgePeriodic` in either order (the
  scheduler keeps subsystems in a hash map) -> `RunCommands`. In Test mode the
  scheduler returns at once (`EnableLiveWindowInTest(true)`), so `EndDriveStep`
  goes back to `wait`. The dashboard (`ClientPress`, `ClientToggle`), datagrams
  (`DatagramArrives`), `Tick` and `Restart` may come between any two of them.
* A command is the name of its origin (`zero`, `test`, `auto`, or a Jetson
  command). The vertical wheels take `base` whatever the command is, because
  `Drivetrain::Periodic` computes their speed from `DriveSpeedFraction` and the
  encoder balance (Drivetrain.cpp:172-208); only the horizontal wheel takes the
  command's `vy`.
* `asked` is what the program last wrote for each wheel, `motor` what the
  controllers received. `Serial(speeds, lost)` writes all three; `lost` names the
  wheels that none of a handler's writes reached. `StopDrive` writes M1 and M2 in
  one packet, so they are lost together.
* `SerialBridge`: `Recvfrom` is one iteration of the drain loop, `Discard` and
  `Accept` its two outcomes, `DrainEnds` the `EWOULDBLOCK` and the judgement of
  liveness. A datagram carries the number it was sent under and the code sees
  only `SeqByte`, the number modulo 256. `firstNumber`, `lastNumber`, `steady`,
  `newest` and `before` are history variables.
* `DrivetrainPid`: `at` is the button `HandlePidDashboardActions` looks at, `job`
  and `ops` the transactions under way. `WriteTransaction(delivered)` says whether
  the controller took the write, `Acked` whether the driver saw an ack byte, its
  own or a stray one. `JobFails` is the end of the `&&` chain.
* `RoboClawLink`: `Flush` is the beginning common to the driver's functions
  (`FlushRx`), `SendPacket` the write, which the controllers may take, miss or, for
  a query, take for another one. `ReadBytes` is one iteration of the read loop,
  `Timeout` its deadline, `AckChecked` and `CrcChecked` what is done with a complete
  answer. `Reply`, `Arrive`, `Lose` and `Damage` are the controllers and the line. A
  byte carries the identity of the request it answers, which the code does not
  see; `reached` and `quiet` are history variables.
* `Odometry`: a loop is `RobotPeriodic` (snapshot, then perhaps a reset), perhaps
  `FullReset` and the two `ResetDriveEncoders` transactions behind it, then
  `ReadEncoder`. `Turn` may come between any two of them. `turned`, `due`,
  `carried`, `ways`, `honest`, `synced` and `resetTx` are history variables: what the
  wheels did, and what has not been seen of it.
* `MatchPeriod`: `LoopStart` with the mode handlers, `RobotPeriodic`, then
  `Idle`, `CancelDisabled` or `Execute` for the scheduler's pass over the
  command. `move` is the autonomous command's value in the drivetrain's command, if
  it is still there: `RobotPeriodic` overwrites it in each loop.

### Abstractions

* One tick is any unit of time in which the timeouts are expressed; a loop takes
  1 to `MaxLoop` ticks, so late loops are included. A drain takes less than a
  tick. The mode is sampled once per loop.
* `DriveTest/TimeoutSec` is fixed during a run of the model. A test's goal may be
  reached in any loop: the control law and the odometry behind it are not in
  `RobotLoop`.
* After a reboot of the program, a dashboard client may or may not publish its
  values again.
* `MaxPressed` buttons of the dashboard read true at a time, in `RobotLoop` and in
  `DrivetrainPid`.
* `RobotLoop` evaluates the gate of the PID buttons at the start of
  `Drivetrain::Periodic`, for all of them; `DrivetrainPid` looks at them one by
  one, and there the outcome of the gate is a free choice.
* `DrivetrainPid`: `PidMatches` compares with a tolerance and is equality here, so
  `Gains` are settings further apart than the tolerance; a gain travels in 16.16
  fixed point (RoboClawDriver.cpp:147-149, 228-230), which rounds it by at most
  2^-17 against a tolerance of 1e-4 (Drivetrain.cpp:24), so what is written and
  what is read back are the same member of `Gains`, as long as it fits the format:
  the cast of one that does not is listed among the hazards; Config is one setting
  for the three slots; the values `actual` has while `hasActual` is false are
  not followed, since nothing reads them; status texts and `LastReadOk` are left out. Between jobs
  every pending ack is forgotten and `StartJob` chooses anew whether one is on
  its way, since encoder reads and motor writes run in between. An ack that is
  late for the last write of a job can only fail the readback, which may fail
  anyhow. Controllers lose
  their RAM only together with a reboot of the program: a brown-out of the
  controllers alone is noticed by no code, and `ActualIsTrue` says nothing of it.
* `RoboClawLink`: a CRC is taken to fit nothing but the undamaged answer it was
  computed for, so bytes of two answers never fit by chance. A request reaches the
  controllers whole or not at all; no bytes come that nobody sent. The port's
  buffer of 64 bytes overflows only by losing bytes, which is `Lose`. Deadlines
  may pass at any time. `ReadFirmwareVersion` and its caller `VerifyControllers`
  are never called and are left out.
* `Odometry`: the pose is a function of three distances and the heading; the
  distances are modelled, in counts, and the heading is not. `encLeftPrev`
  and its like repeat the previous counts; the reference flag is always true after
  the constructor. Counts stay far from 2^31 in a match. A PID apply
  between reset and read may change the sign of the command: `reverse` is chosen
  freely in each loop anyhow. Here a read succeeds with the present register or
  fails; `ReadsAreRight` says when that is so: on a line that was quiet after the
  flush.
* `NothingLost` speaks of wheels whose last register reset got through, for nobody
  looks at its result, and of M2 as long as it turns as the command says: its
  register counts up in both directions (comment at Drivetrain.cpp:123) and the
  code takes the sign from the command.
* `MatchPeriod`: seconds and milliseconds are ticks, scaled so that their order is
  the code's; a cast that does not fit (undefined in C++) gives the truncated or the
  largest value; timers are followed as far as anything reads them.
* Telemetry, servos, the IMU, `m_cmdVelWatchdog` (reset, never read) and the
  packets to the Jetson are left out.

## 3. Runs

Bounds are constants of the modules and named there. Every passing run explores
its whole state space, and the passing runs together fire every action.

| Run | Question | Instance | Result |
|---|---|---|---|
| `loop_drive` | Who commands the wheels, from link loss over drive tests to PID buttons? | modes disabled/auto, Enable toggled at will, five buttons, two pressed at a time, `JetsonTimeout` 1, `TestTimeout` 1, `MaxLoop` 2 | holds, about 3.7 M states |
| `loop_live` | Does an idle robot stop for good, does every test end, with lost writes and reboots? | modes auto/test, one start button, `MaxFaults` 1 | holds, about 350 000 states |
| `bridge_link` | Is the datagram-level bridge the link `RobotLoop` is built on? Is the dropped count right? | four datagrams, runs of 0, 255 or 256 losses, a queue of 2, one late datagram | holds, about 3.6 M states |
| `pid_dashboard` | Does the dashboard tell the truth about the controllers? | two gains, all buttons, one pressed at a time, edits of the first and the last slot | holds, about 790 000 states |
| `odometry` | Is a count lost, or added twice? Do snapshots agree? | three wheels, two counts, register 0 or 1 at boot, any failed reads, lost resets, crashes | holds, about 2.8 M states |
| `serial_link` | Are answers right and acks true? Does the driver give the outcomes `DrivetrainPid` takes? | two reads and a write, answers of 2 bytes, three requests with bytes on their way | holds, about 1.1 M states |
| `match` | Is the autonomous command its plan, in time, and over at its end? Is the match time right? | legs of 3, 4 and 2 ticks, a match of 70, a field of 26, loops of 1 or 2, all modes, crashes | holds, about 540 000 states; finding 6 |
| `loop_test_mode` | Is `connected` recent in Test mode too? | modes disabled/test | violated: finding 1 |
| `loop_reset` | Does `StopDrive` stop the drive? | ResetOdometry during a test | violated: finding 2 |
| `loop_auto` | Does a move of the autonomous command reach a Periodic? | auto, no dashboard | violated: finding 5 |
| `bridge_late` | Does the drain keep the most recent packet? | one late datagram | violated: finding 3 |
| `pid_boot` | Does every boot apply Config? | no buttons | violated: finding 4 |

Why the bounds are enough:

* `LinkBound` is `JetsonTimeout + 4 * MaxLoop`: the timeout, a loop in the socket
  queue, a loop to the next Periodic, one to the next `RobotPeriodic`, and the
  loop under way. It is tight: with `- 1` TLC finds a violation. `MaxLoop` 2 lets
  loops of different lengths alternate. Ages are capped one above what any
  property compares them with, so no behaviour is cut off.
* Losses of 255 and 256 lie on the two sides of what a byte can tell, and the four
  sends take the number through two wraps. A queue of 2 is drained while
  datagrams arrive, and a late one can be overtaken by two others.
* In `loop_drive` two buttons at a time are enough for one to be looked at before
  another: ResetOdometry before Cancel, either before a start, WriteNVM before
  ApplyAndWriteNVM, a start that waits while a test runs. Teleop is to the loop
  what disabled is, except that it cancels the command, which Test mode does too
  in `loop_live`, and that it closes the gate of the PID buttons, which autonomous
  does too. Test mode is left out because `connected` is not recent there (finding
  1). The timing of the link needs late loops, not a long timeout; with modes
  disabled/auto/teleop, Enable alone and `JetsonTimeout` 2 the properties hold too.
* In `loop_live` the timeouts are 0 and a loop takes one tick, which is the least
  for a test to run, to time out and to be started again; what matters to the
  liveness is which handler runs next, not after how many ticks.
* In `pid_dashboard` the controllers start with Config in NVM (`StoredGains`); they get
  other gains by WriteNVM, and a reboot with a power cycle brings them to RAM. Two
  of the three slots are edited, one on each controller; the third is
  written, read back and refreshed as they are. The proofs are for any gains.
* `MaxPressed` 1 in `pid_dashboard` still lets a press come while an earlier
  button's job runs; `WriteNVM` that skips the button after it needs two and is
  only reached as the early return.

* In `odometry` two counts are enough for a wheel to turn forth and back, for two
  wheels to turn, and for a count to come between any two steps of a reset; more
  repeats them. The proofs are for any number.
* In `serial_link` a 2-byte answer is the shortest that can be cut in the middle,
  as the code's 7 and 18 can; three identities let two late transactions disturb
  a third. Answers of 3 bytes and a third read were tried too, and hold.
* In `match` the field wraps twice in a match, as 180 s do in 65.536 s; legs are
  longer than a loop and the sweep ends before the match. `SweepBound` allows two
  late loops for each leg: one until the limit is seen, one for the scheduler's
  place in the loop.

### Fairness

`FairSpec` asks for weak fairness of `CodeStep`, because `TimedRobot`'s Notifier
runs the loop as long as the program lives, and of `Tick`, because time passes.
Nothing is assumed of the Jetson, the operator, the driver station or the serial
line; `MaxFaults` bounds the lost writes, and with no bound nothing about
`motor` could hold. `MatchPeriod`'s `FairSpec` is the same: `Handlers` are called as
long as the program lives, and time passes; `SweepEnds` assumes nothing of the
driver station. Reboots may happen for ever. `IdleRobotStops` is of the form
`<>[] => <>[]`: it speaks of behaviours in which nobody ever drives again.

### Findings

1. **Test mode never notices a lost Jetson.** The timeout is in the bridge's
   `Periodic`, which the disabled scheduler does not call;
   `src/NETWORKTABLES_DATAFLOW.md:80` says the flag is true only if the last
   packet is newer than 200 ms.
2. **`DriveTest/ResetOdometry` during a test does not stop the robot.** It calls
   `StopDrive` and leaves the outputs enabled (Cancel disables them), so
   `Drivetrain::Periodic` writes the base speed in the same loop, and in each
   later one until `UpdateDriveTest` disables the outputs in its next call;
   `src/README.md:68`: "`StopDrive()` stops the differential drive motors."
3. **An overtaken datagram replaces a newer command.** The sequence byte only feeds
   the dropped count; the comment at SerialBridgeSubsystem.cpp:114-116 says the
   drain keeps the most recent packet and avoids stale commands.
4. **The boot apply is tried once.** A transaction without an ack leaves the
   controllers on their NVM gains and the robot drives; the comment at
   Drivetrain.cpp:55-57 says the gains are applied at every boot.

5. **The autonomous command never moves the robot.** Its `Execute` runs after the
   Periodics and stores a move; `RobotPeriodic` of the next loop, which comes
   before them, replaces it: by the Jetson's command if the Jetson is connected,
   and otherwise by the stop, with the outputs disabled (Robot.cpp:113-132). The
   comments at AutonomousCommand.cpp:54, 60 and 61 say "drive ~0.9m per lane",
   "shift one lane" and "~0.2m lateral shift". `OwnerCommands`
   holds on account of the same order: it is what the sweep lacks. `MatchPeriod` is about the command's own
   plan and clock, not about the wheels.
6. **The autonomous command ends by itself.** `src/README.md:42` says
   "`IsFinished()` always returns `false`, so the command never ends on its own", and
   line 41 that `Initialize`, `Execute` and `End` are empty. The code has nine timed
   legs, `IsFinished` is true after them (AutonomousCommand.cpp:76) and `End` stops the
   drive. `SweepEnds` says the opposite of that line, and holds in `match`; so do
   `ImplementsPlan` and `SweepEndsInTime`, which say what it does instead and by when.

## 4. Proofs

The `Proofs` modules prove, for every value of the constants that satisfies the named
assumptions (`CmdsAssumption`, `TimeoutAssumption`, `ModesAssumption`, `KeysAssumption`,
`BoundsAssumption`, `BridgeAssumption`, `GainsAssumption`, `TurningAssumption`,
`TimesAssumption`, `LinkAssumption`: types, that command names are not the model's own
words, that a write is not a read, and that an answer has at least one byte):

| Theorem | Statement | Argument |
|---|---|---|
| `TypeCorrect` | `Spec => []TypeOK` | one lemma for each part of `TypeOK` |
| `OffIsStopped` | `Spec => []OffMeansAskedStop` | every action that clears `outputs` writes `AllStop`, and nothing else writes while they are off |
| `LinkLoss` | outside Test mode, `Spec => []LinkLossBound` | `silence` is at most the age of the packet in use plus what it waited; an invariant gives the bound at each point of the loop, and the bounds add up |
| `ConnectedStaysRecent` | outside Test mode, `Spec => []ConnectedIsRecent` | the same invariant |
| `OwnerOnly` | `Spec => []OwnerCommands` | inductive with the types: only a running test and a reset enter the Periodics with the outputs on for the dashboard, and only `JetsonDrives` for the Jetson, with the packet in use; until the bridge's Periodic nothing changes the packet or `connected`, and afterwards the command is still one of a packet |
| `ConfigOnlyAtRest` | `Spec => []ConfigGate` | `ntActive` agrees with `testActive`, so the gate sees a running test |
| `TestsAreBounded` | `Spec => []TestBounded` | the age of a test at each point of the loop, by whether this loop has looked at the limit |
| `BridgeTypeCorrect` | `Spec => []TypeOK` | |
| `DropsAreCounted` | `Spec => []DroppedCountIsRight` | `lastRxSeq = lastNumber % 256` and the count is congruent to the numbers missed; each gap adds what it should modulo 256, exactly when `steady` |
| `BridgeImplementsLink` | `Spec => ImplementsLink` | during a drain the mapping keeps the state before it, so `PeriodicStart` to the last `recvfrom` stutter and `DrainEnds` is `JetsonLink`'s `Periodic`; an invariant says that `newest` is the last valid datagram in the queue or else the packet just taken |
| `OrderlyKeepsMostRecent` | `MaxDelayed = 0`: `Spec => KeepsMostRecent` | what waits in the socket is in order and newer than what was received; so overtaking is the only cause of finding 3 |
| `PidTypeCorrect` | `Spec => []TypeOK` | |
| `ActualIsAlwaysTrue` | `Spec => []ActualIsTrue` | gains are written only by a job that clears `applyOk` when it stops, and otherwise reads everything back; an NVM job's transactions write none |
| `FlagsAreAlwaysTrue` | `Spec => []FlagsAreTrue` | every change of `actual` or `pending` brings the flags up to date |
| `OdometryTypeCorrect` | `Spec => []TypeOK` | |
| `NothingIsLost` | `Spec => []NothingLost` | a register is ahead of the count in use by what is due; what a read adds is what it takes from `due` |
| `SnapshotsAlwaysAgree` | `Spec => SnapshotsAgree` | between two snapshots the odometry and the counts advance in one step only |
| `LinkTypeCorrect` | `Spec => []TypeOK` | |
| `AckAlwaysMeansDone` | `Spec => []AckMeansDone` | on a line that was quiet after the flush, every byte in flight is of the request under way, and there is none if it did not get out |
| `ReadsAlwaysRight` | `Spec => []ReadsAreRight` | as above; what fits its CRC is one undamaged answer, in order |
| `LinkImplementsTransactions` | `Spec => ImplementsTransactions` | all but the last step of a transaction stutter; once the whole answer is taken, nothing of the request is left in flight, so `late` is what `SerialOutcomes` says |
| `MatchTypeCorrect` | `Spec => []TypeOK` | |
| `CommandAlwaysEndsWithSweep` | `Spec => []CommandEndsWithSweep` | `End` stops the drive in the step that unschedules the command, and `RobotPeriodic` overwrites what else is there |
| `SweepAlwaysEndsInTime` | `Spec => []SweepEndsInTime` | at each point of the loop a bound on the age of the leg, and on what the legs before it took |
| `MatchTimeAlwaysRight` | `Spec => []MatchTimeIsRight` | what was told is the time left of some moment, at most a loop and its handlers ago |
| `SweepImplementsPlan` | `Spec => ImplementsPlan` | phase and lane are a leg's place in the plan; a leg is left only after its time, for the next one |

`NothingLost` needs `RegistersAhead`, which relates the controllers' registers to the
counts also between the two register resets, where `NothingLost` says nothing, and
for M2 by the directions it has turned in. `OffMeansAskedStop` and `ConfigGate` are not inductive alone: they need the types
and the agreement of dashboard and test state. `LinkLossBound` needs the bound at
every `pc`, not only where the wheels are written.

`AckMeansDone` and `ReadsAreRight` speak of finished transactions; `LinkInv` says
why, for each stage of one: the controllers have taken the request once at most
and answer it once (`OwnInv`), its bytes come in the order they were sent, and on
a quiet line there are no others (`QuietInv`). `SweepEndsInTime` bounds the match
clock and says nothing of the leg; `AgeInv` bounds the leg's age and, leg by leg and
lane by lane, all that came before it. `MatchTimeIsRight` needs `ClockInv` to
remember of which moment the Jetson was told, through the cast to 16 bits. TLC
has checked these invariants on the instances of `serial_link` and `match`.

Every invariant, action property and refinement of a passing run is a theorem. Only
model-checked: the liveness properties `IdleRobotStops`, `TestEnds` and `SweepEnds`, for
the prover handles neither `ENABLED` nor fairness. The violations are TLC's.

## 5. Plan

Done: all modules of section 2, their runs, and the proofs about them. To come:

1. More conditional theorems about the findings, as `OrderlyKeepsMostRecent` is for
   finding 3: what else must hold for a boot to leave the controllers on Config, and
   for `StopDrive` to stop the drive.
2. The dashboard's read-then-clear of a button against a client's press, which
   `RobotLoop` takes as one step.

## 6. Not modelled

* The IMU: bias and yaw rate are reals that feed the heading, and no modelled
  property depends on it. Read from the code, not checked: `CalibrateGyroBias`
  (Robot.cpp:224-238) stores the mean of the raw rate, and `ReadIMU` (Robot.cpp:216)
  negates the raw rate before it subtracts the bias, so that a robot that stands
  still reads twice its bias, negated. It is listed among the hazards.
* The encoder balance and the drive test's control law: numeric control.
* The packets to the Jetson besides match time, odometry and counts: written,
  never read back.
* Servos, `SortingSystem`'s Hall voltage, `Intake`, `Latch`: no state.
* `DriveSetDistance`: never scheduled. `RoboClawPIDManager`: no object is constructed.
* `ReadFirmwareVersion`, `VerifyControllers`: never called.
* RobotBuilder files, Gradle files, vendor libraries: generated or external.
