------------------------------- MODULE Odometry -------------------------------
(***************************************************************************)
(* From the wheels to the pose the Jetson is told: the encoder registers   *)
(* in the motor controllers, the counts Drivetrain::Periodic reads from    *)
(* them, one wheel per loop, the distances it adds up, and the snapshot    *)
(* RobotPeriodic hands to the bridge.  Reads may fail, resets may be lost, *)
(* the program may crash, and the wheels turn at any time.                 *)
(*                                                                         *)
(* The pose is a function of the three distances and the gyro's heading;   *)
(* the distances are modelled, in counts, and the heading is not.          *)
(***************************************************************************)
EXTENDS Integers

CONSTANTS
    Turning,   \* wheels that turn
    MaxTurns   \* bound: counts that all wheels turn together

Wheels == {"left", "right", "horiz"}
Directions == {1, -1}

ASSUME TurningAssumption == Turning \subseteq Wheels /\ MaxTurns \in Nat

VARIABLES
    pc,       \* "loop", or inside ResetDriveEncoders: see Next
    todo,     \* Drivetrain::Periodic has not run in this loop
    phase,    \* m_encoderReadPhase
    reverse,  \* m_cmdVx < 0
    count,    \* m_leftEncoderCount, m_rightEncoderCount, m_horizEncoderCount
    prev,     \* m_prevLeftEncoderCount, ...
    odom,     \* distance in m_odomX, m_odomY since ResetOdometry, wheel by wheel
    tx,       \* odometry and encoder fields of m_txPacket
    reg,      \* the controllers' encoder registers
    turns,    \* history: counts turned so far
    turned,   \* history: what a wheel really turned since ResetOdometry
    due,      \* history: what it turned since its last good read or register reset
    carried,  \* history: what was due at the last ResetOdometry
    ways,     \* history: directions of what is due
    honest,   \* history: since ResetOdometry the right wheel turned as the command says
    synced,   \* history: wheels whose last register reset got through
    resetTx   \* history: something was reset since the last snapshot

code == <<phase, reverse, count, prev>>
distance == <<odom, turned, carried, honest>>
wheel == <<reg, due, ways, synced>>
vars == <<pc, todo, code, distance, tx, wheel, turns, resetTx>>

Zero == [w \in Wheels |-> 0]
Vertical == {"left", "right"}

Init ==
    /\ pc = "boot80" /\ todo = FALSE
    /\ phase = 0 /\ reverse = FALSE
    /\ count = Zero /\ prev = Zero
    /\ odom = Zero /\ turned = Zero /\ carried = Zero /\ honest = TRUE
    /\ tx = [odom |-> Zero, enc |-> Zero]
    /\ reg \in [Wheels -> 0 .. 1]  \* what earlier runs left there
    /\ due = Zero /\ ways = [w \in Wheels |-> {}] /\ synced = {}
    /\ turns = 0 /\ resetTx = TRUE

\* The program boots again; the controllers keep their registers.
Restart ==
    /\ pc' = "boot80" /\ todo' = FALSE
    /\ phase' = 0 /\ reverse' = FALSE
    /\ count' = Zero /\ prev' = Zero
    /\ odom' = Zero /\ turned' = Zero /\ carried' = due /\ honest' = TRUE
    /\ tx' = [odom |-> Zero, enc |-> Zero] /\ resetTx' = TRUE
    /\ synced' = {}
    /\ UNCHANGED <<reg, due, ways, turns>>

-----------------------------------------------------------------------------
(* Drivetrain::ResetDriveEncoders, in the constructor ("boot80", "boot81") *)
(* and for Drive/FullReset ("full80", "full81").                           *)

\* The driver's result is not looked at: a lost reset goes unnoticed.
ResetEncoders(wheels, lost) ==
    IF lost
    THEN synced' = synced \ wheels /\ UNCHANGED <<reg, due, ways>>
    ELSE /\ synced' = synced \cup wheels
         /\ reg' = [w \in Wheels |-> IF w \in wheels THEN 0 ELSE reg[w]]
         /\ due' = [w \in Wheels |-> IF w \in wheels THEN 0 ELSE due[w]]
         /\ ways' = [w \in Wheels |-> IF w \in wheels THEN {} ELSE ways[w]]

ResetOdometry ==
    /\ odom' = Zero
    /\ turned' = Zero /\ carried' = due' /\ honest' = TRUE
    /\ resetTx' = TRUE

ResetVertical(lost) ==
    /\ \/ pc = "boot80" /\ pc' = "boot81"
       \/ pc = "full80" /\ pc' = "full81"
    /\ ResetEncoders(Vertical, lost)
    /\ UNCHANGED <<todo, code, distance, tx, turns, resetTx>>

\* Mutant: the reference counts survive the reset.
ZeroCountsMutant == count' = Zero /\ UNCHANGED prev
ZeroCounts == count' = Zero /\ prev' = Zero

ResetHorizontal(lost) ==
    /\ \/ pc = "boot81" /\ pc' = "loop"
       \/ pc = "full81" /\ pc' = "read"
    /\ ResetEncoders({"horiz"}, lost)
    /\ ZeroCounts
    /\ ResetOdometry
    /\ UNCHANGED <<todo, phase, reverse, tx, turns>>

-----------------------------------------------------------------------------
(* One loop.                                                               *)

\* AutonomousCommand::Initialize, before RobotPeriodic of its first loop.
AutonomousInit ==
    /\ pc = "loop" /\ ~todo
    /\ UNCHANGED <<pc, todo, code, tx, wheel, turns>>
    /\ ResetOdometry

\* RobotPeriodic hands the bridge a snapshot, and only then may a button reset
\* the odometry; either the drive test or the Jetson branch stores a command.
\* In Test mode the scheduler does not run Drivetrain::Periodic.
RobotPeriodic(resets, backward, scheduler) ==
    /\ pc = "loop" /\ ~todo
    /\ tx' = [odom |-> odom, enc |-> count]
    /\ reverse' = backward
    /\ todo' = scheduler
    /\ UNCHANGED <<pc, phase, count, prev, wheel, turns>>
    /\ IF resets THEN ResetOdometry ELSE resetTx' = FALSE /\ UNCHANGED distance

FullReset ==
    /\ pc = "loop" /\ todo /\ pc' = "full80"
    /\ UNCHANGED <<todo, code, distance, tx, wheel, turns, resetTx>>

ReadOrder(p) == IF p = 0 THEN "left" ELSE IF p = 1 THEN "right" ELSE "horiz"

\* Mutant: the phase goes one too far.
NextPhaseMutant == (phase + 1) % 4
NextPhase == (phase + 1) % 3

\* Mutant: both vertical wheels change sign.
DistanceMutant(w) == (count'[w] - prev[w]) * (IF w # "horiz" /\ reverse THEN -1 ELSE 1)
\* What Periodic adds to the distance of a wheel: M2's counts change sign while
\* the command is backward.
Distance(w) == (count'[w] - prev[w]) * (IF w = "right" /\ reverse THEN -1 ELSE 1)

AsCommanded(w) == w = "right" => ways[w] \subseteq {IF reverse THEN -1 ELSE 1}

\* The rest of Drivetrain::Periodic: one encoder is read, or fails to be, and
\* the odometry advances by what has changed.
ReadEncoder(ok) ==
    LET w == ReadOrder(NextPhase)
    IN  /\ pc = "read" \/ (pc = "loop" /\ todo)
        /\ pc' = "loop" /\ todo' = FALSE
        /\ phase' = NextPhase
        /\ count' = IF ok THEN [count EXCEPT ![w] = reg[w]] ELSE count
        /\ prev' = count'
        /\ odom' = [x \in Wheels |-> odom[x] + Distance(x)]
        /\ IF ok THEN /\ due' = [due EXCEPT ![w] = 0]
                      /\ ways' = [ways EXCEPT ![w] = {}]
                      /\ honest' = (honest /\ AsCommanded(w))
                 ELSE UNCHANGED <<due, ways, honest>>
        /\ UNCHANGED <<reverse, turned, carried, tx, reg, turns, synced, resetTx>>

-----------------------------------------------------------------------------
(* The wheels.                                                             *)

\* M2's encoder counts up in reverse, which is why the code negates it.
Counts(w, d) == IF w = "right" THEN 1 ELSE d

Turn(w, d) ==
    /\ turns < MaxTurns /\ turns' = turns + 1
    /\ reg' = [reg EXCEPT ![w] = @ + Counts(w, d)]
    /\ turned' = [turned EXCEPT ![w] = @ + d]
    /\ due' = [due EXCEPT ![w] = @ + d]
    /\ ways' = [ways EXCEPT ![w] = @ \cup {d}]
    /\ UNCHANGED <<pc, todo, code, odom, carried, honest, tx, synced, resetTx>>

CodeStep ==
    \/ \E lost \in BOOLEAN : ResetVertical(lost) \/ ResetHorizontal(lost)
    \/ AutonomousInit
    \/ \E resets, backward, scheduler \in BOOLEAN : RobotPeriodic(resets, backward, scheduler)
    \/ FullReset
    \/ \E ok \in BOOLEAN : ReadEncoder(ok)

Next ==
    \/ CodeStep
    \/ \E w \in Turning, d \in Directions : Turn(w, d)
    \/ Restart

Spec == Init /\ [][Next]_vars

-----------------------------------------------------------------------------
(* Properties.                                                             *)

TypeOK ==
    /\ pc \in {"boot80", "boot81", "full80", "full81", "read", "loop"}
    /\ {todo, reverse, honest, resetTx} \subseteq BOOLEAN
    /\ phase \in 0 .. 2
    /\ {count, prev, odom, reg, turned, due, carried} \subseteq [Wheels -> Int]
    /\ tx \in [odom : [Wheels -> Int], enc : [Wheels -> Int]]
    /\ ways \in [Wheels -> SUBSET Directions]
    /\ synced \subseteq Wheels
    /\ turns \in 0 .. MaxTurns

Resetting == pc \in {"boot80", "boot81", "full80", "full81"}

\* No count is lost and none is added twice, whatever reads fail, however the
\* wheels turn between and during resets, and whenever the program crashes: the
\* odometry is what the wheel turned since ResetOdometry, less what was not read
\* yet, plus what was not read yet at the reset.  For the right wheel only as
\* long as it turns the way the command says; for every wheel only as long as
\* its register reset was not lost, which nobody looks at.
NothingLost ==
    ~Resetting => \A w \in synced :
        (w = "right" => honest) => odom[w] = turned[w] - due[w] + carried[w]

\* Without a reset in between, two snapshots in a row tell the Jetson the same
\* motion twice: by the odometry and by the encoder counts.
SnapshotsAgree ==
    [][tx' # tx /\ ~resetTx /\ pc' = "loop" =>
         \A w \in Wheels :
           LET moved == tx'.odom[w] - tx.odom[w]
               counted == tx'.enc[w] - tx.enc[w]
           IN  moved = counted \/ (w = "right" /\ moved = -counted)]_vars

=============================================================================
