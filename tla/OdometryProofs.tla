---------------------------- MODULE OdometryProofs ----------------------------
(***************************************************************************)
(* Theorems about Odometry, for any wheels that turn and any number of     *)
(* turns: type correctness, that no count is lost, and that two snapshots  *)
(* in a row agree.                                                         *)
(***************************************************************************)
EXTENDS Odometry, TLAPS

(***************************************************************************)
(* Type correctness.                                                       *)
(***************************************************************************)

Counters == [Wheels -> Int]

\* The variables that a register reset changes.
WheelTypes ==
    /\ reg \in Counters /\ due \in Counters
    /\ ways \in [Wheels -> SUBSET Directions]
    /\ synced \subseteq Wheels

LEMMA ZeroType == Zero \in [Wheels -> Int]
BY DEF Zero

LEMMA InitTypes == Init => TypeOK
<1> SUFFICES ASSUME Init PROVE TypeOK
  OBVIOUS
<1>1. {count, prev, odom, turned, due, carried} \subseteq [Wheels -> Int]
  BY ZeroType DEF Init
<1>2. reg \in [Wheels -> Int]
  BY SMT DEF Init
<1>3. turns \in 0 .. MaxTurns
  BY TurningAssumption DEF Init
<1>4. tx \in [odom : [Wheels -> Int], enc : [Wheels -> Int]]
  BY ZeroType DEF Init
<1>5. ways \in [Wheels -> SUBSET Directions] /\ synced \subseteq Wheels /\ phase \in 0 .. 2
  BY DEF Init
<1>6. pc \in {"boot80", "boot81", "full80", "full81", "read", "loop"}
  BY DEF Init
<1>7. {todo, reverse, honest, resetTx} \subseteq BOOLEAN
  BY DEF Init
<1> QED
  BY <1>1, <1>2, <1>3, <1>4, <1>5, <1>6, <1>7 DEF TypeOK

LEMMA ResetTypes ==
    ASSUME WheelTypes, NEW wheels \in SUBSET Wheels, NEW lost \in BOOLEAN, ResetEncoders(wheels, lost)
    PROVE  WheelTypes'
<1>1. CASE lost
  BY <1>1 DEF WheelTypes, ResetEncoders
<1>2. CASE ~lost
  BY <1>2 DEF WheelTypes, ResetEncoders, Counters
<1> QED
  BY <1>1, <1>2

\* A step of the type invariant is split by actions; all of them but a few
\* leave most variables alone.
LEMMA StepTypes == TypeOK /\ [Next]_vars => TypeOK'
<1> SUFFICES ASSUME TypeOK, [Next]_vars PROVE TypeOK'
  OBVIOUS
<1> USE DEF TypeOK, code, distance, wheel, vars
<1>0. Zero \in [Wheels -> Int]
  BY ZeroType
<1>00. WheelTypes
  BY DEF WheelTypes, Counters
<1>1. ASSUME NEW lost \in BOOLEAN, ResetVertical(lost) PROVE TypeOK'
  <2>1. Vertical \in SUBSET Wheels
    BY DEF Vertical, Wheels
  <2>2. WheelTypes'
    BY <1>00, <1>1, <2>1, ResetTypes DEF ResetVertical
  <2> QED
    BY <1>1, <2>2 DEF ResetVertical, WheelTypes, Counters
<1>2. ASSUME NEW lost \in BOOLEAN, ResetHorizontal(lost) PROVE TypeOK'
  <2>1. {"horiz"} \in SUBSET Wheels
    BY DEF Wheels
  <2>2. WheelTypes'
    BY <1>00, <1>2, <2>1, ResetTypes DEF ResetHorizontal
  <2> QED
    BY <1>0, <1>2, <2>2 DEF ResetHorizontal, ZeroCounts, ResetOdometry, WheelTypes, Counters
<1>3. CASE AutonomousInit
  BY <1>0, <1>3 DEF AutonomousInit, ResetOdometry
<1>4. ASSUME NEW resets \in BOOLEAN, NEW backward \in BOOLEAN, NEW scheduler \in BOOLEAN,
             RobotPeriodic(resets, backward, scheduler)
      PROVE  TypeOK'
  BY <1>0, <1>4 DEF RobotPeriodic, ResetOdometry
<1>5. CASE FullReset
  BY <1>5 DEF FullReset
<1>6. ASSUME NEW ok \in BOOLEAN, ReadEncoder(ok) PROVE TypeOK'
  <2>1. ReadOrder(NextPhase) \in Wheels /\ NextPhase \in 0 .. 2
    BY SMT DEF ReadOrder, NextPhase, Wheels
  <2>2. count' \in [Wheels -> Int] /\ prev' \in [Wheels -> Int]
    BY <1>6, <2>1 DEF ReadEncoder
  <2>3. \A w \in Wheels : Distance(w) \in Int
    BY <2>2, SMT DEF Distance
  <2>4. odom' \in [Wheels -> Int]
    BY <1>6, <2>3, SMT DEF ReadEncoder
  <2>5. due' \in [Wheels -> Int] /\ ways' \in [Wheels -> SUBSET Directions] /\ honest' \in BOOLEAN
    <3>1. CASE ok
      BY <1>6, <3>1 DEF ReadEncoder, AsCommanded
    <3>2. CASE ~ok
      BY <1>6, <3>2 DEF ReadEncoder
    <3> QED
      BY <3>1, <3>2
  <2> QED
    BY <1>6, <2>1, <2>2, <2>4, <2>5 DEF ReadEncoder
<1>7. ASSUME NEW w \in Turning, NEW d \in Directions, Turn(w, d) PROVE TypeOK'
  <2>1. w \in Wheels /\ d \in Int /\ Counts(w, d) \in Int
    BY TurningAssumption DEF Directions, Counts
  <2>2. turns' \in 0 .. MaxTurns
    BY <1>7, TurningAssumption, SMT DEF Turn
  <2>3. /\ reg' \in [Wheels -> Int] /\ turned' \in [Wheels -> Int] /\ due' \in [Wheels -> Int]
        /\ ways' \in [Wheels -> SUBSET Directions]
    BY <1>7, <2>1, SMT DEF Turn
  <2> QED
    BY <1>7, <2>2, <2>3 DEF Turn
<1>8. CASE Restart
  <2>1. tx' \in [odom : [Wheels -> Int], enc : [Wheels -> Int]]
    BY <1>0, <1>8 DEF Restart
  <2>2. phase' \in 0 .. 2 /\ synced' \subseteq Wheels
    BY <1>8 DEF Restart
  <2>6. {todo', reverse', honest', resetTx'} \subseteq BOOLEAN
    BY <1>8, Zenon DEF Restart
  <2>3. {count', prev', odom', reg', turned', due', carried'} \subseteq [Wheels -> Int]
    <3>1. /\ count' = Zero /\ prev' = Zero /\ odom' = Zero /\ turned' = Zero
          /\ reg' = reg /\ due' = due /\ carried' = due
      BY <1>8 DEF Restart
    <3>2. reg \in [Wheels -> Int] /\ due \in [Wheels -> Int]
      OBVIOUS
    <3> QED
      BY <1>0, <3>1, <3>2
  <2>4. ways' \in [Wheels -> SUBSET Directions] /\ turns' \in 0 .. MaxTurns
    BY <1>8 DEF Restart
  <2>5. pc' \in {"boot80", "boot81", "full80", "full81", "read", "loop"}
    BY <1>8 DEF Restart
  <2> QED
    BY <2>1, <2>2, <2>3, <2>4, <2>5, <2>6
<1>9. CASE UNCHANGED vars
  BY <1>9
<1> QED
  BY <1>1, <1>2, <1>3, <1>4, <1>5, <1>6, <1>7, <1>8, <1>9 DEF Next, CodeStep

\* Every variable of the odometry keeps its type.
THEOREM OdometryTypeCorrect == Spec => []TypeOK
<1>1. Init => TypeOK
  BY InitTypes
<1>2. TypeOK /\ [Next]_vars => TypeOK'
  BY StepTypes
<1> QED
  BY <1>1, <1>2, PTL DEF Spec

(***************************************************************************)
(* No count is lost.  What a register is ahead of the count the code works *)
(* with is what the wheel turned since the last good read; for M2, which   *)
(* counts up whichever way it turns, up to the sign of a single direction. *)
(***************************************************************************)

Ahead(w, from) ==
    IF w = "right"
    THEN (-1 \notin ways[w] => reg[w] = from + due[w]) /\ (1 \notin ways[w] => reg[w] + due[w] = from)
    ELSE reg[w] = from + due[w]

Reading == pc \in {"loop", "read"}

\* Between the two resets the vertical counts are about to become zero.
RegistersAhead ==
    /\ pc \in {"boot81", "full81"} => \A w \in synced \cap Vertical : Ahead(w, 0)
    /\ Reading => \A w \in synced : Ahead(w, count[w])

OdometryHolds ==
    Reading => \A w \in synced :
        (w = "right" => honest) => odom[w] = turned[w] - due[w] + carried[w]

CountInv == TypeOK /\ prev = count /\ RegistersAhead /\ OdometryHolds

LEMMA InitCounts == Init => CountInv
BY InitTypes DEF Init, CountInv, RegistersAhead, OdometryHolds, Reading

\* A register that was reset is level with a count of zero; one whose reset was
\* lost is not spoken of.
LEMMA ResetIsLevel ==
    ASSUME TypeOK, NEW wheels \in SUBSET Wheels, NEW lost \in BOOLEAN,
           ResetEncoders(wheels, lost), NEW w \in synced', w \in wheels
    PROVE  Ahead(w, 0)'
<1>1. ~lost /\ w \in Wheels
  BY DEF ResetEncoders, TypeOK
<1>2. reg'[w] = 0 /\ due'[w] = 0
  BY <1>1 DEF ResetEncoders
<1> QED
  BY <1>2, SMT DEF Ahead

LEMMA ResetKeepsOthers ==
    ASSUME TypeOK, NEW wheels \in SUBSET Wheels, NEW lost \in BOOLEAN,
           ResetEncoders(wheels, lost), NEW w \in synced', w \notin wheels
    PROVE  w \in synced /\ reg'[w] = reg[w] /\ due'[w] = due[w] /\ ways'[w] = ways[w]
BY DEF ResetEncoders, TypeOK

\* A turn moves the register and what is due alike.
LEMMA TurnKeepsAhead ==
    ASSUME TypeOK, NEW w \in Turning, NEW d \in Directions, Turn(w, d),
           NEW x \in Wheels, NEW n \in Int, Ahead(x, n)
    PROVE  Ahead(x, n)'
<1>0. w \in Wheels /\ reg[x] \in Int /\ due[x] \in Int /\ d \in {1, -1}
  BY TurningAssumption DEF TypeOK, Directions
<1>1. CASE x # w
  BY <1>0, <1>1 DEF Turn, TypeOK, Ahead
<1>2. CASE x = w /\ w # "right"
  BY <1>0, <1>2, SMT DEF Turn, TypeOK, Ahead, Counts
<1>3. CASE x = w /\ w = "right"
  <2>1. reg'[x] = reg[x] + 1 /\ due'[x] = due[x] + d /\ ways'[x] = ways[x] \cup {d}
    BY <1>0, <1>3, SMT DEF Turn, TypeOK, Counts
  <2>2. ASSUME -1 \notin ways'[x] PROVE reg'[x] = n + due'[x]
    BY <1>0, <1>3, <2>1, <2>2, SMT DEF Ahead
  <2>3. ASSUME 1 \notin ways'[x] PROVE reg'[x] + due'[x] = n
    BY <1>0, <1>3, <2>1, <2>3, SMT DEF Ahead
  <2>4. x = "right"
    BY <1>3
  <2> QED
    BY <2>2, <2>3, <2>4, Zenon DEF Ahead
<1> QED
  BY <1>1, <1>2, <1>3

LEMMA TurnKeepsCounts ==
    ASSUME CountInv, NEW w \in Turning, NEW d \in Directions, Turn(w, d)
    PROVE  RegistersAhead' /\ OdometryHolds'
<1> USE DEF CountInv
<1>0. /\ pc' = pc /\ synced' = synced /\ count' = count /\ odom' = odom
      /\ carried' = carried /\ honest' = honest /\ synced \subseteq Wheels
  BY DEF Turn, code, TypeOK
<1>1. RegistersAhead'
  <2>1. ASSUME pc' \in {"boot81", "full81"}, NEW x \in (synced \cap Vertical)' PROVE Ahead(x, 0)'
    <3>1. x \in Wheels /\ Ahead(x, 0)
      BY <1>0, <2>1 DEF RegistersAhead
    <3> QED
      BY <3>1, TurnKeepsAhead
  <2>2. ASSUME Reading', NEW x \in synced' PROVE Ahead(x, count[x])'
    <3>1. x \in Wheels /\ Ahead(x, count[x]) /\ count[x] \in Int
      BY <1>0, <2>2 DEF RegistersAhead, Reading, TypeOK
    <3>2. PICK n \in Int : n = count[x]
      BY <3>1
    <3>3. Ahead(x, n)'
      BY <3>1, <3>2, TurnKeepsAhead DEF Ahead
    <3>4. count'[x] = n
      BY <1>0, <3>2
    <3> QED
      BY <3>3, <3>4 DEF Ahead
  <2> QED
    BY <2>1, <2>2 DEF RegistersAhead
<1>2. OdometryHolds'
  <2>1. ASSUME Reading', NEW x \in synced', x = "right" => honest'
        PROVE  odom'[x] = turned'[x] - due'[x] + carried'[x]
    <3>1. odom[x] = turned[x] - due[x] + carried[x]
      BY <1>0, <2>1 DEF OdometryHolds, Reading
    <3>2. /\ x \in Wheels /\ turned[x] \in Int /\ due[x] \in Int /\ carried[x] \in Int
          /\ w \in Wheels /\ d \in Int
      BY <1>0, <2>1, TurningAssumption DEF TypeOK, Directions
    <3>3. \/ turned'[x] = turned[x] /\ due'[x] = due[x]
          \/ turned'[x] = turned[x] + d /\ due'[x] = due[x] + d
      BY <3>2 DEF Turn, TypeOK
    <3> QED
      BY <1>0, <3>1, <3>2, <3>3, SMT
  <2> QED
    BY <2>1 DEF OdometryHolds
<1> QED
  BY <1>1, <1>2

LEMMA ResetsKeepCounts ==
    ASSUME CountInv, NEW lost \in BOOLEAN, ResetVertical(lost) \/ ResetHorizontal(lost)
    PROVE  prev' = count' /\ RegistersAhead' /\ OdometryHolds'
<1> USE DEF CountInv
<1>1. CASE ResetVertical(lost)
  <2>1. pc' \in {"boot81", "full81"} /\ prev' = prev /\ count' = count
        /\ ResetEncoders(Vertical, lost) /\ Vertical \in SUBSET Wheels
    BY <1>1 DEF ResetVertical, code, Vertical, Wheels
  <2>2. \A w \in synced' \cap Vertical : Ahead(w, 0)'
    BY <2>1, ResetIsLevel
  <2> QED
    BY <2>1, <2>2 DEF RegistersAhead, OdometryHolds, Reading
<1>2. CASE ResetHorizontal(lost)
  <2>1. /\ pc \in {"boot81", "full81"} /\ pc' \notin {"boot81", "full81"}
        /\ ResetEncoders({"horiz"}, lost) /\ {"horiz"} \in SUBSET Wheels
        /\ count' = Zero /\ prev' = Zero
        /\ odom' = Zero /\ turned' = Zero /\ carried' = due'
    BY <1>2 DEF ResetHorizontal, ZeroCounts, ResetOdometry, Wheels
  <2>2. synced' \subseteq Wheels /\ due' \in [Wheels -> Int]
    BY <2>1, ResetTypes DEF WheelTypes, TypeOK, Counters
  <2>3. ASSUME NEW w \in synced' PROVE Ahead(w, 0)'
    <3>1. CASE w = "horiz"
      BY <2>1, <3>1, ResetIsLevel
    <3>2. CASE w # "horiz"
      <4>1. w \in Vertical
        BY <2>2, <3>2 DEF Wheels, Vertical
      <4>2. /\ w \in synced /\ reg'[w] = reg[w]
            /\ due'[w] = due[w] /\ ways'[w] = ways[w]
        BY <2>1, <3>2, ResetKeepsOthers
      <4>3. Ahead(w, 0)
        BY <2>1, <4>1, <4>2 DEF RegistersAhead
      <4> QED
        BY <4>2, <4>3 DEF Ahead
    <3> QED
      BY <3>1, <3>2
  <2>4. \A w \in synced' : count'[w] = 0 /\ odom'[w] = turned'[w] - due'[w] + carried'[w]
    BY <2>1, <2>2, SMT DEF Zero
  <2>5. \A w \in synced' : Ahead(w, count[w])'
    BY <2>3, <2>4 DEF Ahead
  <2> QED
    BY <2>1, <2>4, <2>5 DEF RegistersAhead, OdometryHolds
<1> QED
  BY <1>1, <1>2

LEMMA ReadTypes == ReadOrder(NextPhase) \in Wheels
BY DEF ReadOrder, Wheels

\* Only the distance of the encoder that was read changes, and by what was due.
LEMMA ReadAddsWhatIsDue ==
    ASSUME CountInv, Reading, NEW ok \in BOOLEAN, ReadEncoder(ok), NEW w \in synced,
           w = "right" => honest'
    PROVE  odom'[w] - odom[w] = due[w] - due'[w]
<1> USE DEF CountInv
<1> DEFINE r == ReadOrder(NextPhase)
<1>0. /\ w \in Wheels /\ r \in Wheels
      /\ reg[w] \in Int /\ due[w] \in Int /\ count[w] \in Int /\ odom[w] \in Int
      /\ prev[w] = count[w] /\ reverse \in BOOLEAN
      /\ odom'[w] = odom[w] + Distance(w)
  BY ReadTypes DEF TypeOK, ReadEncoder
<1> HIDE DEF r
<1>1. CASE ~ok \/ w # r
  <2>1. count'[w] = count[w] /\ due'[w] = due[w]
    BY <1>0, <1>1 DEF ReadEncoder, TypeOK, r
  <2>2. Distance(w) = 0
    BY <1>0, <2>1, SMT DEF Distance
  <2> QED
    BY <1>0, <2>1, <2>2
<1>2. CASE ok /\ w = r
  <2>1. count'[w] = reg[w] /\ due'[w] = 0 /\ (w = "right" => AsCommanded(w))
    BY <1>0, <1>2 DEF ReadEncoder, TypeOK, r
  <2>2. Ahead(w, count[w])
    BY DEF RegistersAhead
  <2>3. CASE w = "right"
    <3>1. ways[w] \subseteq {IF reverse THEN -1 ELSE 1}
      BY <2>1, <2>3 DEF AsCommanded
    <3>2. CASE reverse
      <4>1. 1 \notin ways[w]
        BY <3>1, <3>2, SMT
      <4>2. reg[w] + due[w] = count[w]
        BY <2>2, <2>3, <4>1 DEF Ahead
      <4> QED
        BY <1>0, <2>1, <2>3, <3>2, <4>2, SMT DEF Distance
    <3>3. CASE ~reverse
      <4>1. -1 \notin ways[w]
        BY <3>1, <3>3, SMT
      <4>2. reg[w] = count[w] + due[w]
        BY <2>2, <2>3, <4>1 DEF Ahead
      <4> QED
        BY <1>0, <2>1, <2>3, <3>3, <4>2, SMT DEF Distance
    <3> QED
      BY <3>2, <3>3
  <2>4. CASE w # "right"
    <3>1. reg[w] = count[w] + due[w]
      BY <2>2, <2>4 DEF Ahead
    <3> QED
      BY <1>0, <2>1, <2>4, <3>1, SMT DEF Distance
  <2> QED
    BY <2>3, <2>4
<1> QED
  BY <1>1, <1>2

LEMMA ReadKeepsCounts ==
    ASSUME CountInv, NEW ok \in BOOLEAN, ReadEncoder(ok)
    PROVE  prev' = count' /\ RegistersAhead' /\ OdometryHolds'
<1> USE DEF CountInv
<1> DEFINE r == ReadOrder(NextPhase)
<1>1. /\ prev' = count' /\ Reading /\ pc' = "loop" /\ synced' = synced /\ reg' = reg
      /\ turned' = turned /\ carried' = carried /\ synced \subseteq Wheels
      /\ (honest' => honest)
  BY DEF ReadEncoder, Reading, TypeOK
<1>2. ASSUME NEW w \in synced' PROVE Ahead(w, count[w])'
  <2>1. w \in Wheels /\ r \in Wheels /\ reg[w] \in Int /\ Ahead(w, count[w])
    BY <1>1, <1>2, ReadTypes DEF TypeOK, RegistersAhead
  <2> HIDE DEF r
  <2>2. CASE ~ok \/ w # r
    <3>1. count'[w] = count[w] /\ due'[w] = due[w] /\ ways'[w] = ways[w]
      BY <2>1, <2>2 DEF ReadEncoder, TypeOK, r
    <3> QED
      BY <1>1, <2>1, <3>1 DEF Ahead
  <2>3. CASE ok /\ w = r
    <3>1. count'[w] = reg[w] /\ due'[w] = 0
      BY <2>1, <2>3 DEF ReadEncoder, TypeOK, r
    <3> QED
      BY <1>1, <2>1, <3>1, SMT DEF Ahead
  <2> QED
    BY <2>2, <2>3
<1>3. ASSUME NEW w \in synced', w = "right" => honest'
      PROVE  odom'[w] = turned'[w] - due'[w] + carried'[w]
  <2>1. w \in Wheels /\ w \in synced /\ (w = "right" => honest)
    BY <1>1, <1>3
  <2>2. odom[w] = turned[w] - due[w] + carried[w]
    BY <1>1, <2>1 DEF OdometryHolds
  <2>3. odom'[w] - odom[w] = due[w] - due'[w]
    BY <1>1, <1>3, <2>1, ReadAddsWhatIsDue
  <2>4. odom[w] \in Int /\ turned[w] \in Int /\ due[w] \in Int /\ carried[w] \in Int
    BY <2>1 DEF TypeOK
  <2>5. odom'[w] \in Int /\ due'[w] \in Int
    <3>1. TypeOK'
      BY StepTypes DEF Next, CodeStep
    <3> QED
      BY <2>1, <3>1 DEF TypeOK
  <2>6. turned'[w] = turned[w] /\ carried'[w] = carried[w]
    BY <1>1
  <2>7. odom'[w] = turned[w] - due'[w] + carried[w]
    BY <2>2, <2>3, <2>4, <2>5, Z3
  <2> QED
    BY <2>6, <2>7
<1> QED
  BY <1>1, <1>2, <1>3 DEF RegistersAhead, OdometryHolds

LEMMA StepCounts == CountInv /\ [Next]_vars => CountInv'
<1> SUFFICES ASSUME CountInv, [Next]_vars PROVE CountInv'
  OBVIOUS
<1>0. TypeOK'
  BY StepTypes DEF CountInv
<1> SUFFICES prev' = count' /\ RegistersAhead' /\ OdometryHolds'
  BY <1>0 DEF CountInv
<1>1. ASSUME NEW lost \in BOOLEAN, ResetVertical(lost) \/ ResetHorizontal(lost)
      PROVE  prev' = count' /\ RegistersAhead' /\ OdometryHolds'
  BY <1>1, ResetsKeepCounts
<1>2. ASSUME pc = "loop", pc' = "loop", UNCHANGED <<count, prev, wheel>>,
             ResetOdometry \/ UNCHANGED distance
      PROVE  prev' = count' /\ RegistersAhead' /\ OdometryHolds'
  <2>1. /\ prev' = count' /\ synced' = synced /\ reg' = reg /\ due' = due /\ ways' = ways
        /\ count' = count /\ synced \subseteq Wheels
    BY <1>2 DEF CountInv, wheel, TypeOK
  <2>2. RegistersAhead'
    BY <1>2, <2>1 DEF CountInv, RegistersAhead, Reading, Ahead
  <2>3. CASE ResetOdometry
    <3>1. \A w \in Wheels : odom'[w] = turned'[w] - due'[w] + carried'[w]
      BY <2>1, <2>3, SMT DEF ResetOdometry, Zero, CountInv, TypeOK
    <3> QED
      BY <2>1, <2>2, <3>1 DEF OdometryHolds
  <2>4. CASE UNCHANGED distance
    BY <1>2, <2>1, <2>2, <2>4 DEF CountInv, OdometryHolds, Reading, distance
  <2> QED
    BY <1>2, <2>3, <2>4
<1>3. CASE AutonomousInit
  BY <1>2, <1>3 DEF AutonomousInit, code
<1>4. ASSUME NEW resets \in BOOLEAN, NEW backward \in BOOLEAN, NEW scheduler \in BOOLEAN,
             RobotPeriodic(resets, backward, scheduler)
      PROVE  prev' = count' /\ RegistersAhead' /\ OdometryHolds'
  BY <1>2, <1>4 DEF RobotPeriodic
<1>5. CASE FullReset
  BY <1>5 DEF FullReset, code, CountInv, RegistersAhead, OdometryHolds, Reading
<1>6. ASSUME NEW ok \in BOOLEAN, ReadEncoder(ok)
      PROVE  prev' = count' /\ RegistersAhead' /\ OdometryHolds'
  BY <1>6, ReadKeepsCounts
<1>7. ASSUME NEW w \in Turning, NEW d \in Directions, Turn(w, d)
      PROVE  prev' = count' /\ RegistersAhead' /\ OdometryHolds'
  BY <1>7, TurnKeepsCounts DEF Turn, code, CountInv
<1>8. CASE Restart
  BY <1>8 DEF Restart, RegistersAhead, OdometryHolds, Reading
<1>9. CASE UNCHANGED vars
  BY <1>9 DEF vars, code, distance, wheel, CountInv, RegistersAhead, OdometryHolds, Reading, Ahead
<1> QED
  BY <1>1, <1>3, <1>4, <1>5, <1>6, <1>7, <1>8, <1>9 DEF Next, CodeStep

\* Whatever reads fail and whenever the program crashes, no count is lost and
\* none is added twice.
THEOREM NothingIsLost == Spec => []NothingLost
<1>1. Init => CountInv
  BY InitCounts
<1>2. CountInv /\ [Next]_vars => CountInv'
  BY StepCounts
<1>3. CountInv => NothingLost
  BY DEF CountInv, TypeOK, OdometryHolds, Reading, NothingLost, Resetting
<1> QED
  BY <1>1, <1>2, <1>3, PTL DEF Spec

(***************************************************************************)
(* Snapshots.  Between two of them the odometry and the counts advance     *)
(* together, in ReadEncoder.                                               *)
(***************************************************************************)

\* The odometry and the counts are n and m, or one read ahead of them.
SameMotion(n, m) ==
    \A w \in Wheels :
        LET moved == odom[w] - n[w]
            counted == count[w] - m[w]
        IN  moved = counted \/ (w = "right" /\ moved = -counted)

SnapshotInv ==
    /\ prev = count
    /\ pc = "read" => resetTx
    /\ pc = "loop" /\ ~resetTx => SameMotion(tx.odom, tx.enc)
    /\ pc = "loop" /\ ~resetTx /\ todo => odom = tx.odom /\ count = tx.enc

LEMMA StepSnapshots == TypeOK /\ SnapshotInv /\ [Next]_vars => SnapshotInv'
<1> SUFFICES ASSUME TypeOK, SnapshotInv, [Next]_vars PROVE SnapshotInv'
  OBVIOUS
<1> USE DEF code, distance, wheel, vars
<1>1. ASSUME NEW lost \in BOOLEAN, ResetVertical(lost) PROVE SnapshotInv'
  BY <1>1 DEF ResetVertical, SnapshotInv
<1>2. ASSUME NEW lost \in BOOLEAN, ResetHorizontal(lost) PROVE SnapshotInv'
  BY <1>2 DEF ResetHorizontal, ZeroCounts, ResetOdometry, SnapshotInv
<1>3. CASE AutonomousInit
  BY <1>3 DEF AutonomousInit, ResetOdometry, SnapshotInv
<1>4. ASSUME NEW resets \in BOOLEAN, NEW backward \in BOOLEAN, NEW scheduler \in BOOLEAN,
             RobotPeriodic(resets, backward, scheduler)
      PROVE  SnapshotInv'
  <2>1. CASE resets
    BY <1>4, <2>1 DEF RobotPeriodic, ResetOdometry, SnapshotInv
  <2>2. CASE ~resets
    <3>1. /\ odom' = odom /\ count' = count /\ prev' = prev /\ pc' = "loop"
          /\ tx'.odom = odom /\ tx'.enc = count
      BY <1>4, <2>2 DEF RobotPeriodic
    <3>2. \A w \in Wheels : odom[w] - odom[w] = count[w] - count[w]
      BY SMT DEF TypeOK
    <3>3. SameMotion(tx.odom, tx.enc)'
      BY <3>1, <3>2 DEF SameMotion
    <3> QED
      BY <3>1, <3>3 DEF SnapshotInv
  <2> QED
    BY <2>1, <2>2
<1>5. CASE FullReset
  BY <1>5 DEF FullReset, SnapshotInv
<1>6. ASSUME NEW ok \in BOOLEAN, ReadEncoder(ok) PROVE SnapshotInv'
  <2>1. /\ prev' = count' /\ todo' = FALSE /\ tx' = tx /\ resetTx' = resetTx
        /\ pc' = "loop"
    BY <1>6 DEF ReadEncoder
  <2>2. ASSUME ~resetTx' PROVE SameMotion(tx.odom, tx.enc)'
    <3>1. odom = tx.odom /\ prev = tx.enc
      BY <1>6, <2>1, <2>2 DEF ReadEncoder, SnapshotInv
    <3>2. TypeOK'
      BY StepTypes
    <3>3. ASSUME NEW w \in Wheels
          PROVE  LET moved == odom'[w] - tx'.odom[w]
                     counted == count'[w] - tx'.enc[w]
                 IN  moved = counted \/ (w = "right" /\ moved = -counted)
      <4>1. odom'[w] = odom[w] + Distance(w)
        BY <1>6 DEF ReadEncoder
      <4>2. odom[w] \in Int /\ count'[w] \in Int /\ prev[w] \in Int /\ reverse \in BOOLEAN
        BY <3>2 DEF TypeOK
      <4> QED
        BY <2>1, <3>1, <4>1, <4>2, SMT DEF Distance
    <3> QED
      BY <3>3 DEF SameMotion
  <2> QED
    BY <2>1, <2>2 DEF SnapshotInv
<1>7. ASSUME NEW w \in Turning, NEW d \in Directions, Turn(w, d) PROVE SnapshotInv'
  BY <1>7 DEF Turn, SnapshotInv, SameMotion
<1>8. CASE Restart
  BY <1>8 DEF Restart, SnapshotInv
<1>9. CASE UNCHANGED vars
  BY <1>9 DEF SnapshotInv, SameMotion
<1> QED
  BY <1>1, <1>2, <1>3, <1>4, <1>5, <1>6, <1>7, <1>8, <1>9 DEF Next, CodeStep

\* Two snapshots in a row without a reset between them tell the Jetson the same
\* motion by the odometry and by the counts.
THEOREM SnapshotsAlwaysAgree == Spec => SnapshotsAgree
<1>1. Init => TypeOK /\ SnapshotInv
  BY InitTypes DEF Init, SnapshotInv
<1>2. TypeOK /\ SnapshotInv /\ [Next]_vars => (TypeOK /\ SnapshotInv)'
  BY StepTypes, StepSnapshots
<1>3. TypeOK /\ SnapshotInv /\ [Next]_vars =>
        [tx' # tx /\ ~resetTx /\ pc' = "loop" =>
           \A w \in Wheels :
             LET moved == tx'.odom[w] - tx.odom[w]
                 counted == tx'.enc[w] - tx.enc[w]
             IN  moved = counted \/ (w = "right" /\ moved = -counted)]_vars
  <2> SUFFICES ASSUME SnapshotInv, Next, tx' # tx, ~resetTx, pc' = "loop", NEW w \in Wheels
               PROVE  LET moved == tx'.odom[w] - tx.odom[w]
                          counted == tx'.enc[w] - tx.enc[w]
                      IN  moved = counted \/ (w = "right" /\ moved = -counted)
    BY DEF vars
  <2>1. PICK resets \in BOOLEAN, backward \in BOOLEAN, scheduler \in BOOLEAN :
            RobotPeriodic(resets, backward, scheduler)
    BY DEF Next, CodeStep, ResetVertical, ResetHorizontal, AutonomousInit, FullReset,
           ReadEncoder, Turn, Restart
  <2>2. pc = "loop" /\ tx'.odom = odom /\ tx'.enc = count
    BY <2>1 DEF RobotPeriodic
  <2> QED
    BY <2>2 DEF SnapshotInv, SameMotion
<1> QED
  BY <1>1, <1>2, <1>3, PTL DEF Spec, SnapshotsAgree

=============================================================================
