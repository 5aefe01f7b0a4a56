-------------------------- MODULE SerialBridgeProofs --------------------------
(***************************************************************************)
(* Proofs about SerialBridge: its type invariant, that the dropped-packet  *)
(* count is right, and that the drain loop implements the abstract link    *)
(* RobotLoop is built on.                                                  *)
(***************************************************************************)
EXTENDS SerialBridge, FiniteSetTheorems, TLAPS

-----------------------------------------------------------------------------
(* Type correctness, the variables grouped by what changes them.           *)

LinkTypes ==
    /\ newest \in Packet \cup {NoPacket}
    /\ pc \in {"idle", "drain"}
    /\ socketsReady \in BOOLEAN /\ connected \in BOOLEAN
    /\ rxPacket \in Packet \cup {NoPacket}
    /\ rxTimer \in 0 .. JetsonTimeout + 1
    /\ before \in [packet : Packet \cup {NoPacket}, timer : 0 .. JetsonTimeout + 1]

QueueTypes ==
    /\ sends \in 0 .. MaxSends /\ sent \in Nat
    /\ delayed \subseteq Datagram
    /\ queue \in Seq(Datagram) /\ Len(queue) <= QueueCap

CountTypes ==
    /\ steady \in BOOLEAN
    /\ lastRxSeq \in 0 .. 255
    /\ rxCount \in Nat /\ droppedCount \in Nat
    /\ firstNumber \in Nat /\ lastNumber \in Nat

LEMMA TypeParts == TypeOK <=> LinkTypes /\ QueueTypes /\ CountTypes
BY DEF TypeOK, LinkTypes, QueueTypes, CountTypes

\* A datagram at the head of the queue has a number and perhaps a packet.
LEMMA HeadType ==
    ASSUME QueueTypes, queue # <<>>
    PROVE  Head(queue) \in Datagram /\ Tail(queue) \in Seq(Datagram) /\ Len(Tail(queue)) < Len(queue)
BY DEF QueueTypes

\* A difference of sequence bytes is a byte.
LEMMA GapType == ASSUME NEW seq \in Int, lastRxSeq \in Int PROVE Gap(seq) \in 0 .. 255
BY DEF Gap

LEMMA TypeInit == Init => TypeOK
<1> SUFFICES ASSUME Init PROVE TypeOK
  OBVIOUS
<1>1. QueueTypes
  BY BridgeAssumption DEF Init, QueueTypes
<1>2. CountTypes
  BY DEF Init, CountTypes
<1>3. rxTimer \in 0 .. JetsonTimeout + 1 /\ before.timer \in 0 .. JetsonTimeout + 1
  BY BridgeAssumption DEF Init, Nothing
<1>4. LinkTypes
  BY <1>3 DEF Init, LinkTypes, Nothing
<1>5. QED
  BY <1>1, <1>2, <1>4, TypeParts

LEMMA QueueTypesStep == QueueTypes /\ [Next]_vars => QueueTypes'
<1> SUFFICES ASSUME QueueTypes, [Next]_vars PROVE QueueTypes'
  OBVIOUS
<1> USE BridgeAssumption DEF QueueTypes
<1>1. ASSUME NEW skip \in Skips, NEW packet \in Packet \cup {NoPacket}, JetsonSend(skip, packet)
      PROVE  QueueTypes'
  <2> DEFINE d == [number |-> sent + skip + 1, packet |-> packet]
  <2>1. d \in Datagram
    BY DEF Datagram
  <2>2. CASE Deliver(d) /\ UNCHANGED delayed
    BY <1>1, <2>1, <2>2 DEF JetsonSend, Deliver
  <2>3. CASE delayed' = delayed \cup {d} /\ UNCHANGED queue
    BY <1>1, <2>1, <2>3 DEF JetsonSend
  <2>4. QED
    BY <1>1, <2>2, <2>3 DEF JetsonSend
<1>2. ASSUME NEW d \in delayed, DelayedArrives(d) PROVE QueueTypes'
  BY <1>2 DEF DelayedArrives, Deliver
<1>3. CASE Recvfrom
  BY <1>3, HeadType DEF Recvfrom
<1>4. CASE Restart
  BY <1>4 DEF Restart
<1>5. CASE UNCHANGED <<sends, sent, delayed, queue>>
  BY <1>5
<1>6. QED
  BY <1>1, <1>2, <1>3, <1>4, <1>5
     DEF Next, CodeStep, PeriodicWithoutSockets, PeriodicStart, Discard, Accept, DrainEnds,
         Tick, vars, network

LEMMA CountTypesStep == CountTypes /\ QueueTypes /\ [Next]_vars => CountTypes'
<1> SUFFICES ASSUME CountTypes, QueueTypes, [Next]_vars PROVE CountTypes'
  OBVIOUS
<1>1. CASE Accept
  <2> DEFINE number == Head(queue).number
  <2>1. number \in Nat
    BY <1>1, HeadType DEF Accept, Recvfrom, Datagram
  <2>2. SeqByte(number) \in 0 .. 255 /\ lastRxSeq \in Int
    BY <2>1 DEF SeqByte, CountTypes
  <2>3. Gap(SeqByte(number)) \in 0 .. 255
    <3>1. SeqByte(number) \in Int
      BY <2>2
    <3> HIDE DEF number
    <3>2. QED
      BY <2>2, <3>1, GapType
  <2>4. steady' \in BOOLEAN
    BY <1>1, Zenon DEF Accept, CountTypes
  <2>5. /\ lastRxSeq' = SeqByte(number) /\ rxCount' = rxCount + 1 /\ lastNumber' = number
        /\ firstNumber' \in {firstNumber, number}
        /\ droppedCount' \in {droppedCount, droppedCount + Gap(SeqByte(number))}
    BY <1>1 DEF Accept
  <2> HIDE DEF number
  <2>6. QED
    BY <2>1, <2>2, <2>3, <2>4, <2>5 DEF CountTypes
<1>2. CASE Restart
  BY <1>2 DEF Restart, CountTypes
<1>3. CASE UNCHANGED <<steady, lastRxSeq, rxCount, droppedCount, firstNumber, lastNumber>>
  BY <1>3 DEF CountTypes
<1>4. QED
  BY <1>1, <1>2, <1>3
     DEF Next, CodeStep, PeriodicWithoutSockets, PeriodicStart, Discard, DrainEnds, JetsonSend,
         DelayedArrives, Tick, vars, received

LEMMA LinkTypesStep == LinkTypes /\ QueueTypes /\ [Next]_vars => LinkTypes'
<1> SUFFICES ASSUME LinkTypes, QueueTypes, [Next]_vars PROVE LinkTypes'
  OBVIOUS
<1> USE BridgeAssumption
<1>1. ASSUME NEW skip \in Skips, NEW packet \in Packet \cup {NoPacket}, JetsonSend(skip, packet)
      PROVE  LinkTypes'
  BY <1>1 DEF JetsonSend, Deliver, LinkTypes, received
<1>2. ASSUME NEW d \in delayed, DelayedArrives(d) PROVE LinkTypes'
  BY <1>2 DEF DelayedArrives, Deliver, LinkTypes, QueueTypes, Datagram, received
<1>3. CASE PeriodicWithoutSockets
  BY <1>3 DEF PeriodicWithoutSockets, LinkTypes, received, network
<1>4. CASE PeriodicStart
  BY <1>4 DEF PeriodicStart, LinkTypes, received, network
<1>5. CASE Discard
  BY <1>5 DEF Discard, Recvfrom, LinkTypes, received
<1>6. CASE Accept
  BY <1>6, HeadType DEF Accept, Recvfrom, LinkTypes, Datagram
<1>7. CASE DrainEnds
  <2>1. connected' \in BOOLEAN
    BY <1>7, Zenon DEF DrainEnds
  <2>2. pc' = "idle" /\ newest' = NoPacket /\ UNCHANGED <<socketsReady, rxPacket, rxTimer, before>>
    BY <1>7 DEF DrainEnds, received
  <2>3. QED
    BY <2>1, <2>2 DEF LinkTypes
<1>8. CASE Tick
  BY <1>8 DEF Tick, LinkTypes, network
<1>9. CASE Restart
  <2>1. rxTimer' \in 0 .. JetsonTimeout + 1 /\ before'.timer \in 0 .. JetsonTimeout + 1
    BY <1>9 DEF Restart, Nothing
  <2>2. QED
    BY <1>9, <2>1 DEF Restart, LinkTypes, Nothing
<1>10. CASE UNCHANGED vars
  BY <1>10 DEF vars, network, received, LinkTypes
<1>11. QED
  BY <1>1, <1>2, <1>3, <1>4, <1>5, <1>6, <1>7, <1>8, <1>9, <1>10 DEF Next, CodeStep

\* Type correctness of the bridge, for every number of lost, late or queued
\* datagrams: m_lastRxSeq stays a byte, the counters stay naturals.
THEOREM BridgeTypeCorrect == Spec => []TypeOK
<1>1. TypeOK /\ [Next]_vars => TypeOK'
  <2> SUFFICES ASSUME TypeOK, [Next]_vars PROVE TypeOK'
    OBVIOUS
  <2>1. LinkTypes' /\ QueueTypes' /\ CountTypes'
    BY TypeParts, LinkTypesStep, QueueTypesStep, CountTypesStep
  <2>2. QED
    BY <2>1 DEF TypeOK, LinkTypes, QueueTypes, CountTypes
<1>2. QED
  BY TypeInit, <1>1, PTL DEF Spec

-----------------------------------------------------------------------------
(* The dropped-packet count.                                               *)

\* The strengthening: m_lastRxSeq is the byte of the last packet's number,
\* and nothing is counted as dropped before the first packet.
DropInv ==
    /\ DroppedCountIsRight
    /\ rxCount > 0 => lastRxSeq = SeqByte(lastNumber)
    /\ rxCount = 0 => droppedCount = 0

\* A gap counts the numbers between two packets, modulo 256.
LEMMA GapModulo ==
    ASSUME NEW number \in Nat, NEW last \in Nat, lastRxSeq = SeqByte(last)
    PROVE  (Gap(SeqByte(number)) - (number - last - 1)) % 256 = 0
BY DEF Gap, SeqByte

\* The gap is exact if the packet comes 1 to 256 numbers after the last one.
LEMMA GapExact ==
    ASSUME NEW number \in Nat, NEW last \in Nat, lastRxSeq = SeqByte(last),
           number - last \in 1 .. 256
    PROVE  Gap(SeqByte(number)) = number - last - 1
BY DEF Gap, SeqByte

LEMMA SumModulo ==
    ASSUME NEW a \in Int, NEW b \in Int, a % 256 = 0, b % 256 = 0
    PROVE  (a + b) % 256 = 0
OBVIOUS

LEMMA DropStep == TypeOK /\ DropInv /\ [Next]_vars => DropInv'
<1> SUFFICES ASSUME TypeOK, DropInv, [Next]_vars PROVE DropInv'
  OBVIOUS
<1>1. CASE Accept
  <2> DEFINE n == Head(queue).number
             g == Gap(SeqByte(n))
  <2>1. n \in Nat
    BY <1>1, TypeParts, HeadType DEF Accept, Recvfrom, Datagram
  <2>2. /\ lastRxSeq' = SeqByte(n) /\ lastNumber' = n /\ rxCount' = rxCount + 1
        /\ rxCount = 0 => droppedCount' = droppedCount /\ firstNumber' = n
        /\ rxCount > 0 => droppedCount' = droppedCount + g /\ firstNumber' = firstNumber
        /\ rxCount > 0 /\ steady' => steady /\ n - lastNumber \in 1 .. 256
    BY <1>1, TypeParts DEF Accept, CountTypes
  <2>3. rxCount \in Nat /\ droppedCount \in Nat /\ firstNumber \in Nat /\ lastNumber \in Nat
        /\ lastRxSeq \in Int
    BY TypeParts DEF CountTypes
  <2>4. CASE rxCount = 0
    <3>1. rxCount' = 1 /\ droppedCount' = 0 /\ firstNumber' = n /\ lastNumber' = n
      BY <2>2, <2>3, <2>4 DEF DropInv
    <3>2. MissedNumbers' = 0
      BY <2>1, <3>1 DEF MissedNumbers
    <3>3. QED
      BY <2>2, <3>1, <3>2 DEF DropInv, DroppedCountIsRight
  <2>5. CASE rxCount > 0
    <3>1. g \in Int
      <4>1. SeqByte(n) \in Int
        BY <2>1 DEF SeqByte
      <4> HIDE DEF n
      <4>2. QED
        BY <2>3, <4>1, GapType
    <3>2. lastRxSeq = SeqByte(lastNumber)
      BY <2>5 DEF DropInv
    <3>3. (g - (n - lastNumber - 1)) % 256 = 0
      BY <2>1, <2>3, <3>2, GapModulo
    <3>4. n - lastNumber \in 1 .. 256 => g = n - lastNumber - 1
      BY <2>1, <2>3, <3>2, GapExact
    <3> HIDE DEF n, g
    <3>5. MissedNumbers \in Int /\ MissedNumbers' = MissedNumbers + (n - lastNumber - 1)
      BY <2>1, <2>2, <2>3, <2>5 DEF MissedNumbers
    <3>6. (droppedCount - MissedNumbers) % 256 = 0 /\ (steady => droppedCount = MissedNumbers)
      BY <2>5 DEF DropInv, DroppedCountIsRight
    <3>7. droppedCount' - MissedNumbers'
            = (droppedCount - MissedNumbers) + (g - (n - lastNumber - 1))
      BY <2>1, <2>2, <2>3, <2>5, <3>1, <3>5
    <3>8. (droppedCount' - MissedNumbers') % 256 = 0
      BY <2>1, <2>3, <3>1, <3>3, <3>5, <3>6, <3>7, SumModulo
    <3>9. steady' => droppedCount' = MissedNumbers'
      BY <2>1, <2>2, <2>3, <2>5, <3>1, <3>4, <3>5, <3>6
    <3>10. rxCount' > 0 /\ rxCount' # 0
      BY <2>2, <2>3
    <3>11. QED
      BY <2>2, <3>8, <3>9, <3>10 DEF DropInv, DroppedCountIsRight
  <2>6. QED
    BY <2>3, <2>4, <2>5
<1>2. CASE Restart
  BY <1>2 DEF Restart, DropInv, DroppedCountIsRight
<1>3. CASE UNCHANGED <<steady, lastRxSeq, rxCount, droppedCount, firstNumber, lastNumber>>
  BY <1>3 DEF DropInv, DroppedCountIsRight, MissedNumbers
<1>4. QED
  BY <1>1, <1>2, <1>3
     DEF Next, CodeStep, PeriodicWithoutSockets, PeriodicStart, Discard, DrainEnds, JetsonSend,
         DelayedArrives, Tick, vars, received

\* Bridge/DroppedPkts is right modulo 256 on any network, and exact as long as
\* packets come in order with fewer than 256 lost in a row.
THEOREM DropsAreCounted == Spec => []DroppedCountIsRight
<1>1. Init => DropInv
  BY DEF Init, DropInv, DroppedCountIsRight
<1>2. DropInv => DroppedCountIsRight
  BY DEF DropInv
<1>3. QED
  BY <1>1, <1>2, BridgeTypeCorrect, DropStep, PTL DEF Spec

-----------------------------------------------------------------------------
(* The drain loop implements the abstract link.                            *)

\* newest is the last valid datagram in the queue or, once the queue holds
\* no valid one, the packet this drain has taken.
NoneValid == \A i \in 1 .. Len(queue) : queue[i].packet = NoPacket

DrainInv ==
    /\ rxPacket = NoPacket <=> rxCount = 0
    /\ pc = "drain" => socketsReady
    /\ ~socketsReady => newest = NoPacket
    /\ pc = "idle" /\ NoneValid => newest = NoPacket
    /\ pc = "drain" /\ NoneValid =>
         IF newest = NoPacket THEN before = [packet |-> rxPacket, timer |-> rxTimer]
                              ELSE newest = rxPacket /\ rxTimer = 0
    /\ \A i \in 1 .. Len(queue) :
         queue[i].packet # NoPacket /\ (\A j \in i + 1 .. Len(queue) : queue[j].packet = NoPacket)
           => newest = queue[i].packet

LEMMA DrainInit == Init => DrainInv
BY DEF Init, DrainInv, Nothing

\* A valid arrival becomes the newest, an invalid one changes nothing.
LEMMA DeliverStep ==
    ASSUME TypeOK, DrainInv, NEW d \in Datagram, Deliver(d), socketsReady,
           UNCHANGED <<pc, socketsReady, received, before>>
    PROVE  DrainInv'
<1>1. queue \in Seq(Datagram) /\ queue' = Append(queue, d) /\ Len(queue') = Len(queue) + 1
  BY DEF TypeOK, Deliver
<1>2. \A i \in 1 .. Len(queue) : queue'[i] = queue[i]
  BY <1>1
<1>3. queue'[Len(queue')] = d /\ Len(queue) \in Nat
  BY <1>1
<1>4. newest' = IF d.packet = NoPacket THEN newest ELSE d.packet
  BY DEF Deliver
<1>5. CASE d.packet = NoPacket
  BY <1>1, <1>2, <1>3, <1>4, <1>5 DEF DrainInv, NoneValid, received
<1>6. CASE d.packet # NoPacket
  BY <1>1, <1>2, <1>3, <1>4, <1>6 DEF DrainInv, NoneValid, received
<1>7. QED
  BY <1>5, <1>6

LEMMA DrainStep == TypeOK /\ DrainInv /\ [Next]_vars => DrainInv'
<1> SUFFICES ASSUME TypeOK, DrainInv, [Next]_vars PROVE DrainInv'
  OBVIOUS
<1>1. ASSUME NEW skip \in Skips, NEW packet \in Packet \cup {NoPacket}, JetsonSend(skip, packet)
      PROVE  DrainInv'
  <2> DEFINE d == [number |-> sent + skip + 1, packet |-> packet]
  <2>1. d \in Datagram
    BY BridgeAssumption DEF Datagram, TypeOK
  <2>2. CASE Deliver(d)
    BY <1>1, <2>1, <2>2, DeliverStep DEF JetsonSend
  <2>3. CASE UNCHANGED <<queue, newest>>
    BY <1>1, <2>3 DEF JetsonSend, DrainInv, NoneValid, received
  <2>4. QED
    BY <1>1, <2>2, <2>3 DEF JetsonSend
<1>2. ASSUME NEW d \in delayed, DelayedArrives(d) PROVE DrainInv'
  BY <1>2, DeliverStep DEF DelayedArrives, TypeOK
<1>3. CASE PeriodicStart
  BY <1>3 DEF PeriodicStart, DrainInv, NoneValid, network, received
<1>4. CASE Discard \/ Accept
  <2>1. queue \in Seq(Datagram) /\ queue # <<>> /\ queue' = Tail(queue)
    BY <1>4 DEF Discard, Accept, Recvfrom, TypeOK
  <2>2. /\ Len(queue) \in Nat \ {0} /\ Len(queue') = Len(queue) - 1
        /\ \A i \in 1 .. Len(queue') : queue'[i] = queue[i + 1]
        /\ Head(queue) = queue[1]
    BY <2>1
  <2>3. \A k \in 2 .. Len(queue) : k - 1 \in 1 .. Len(queue') /\ queue[k] = queue'[k - 1]
    BY <2>2
  <2>4. NoneValid' =>
          IF queue[1].packet = NoPacket THEN NoneValid ELSE newest = queue[1].packet
    <3>1. SUFFICES ASSUME NoneValid'
                   PROVE  IF queue[1].packet = NoPacket THEN NoneValid ELSE newest = queue[1].packet
      OBVIOUS
    <3>2. \A k \in 2 .. Len(queue) : queue[k].packet = NoPacket
      BY <2>3, <3>1 DEF NoneValid
    <3>3. \A k \in 1 .. Len(queue) : k = 1 \/ k \in 2 .. Len(queue)
      BY <2>2
    <3>4. 1 \in 1 .. Len(queue) /\ 1 + 1 = 2
      BY <2>2
    <3>5. QED
      BY <3>2, <3>3, <3>4 DEF DrainInv, NoneValid
  <2>5. ASSUME NEW i \in 1 .. Len(queue'), queue'[i].packet # NoPacket,
               \A j \in i + 1 .. Len(queue') : queue'[j].packet = NoPacket
        PROVE  newest = queue'[i].packet
    <3>1. i + 1 \in 1 .. Len(queue) /\ queue[i + 1] = queue'[i]
      BY <2>2
    <3>2. ASSUME NEW k \in (i + 1) + 1 .. Len(queue) PROVE queue[k].packet = NoPacket
      <4>1. k \in 2 .. Len(queue) /\ k - 1 \in i + 1 .. Len(queue')
        BY <2>2
      <4>2. QED
        BY <2>3, <2>5, <4>1
    <3>3. QED
      BY <2>5, <3>1, <3>2 DEF DrainInv
  <2>6. UNCHANGED <<newest, pc, socketsReady, before>> /\ pc = "drain"
    BY <1>4 DEF Discard, Accept, Recvfrom
  <2>7. CASE Discard
    <3>1. queue[1].packet = NoPacket /\ UNCHANGED <<rxPacket, rxTimer, rxCount>>
      BY <2>2, <2>7 DEF Discard, received
    <3>2. QED
      BY <2>4, <2>5, <2>6, <3>1 DEF DrainInv
  <2>8. CASE Accept
    <3>1. queue[1].packet # NoPacket /\ rxPacket' = queue[1].packet /\ rxTimer' = 0
          /\ rxCount' # 0
      BY <2>2, <2>8 DEF Accept, TypeOK
    <3>2. QED
      BY <2>4, <2>5, <2>6, <3>1 DEF DrainInv
  <2>9. QED
    BY <1>4, <2>7, <2>8
<1>5. CASE DrainEnds
  BY <1>5 DEF DrainEnds, DrainInv, NoneValid, received
<1>6. CASE Restart
  BY <1>6 DEF Restart, DrainInv, NoneValid
<1>7. CASE UNCHANGED <<queue, newest, pc, socketsReady, rxPacket, rxCount>>
           /\ UNCHANGED before /\ (pc = "idle" \/ UNCHANGED rxTimer)
  BY <1>7 DEF DrainInv, NoneValid
<1>8. QED
  BY <1>1, <1>2, <1>3, <1>4, <1>5, <1>6, <1>7
     DEF Next, CodeStep, PeriodicWithoutSockets, Tick, vars, network, received

LEMMA LinkInitially == Init => Link!LinkInit
BY DEF Init, Link!LinkInit, Link!NoPacket, NoPacket

\* The refinement mapping, step by step: a valid arrival is Arrive, the end
\* of a drain is Periodic, and the steps in between are not seen.
LEMMA LinkStep == TypeOK /\ DrainInv /\ [Next]_vars => [Link!LinkNext]_Link!linkVars
<1> SUFFICES ASSUME TypeOK, DrainInv, [Next]_vars PROVE [Link!LinkNext]_Link!linkVars
  OBVIOUS
<1> USE DEF Link!linkVars, Link!LinkNext, Link!NoPacket, Link!Packet, NoPacket, Packet
<1>1. ASSUME NEW d \in Datagram, Deliver(d), socketsReady,
             UNCHANGED <<pc, socketsReady, received, connected, before>>
      PROVE  [Link!LinkNext]_Link!linkVars
  BY <1>1 DEF Deliver, Datagram, received, Link!Arrive
<1>2. ASSUME NEW skip \in Skips, NEW packet \in Packet \cup {NoPacket}, JetsonSend(skip, packet)
      PROVE  [Link!LinkNext]_Link!linkVars
  <2> DEFINE d == [number |-> sent + skip + 1, packet |-> packet]
  <2>1. d \in Datagram
    BY BridgeAssumption DEF Datagram, TypeOK
  <2>2. CASE Deliver(d)
    BY <1>1, <1>2, <2>1, <2>2 DEF JetsonSend
  <2>3. CASE UNCHANGED <<queue, newest>>
    BY <1>2, <2>3 DEF JetsonSend, received
  <2>4. QED
    BY <1>2, <2>2, <2>3 DEF JetsonSend
<1>3. ASSUME NEW d \in delayed, DelayedArrives(d) PROVE [Link!LinkNext]_Link!linkVars
  BY <1>1, <1>3 DEF DelayedArrives, TypeOK
<1>4. CASE PeriodicWithoutSockets
  BY <1>4 DEF PeriodicWithoutSockets, DrainInv, received, network, Link!Periodic
<1>5. CASE DrainEnds
  <2>1. NoneValid /\ pc = "drain" /\ socketsReady
    BY <1>5 DEF DrainEnds, NoneValid, DrainInv
  <2>2. connected' <=> rxPacket # NoPacket /\ rxTimer <= JetsonTimeout
    <3>1. connected' <=> rxCount > 0 /\ rxTimer <= JetsonTimeout
      BY <1>5, Zenon DEF DrainEnds
    <3>2. rxCount > 0 <=> rxPacket # NoPacket
      BY DEF DrainInv, TypeOK
    <3>3. QED
      BY <3>1, <3>2, Zenon
  <2>3. pc' = "idle" /\ newest' = NoPacket /\ UNCHANGED <<socketsReady, rxPacket, rxTimer>>
    BY <1>5 DEF DrainEnds, received
  <2>4. connected' \in BOOLEAN
    BY <1>5, Zenon DEF DrainEnds
  <2>5. CASE newest = NoPacket
    BY <2>1, <2>2, <2>3, <2>4, <2>5 DEF DrainInv, Link!Periodic, Link!LinkAlive
  <2>6. CASE newest # NoPacket
    BY <2>1, <2>2, <2>3, <2>4, <2>6 DEF DrainInv, Link!Periodic, Link!LinkAlive
  <2>7. QED
    BY <2>5, <2>6
<1>6. CASE Tick
  BY <1>6, BridgeAssumption DEF Tick, TypeOK, network, Link!LinkTick, Link!Capped
<1>7. CASE Restart
  BY <1>7 DEF Restart, Link!LinkRestart
<1>8. CASE PeriodicStart
  BY <1>8 DEF PeriodicStart, network, received
<1>9. CASE Recvfrom
  BY <1>9 DEF Recvfrom
<1>10. CASE UNCHANGED vars
  BY <1>10 DEF vars, network, received
<1>11. QED
  BY <1>2, <1>3, <1>4, <1>5, <1>6, <1>7, <1>8, <1>9, <1>10 DEF Next, CodeStep, Discard, Accept

\* SerialBridgeSubsystem implements the link that RobotLoop assumes, for every
\* timeout, queue and pattern of lost, damaged and late datagrams.
THEOREM BridgeImplementsLink == Spec => ImplementsLink
<1>1. QED
  BY BridgeTypeCorrect, DrainInit, DrainStep, LinkInitially, LinkStep, PTL
     DEF Spec, ImplementsLink, Link!LinkSpec

-----------------------------------------------------------------------------
(* The drain keeps the most recent packet, if the network keeps the order: *)
(* what the run bridge_late shows has no other cause.                      *)

\* What waits in the socket is newer than what was received, and in order.
OrderInv ==
    /\ delayed = {}
    /\ lastNumber <= sent
    /\ \A i \in 1 .. Len(queue) : lastNumber < queue[i].number /\ queue[i].number <= sent
    /\ \A i, j \in 1 .. Len(queue) : i < j => queue[i].number < queue[j].number

LEMMA NumberType == \A d \in Datagram : d.number \in Nat
BY DEF Datagram

LEMMA TakeKeepsOrder ==
    ASSUME TypeOK, OrderInv, Recvfrom,
           lastNumber' \in {lastNumber, Head(queue).number}
    PROVE  OrderInv'
<1>1. queue \in Seq(Datagram) /\ queue # <<>> /\ lastNumber \in Nat /\ sent \in Nat
  BY DEF TypeOK, Recvfrom
<1>2. Len(queue) \in Nat \ {0} /\ Head(queue) = queue[1] /\ Len(Tail(queue)) = Len(queue) - 1
  BY <1>1
<1>3. \A i \in 1 .. Len(queue) : queue[i].number \in Nat
  BY <1>1, NumberType
<1>4. \A i \in 1 .. Len(queue) - 1 : Tail(queue)[i] = queue[i + 1] /\ i + 1 \in 1 .. Len(queue)
  BY <1>1, <1>2
<1>5. queue' = Tail(queue) /\ sent' = sent /\ delayed' = delayed
  BY DEF Recvfrom
<1>6. lastNumber' <= sent /\ lastNumber' \in Nat
  BY <1>1, <1>2, <1>3 DEF OrderInv
<1>7. \A i \in 1 .. Len(queue) - 1 : lastNumber' < queue[i + 1].number
  BY <1>1, <1>2, <1>3, <1>4 DEF OrderInv
<1>8. \A i, j \in 1 .. Len(queue) - 1 : i < j => queue[i + 1].number < queue[j + 1].number
  BY <1>2, <1>4 DEF OrderInv
<1> QED
  BY <1>2, <1>4, <1>5, <1>6, <1>7, <1>8 DEF OrderInv

LEMMA OrderStep == ASSUME MaxDelayed = 0 PROVE TypeOK /\ OrderInv /\ [Next]_vars => OrderInv'
<1> SUFFICES ASSUME TypeOK, OrderInv, [Next]_vars PROVE OrderInv'
  OBVIOUS
<1> USE DEF network, received
<1>1. ASSUME NEW skip \in Skips, NEW packet \in Packet \cup {NoPacket}, JetsonSend(skip, packet)
      PROVE  OrderInv'
  <2> DEFINE d == [number |-> sent + skip + 1, packet |-> packet]
  <2>1. queue' = Append(queue, d) /\ sent' = sent + skip + 1 /\ delayed' = {} /\ lastNumber' = lastNumber
    <3>1. ~(Cardinality(delayed) < MaxDelayed)
      BY FS_EmptySet DEF OrderInv
    <3> QED
      BY <1>1, <3>1 DEF JetsonSend, Deliver, OrderInv
  <2>2. queue \in Seq(Datagram) /\ sent \in Nat /\ skip \in Nat /\ lastNumber \in Nat
    BY BridgeAssumption DEF TypeOK
  <2>3. /\ Len(queue') = Len(queue) + 1 /\ Len(queue) \in Nat
        /\ \A i \in 1 .. Len(queue) : queue'[i] = queue[i] /\ queue[i].number \in Nat
        /\ queue'[Len(queue) + 1].number = sent'
    BY <2>1, <2>2, NumberType
  <2>4. lastNumber' <= sent' /\ lastNumber < sent' /\ sent < sent' /\ sent' \in Nat
    BY <2>1, <2>2 DEF OrderInv
  <2>5. \A i \in 1 .. Len(queue) : lastNumber < queue'[i].number /\ queue'[i].number < sent'
    BY <2>2, <2>3, <2>4 DEF OrderInv
  <2>6. \A i, j \in 1 .. Len(queue) : i < j => queue'[i].number < queue'[j].number
    BY <2>3 DEF OrderInv
  <2>7. \A i \in 1 .. Len(queue) + 1 : lastNumber < queue'[i].number /\ queue'[i].number <= sent'
    <3>1. \A i \in 1 .. Len(queue) + 1 : i \in 1 .. Len(queue) \/ i = Len(queue) + 1
      BY <2>3
    <3> QED
      BY <2>3, <2>4, <2>5, <3>1
  <2>8. \A i, j \in 1 .. Len(queue) + 1 : i < j => queue'[i].number < queue'[j].number
    <3>1. \A i, j \in 1 .. Len(queue) + 1 : i < j =>
            i \in 1 .. Len(queue) /\ (j \in 1 .. Len(queue) \/ j = Len(queue) + 1)
      BY <2>3
    <3> QED
      BY <2>3, <2>5, <2>6, <3>1
  <2> HIDE DEF d
  <2> QED
    BY <2>1, <2>3, <2>4, <2>7, <2>8 DEF OrderInv
<1>2. ASSUME NEW e \in delayed, DelayedArrives(e) PROVE OrderInv'
  BY DEF OrderInv
<1>3. CASE Discard
  BY <1>3, TakeKeepsOrder DEF Discard
<1>4. CASE Accept
  BY <1>4, TakeKeepsOrder DEF Accept
<1>5. CASE Restart
  BY <1>5 DEF Restart, OrderInv, TypeOK
<1>6. CASE UNCHANGED <<sent, delayed, queue, lastNumber>>
  BY <1>6 DEF OrderInv
<1> QED
  BY <1>1, <1>2, <1>3, <1>4, <1>5, <1>6
     DEF Next, CodeStep, vars, PeriodicWithoutSockets, PeriodicStart, DrainEnds, Tick

\* Without a datagram that overtakes another, Periodic never goes back to an
\* older packet, whatever is lost, damaged or arrives during the drain.
THEOREM OrderlyKeepsMostRecent == ASSUME MaxDelayed = 0 PROVE Spec => KeepsMostRecent
<1>1. Init => OrderInv
  BY DEF Init, OrderInv
<1>2. TypeOK /\ OrderInv /\ [Next]_vars => [rxCount' > rxCount => lastNumber' >= lastNumber]_vars
  <2> SUFFICES ASSUME TypeOK, OrderInv, [Next]_vars, rxCount' > rxCount
               PROVE  lastNumber' >= lastNumber
    OBVIOUS
  <2>1. CASE Accept
    <3>1. queue \in Seq(Datagram) /\ queue # <<>> /\ lastNumber' = Head(queue).number
      BY <2>1 DEF Accept, Recvfrom, TypeOK
    <3>2. 1 \in 1 .. Len(queue) /\ Head(queue) = queue[1] /\ queue[1].number \in Nat
      BY <3>1, NumberType
    <3> QED
      BY <3>1, <3>2 DEF OrderInv, TypeOK
  <2>2. CASE Restart
    BY <2>2 DEF Restart, TypeOK
  <2>3. CASE rxCount' = rxCount
    BY <2>3 DEF TypeOK
  <2> QED
    BY <2>1, <2>2, <2>3
       DEF Next, CodeStep, vars, network, received, JetsonSend, DelayedArrives, Discard,
           PeriodicWithoutSockets, PeriodicStart, DrainEnds, Tick
<1>3. TypeOK /\ OrderInv /\ [Next]_vars => OrderInv'
  BY OrderStep
<1> QED
  BY <1>1, <1>2, <1>3, BridgeTypeCorrect, PTL DEF Spec, KeepsMostRecent

=============================================================================
