----------------------------- MODULE SerialBridge -----------------------------
(***************************************************************************)
(* SerialBridgeSubsystem, the receiving side: the Jetson's datagrams, the  *)
(* non-blocking socket they wait in, and the drain loop of Periodic, one   *)
(* recvfrom at a time.  Datagrams may be lost, damaged or late, and may    *)
(* arrive while the drain loop runs.                                       *)
(*                                                                         *)
(* A datagram carries the number the Jetson sent it under and its sequence *)
(* byte, which is that number modulo 256.                                  *)
(***************************************************************************)
EXTENDS Integers, Sequences, FiniteSets

CONSTANTS
    JetsonCmds,     \* velocity commands a Jetson packet can carry
    JetsonTimeout,  \* kJetsonTimeoutSec, in ticks
    Skips,          \* how many datagrams in a row the network may lose
    MaxSends,       \* bound: datagrams that leave the Jetson and are not lost
    QueueCap,       \* bound: datagrams that wait in the socket
    MaxDelayed      \* bound: datagrams that are late at the same time

ASSUME BridgeAssumption ==
    /\ JetsonTimeout \in Nat
    /\ Skips \subseteq Nat
    /\ MaxSends \in Nat /\ QueueCap \in Nat /\ MaxDelayed \in Nat

Packet == [cmd : JetsonCmds, soft : BOOLEAN]
NoPacket == [cmd |-> "none", soft |-> FALSE]

\* A datagram that fails the size, magic or CRC check carries NoPacket.
Datagram == [number : Nat \ {0}, packet : Packet \cup {NoPacket}]
\* Mutant: a sequence number wider than its byte.
SeqByteMutant(number) == number
SeqByte(number) == number % 256

VARIABLES
    sends,          \* history: datagrams sent and not lost
    sent,           \* number of the Jetson's last datagram
    delayed,        \* datagrams still on their way after a later one arrived
    queue,          \* datagrams in m_rxSock
    pc,             \* "idle", or "drain" inside Periodic's loop
    socketsReady,   \* m_socketsReady
    rxPacket,       \* m_rxPacket, NoPacket while nothing was received
    lastRxSeq,      \* m_lastRxSeq
    rxCount,        \* m_rxCount
    droppedCount,   \* m_droppedCount
    rxTimer,        \* m_lastRxTimer
    connected,      \* m_jetsonConnected
    firstNumber,    \* history: number of the first packet received, 0 before it
    lastNumber,     \* history: number of the last packet received
    steady,         \* history: every packet came 1 to 256 numbers after the last
    newest,         \* history: last valid arrival since the last drain ended
    before          \* history: rxPacket and rxTimer when the drain began

network == <<sends, sent, delayed, queue, newest>>
received == <<rxPacket, lastRxSeq, rxCount, droppedCount, rxTimer, firstNumber, lastNumber,
              steady>>
vars == <<network, pc, socketsReady, received, connected, before>>

Nothing == [packet |-> NoPacket, timer |-> 0]

Init ==
    /\ sends = 0 /\ sent = 0 /\ delayed = {}
    /\ queue = <<>> /\ newest = NoPacket
    /\ pc = "idle"
    /\ socketsReady \in BOOLEAN
    /\ rxPacket = NoPacket /\ lastRxSeq = 0
    /\ rxCount = 0 /\ droppedCount = 0 /\ rxTimer = 0
    /\ firstNumber = 0 /\ lastNumber = 0 /\ steady = TRUE
    /\ connected = FALSE
    /\ before = Nothing

-----------------------------------------------------------------------------
(* The Jetson and the network.                                             *)

Deliver(d) ==
    /\ Len(queue) < QueueCap
    /\ queue' = Append(queue, d)
    /\ newest' = IF d.packet = NoPacket THEN newest ELSE d.packet

\* The Jetson sends; the skip datagrams before this one were lost.
JetsonSend(skip, packet) ==
    LET d == [number |-> sent + skip + 1, packet |-> packet]
    IN  /\ socketsReady
        /\ sends < MaxSends /\ sends' = sends + 1
        /\ sent' = d.number
        /\ \/ Deliver(d) /\ UNCHANGED delayed
           \/ /\ Cardinality(delayed) < MaxDelayed
              /\ delayed' = delayed \cup {d} /\ UNCHANGED <<queue, newest>>
        /\ UNCHANGED <<pc, socketsReady, received, connected, before>>

DelayedArrives(d) ==
    /\ socketsReady
    /\ Deliver(d) /\ delayed' = delayed \ {d}
    /\ UNCHANGED <<sends, sent, pc, socketsReady, received, connected, before>>

-----------------------------------------------------------------------------
(* SerialBridgeSubsystem::Periodic.                                        *)

PeriodicWithoutSockets ==
    /\ pc = "idle" /\ ~socketsReady
    /\ connected' = FALSE
    /\ UNCHANGED <<network, pc, socketsReady, received, before>>

PeriodicStart ==
    /\ pc = "idle" /\ socketsReady
    /\ pc' = "drain"
    /\ before' = [packet |-> rxPacket, timer |-> rxTimer]
    /\ UNCHANGED <<network, socketsReady, received, connected>>

Recvfrom ==
    /\ pc = "drain" /\ queue # <<>>
    /\ queue' = Tail(queue)
    /\ UNCHANGED <<sends, sent, delayed, newest, pc, socketsReady, connected, before>>

Discard ==
    /\ Recvfrom /\ Head(queue).packet = NoPacket
    /\ UNCHANGED received

\* Mutant: the gap is counted from the last packet, not from the next one.
GapMutant(seq) == (seq - lastRxSeq) % 256
\* What a packet with this sequence byte adds to the dropped count.
Gap(seq) == (seq - ((lastRxSeq + 1) % 256)) % 256

Accept ==
    /\ Recvfrom /\ Head(queue).packet # NoPacket
    /\ LET d == Head(queue)
       IN  /\ rxPacket' = d.packet
           /\ droppedCount' = IF rxCount > 0 THEN droppedCount + Gap(SeqByte(d.number))
                                             ELSE droppedCount
           /\ lastRxSeq' = SeqByte(d.number)
           /\ firstNumber' = IF rxCount > 0 THEN firstNumber ELSE d.number
           /\ lastNumber' = d.number
           /\ steady' = IF rxCount > 0 /\ d.number - lastNumber \notin 1 .. 256
                          THEN FALSE ELSE steady
    /\ rxCount' = rxCount + 1
    /\ rxTimer' = 0

\* Mutant: the loop stops after a packet instead of draining the socket.
DrainEndsMutant ==
    /\ pc = "drain" /\ pc' = "idle"
    /\ connected' = (rxCount > 0 /\ rxTimer <= JetsonTimeout)
    /\ newest' = NoPacket
    /\ UNCHANGED <<sends, sent, delayed, queue, socketsReady, received, before>>

DrainEnds ==
    /\ pc = "drain" /\ queue = <<>> /\ pc' = "idle"
    /\ connected' = (rxCount > 0 /\ rxTimer <= JetsonTimeout)
    /\ newest' = NoPacket
    /\ UNCHANGED <<sends, sent, delayed, queue, socketsReady, received, before>>

-----------------------------------------------------------------------------

\* A drain takes less than a tick.
Tick ==
    /\ pc = "idle"
    /\ rxTimer' = IF rxTimer <= JetsonTimeout THEN rxTimer + 1 ELSE rxTimer
    /\ UNCHANGED <<network, pc, socketsReady, rxPacket, lastRxSeq, rxCount, droppedCount,
                   firstNumber, lastNumber, steady, connected, before>>

\* The program boots again; the Jetson and what it sent late live on.
Restart ==
    /\ queue' = <<>> /\ newest' = NoPacket
    /\ pc' = "idle"
    /\ socketsReady' \in BOOLEAN
    /\ rxPacket' = NoPacket /\ lastRxSeq' = 0
    /\ rxCount' = 0 /\ droppedCount' = 0 /\ rxTimer' = 0
    /\ firstNumber' = 0 /\ lastNumber' = 0 /\ steady' = TRUE
    /\ connected' = FALSE
    /\ before' = Nothing
    /\ UNCHANGED <<sends, sent, delayed>>

CodeStep == PeriodicWithoutSockets \/ PeriodicStart \/ Discard \/ Accept \/ DrainEnds

Next ==
    \/ CodeStep
    \/ \E skip \in Skips, packet \in Packet \cup {NoPacket} : JetsonSend(skip, packet)
    \/ \E d \in delayed : DelayedArrives(d)
    \/ Tick
    \/ Restart

Spec == Init /\ [][Next]_vars

-----------------------------------------------------------------------------
(* Properties.                                                             *)

\* Every variable has its type; m_lastRxSeq stays a byte.
TypeOK ==
    /\ sends \in 0 .. MaxSends /\ sent \in Nat
    /\ delayed \subseteq Datagram
    /\ queue \in Seq(Datagram) /\ Len(queue) <= QueueCap
    /\ newest \in Packet \cup {NoPacket}
    /\ pc \in {"idle", "drain"}
    /\ socketsReady \in BOOLEAN /\ connected \in BOOLEAN /\ steady \in BOOLEAN
    /\ rxPacket \in Packet \cup {NoPacket}
    /\ lastRxSeq \in 0 .. 255
    /\ rxCount \in Nat /\ droppedCount \in Nat
    /\ rxTimer \in 0 .. JetsonTimeout + 1
    /\ firstNumber \in Nat /\ lastNumber \in Nat
    /\ before \in [packet : Packet \cup {NoPacket}, timer : 0 .. JetsonTimeout + 1]

\* Bridge/DroppedPkts counts the datagrams that were sent between the first
\* and the last packet received, and not received.  The count is right modulo
\* 256 on any network, and exact as long as packets arrive in order and fewer
\* than 256 in a row are lost, through every wrap of the sequence byte.
MissedNumbers == lastNumber - firstNumber + 1 - rxCount
DroppedCountIsRight ==
    rxCount > 0 =>
      /\ (droppedCount - MissedNumbers) % 256 = 0
      /\ steady => droppedCount = MissedNumbers

\* SerialBridgeSubsystem is the link RobotLoop is built on: drained one by one,
\* late, damaged and lost datagrams amount to one atomic step that takes the
\* newest valid arrival and judges the link by its age.
Link == INSTANCE JetsonLink WITH
          inbox <- newest,
          rx <- IF pc = "drain" THEN before.packet ELSE rxPacket,
          rxAge <- IF pc = "drain" THEN before.timer ELSE rxTimer
ImplementsLink == Link!LinkSpec

\* Draining the queue keeps the most recent packet, not a stale one.
KeepsMostRecent == [][rxCount' > rxCount => lastNumber' >= lastNumber]_vars

=============================================================================
