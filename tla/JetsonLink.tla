------------------------------ MODULE JetsonLink ------------------------------
(***************************************************************************)
(* What SerialBridgeSubsystem promises the rest of the program: once per   *)
(* loop it takes the newest valid command packet that has arrived, and it  *)
(* calls the Jetson connected while that packet is younger than the        *)
(* timeout.  RobotLoop is built on this module; SerialBridge, with its     *)
(* datagrams, queue and drain loop, is shown to implement it.              *)
(***************************************************************************)
EXTENDS Integers

CONSTANTS
    JetsonCmds,    \* velocity commands a Jetson packet can carry
    JetsonTimeout  \* kJetsonTimeoutSec, in ticks

ASSUME CmdsAssumption == JetsonCmds \cap {"none", "zero", "test", "auto", "stop", "base"} = {}
ASSUME TimeoutAssumption == JetsonTimeout \in Nat

\* A packet that passed the size, magic and CRC checks; NoPacket is "none yet".
Packet == [cmd : JetsonCmds, soft : BOOLEAN]
NoPacket == [cmd |-> "none", soft |-> FALSE]

VARIABLES
    socketsReady, \* m_socketsReady
    inbox,        \* newest valid packet not yet taken, or NoPacket
    rx,           \* m_rxPacket, NoPacket while m_rxCount = 0
    rxAge,        \* m_lastRxTimer
    connected     \* m_jetsonConnected

linkVars == <<socketsReady, inbox, rx, rxAge, connected>>

LinkInit ==
    /\ socketsReady \in BOOLEAN
    /\ inbox = NoPacket /\ rx = NoPacket /\ rxAge = 0
    /\ connected = FALSE

Arrive(packet) ==
    /\ socketsReady
    /\ inbox' = packet
    /\ UNCHANGED <<socketsReady, rx, rxAge, connected>>

\* Mutant: a link that never times out.
LinkAliveMutant(packet, age) == packet # NoPacket
LinkAlive(packet, age) == packet # NoPacket /\ age <= JetsonTimeout

Periodic ==
    /\ \/ ~socketsReady /\ connected' = FALSE /\ UNCHANGED <<rx, rxAge>>
       \/ /\ socketsReady /\ inbox # NoPacket
          /\ rx' = inbox /\ rxAge' = 0 /\ connected' = LinkAlive(inbox, 0)
       \/ /\ socketsReady /\ inbox = NoPacket
          /\ connected' = LinkAlive(rx, rxAge) /\ UNCHANGED <<rx, rxAge>>
    /\ inbox' = NoPacket
    /\ UNCHANGED socketsReady

Capped(n, cap) == IF n < cap THEN n + 1 ELSE n

LinkTick ==
    /\ rxAge' = Capped(rxAge, JetsonTimeout + 1)
    /\ UNCHANGED <<socketsReady, inbox, rx, connected>>

\* The program boots again: its sockets, and the packets in them, are gone.
LinkRestart ==
    /\ socketsReady' \in BOOLEAN
    /\ inbox' = NoPacket /\ rx' = NoPacket /\ rxAge' = 0
    /\ connected' = FALSE

LinkNext ==
    \/ \E packet \in Packet : Arrive(packet)
    \/ Periodic
    \/ LinkTick
    \/ LinkRestart

LinkSpec == LinkInit /\ [][LinkNext]_linkVars

=============================================================================
