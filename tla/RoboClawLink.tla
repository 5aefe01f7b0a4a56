----------------------------- MODULE RoboClawLink -----------------------------
(***************************************************************************)
(* RoboClawDriver, byte by byte: a transaction flushes what has arrived,   *)
(* writes its request and waits for the bytes of the answer until a        *)
(* timeout.  Both motor controllers share the line; they may take their    *)
(* time, and the line may lose or damage requests and bytes.  The mutex    *)
(* makes transactions follow one another.                                  *)
(*                                                                         *)
(* A write is answered by the one byte 0xFF, a read by its data and a CRC  *)
(* over address, command and data.  A query has no CRC of its own, so a    *)
(* damaged one may be taken for another read.                              *)
(***************************************************************************)
EXTENDS Integers, Sequences, FiniteSets

CONSTANTS
    Reads,        \* what can be read: address and command of a query
    Answer(_),    \* number of bytes that answer a read
    Ids           \* bound: identities of requests with bytes on their way

ASSUME LinkAssumption ==
    /\ Cardinality(Ids) >= 2
    /\ "write" \notin Reads
    /\ \A r \in Reads : Answer(r) \in Nat \ {0}

VARIABLES
    stage,    \* "idle", "flushed", "waiting"
    request,  \* the transaction under way, or the last one
    asked,    \* requests the controllers have taken and not answered, in order
    line,     \* bytes on their way
    port,     \* bytes in the port's read buffer
    got,      \* bytes ReadBytes has
    ok,       \* result of the last transaction
    reached,  \* history: a controller took the request
    quiet     \* history: nothing was on its way when FlushRx ended

wire == <<asked, line>>
vars == <<stage, request, wire, port, got, ok, reached, quiet>>

Kinds == Reads \cup {"write"}
Bytes(kind) == IF kind = "write" THEN 1 ELSE Answer(kind)
Byte(r, i) == [id |-> r.id, kind |-> r.kind, nr |-> i, damaged |-> FALSE]
AnswerTo(r) == [i \in 1 .. Bytes(r.kind) |-> Byte(r, i)]

IdsOf(s) == {s[i].id : i \in DOMAIN s}
OnTheWay == IdsOf(asked) \cup IdsOf(line)
InFlight == OnTheWay \cup IdsOf(port) \cup IF stage = "waiting" THEN IdsOf(got) ELSE {}

Init ==
    /\ stage = "idle" /\ ok = FALSE
    /\ request \in [id : Ids, kind : Kinds]
    /\ asked = <<>> /\ line = <<>> /\ port = <<>> /\ got = <<>>
    /\ reached = FALSE /\ quiet = TRUE

-----------------------------------------------------------------------------
(* The driver.                                                             *)

\* Mutant: the bytes that have arrived stay in the buffer.
FlushRxUnlockedMutant == UNCHANGED port
FlushRxUnlocked == port' = <<>>

\* SetVelocityPID, SendSimpleWriteWithAck, WriteNVM ("write"), ReadVelocityPID
\* and ReadEncoder begin alike.
Flush(kind) ==
    /\ stage = "idle" /\ stage' = "flushed"
    /\ \E id \in Ids \ OnTheWay : request' = [id |-> id, kind |-> kind]
    /\ FlushRxUnlocked
    /\ got' = <<>> /\ ok' = FALSE /\ reached' = FALSE
    /\ quiet' = (OnTheWay = {})
    /\ UNCHANGED wire

\* A damaged write is dropped by the controller's own CRC check.
SendPacket ==
    /\ stage = "flushed" /\ stage' = "waiting"
    /\ \/ \E kind \in IF request.kind = "write" THEN {"write"} ELSE Reads :
            /\ asked' = Append(asked, [request EXCEPT !.kind = kind])
            /\ reached' = TRUE
       \/ UNCHANGED <<asked, reached>>
    /\ UNCHANGED <<request, line, port, got, ok, quiet>>

Return(result) == stage' = "idle" /\ ok' = result

\* The port is not open, or wrote less than the whole packet.
ShortWrite ==
    /\ stage = "flushed" /\ Return(FALSE)
    /\ UNCHANGED <<request, wire, port, got, reached, quiet>>

\* Mutant: everything that is available is taken.
ReadBytesMutant ==
    /\ stage = "waiting" /\ port # <<>> /\ Len(got) < Bytes(request.kind)
    /\ got' = got \o port /\ port' = <<>>
    /\ UNCHANGED <<stage, request, wire, ok, reached, quiet>>

ReadBytes ==
    /\ stage = "waiting" /\ port # <<>> /\ Len(got) < Bytes(request.kind)
    /\ LET missing == Bytes(request.kind) - Len(got)
           toRead == IF Len(port) < missing THEN Len(port) ELSE missing
       IN  /\ got' = got \o SubSeq(port, 1, toRead)
           /\ port' = SubSeq(port, toRead + 1, Len(port))
    /\ UNCHANGED <<stage, request, wire, ok, reached, quiet>>

\* Mutant: only a wrong byte fails a write.
TimeoutMutant ==
    /\ stage = "waiting" /\ Len(got) < Bytes(request.kind)
    /\ Return(request.kind = "write")
    /\ UNCHANGED <<request, wire, port, got, reached, quiet>>

Timeout ==
    /\ stage = "waiting" /\ Len(got) < Bytes(request.kind)
    /\ Return(FALSE)
    /\ UNCHANGED <<request, wire, port, got, reached, quiet>>

\* The byte is 0xFF: an ack is, a damaged one is not, data and CRC bytes may be.
MayBeAck(b) == b.kind # "write" \/ ~b.damaged
MayBeNoAck(b) == b.kind # "write" \/ b.damaged

AckChecked(result) ==
    /\ stage = "waiting" /\ request.kind = "write" /\ Len(got) = 1
    /\ IF result THEN MayBeAck(got[1]) ELSE MayBeNoAck(got[1])
    /\ Return(result)
    /\ UNCHANGED <<request, wire, port, got, reached, quiet>>

\* Mutant: the CRC covers the data alone.
CrcMatchesMutant(kind, s) == \E id \in Ids, r \in Reads : s = AnswerTo([id |-> id, kind |-> r])
\* The CRC of one answer does not fit bytes of two, damaged ones, or an answer
\* to another address or command.
CrcMatches(kind, s) == \E id \in Ids : s = AnswerTo([id |-> id, kind |-> kind])

CrcChecked ==
    /\ stage = "waiting" /\ request.kind \in Reads /\ Len(got) = Answer(request.kind)
    /\ Return(CrcMatches(request.kind, got))
    /\ UNCHANGED <<request, wire, port, got, reached, quiet>>

-----------------------------------------------------------------------------
(* The controllers and the line.                                           *)

Reply ==
    /\ asked # <<>>
    /\ line' = line \o AnswerTo(Head(asked)) /\ asked' = Tail(asked)
    /\ UNCHANGED <<stage, request, port, got, ok, reached, quiet>>

Arrive ==
    /\ line # <<>>
    /\ port' = Append(port, Head(line)) /\ line' = Tail(line)
    /\ UNCHANGED <<stage, request, asked, got, ok, reached, quiet>>

Lose ==
    /\ line # <<>> /\ line' = Tail(line)
    /\ UNCHANGED <<stage, request, asked, port, got, ok, reached, quiet>>

Damage ==
    /\ line # <<>> /\ ~Head(line).damaged
    /\ line' = [line EXCEPT ![1].damaged = TRUE]
    /\ UNCHANGED <<stage, request, asked, port, got, ok, reached, quiet>>

Next ==
    \/ \E kind \in Kinds : Flush(kind)
    \/ SendPacket \/ ShortWrite \/ ReadBytes \/ Timeout
    \/ \E result \in BOOLEAN : AckChecked(result)
    \/ CrcChecked
    \/ Reply \/ Arrive \/ Lose \/ Damage

Spec == Init /\ [][Next]_vars

-----------------------------------------------------------------------------
(* Properties.                                                             *)

TypeOK ==
    LET ByteSet == [id : Ids, kind : Kinds, nr : Nat, damaged : BOOLEAN]
    IN  /\ stage \in {"idle", "flushed", "waiting"}
        /\ request \in [id : Ids, kind : Kinds]
        /\ asked \in Seq([id : Ids, kind : Kinds])
        /\ {line, port, got} \subseteq Seq(ByteSet)
        /\ Len(got) <= Bytes(request.kind)
        /\ {ok, reached, quiet} \subseteq BOOLEAN

Done == stage = "idle" /\ ok

\* A read that succeeds has the whole, undamaged answer of one query for that
\* very register, whatever is late, lost, damaged or misunderstood; and it is
\* the answer to this query unless something was still on its way when FlushRx
\* had emptied the buffer.
ReadsAreRight ==
    Done /\ request.kind \in Reads =>
      /\ \A i \in DOMAIN got :
           /\ got[i].kind = request.kind /\ ~got[i].damaged
           /\ got[i].nr = i /\ got[i].id = got[1].id
      /\ quiet => reached /\ got[1].id = request.id

\* A write that succeeds was taken by the controller, unless a byte of an
\* earlier transaction was still on its way: a failed transaction cannot
\* disturb the next but one once the line is quiet.
AckMeansDone == Done /\ request.kind = "write" /\ quiet => reached

\* The driver gives its callers the outcomes that DrivetrainPid is built on.
Transactions == INSTANCE SerialTransactions WITH
    busy <- stage # "idle",
    late <- InFlight \ (IF stage = "idle" THEN {} ELSE {request.id}) # {}

ImplementsTransactions == Transactions!Spec

=============================================================================
