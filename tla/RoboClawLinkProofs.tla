--------------------------- MODULE RoboClawLinkProofs ---------------------------
(***************************************************************************)
(* Theorems about RoboClawLink, for any registers, any lengths of their    *)
(* answers and any number of requests late: what a transaction's result    *)
(* means, and that the driver gives its callers the outcomes that          *)
(* DrivetrainPid is built on.                                              *)
(***************************************************************************)
EXTENDS RoboClawLink, SequenceTheorems, TLAPS

Requests == [id : Ids, kind : Kinds]
LineBytes == [id : Ids, kind : Kinds, nr : Nat, damaged : BOOLEAN]

(***************************************************************************)
(* Sequences of requests and of bytes, and their identities.               *)
(***************************************************************************)

LEMMA BytesTypes == \A kind \in Kinds : Bytes(kind) \in Nat /\ Bytes(kind) >= 1
BY LinkAssumption DEF Kinds, Bytes

\* A sequence is its head and its tail.
LEMMA HeadAndTail ==
    ASSUME NEW S, NEW s \in Seq(S), s # <<>>
    PROVE  /\ Head(s) \in S /\ Tail(s) \in Seq(S) /\ Head(s) = s[1]
           /\ <<Head(s)>> \in Seq(S)
           /\ s = <<Head(s)>> \o Tail(s)
<1>1. Head(s) \in S /\ Tail(s) \in Seq(S) /\ Len(Tail(s)) = Len(s) - 1
      /\ \A i \in 1 .. Len(Tail(s)) : Tail(s)[i] = s[i + 1]
  BY HeadTailProperties
<1>2. Len(s) \in Nat \ {0}
  BY EmptySeq
<1>3. Head(s) = s[1]
  BY <1>2
<1> DEFINE h == <<Head(s)>>
<1>4. h \in Seq(S) /\ Len(h) = 1 /\ h[1] = Head(s)
  BY <1>1
<1>5. /\ h \o Tail(s) \in Seq(S) /\ Len(h \o Tail(s)) = Len(h) + Len(Tail(s))
      /\ \A i \in 1 .. Len(h) + Len(Tail(s)) :
           (h \o Tail(s))[i] = IF i <= Len(h) THEN h[i] ELSE Tail(s)[i - Len(h)]
  <2> DEFINE t == Tail(s)
  <2>1. h \in Seq(S) /\ t \in Seq(S)
    BY <1>1, <1>4
  <2> HIDE DEF h, t
  <2>2. /\ h \o t \in Seq(S) /\ Len(h \o t) = Len(h) + Len(t)
        /\ \A i \in 1 .. Len(h) + Len(t) :
             (h \o t)[i] = IF i <= Len(h) THEN h[i] ELSE t[i - Len(h)]
    BY <2>1, ConcatProperties
  <2> QED
    BY <2>2 DEF t
<1> HIDE DEF h
<1>6. Len(h \o Tail(s)) = Len(s)
  BY <1>1, <1>2, <1>4, <1>5
<1>7. \A i \in 1 .. Len(s) : s[i] = (h \o Tail(s))[i]
  <2> SUFFICES ASSUME NEW i \in 1 .. Len(s) PROVE s[i] = (h \o Tail(s))[i]
    OBVIOUS
  <2>1. CASE i = 1
    BY <1>1, <1>2, <1>3, <1>4, <1>5, <2>1
  <2>2. CASE i # 1
    <3>1. i - 1 \in 1 .. Len(Tail(s)) /\ ~(i <= 1) /\ (i - 1) + 1 = i
      BY <1>1, <1>2, <2>2
    <3>2. (h \o Tail(s))[i] = Tail(s)[i - 1]
      BY <1>1, <1>2, <1>4, <1>5, <2>2
    <3>3. Tail(s)[i - 1] = s[(i - 1) + 1]
      BY <1>1, <3>1, Zenon
    <3> QED
      BY <3>1, <3>2, <3>3
  <2> QED
    BY <2>1, <2>2
<1>8. s = h \o Tail(s)
  BY <1>5, <1>6, <1>7, SeqEqual
<1> QED
  BY <1>1, <1>3, <1>4, <1>8 DEF h

LEMMA IdsConcat ==
    ASSUME NEW S, NEW s \in Seq(S), NEW t \in Seq(S)
    PROVE  IdsOf(s \o t) = IdsOf(s) \cup IdsOf(t)
<1>1. /\ s \o t \in Seq(S) /\ Len(s \o t) = Len(s) + Len(t)
      /\ \A i \in 1 .. Len(s) + Len(t) :
           (s \o t)[i] = IF i <= Len(s) THEN s[i] ELSE t[i - Len(s)]
  BY ConcatProperties
<1>2. Len(s) \in Nat /\ Len(t) \in Nat /\ DOMAIN s = 1 .. Len(s) /\ DOMAIN t = 1 .. Len(t)
      /\ DOMAIN (s \o t) = 1 .. Len(s) + Len(t)
  BY <1>1, LenProperties
<1>3. ASSUME NEW x \in IdsOf(s \o t) PROVE x \in IdsOf(s) \cup IdsOf(t)
  <2>1. PICK i \in 1 .. Len(s) + Len(t) : x = (s \o t)[i].id
    BY <1>2, <1>3 DEF IdsOf
  <2>2. CASE i <= Len(s)
    BY <1>1, <1>2, <2>1, <2>2 DEF IdsOf
  <2>3. CASE ~(i <= Len(s))
    <3>1. i - Len(s) \in DOMAIN t /\ x = t[i - Len(s)].id
      BY <1>1, <1>2, <2>1, <2>3
    <3> QED
      BY <3>1 DEF IdsOf
  <2> QED
    BY <2>2, <2>3
<1>4. ASSUME NEW x \in IdsOf(s) PROVE x \in IdsOf(s \o t)
  <2>1. PICK i \in 1 .. Len(s) : x = s[i].id
    BY <1>2, <1>4 DEF IdsOf
  <2>2. i \in DOMAIN (s \o t) /\ x = (s \o t)[i].id
    BY <1>1, <1>2, <2>1
  <2> QED
    BY <2>2 DEF IdsOf
<1>5. ASSUME NEW x \in IdsOf(t) PROVE x \in IdsOf(s \o t)
  <2>1. PICK i \in 1 .. Len(t) : x = t[i].id
    BY <1>2, <1>5 DEF IdsOf
  <2>2. PICK k \in 1 .. Len(s) + Len(t) : k = i + Len(s)
    BY <1>2
  <2>3. ~(k <= Len(s)) /\ k - Len(s) = i
    BY <1>2, <2>2
  <2>4. k \in DOMAIN (s \o t) /\ x = (s \o t)[k].id
    BY <1>1, <1>2, <2>1, <2>3
  <2> QED
    BY <2>4 DEF IdsOf
<1> QED
  BY <1>3, <1>4, <1>5

LEMMA IdsOfOne == \A x : IdsOf(<<x>>) = {x.id}
BY DEF IdsOf

LEMMA IdsOfNone == IdsOf(<<>>) = {}
BY DEF IdsOf

LEMMA IdsOfHeadTail ==
    ASSUME NEW S, NEW s \in Seq(S), s # <<>>
    PROVE  IdsOf(s) = {Head(s).id} \cup IdsOf(Tail(s))
<1> DEFINE h == <<Head(s)>>
<1>1. h \in Seq(S) /\ Tail(s) \in Seq(S) /\ s = h \o Tail(s)
  BY HeadAndTail
<1>2. IdsOf(h) = {Head(s).id}
  BY IdsOfOne
<1> HIDE DEF h
<1>3. IdsOf(h \o Tail(s)) = IdsOf(h) \cup IdsOf(Tail(s))
  BY <1>1, IdsConcat
<1> QED
  BY <1>1, <1>2, <1>3

LEMMA IdsOfAppend ==
    ASSUME NEW S, NEW s \in Seq(S), NEW x \in S
    PROVE  IdsOf(Append(s, x)) = IdsOf(s) \cup {x.id}
<1> DEFINE one == <<x>>
<1>1. one \in Seq(S) /\ Append(s, x) = s \o one
  BY AppendIsConcat
<1>2. IdsOf(one) = {x.id}
  BY IdsOfOne
<1> HIDE DEF one
<1> QED
  BY <1>1, <1>2, IdsConcat

\* The bytes of an answer.
LEMMA AnswerBytes ==
    ASSUME NEW r \in Requests
    PROVE  /\ AnswerTo(r) \in Seq(LineBytes) /\ Len(AnswerTo(r)) = Bytes(r.kind)
           /\ \A i \in 1 .. Bytes(r.kind) : AnswerTo(r)[i] = Byte(r, i)
           /\ IdsOf(AnswerTo(r)) = {r.id}
<1>1. r.id \in Ids /\ r.kind \in Kinds /\ Bytes(r.kind) \in Nat /\ Bytes(r.kind) >= 1
  BY BytesTypes DEF Requests
<1>2. \A i \in 1 .. Bytes(r.kind) : Byte(r, i) \in LineBytes /\ Byte(r, i).id = r.id
  BY <1>1 DEF Byte, LineBytes
<1>3. AnswerTo(r) \in [1 .. Bytes(r.kind) -> LineBytes]
  BY <1>2 DEF AnswerTo
<1>4. AnswerTo(r) \in Seq(LineBytes)
  BY <1>1, <1>3, SeqDef
<1>5. Len(AnswerTo(r)) = Bytes(r.kind)
  BY <1>1, <1>3, <1>4, LenProperties
<1>6. \A i \in 1 .. Bytes(r.kind) : AnswerTo(r)[i] = Byte(r, i)
  BY DEF AnswerTo
<1>7. IdsOf(AnswerTo(r)) = {r.id}
  <2>1. DOMAIN AnswerTo(r) = 1 .. Bytes(r.kind)
    BY <1>3
  <2>2. 1 \in DOMAIN AnswerTo(r)
    BY <1>1, <2>1
  <2> QED
    BY <1>2, <1>6, <2>1, <2>2 DEF IdsOf
<1> QED
  BY <1>4, <1>5, <1>6, <1>7

\* The bytes of request id are those of one answer, in order, some of them lost;
\* a write has no other answer than its ack.
Sound(s, id, kind) ==
    /\ \A i, j \in DOMAIN s : i < j /\ s[i].id = id /\ s[j].id = id =>
         s[i].kind = s[j].kind /\ s[i].nr < s[j].nr
    /\ \A i \in DOMAIN s : s[i].id = id =>
         s[i].nr \in 1 .. Bytes(s[i].kind) /\ (kind = "write" => s[i].kind = "write")

LEMMA SoundNone ==
    ASSUME NEW s, NEW id, NEW kind, id \notin IdsOf(s)
    PROVE  Sound(s, id, kind)
BY DEF Sound, IdsOf

LEMMA SoundAnswer ==
    ASSUME NEW r \in Requests, NEW id, NEW kind, kind = "write" => r.kind = "write"
    PROVE  Sound(AnswerTo(r), id, kind)
<1>1. /\ DOMAIN AnswerTo(r) = 1 .. Bytes(r.kind)
      /\ \A i \in 1 .. Bytes(r.kind) : AnswerTo(r)[i] = Byte(r, i)
  BY AnswerBytes DEF AnswerTo
<1>2. \A i \in 1 .. Bytes(r.kind) :
        AnswerTo(r)[i].kind = r.kind /\ AnswerTo(r)[i].nr = i
  BY <1>1 DEF Byte
<1>3. Bytes(r.kind) \in Nat
  BY BytesTypes DEF Requests
<1> QED
  BY <1>1, <1>2, <1>3 DEF Sound

LEMMA SoundConcat ==
    ASSUME NEW S, NEW s \in Seq(S), NEW t \in Seq(S), NEW id, NEW kind,
           Sound(s, id, kind), Sound(t, id, kind), id \notin IdsOf(s) \/ id \notin IdsOf(t)
    PROVE  Sound(s \o t, id, kind)
<1>1. /\ s \o t \in Seq(S) /\ Len(s \o t) = Len(s) + Len(t)
      /\ \A i \in 1 .. Len(s) + Len(t) :
           (s \o t)[i] = IF i <= Len(s) THEN s[i] ELSE t[i - Len(s)]
  BY ConcatProperties
<1>2. Len(s) \in Nat /\ Len(t) \in Nat /\ DOMAIN s = 1 .. Len(s) /\ DOMAIN t = 1 .. Len(t)
      /\ DOMAIN (s \o t) = 1 .. Len(s) + Len(t)
  BY <1>1, LenProperties
<1>3. CASE id \notin IdsOf(s)
  <2>1. ASSUME NEW i \in DOMAIN (s \o t), (s \o t)[i].id = id
        PROVE  i - Len(s) \in DOMAIN t /\ (s \o t)[i] = t[i - Len(s)] /\ t[i - Len(s)].id = id
    <3>1. ~(i <= Len(s))
      BY <1>1, <1>2, <1>3, <2>1 DEF IdsOf
    <3> QED
      BY <1>1, <1>2, <2>1, <3>1
  <2>2. ASSUME NEW i \in DOMAIN (s \o t), NEW j \in DOMAIN (s \o t), i < j,
               (s \o t)[i].id = id, (s \o t)[j].id = id
        PROVE  (s \o t)[i].kind = (s \o t)[j].kind /\ (s \o t)[i].nr < (s \o t)[j].nr
    <3>1. i - Len(s) < j - Len(s)
      BY <1>2, <2>2
    <3> QED
      BY <2>1, <2>2, <3>1 DEF Sound
  <2> QED
    BY <2>1, <2>2 DEF Sound
<1>4. CASE id \notin IdsOf(t)
  <2>1. ASSUME NEW i \in DOMAIN (s \o t), (s \o t)[i].id = id
        PROVE  i \in DOMAIN s /\ (s \o t)[i] = s[i]
    <3>1. CASE i <= Len(s)
      BY <1>1, <1>2, <3>1
    <3>2. CASE ~(i <= Len(s))
      <4>1. i - Len(s) \in DOMAIN t /\ t[i - Len(s)].id = id
        BY <1>1, <1>2, <2>1, <3>2
      <4> QED
        BY <1>4, <4>1 DEF IdsOf
    <3> QED
      BY <3>1, <3>2
  <2> QED
    BY <2>1 DEF Sound
<1> QED
  BY <1>3, <1>4

\* A byte is lost, or damaged.
LEMMA SoundLose ==
    ASSUME NEW S, NEW p \in Seq(S), NEW s \in Seq(S), s # <<>>, NEW id, NEW kind,
           Sound(p \o s, id, kind)
    PROVE  Sound(p \o Tail(s), id, kind)
<1> DEFINE t == Tail(s)
           old == p \o s
           new == p \o t
           Was(i) == IF i <= Len(p) THEN i ELSE i + 1
<1>1. t \in Seq(S) /\ Len(t) = Len(s) - 1 /\ \A i \in 1 .. Len(t) : t[i] = s[i + 1]
  BY HeadTailProperties
<1> HIDE DEF t
<1>2. Len(old) = Len(p) + Len(s) /\ Len(new) = Len(p) + Len(t)
      /\ (\A i \in 1 .. Len(p) + Len(s) : old[i] = IF i <= Len(p) THEN p[i] ELSE s[i - Len(p)])
      /\ (\A i \in 1 .. Len(p) + Len(t) : new[i] = IF i <= Len(p) THEN p[i] ELSE t[i - Len(p)])
      /\ old \in Seq(S) /\ new \in Seq(S)
  BY <1>1, ConcatProperties
<1> HIDE DEF old, new
<1>3. Len(p) \in Nat /\ Len(s) \in Nat /\ Len(t) \in Nat
      /\ DOMAIN old = 1 .. Len(p) + Len(s) /\ DOMAIN new = 1 .. Len(p) + Len(t)
  BY <1>1, <1>2, LenProperties
<1>4. ASSUME NEW i \in DOMAIN new PROVE Was(i) \in DOMAIN old /\ new[i] = old[Was(i)]
  <2>1. CASE i <= Len(p)
    <3>1. Was(i) = i /\ i \in 1 .. Len(p) + Len(s) /\ i \in 1 .. Len(p) + Len(t)
      BY <1>1, <1>3, <2>1
    <3>2. new[i] = p[i] /\ old[i] = p[i]
      BY <1>2, <2>1, <3>1
    <3> QED
      BY <1>3, <3>1, <3>2
  <2>2. CASE ~(i <= Len(p))
    <3>1. i - Len(p) \in 1 .. Len(t) /\ Was(i) = i + 1
      BY <1>3, <2>2
    <3>2. new[i] = t[i - Len(p)]
      BY <1>2, <1>3, <2>2
    <3>3. t[i - Len(p)] = s[(i - Len(p)) + 1]
      BY <1>1, <3>1
    <3>4. i + 1 \in DOMAIN old /\ ~(i + 1 <= Len(p)) /\ (i + 1) - Len(p) = (i - Len(p)) + 1
      BY <1>1, <1>3, <2>2
    <3>5. old[i + 1] = s[(i + 1) - Len(p)]
      BY <1>2, <1>3, <3>4
    <3> QED
      BY <3>1, <3>2, <3>3, <3>4, <3>5
  <2> QED
    BY <2>1, <2>2
<1>5. \A i, j \in DOMAIN new : i < j => Was(i) < Was(j)
  BY <1>3
<1> HIDE DEF Was
<1>6. Sound(old, id, kind)
  BY DEF old
<1>7. Sound(new, id, kind)
  BY <1>4, <1>5, <1>6 DEF Sound
<1> QED
  BY <1>7 DEF new, t

LEMMA SoundDamage ==
    ASSUME NEW S, NEW p \in Seq(S), NEW s \in Seq(S), NEW t \in Seq(S), NEW id, NEW kind,
           Len(s) = Len(t),
           \A i \in 1 .. Len(s) : s[i].id = t[i].id /\ s[i].kind = t[i].kind /\ s[i].nr = t[i].nr,
           Sound(p \o s, id, kind)
    PROVE  Sound(p \o t, id, kind)
<1> DEFINE old == p \o s
           new == p \o t
<1>1. Len(old) = Len(p) + Len(s) /\ Len(new) = Len(p) + Len(t)
      /\ (\A i \in 1 .. Len(p) + Len(s) : old[i] = IF i <= Len(p) THEN p[i] ELSE s[i - Len(p)])
      /\ (\A i \in 1 .. Len(p) + Len(t) : new[i] = IF i <= Len(p) THEN p[i] ELSE t[i - Len(p)])
      /\ old \in Seq(S) /\ new \in Seq(S)
  BY ConcatProperties
<1> HIDE DEF old, new
<1>2. Len(p) \in Nat /\ Len(s) \in Nat
      /\ DOMAIN old = 1 .. Len(p) + Len(s) /\ DOMAIN new = 1 .. Len(p) + Len(s)
  BY <1>1, LenProperties
<1>3. ASSUME NEW i \in DOMAIN new
      PROVE  i \in DOMAIN old /\ new[i].id = old[i].id /\ new[i].kind = old[i].kind
             /\ new[i].nr = old[i].nr
  <2>1. CASE i <= Len(p)
    BY <1>1, <1>2, <2>1
  <2>2. CASE ~(i <= Len(p))
    <3>1. i - Len(p) \in 1 .. Len(s)
      BY <1>2, <2>2
    <3> QED
      BY <1>1, <1>2, <2>2, <3>1
  <2> QED
    BY <2>1, <2>2
<1>4. Sound(old, id, kind)
  BY DEF old
<1>5. Sound(new, id, kind)
  <2>1. DOMAIN new = DOMAIN old
    BY <1>2
  <2>2. ASSUME NEW i \in DOMAIN new, NEW j \in DOMAIN new, i < j, new[i].id = id, new[j].id = id
        PROVE  new[i].kind = new[j].kind /\ new[i].nr < new[j].nr
    BY <1>3, <1>4, <2>2 DEF Sound
  <2>3. ASSUME NEW i \in DOMAIN new, new[i].id = id
        PROVE  new[i].nr \in 1 .. Bytes(new[i].kind) /\ (kind = "write" => new[i].kind = "write")
    <3>1. old[i].nr \in 1 .. Bytes(old[i].kind) /\ (kind = "write" => old[i].kind = "write")
      BY <1>3, <1>4, <2>3 DEF Sound
    <3> QED
      BY <1>3, <3>1
  <2> QED
    BY <2>2, <2>3 DEF Sound
<1> QED
  BY <1>5 DEF new

(***************************************************************************)
(* Type correctness.                                                       *)
(***************************************************************************)

LinkTypes ==
      /\ stage \in {"idle", "flushed", "waiting"}
      /\ request \in Requests
      /\ asked \in Seq(Requests)
      /\ line \in Seq(LineBytes) /\ port \in Seq(LineBytes) /\ got \in Seq(LineBytes)
      /\ Len(got) <= Bytes(request.kind)
      /\ ok \in BOOLEAN /\ reached \in BOOLEAN /\ quiet \in BOOLEAN

LEMMA Types == LinkTypes => TypeOK
BY Zenon DEF TypeOK, LinkTypes, Requests, LineBytes

LEMMA RequestTypes ==
    ASSUME NEW r \in Requests
    PROVE  r.id \in Ids /\ r.kind \in Kinds /\ Bytes(r.kind) \in Nat /\ Bytes(r.kind) >= 1
BY BytesTypes DEF Requests

\* ReadBytes moves bytes from the buffer to the transaction, in order.
LEMMA ReadBytesMoves ==
    ASSUME LinkTypes, ReadBytes
    PROVE  /\ got' \in Seq(LineBytes) /\ port' \in Seq(LineBytes)
           /\ Len(got') <= Bytes(request.kind)
           /\ got' \o port' = got \o port
<1>1. /\ request \in Requests /\ port \in Seq(LineBytes) /\ got \in Seq(LineBytes)
      /\ Len(got) \in Nat /\ Len(port) \in Nat /\ Len(port) >= 1
      /\ Bytes(request.kind) \in Nat
  BY RequestTypes, EmptySeq, LenProperties DEF LinkTypes, ReadBytes
<1> DEFINE missing == Bytes(request.kind) - Len(got)
           n == IF Len(port) < missing THEN Len(port) ELSE missing
           a == SubSeq(port, 1, n)
           b == SubSeq(port, n + 1, Len(port))
<1>2. n \in 1 .. Len(port) /\ n <= missing
  BY <1>1 DEF ReadBytes
<1>3. got' = got \o a /\ port' = b
  BY DEF ReadBytes
<1> HIDE DEF n
<1>4. a \in Seq(LineBytes) /\ Len(a) = n
  <2>1. \A i \in 1 .. n : port[i] \in LineBytes
    BY <1>1, <1>2, ElementOfSeq
  <2> QED
    BY <1>2, <2>1, SubSeqProperties
<1>5. b \in Seq(LineBytes)
  <2>1. \A i \in n + 1 .. Len(port) : port[i] \in LineBytes
    BY <1>1, <1>2, ElementOfSeq
  <2>2. n + 1 \in Int /\ Len(port) \in Int
    BY <1>1, <1>2
  <2> QED
    BY <2>1, <2>2, SubSeqProperties
<1>6. a \o b = port
  <2>1. 1 \in 1 .. Len(port) + 1 /\ n \in 1 - 1 .. Len(port) /\ Len(port) \in n .. Len(port)
    BY <1>1, <1>2
  <2>2. a \o b = SubSeq(port, 1, Len(port))
    BY <1>1, <2>1, ConcatAdjacentSubSeq
  <2> QED
    BY <1>1, <2>2, SubSeqFull
<1> HIDE DEF a, b
<1>7. (got \o a) \o b = got \o port
  <2>0. got \in Seq(LineBytes) /\ a \in Seq(LineBytes) /\ b \in Seq(LineBytes)
    BY <1>1, <1>4, <1>5
  <2>1. (got \o a) \o b = got \o (a \o b)
    BY <2>0, ConcatAssociative, SMTT(30)
  <2> QED
    BY <1>6, <2>1
<1>8. got \o a \in Seq(LineBytes) /\ Len(got \o a) = Len(got) + n
  BY <1>1, <1>4, ConcatProperties
<1>9. Len(got \o a) <= Bytes(request.kind)
  BY <1>1, <1>2, <1>8 DEF missing
<1> QED
  BY <1>3, <1>5, <1>7, <1>8, <1>9

\* A byte that arrives moves from the line to the buffer, in order.
LEMMA ArriveMoves ==
    ASSUME LinkTypes, Arrive
    PROVE  /\ port' \in Seq(LineBytes) /\ line' \in Seq(LineBytes)
           /\ port' \o line' = port \o line
<1>1. port \in Seq(LineBytes) /\ line \in Seq(LineBytes) /\ line # <<>>
  BY DEF LinkTypes, Arrive
<1> DEFINE h == Head(line)
           one == <<h>>
           t == Tail(line)
<1>2. h \in LineBytes /\ one \in Seq(LineBytes) /\ t \in Seq(LineBytes) /\ line = one \o t
  BY <1>1, HeadAndTail
<1>3. port' = Append(port, h) /\ line' = t
  BY DEF Arrive
<1>4. port' = port \o one
  BY <1>1, <1>2, <1>3, AppendIsConcat
<1> HIDE DEF one, t, h
<1>5. (port \o one) \o t = port \o (one \o t) /\ port \o one \in Seq(LineBytes)
  BY <1>1, <1>2, ConcatAssociative, ConcatProperties
<1> QED
  BY <1>2, <1>3, <1>4, <1>5

LEMMA ReplyMoves ==
    ASSUME LinkTypes, Reply
    PROVE  /\ Head(asked) \in Requests /\ asked' \in Seq(Requests)
           /\ AnswerTo(Head(asked)) \in Seq(LineBytes)
           /\ line' \in Seq(LineBytes)
           /\ line' = line \o AnswerTo(Head(asked))
<1>1. asked \in Seq(Requests) /\ asked # <<>> /\ line \in Seq(LineBytes)
      /\ asked' = Tail(asked) /\ line' = line \o AnswerTo(Head(asked))
  BY DEF LinkTypes, Reply
<1>2. Head(asked) \in Requests /\ Tail(asked) \in Seq(Requests)
  BY <1>1, HeadAndTail
<1> DEFINE a == AnswerTo(Head(asked))
<1>3. a \in Seq(LineBytes)
  BY <1>2, AnswerBytes
<1> HIDE DEF a
<1>4. line \o a \in Seq(LineBytes)
  BY <1>1, <1>3, ConcatProperties
<1> QED
  BY <1>1, <1>2, <1>3, <1>4 DEF a

\* A damaged byte keeps its place.
LEMMA DamageKeeps ==
    ASSUME LinkTypes, Damage
    PROVE  /\ line \in Seq(LineBytes) /\ line' \in Seq(LineBytes) /\ Len(line') = Len(line)
           /\ \A i \in 1 .. Len(line) :
                /\ line[i].id = line'[i].id /\ line[i].kind = line'[i].kind
                /\ line[i].nr = line'[i].nr
<1>1. line \in Seq(LineBytes) /\ line # <<>> /\ Len(line) \in Nat /\ 1 \in 1 .. Len(line)
  BY EmptySeq, LenProperties DEF LinkTypes, Damage
<1> DEFINE e == [line[1] EXCEPT !.damaged = TRUE]
<1>2. line[1] \in LineBytes
  BY <1>1, ElementOfSeq
<1>3. e \in LineBytes /\ e.id = line[1].id /\ e.kind = line[1].kind /\ e.nr = line[1].nr
  BY <1>2 DEF LineBytes
<1>4. line' = [line EXCEPT ![1] = e]
  BY DEF Damage
<1> HIDE DEF e
<1>5. /\ [line EXCEPT ![1] = e] \in Seq(LineBytes) /\ Len([line EXCEPT ![1] = e]) = Len(line)
      /\ \A j \in 1 .. Len(line) : [line EXCEPT ![1] = e][j] = IF j = 1 THEN e ELSE line[j]
  BY <1>1, <1>3, ExceptSeq
<1> QED
  BY <1>1, <1>3, <1>4, <1>5

LEMMA InitTypes == Init => LinkTypes
<1> SUFFICES ASSUME Init PROVE LinkTypes
  OBVIOUS
<1>1. request \in Requests
  BY DEF Init, Requests
<1>2. /\ <<>> \in Seq(Requests) /\ <<>> \in Seq(LineBytes) /\ Len(<<>>) = 0
  BY EmptySeq
<1>3. 0 <= Bytes(request.kind)
  BY <1>1, RequestTypes
<1>4. ok \in BOOLEAN /\ reached \in BOOLEAN /\ quiet \in BOOLEAN
  BY DEF Init
<1> QED
  BY <1>1, <1>2, <1>3, <1>4 DEF LinkTypes, Init

LEMMA StepTypes == LinkTypes /\ [Next]_vars => LinkTypes'
<1> SUFFICES ASSUME LinkTypes, [Next]_vars PROVE LinkTypes'
  OBVIOUS
<1> USE DEF LinkTypes, vars, wire
<1>1. ASSUME NEW kind \in Kinds, Flush(kind) PROVE LinkTypes'
  <2>1. PICK id \in Ids : request' = [id |-> id, kind |-> kind]
    BY <1>1 DEF Flush
  <2>2. request' \in Requests
    BY <2>1 DEF Requests
  <2>3. stage' = "flushed" /\ asked' = asked /\ line' = line /\ port' = <<>> /\ got' = <<>>
    BY <1>1 DEF Flush, FlushRxUnlocked
  <2>4. <<>> \in Seq(LineBytes) /\ Len(<<>>) = 0
    BY EmptySeq
  <2>5. 0 <= Bytes(request'.kind)
    <3>1. \A r \in Requests : 0 <= Bytes(r.kind)
      BY RequestTypes
    <3> QED
      BY <2>2, <3>1
  <2>6. ok' \in BOOLEAN /\ reached' \in BOOLEAN /\ quiet' \in BOOLEAN
    BY <1>1, Zenon DEF Flush
  <2> QED
    BY <2>2, <2>3, <2>4, <2>5, <2>6
<1>2. CASE SendPacket
  <2>1. asked' \in Seq(Requests)
    <3>1. CASE asked' = asked
      BY <3>1
    <3>2. ASSUME NEW kind \in IF request.kind = "write" THEN {"write"} ELSE Reads,
                 asked' = Append(asked, [request EXCEPT !.kind = kind])
          PROVE  asked' \in Seq(Requests)
      <4>1. [request EXCEPT !.kind = kind] \in Requests
        BY DEF Requests, Kinds
      <4> QED
        BY <3>2, <4>1, AppendProperties
    <3> QED
      BY <1>2, <3>1, <3>2 DEF SendPacket
  <2>2. reached' \in BOOLEAN
    BY <1>2, Zenon DEF SendPacket
  <2> QED
    BY <1>2, <2>1, <2>2 DEF SendPacket
<1>3. CASE ShortWrite
  BY <1>3 DEF ShortWrite, Return
<1>4. CASE ReadBytes
  <2>1. got' \in Seq(LineBytes) /\ port' \in Seq(LineBytes) /\ Len(got') <= Bytes(request.kind)
    BY <1>4, ReadBytesMoves
  <2> QED
    BY <1>4, <2>1 DEF ReadBytes
<1>5. CASE Timeout
  BY <1>5 DEF Timeout, Return
<1>6. ASSUME NEW result \in BOOLEAN, AckChecked(result) PROVE LinkTypes'
  BY <1>6 DEF AckChecked, Return
<1>7. CASE CrcChecked
  <2>1. ok' \in BOOLEAN
    BY <1>7, Zenon DEF CrcChecked, Return, CrcMatches
  <2> QED
    BY <1>7, <2>1 DEF CrcChecked, Return
<1>8. CASE Reply
  <2>1. asked' \in Seq(Requests) /\ line' \in Seq(LineBytes)
    BY <1>8, ReplyMoves
  <2> QED
    BY <1>8, <2>1 DEF Reply
<1>9. CASE Arrive
  <2>1. port' \in Seq(LineBytes) /\ line' \in Seq(LineBytes)
    BY <1>9, ArriveMoves
  <2> QED
    BY <1>9, <2>1 DEF Arrive
<1>10. CASE Lose
  <2>1. line' \in Seq(LineBytes)
    BY <1>10, HeadAndTail DEF Lose
  <2> QED
    BY <1>10, <2>1 DEF Lose
<1>11. CASE Damage
  <2>1. line' \in Seq(LineBytes)
    BY <1>11, DamageKeeps
  <2> QED
    BY <1>11, <2>1 DEF Damage
<1>12. CASE UNCHANGED vars
  BY <1>12
<1> QED
  BY <1>1, <1>2, <1>3, <1>4, <1>5, <1>6, <1>7, <1>8, <1>9, <1>10, <1>11, <1>12 DEF Next

LEMMA TypesInvariant == Spec => []LinkTypes
BY InitTypes, StepTypes, PTL DEF Spec

\* Every variable of the link keeps its type; no transaction takes more bytes
\* than the answer to it has.
THEOREM LinkTypeCorrect == Spec => []TypeOK
BY Types, TypesInvariant, PTL

(***************************************************************************)
(* What is in flight for the transaction under way.                        *)
(***************************************************************************)

\* The bytes of the transaction, in the order they were sent.
Flight == (got \o port) \o line

\* The controllers have taken the request once at most and answer it once, and
\* they have not if the driver did not get it out.
OwnInv ==
    stage # "idle" =>
      /\ Sound(Flight, request.id, request.kind)
      /\ \A i \in DOMAIN asked : asked[i].id = request.id =>
           /\ request.kind = "write" => asked[i].kind = "write"
           /\ request.id \notin IdsOf(Flight)
           /\ \A j \in DOMAIN asked : asked[j].id = request.id => j = i
      /\ ~reached => request.id \notin IdsOf(asked) \cup IdsOf(Flight)

FlushInv == stage = "flushed" => got = <<>> /\ ~reached

\* On a line that was quiet only this transaction is in flight.
QuietInv == quiet /\ stage # "idle" => IdsOf(asked) \cup IdsOf(Flight) \subseteq {request.id}

DoneInv ==
    Done =>
      /\ request.kind \in Reads => CrcMatches(request.kind, got)
      /\ quiet => reached
      /\ quiet /\ request.kind \in Reads => got[1].id = request.id

LinkInv == LinkTypes /\ OwnInv /\ FlushInv /\ QuietInv /\ DoneInv

LEMMA FlightTypes ==
    ASSUME LinkTypes
    PROVE  /\ Flight \in Seq(LineBytes) /\ got \o port \in Seq(LineBytes)
           /\ IdsOf(Flight) = IdsOf(got) \cup IdsOf(port) \cup IdsOf(line)
<1>1. got \in Seq(LineBytes) /\ port \in Seq(LineBytes) /\ line \in Seq(LineBytes)
  BY DEF LinkTypes
<1> DEFINE p == got \o port
<1>2. p \in Seq(LineBytes) /\ IdsOf(p) = IdsOf(got) \cup IdsOf(port)
  BY <1>1, ConcatProperties, IdsConcat
<1> HIDE DEF p
<1>3. p \o line \in Seq(LineBytes) /\ IdsOf(p \o line) = IdsOf(p) \cup IdsOf(line)
  BY <1>1, <1>2, ConcatProperties, IdsConcat
<1> QED
  BY <1>2, <1>3 DEF Flight, p

\* What the transaction has is the beginning of it.
LEMMA FlightBegins ==
    ASSUME LinkTypes, NEW m \in 1 .. Len(got)
    PROVE  m \in DOMAIN Flight /\ Flight[m] = got[m]
<1> DEFINE p == got \o port
<1>1. got \in Seq(LineBytes) /\ port \in Seq(LineBytes) /\ line \in Seq(LineBytes)
      /\ Len(got) \in Nat /\ Len(port) \in Nat /\ Len(line) \in Nat
  BY LenProperties DEF LinkTypes
<1>2. /\ p \in Seq(LineBytes) /\ Len(p) = Len(got) + Len(port)
      /\ \A i \in 1 .. Len(got) + Len(port) : p[i] = IF i <= Len(got) THEN got[i] ELSE port[i - Len(got)]
  BY <1>1, ConcatProperties
<1> HIDE DEF p
<1>3. /\ p \o line \in Seq(LineBytes) /\ Len(p \o line) = Len(p) + Len(line)
      /\ \A i \in 1 .. Len(p) + Len(line) : (p \o line)[i] = IF i <= Len(p) THEN p[i] ELSE line[i - Len(p)]
  <2>1. p \in Seq(LineBytes) /\ line \in Seq(LineBytes)
    BY <1>1, <1>2
  <2> QED
    BY <2>1, ConcatProperties
<1>4. DOMAIN (p \o line) = 1 .. Len(p) + Len(line)
  BY <1>3, LenProperties
<1>5. m \in 1 .. Len(p) + Len(line) /\ m <= Len(p) /\ m \in 1 .. Len(got) + Len(port)
  BY <1>1, <1>2
<1>6. (p \o line)[m] = p[m] /\ p[m] = got[m]
  BY <1>2, <1>3, <1>5
<1> QED
  BY <1>4, <1>5, <1>6 DEF Flight, p

LEMMA FlightMoves == LinkTypes /\ (ReadBytes \/ Arrive) => Flight' = Flight
<1>1. ASSUME LinkTypes, ReadBytes PROVE Flight' = Flight
  BY <1>1, ReadBytesMoves DEF Flight, ReadBytes, wire
<1>2. ASSUME LinkTypes, Arrive PROVE Flight' = Flight
  <2>1. got' = got /\ port' \o line' = port \o line
        /\ port' \in Seq(LineBytes) /\ line' \in Seq(LineBytes)
    BY <1>2, ArriveMoves DEF Arrive
  <2>2. got \in Seq(LineBytes) /\ port \in Seq(LineBytes) /\ line \in Seq(LineBytes)
    BY <1>2 DEF LinkTypes
  <2>3. \A s, t \in Seq(LineBytes) : (got \o s) \o t = got \o (s \o t)
    BY <2>2, ConcatAssociative
  <2>4. (got \o port') \o line' = got \o (port' \o line')
    BY <2>1, <2>3, Zenon
  <2>5. (got \o port) \o line = got \o (port \o line)
    BY <2>2, <2>3, Zenon
  <2> QED
    BY <2>1, <2>4, <2>5, Zenon DEF Flight
<1> QED
  BY <1>1, <1>2

LEMMA FlightReply ==
    ASSUME LinkTypes, Reply
    PROVE  /\ Flight' = Flight \o AnswerTo(Head(asked))
           /\ IdsOf(Flight') = IdsOf(Flight) \cup {Head(asked).id}
           /\ IdsOf(asked) = {Head(asked).id} \cup IdsOf(asked')
<1> DEFINE a == AnswerTo(Head(asked))
           p == got \o port
<1>1. /\ Head(asked) \in Requests /\ a \in Seq(LineBytes) /\ line' = line \o a
  BY ReplyMoves
<1>2. IdsOf(a) = {Head(asked).id}
  BY <1>1, AnswerBytes
<1>3. p \in Seq(LineBytes) /\ line \in Seq(LineBytes) /\ Flight \in Seq(LineBytes)
  BY FlightTypes DEF LinkTypes
<1> HIDE DEF a, p
<1>4. (p \o line) \o a = p \o (line \o a)
  BY <1>1, <1>3, ConcatAssociative, SMTT(30)
<1>5. Flight' = Flight \o a
  BY <1>1, <1>4 DEF Flight, p, Reply
<1>6. IdsOf(Flight \o a) = IdsOf(Flight) \cup IdsOf(a)
  BY <1>1, <1>3, IdsConcat
<1>7. IdsOf(asked) = {Head(asked).id} \cup IdsOf(Tail(asked))
  BY IdsOfHeadTail DEF Reply, LinkTypes
<1> QED
  BY <1>2, <1>5, <1>6, <1>7 DEF Reply, a

LEMMA FlightLose ==
    ASSUME LinkTypes, Lose
    PROVE  /\ line' \in Seq(LineBytes) /\ Flight' = (got \o port) \o Tail(line)
           /\ IdsOf(line) = {Head(line).id} \cup IdsOf(line')
           /\ IdsOf(Flight') \subseteq IdsOf(Flight)
<1>1. line \in Seq(LineBytes) /\ line # <<>> /\ line' = Tail(line) /\ got' = got /\ port' = port
  BY DEF LinkTypes, Lose
<1>2. IdsOf(line) = {Head(line).id} \cup IdsOf(line')
  BY <1>1, IdsOfHeadTail
<1> DEFINE p == got \o port
           t == Tail(line)
<1>3. p \in Seq(LineBytes) /\ t \in Seq(LineBytes)
  BY <1>1, FlightTypes, HeadAndTail
<1> HIDE DEF p, t
<1>4. IdsOf(p \o line) = IdsOf(p) \cup IdsOf(line) /\ IdsOf(p \o t) = IdsOf(p) \cup IdsOf(t)
  BY <1>1, <1>3, IdsConcat
<1> QED
  BY <1>1, <1>2, <1>3, <1>4 DEF Flight, p, t

LEMMA FlightDamage ==
    ASSUME LinkTypes, Damage
    PROVE  IdsOf(line') = IdsOf(line) /\ IdsOf(Flight') = IdsOf(Flight)
<1>1. /\ line \in Seq(LineBytes) /\ line' \in Seq(LineBytes) /\ Len(line') = Len(line)
      /\ \A i \in 1 .. Len(line) : line[i].id = line'[i].id
      /\ got' = got /\ port' = port
  BY DamageKeeps DEF Damage
<1>2. DOMAIN line = 1 .. Len(line) /\ DOMAIN line' = 1 .. Len(line)
  BY <1>1, LenProperties
<1>3. IdsOf(line') = IdsOf(line)
  BY <1>1, <1>2 DEF IdsOf
<1> DEFINE p == got \o port
<1>4. p \in Seq(LineBytes)
  BY FlightTypes
<1> HIDE DEF p
<1>5. IdsOf(p \o line) = IdsOf(p) \cup IdsOf(line) /\ IdsOf(p \o line') = IdsOf(p) \cup IdsOf(line')
  BY <1>1, <1>4, IdsConcat
<1> QED
  BY <1>1, <1>3, <1>5 DEF Flight, p

LEMMA InitLink == Init => LinkInv
<1> SUFFICES ASSUME Init PROVE LinkInv
  OBVIOUS
<1> QED
  BY InitTypes DEF Init, LinkInv, OwnInv, FlushInv, QuietInv, DoneInv, Done

LEMMA FlushFlight ==
    ASSUME LinkTypes, NEW kind \in Kinds, Flush(kind)
    PROVE  /\ Flight' = line /\ asked' = asked /\ ~reached' /\ got' = <<>>
           /\ request'.id \notin IdsOf(asked) \cup IdsOf(line)
           /\ quiet' => IdsOf(asked) \cup IdsOf(line) = {}
<1>1. /\ got' = <<>> /\ port' = <<>> /\ line' = line /\ asked' = asked
      /\ line \in Seq(LineBytes)
  BY DEF Flush, FlushRxUnlocked, wire, LinkTypes
<1>2. <<>> \o <<>> = <<>> /\ <<>> \o line = line
  BY <1>1, ConcatEmptySeq, EmptySeq
<1>3. request'.id \notin OnTheWay
  BY DEF Flush
<1>4. quiet' => OnTheWay = {}
  BY DEF Flush
<1> QED
  BY <1>1, <1>2, <1>3, <1>4 DEF Flight, OnTheWay, Flush

LEMMA StepOwn == LinkInv /\ [Next]_vars => OwnInv'
<1> SUFFICES ASSUME LinkInv, [Next]_vars, stage' # "idle" PROVE OwnInv'
  BY DEF OwnInv
<1> USE DEF LinkInv
<1>a. request \in Requests /\ asked \in Seq(Requests) /\ DOMAIN asked = 1 .. Len(asked)
      /\ Len(asked) \in Nat /\ Flight \in Seq(LineBytes)
  BY FlightTypes, LenProperties DEF LinkTypes
<1>1. ASSUME NEW kind \in Kinds, Flush(kind) PROVE OwnInv'
  <2>1. /\ Flight' = line /\ asked' = asked /\ ~reached'
        /\ request'.id \notin IdsOf(asked) \cup IdsOf(line)
    BY <1>1, FlushFlight
  <2>2. Sound(Flight', request'.id, request'.kind)
    BY <2>1, SoundNone
  <2>3. \A i \in DOMAIN asked' : asked'[i].id # request'.id
    BY <2>1 DEF IdsOf
  <2> QED
    BY <2>1, <2>2, <2>3 DEF OwnInv
<1>2. CASE SendPacket
  <2>1. /\ Flight' = Flight /\ request' = request /\ stage = "flushed"
        /\ request.id \notin IdsOf(asked) \cup IdsOf(Flight)
        /\ Sound(Flight, request.id, request.kind)
    BY <1>2 DEF SendPacket, Flight, OwnInv, FlushInv
  <2>2. CASE asked' = asked /\ reached' = reached
    BY <2>1, <2>2 DEF OwnInv
  <2>3. ASSUME NEW kind \in IF request.kind = "write" THEN {"write"} ELSE Reads,
               asked' = Append(asked, [request EXCEPT !.kind = kind]), reached' = TRUE
        PROVE  OwnInv'
    <3> DEFINE r == [request EXCEPT !.kind = kind]
    <3>1. r \in Requests /\ (request.kind = "write" => r.kind = "write")
      BY <1>a DEF Requests, Kinds
    <3> HIDE DEF r
    <3>2. /\ Append(asked, r) \in Seq(Requests) /\ Len(Append(asked, r)) = Len(asked) + 1
          /\ \A i \in 1 .. Len(asked) : Append(asked, r)[i] = asked[i]
          /\ Append(asked, r)[Len(asked) + 1] = r
      BY <1>a, <3>1, AppendProperties
    <3>3. DOMAIN asked' = 1 .. Len(asked) + 1 /\ asked'[Len(asked) + 1] = r
      BY <2>3, <3>2, LenProperties DEF r
    <3>4. ASSUME NEW i \in DOMAIN asked', asked'[i].id = request.id
          PROVE  i = Len(asked) + 1
      <4>1. CASE i \in 1 .. Len(asked)
        <5>1. asked'[i] = asked[i]
          BY <2>3, <3>2, <4>1 DEF r
        <5> QED
          BY <1>a, <2>1, <3>4, <4>1, <5>1 DEF IdsOf
      <4> QED
        BY <1>a, <3>3, <4>1
    <3> QED
      BY <2>1, <2>3, <3>1, <3>3, <3>4 DEF OwnInv
  <2> QED
    BY <1>2, <2>2, <2>3 DEF SendPacket
<1>3. CASE ReadBytes
  <2>1. /\ Flight' = Flight /\ request' = request /\ asked' = asked /\ reached' = reached
        /\ stage # "idle"
    BY <1>3, FlightMoves DEF ReadBytes, wire
  <2> QED
    BY <2>1 DEF OwnInv
<1>4. CASE Reply
  <2>1. /\ stage # "idle" /\ request' = request /\ reached' = reached
        /\ Head(asked) \in Requests /\ asked' = Tail(asked) /\ asked # <<>>
        /\ Flight' = Flight \o AnswerTo(Head(asked)) /\ AnswerTo(Head(asked)) \in Seq(LineBytes)
        /\ IdsOf(Flight') = IdsOf(Flight) \cup {Head(asked).id}
        /\ IdsOf(asked) = {Head(asked).id} \cup IdsOf(asked')
    BY <1>4, ReplyMoves, FlightReply DEF Reply
  <2>2. /\ Head(asked) = asked[1] /\ 1 \in DOMAIN asked /\ DOMAIN asked' = 1 .. Len(asked) - 1
        /\ \A i \in 1 .. Len(asked) - 1 : asked'[i] = asked[i + 1]
    <3>1. Len(asked) >= 1
      BY <1>a, <2>1, EmptySeq
    <3>2. Tail(asked) \in Seq(Requests) /\ Len(Tail(asked)) = Len(asked) - 1
          /\ \A i \in 1 .. Len(Tail(asked)) : Tail(asked)[i] = asked[i + 1]
      BY <1>a, <2>1, HeadTailProperties
    <3>3. DOMAIN Tail(asked) = 1 .. Len(Tail(asked))
      BY <3>2, LenProperties
    <3> QED
      BY <1>a, <2>1, <3>1, <3>2, <3>3, HeadAndTail
  <2> DEFINE a == AnswerTo(Head(asked))
  <2>3. IdsOf(a) = {Head(asked).id}
    BY <2>1, AnswerBytes
  <2>4. Sound(Flight, request.id, request.kind) /\ (~reached => request.id \notin IdsOf(asked) \cup IdsOf(Flight))
    BY <2>1 DEF OwnInv
  <2>5. CASE Head(asked).id = request.id
    <3>1. /\ request.kind = "write" => Head(asked).kind = "write"
          /\ request.id \notin IdsOf(Flight)
          /\ \A j \in DOMAIN asked : asked[j].id = request.id => j = 1
      BY <2>1, <2>2, <2>5 DEF OwnInv
    <3>2. Sound(a, request.id, request.kind)
      BY <2>1, <3>1, SoundAnswer
    <3>3. Sound(Flight', request.id, request.kind)
      <4> HIDE DEF a
      <4>1. Sound(Flight \o a, request.id, request.kind)
        BY <1>a, <2>1, <2>4, <3>1, <3>2, SoundConcat DEF a
      <4> QED
        BY <2>1, <4>1 DEF a
    <3>4. \A i \in DOMAIN asked' : asked'[i].id # request.id
      BY <1>a, <2>2, <3>1
    <3>5. reached
      BY <2>1, <2>4, <2>5
    <3> QED
      BY <2>1, <3>3, <3>4, <3>5 DEF OwnInv
  <2>6. CASE Head(asked).id # request.id
    <3>1. request.id \notin IdsOf(a)
      BY <2>3, <2>6
    <3>2. Sound(Flight', request.id, request.kind)
      <4>1. Sound(a, request.id, request.kind)
        BY <3>1, SoundNone
      <4> HIDE DEF a
      <4>2. Sound(Flight \o a, request.id, request.kind)
        BY <1>a, <2>1, <2>4, <3>1, <4>1, SoundConcat DEF a
      <4> QED
        BY <2>1, <4>2 DEF a
    <3>3. ASSUME NEW i \in DOMAIN asked', asked'[i].id = request.id
          PROVE  /\ request.kind = "write" => asked'[i].kind = "write"
                 /\ request.id \notin IdsOf(Flight')
                 /\ \A j \in DOMAIN asked' : asked'[j].id = request.id => j = i
      <4>1. i + 1 \in DOMAIN asked /\ asked'[i] = asked[i + 1]
        BY <1>a, <2>2
      <4>2. /\ request.kind = "write" => asked[i + 1].kind = "write"
            /\ request.id \notin IdsOf(Flight)
            /\ \A j \in DOMAIN asked : asked[j].id = request.id => j = i + 1
        BY <2>1, <3>3, <4>1 DEF OwnInv
      <4>3. ASSUME NEW j \in DOMAIN asked', asked'[j].id = request.id PROVE j = i
        <5>1. j + 1 \in DOMAIN asked /\ asked'[j] = asked[j + 1]
          BY <1>a, <2>2
        <5>2. j + 1 = i + 1
          BY <4>2, <4>3, <5>1
        <5> QED
          BY <2>2, <5>2
      <4> QED
        BY <2>1, <2>6, <4>1, <4>2, <4>3
    <3>4. ~reached' => request.id \notin IdsOf(asked') \cup IdsOf(Flight')
      BY <2>1, <2>4, <2>6
    <3> QED
      BY <2>1, <3>2, <3>3, <3>4 DEF OwnInv
  <2> QED
    BY <2>5, <2>6
<1>5. CASE Arrive
  <2>1. /\ Flight' = Flight /\ request' = request /\ asked' = asked /\ reached' = reached
        /\ stage # "idle"
    BY <1>5, FlightMoves DEF Arrive
  <2> QED
    BY <2>1 DEF OwnInv
<1>6. ASSUME UNCHANGED <<stage, request, asked, reached>>,
             IdsOf(Flight') \subseteq IdsOf(Flight),
             Sound(Flight', request.id, request.kind)
      PROVE  OwnInv'
  BY <1>6 DEF OwnInv
<1>7. CASE Lose
  <2>1. /\ Flight' = (got \o port) \o Tail(line) /\ IdsOf(Flight') \subseteq IdsOf(Flight)
        /\ got \o port \in Seq(LineBytes) /\ line \in Seq(LineBytes) /\ line # <<>>
    BY <1>7, FlightLose, FlightTypes DEF Lose, LinkTypes
  <2>2. Sound(Flight, request.id, request.kind)
    BY <1>7 DEF Lose, OwnInv
  <2> DEFINE p == got \o port
  <2>3. Sound(p \o line, request.id, request.kind)
    BY <2>2 DEF Flight
  <2> HIDE DEF p
  <2>4. Sound(p \o Tail(line), request.id, request.kind)
    BY <2>1, <2>3, SoundLose DEF p
  <2> QED
    BY <1>6, <1>7, <2>1, <2>4 DEF Lose, p
<1>8. CASE Damage
  <2>1. /\ line \in Seq(LineBytes) /\ line' \in Seq(LineBytes) /\ Len(line) = Len(line')
        /\ \A i \in 1 .. Len(line) :
             line[i].id = line'[i].id /\ line[i].kind = line'[i].kind /\ line[i].nr = line'[i].nr
    BY <1>8, DamageKeeps
  <2> DEFINE p == got \o port
  <2>2. p \in Seq(LineBytes) /\ Flight = p \o line /\ Flight' = p \o line'
        /\ IdsOf(Flight') = IdsOf(Flight)
    BY <1>8, FlightTypes, FlightDamage DEF Flight, Damage
  <2>3. Sound(Flight, request.id, request.kind)
    BY <1>8 DEF Damage, OwnInv
  <2> HIDE DEF p
  <2>4. Sound(p \o line', request.id, request.kind)
    <3>1. \A t \in Seq(LineBytes) :
            /\ Len(line) = Len(t)
            /\ \A i \in 1 .. Len(line) :
                 line[i].id = t[i].id /\ line[i].kind = t[i].kind /\ line[i].nr = t[i].nr
            => Sound(p \o t, request.id, request.kind)
      BY <2>1, <2>2, <2>3, SoundDamage
    <3> QED
      BY <2>1, <3>1, Zenon
  <2> QED
    BY <1>6, <1>8, <2>2, <2>4 DEF Damage
<1>9. CASE UNCHANGED vars
  BY <1>9 DEF vars, wire, OwnInv, Flight
<1> QED
  BY <1>1, <1>2, <1>3, <1>4, <1>5, <1>7, <1>8, <1>9
     DEF Next, ShortWrite, Timeout, AckChecked, CrcChecked, Return

LEMMA StepFlush == LinkInv /\ [Next]_vars => FlushInv'
BY DEF LinkInv, FlushInv, Next, vars, wire, Flush, SendPacket, ShortWrite, ReadBytes, Timeout,
       AckChecked, CrcChecked, Return, Reply, Arrive, Lose, Damage

\* The driver and the line add nothing to what is in flight but a request.
LEMMA StepQuiet == LinkInv /\ [Next]_vars => QuietInv'
<1> SUFFICES ASSUME LinkInv, [Next]_vars, quiet', stage' # "idle" PROVE QuietInv'
  BY DEF QuietInv
<1> USE DEF LinkInv
<1> DEFINE Ids0 == IdsOf(asked) \cup IdsOf(Flight)
<1>1. ASSUME NEW kind \in Kinds, Flush(kind) PROVE QuietInv'
  BY <1>1, FlushFlight DEF QuietInv
<1>2. CASE SendPacket
  <2>1. Flight' = Flight /\ request' = request /\ Ids0 \subseteq {request.id}
    BY <1>2 DEF SendPacket, Flight, QuietInv
  <2>2. IdsOf(asked') \subseteq IdsOf(asked) \cup {request.id}
    <3>1. CASE asked' = asked
      BY <3>1
    <3>2. ASSUME NEW kind \in IF request.kind = "write" THEN {"write"} ELSE Reads,
                 asked' = Append(asked, [request EXCEPT !.kind = kind])
          PROVE  IdsOf(asked') = IdsOf(asked) \cup {request.id}
      <4> DEFINE r == [request EXCEPT !.kind = kind]
      <4>1. r \in Requests /\ r.id = request.id /\ asked \in Seq(Requests)
        BY DEF Requests, Kinds, LinkTypes
      <4> HIDE DEF r
      <4>2. IdsOf(Append(asked, r)) = IdsOf(asked) \cup {r.id}
        BY <4>1, IdsOfAppend
      <4> QED
        BY <3>2, <4>1, <4>2, Zenon DEF r
    <3> QED
      BY <1>2, <3>1, <3>2 DEF SendPacket
  <2> QED
    BY <2>1, <2>2 DEF QuietInv
<1>3. ASSUME UNCHANGED <<stage, request, quiet>>,
             IdsOf(asked') \cup IdsOf(Flight') \subseteq Ids0
      PROVE  QuietInv'
  BY <1>3 DEF QuietInv
<1>4. CASE ReadBytes \/ Arrive
  BY <1>3, <1>4, FlightMoves DEF ReadBytes, Arrive, wire
<1>5. CASE Reply
  BY <1>3, <1>5, FlightReply DEF Reply
<1>6. CASE Lose
  BY <1>3, <1>6, FlightLose DEF Lose
<1>7. CASE Damage
  BY <1>3, <1>7, FlightDamage DEF Damage
<1>8. CASE UNCHANGED vars
  BY <1>8 DEF vars, wire, QuietInv, Flight
<1> QED
  BY <1>1, <1>2, <1>4, <1>5, <1>6, <1>7, <1>8
     DEF Next, ShortWrite, Timeout, AckChecked, CrcChecked, Return

\* A transaction that has a byte has one that is in flight.
LEMMA FirstByte ==
    ASSUME LinkInv, stage = "waiting", Len(got) >= 1
    PROVE  got[1].id \in IdsOf(Flight) /\ (got[1].id = request.id => reached)
<1>1. got \in Seq(LineBytes) /\ DOMAIN got = 1 .. Len(got) /\ Len(got) \in Nat
  BY LenProperties DEF LinkInv, LinkTypes
<1>2. got[1].id \in IdsOf(got)
  BY <1>1 DEF IdsOf
<1> QED
  BY <1>2, FlightTypes DEF LinkInv, OwnInv

LEMMA StepDone == LinkInv /\ [Next]_vars => DoneInv'
<1> SUFFICES ASSUME LinkInv, [Next]_vars, Done' PROVE DoneInv'
  BY DEF DoneInv
<1> USE DEF Done
<1>1. ASSUME UNCHANGED <<stage, request, got, ok, reached, quiet>> PROVE DoneInv'
  BY <1>1 DEF LinkInv, DoneInv, CrcMatches
<1>2. ASSUME stage = "waiting", Len(got) >= 1, quiet, reached' = reached PROVE reached /\ got[1].id = request.id
  BY <1>2, FirstByte DEF LinkInv, QuietInv
<1>3. ASSUME NEW result \in BOOLEAN, AckChecked(result) PROVE DoneInv'
  <2>1. request'.kind \notin Reads
    BY <1>3, LinkAssumption DEF AckChecked
  <2>2. quiet' => reached'
    BY <1>2, <1>3 DEF AckChecked
  <2> QED
    BY <2>1, <2>2 DEF DoneInv
<1>4. CASE CrcChecked
  <2>1. CrcMatches(request.kind, got) /\ UNCHANGED <<request, got, reached, quiet>>
    BY <1>4, Zenon DEF CrcChecked, Return
  <2>2. Len(got) >= 1
    BY <1>4, LinkAssumption DEF CrcChecked
  <2>3. quiet => reached /\ got[1].id = request.id
    BY <1>2, <1>4, <2>2 DEF CrcChecked
  <2> QED
    BY <2>1, <2>3 DEF DoneInv, CrcMatches
<1> QED
  BY <1>1, <1>3, <1>4
     DEF Next, vars, wire, Flush, SendPacket, ShortWrite, ReadBytes, Timeout, Return,
         Reply, Arrive, Lose, Damage

LEMMA LinkNext == LinkInv /\ [Next]_vars => LinkInv'
BY StepTypes, StepOwn, StepFlush, StepQuiet, StepDone DEF LinkInv

LEMMA LinkInvariant == Spec => []LinkInv
BY InitLink, LinkNext, PTL DEF Spec

\* A write that was acknowledged on a quiet line was taken by the controller,
\* whatever the line loses or damages.
THEOREM AckAlwaysMeansDone == Spec => []AckMeansDone
<1>1. LinkInv => AckMeansDone
  BY DEF LinkInv, DoneInv, AckMeansDone, Done
<1> QED
  BY <1>1, LinkInvariant, PTL

\* A read that succeeds has the whole, undamaged answer of one query for its
\* register, and on a quiet line the answer to its own.
THEOREM ReadsAlwaysRight == Spec => []ReadsAreRight
<1>1. LinkInv => ReadsAreRight
  <2> SUFFICES ASSUME LinkInv, Done, request.kind \in Reads
               PROVE  /\ \A i \in DOMAIN got :
                           /\ got[i].kind = request.kind /\ ~got[i].damaged
                           /\ got[i].nr = i /\ got[i].id = got[1].id
                      /\ quiet => reached /\ got[1].id = request.id
    BY DEF ReadsAreRight
  <2>1. PICK id \in Ids : got = AnswerTo([id |-> id, kind |-> request.kind])
    BY DEF LinkInv, DoneInv, CrcMatches
  <2> DEFINE r == [id |-> id, kind |-> request.kind]
  <2>2. r \in Requests /\ r.id = id /\ r.kind = request.kind
    BY DEF Requests, Kinds
  <2> HIDE DEF r
  <2>3. \A i \in DOMAIN got : got[i] = Byte(r, i)
    BY <2>1 DEF r, AnswerTo
  <2>4. 1 \in DOMAIN got
    <3>1. DOMAIN AnswerTo(r) = 1 .. Bytes(r.kind)
      BY DEF AnswerTo
    <3> QED
      BY <2>1, <2>2, <3>1, RequestTypes DEF r
  <2>5. \A i \in DOMAIN got :
          /\ got[i].kind = request.kind /\ ~got[i].damaged
          /\ got[i].nr = i /\ got[i].id = id
    BY <2>2, <2>3 DEF Byte
  <2> QED
    BY <2>4, <2>5 DEF LinkInv, DoneInv
<1> QED
  BY <1>1, LinkInvariant, PTL

(***************************************************************************)
(* The driver gives its callers the outcomes of SerialOutcomes.            *)
(***************************************************************************)

\* The variable late of SerialTransactions, as INSTANCE replaces it.
Late == InFlight \ (IF stage = "idle" THEN {} ELSE {request.id}) # {}

LEMMA InFlightIds ==
    ASSUME LinkInv
    PROVE  /\ stage # "idle" => InFlight = IdsOf(asked) \cup IdsOf(Flight)
           /\ stage # "idle" => (Late <=> ~(InFlight \subseteq {request.id}))
           /\ stage = "idle" => InFlight = IdsOf(asked) \cup IdsOf(line) \cup IdsOf(port)
           /\ stage = "idle" => (Late <=> InFlight # {})
<1>1. IdsOf(Flight) = IdsOf(got) \cup IdsOf(port) \cup IdsOf(line)
  BY FlightTypes DEF LinkInv
<1>2. stage = "flushed" => IdsOf(got) = {}
  BY IdsOfNone DEF LinkInv, FlushInv
<1>3. stage \in {"idle", "flushed", "waiting"}
  BY DEF LinkInv, LinkTypes
<1> QED
  BY <1>1, <1>2, <1>3 DEF InFlight, OnTheWay, Late

\* A transaction that returns leaves behind what its own request is late with,
\* and what was late before.
LEMMA ReturnsOutcome ==
    ASSUME NEW result \in BOOLEAN, stage # "idle", Return(result), reached' = reached,
           result => reached \/ Late,
           Late' => Late \/ (reached /\ ~result)
    PROVE  Transactions!Return
<1> DEFINE o == [ok |-> result, late |-> Late']
<1>1. o.ok = result /\ o.late = Late' /\ Late' \in BOOLEAN
  BY Zenon DEF Late
<1>2. o \in [ok : BOOLEAN, late : BOOLEAN]
  BY <1>1
<1> HIDE DEF o
<1>3. o \in Transactions!Outcomes(Late, reached)
  BY <1>1, <1>2 DEF Transactions!Outcomes
<1>4. ok' = o.ok /\ Late' = o.late
  BY <1>1 DEF Return
<1>5. (stage # "idle") /\ (stage' # "idle") = FALSE
  BY DEF Return
<1> QED
  BY <1>3, <1>4, <1>5, Zenon DEF Transactions!Return, Late

\* What is in flight when a transaction returns was so before.
LEMMA ReturnKeeps ==
    ASSUME LinkInv, LinkInv', stage # "idle", stage' = "idle",
           UNCHANGED <<request, wire, port, got, reached, quiet>>
    PROVE  InFlight' \subseteq InFlight /\ (Late' => Late \/ reached)
<1>1. InFlight' = IdsOf(asked) \cup IdsOf(line) \cup IdsOf(port)
      /\ (Late' <=> InFlight' # {})
  BY IdsOfNone DEF InFlight, OnTheWay, Late, wire
<1>2. InFlight = IdsOf(asked) \cup IdsOf(Flight) /\ (Late <=> ~(InFlight \subseteq {request.id}))
      /\ IdsOf(Flight) = IdsOf(got) \cup IdsOf(port) \cup IdsOf(line)
  BY InFlightIds, FlightTypes DEF LinkInv
<1>3. ~reached => request.id \notin InFlight
  BY <1>2 DEF LinkInv, OwnInv
<1> QED
  BY <1>1, <1>2, <1>3

\* Once the whole answer has been taken nothing of this request is left.
LEMMA AnswerIsAll ==
    ASSUME LinkInv, stage = "waiting", Len(got) >= 1, ~Late,
           got[Len(got)].nr = Bytes(got[Len(got)].kind)
    PROVE  IdsOf(asked) \cup IdsOf(line) \cup IdsOf(port) = {}
<1>1. InFlight = IdsOf(asked) \cup IdsOf(Flight) /\ InFlight \subseteq {request.id}
      /\ IdsOf(Flight) = IdsOf(got) \cup IdsOf(port) \cup IdsOf(line)
  BY InFlightIds, FlightTypes DEF LinkInv
<1>2. got \in Seq(LineBytes) /\ port \in Seq(LineBytes) /\ line \in Seq(LineBytes)
      /\ Len(got) \in Nat /\ DOMAIN got = 1 .. Len(got) /\ asked \in Seq(Requests)
  BY LenProperties DEF LinkInv, LinkTypes
<1>3. request.id \in IdsOf(Flight)
  <2>1. got[1].id \in IdsOf(Flight)
    BY FirstByte
  <2> QED
    BY <1>1, <2>1
<1>4. IdsOf(asked) = {}
  <2>1. \A i \in DOMAIN asked : asked[i].id # request.id
    BY <1>3 DEF LinkInv, OwnInv
  <2> QED
    BY <1>1, <2>1 DEF IdsOf
<1> DEFINE rest == port \o line
<1>5. rest \in Seq(LineBytes) /\ IdsOf(rest) = IdsOf(port) \cup IdsOf(line)
  BY <1>2, ConcatProperties, IdsConcat
<1>6. Flight = got \o rest
  BY <1>2, ConcatAssociative, SMTT(30) DEF Flight
<1> HIDE DEF rest
<1>7. /\ Len(got \o rest) = Len(got) + Len(rest) /\ got \o rest \in Seq(LineBytes)
      /\ \A i \in 1 .. Len(got) + Len(rest) :
           (got \o rest)[i] = IF i <= Len(got) THEN got[i] ELSE rest[i - Len(got)]
  BY <1>2, <1>5, ConcatProperties
<1>8. Len(rest) \in Nat /\ DOMAIN rest = 1 .. Len(rest)
      /\ DOMAIN Flight = 1 .. Len(got) + Len(rest)
  BY <1>5, <1>6, <1>7, LenProperties
<1>9. ASSUME NEW j \in DOMAIN rest PROVE FALSE
  <2> DEFINE m == Len(got)
             k == Len(got) + j
  <2>1. m \in DOMAIN Flight /\ k \in DOMAIN Flight /\ m < k /\ ~(k <= Len(got)) /\ k - Len(got) = j
    BY <1>2, <1>8
  <2>2. Flight[m] = got[m]
    BY <1>2, <1>6, <1>7, <1>8
  <2>3. Flight[k] = rest[j]
    BY <1>6, <1>7, <1>8, <2>1
  <2> HIDE DEF m, k
  <2>4. Flight[m].id = request.id /\ Flight[k].id = request.id
    BY <1>1, <2>1 DEF IdsOf
  <2>5. Sound(Flight, request.id, request.kind)
    BY DEF LinkInv, OwnInv
  <2>6. Flight[m].kind = Flight[k].kind /\ Flight[m].nr < Flight[k].nr
    BY <2>1, <2>4, <2>5 DEF Sound
  <2>7. Flight[k].nr \in 1 .. Bytes(Flight[k].kind)
    BY <2>1, <2>4, <2>5 DEF Sound
  <2>8. Flight[m].nr = Bytes(Flight[m].kind)
    BY <2>2 DEF m
  <2>9. Flight[m] \in LineBytes
    BY <2>1, FlightTypes, ElementOfSeq, <1>7, <1>8, <1>6
  <2>10. Bytes(Flight[m].kind) \in Nat
    BY <2>9, BytesTypes DEF LineBytes
  <2> QED
    BY <2>6, <2>7, <2>8, <2>10
<1>10. IdsOf(rest) = {}
  BY <1>9 DEF IdsOf
<1> QED
  BY <1>4, <1>5, <1>10

LEMMA InitTransactions == Init => Transactions!Init
<1> SUFFICES ASSUME Init PROVE Transactions!Init
  OBVIOUS
<1>1. ~Late
  BY IdsOfNone DEF Init, Late, InFlight, OnTheWay
<1>2. Late = FALSE /\ (stage # "idle") = FALSE /\ reached = FALSE /\ ok = FALSE
  BY <1>1, Zenon DEF Init, Late
<1> QED
  BY <1>2, Zenon DEF Transactions!Init, Late

LEMMA StepTransactions == LinkInv /\ [Next]_vars => [Transactions!Next]_(Transactions!vars)
<1> SUFFICES ASSUME LinkInv, [Next]_vars PROVE [Transactions!Next]_(Transactions!vars)
  OBVIOUS
<1>i. LinkInv'
  BY LinkNext
<1>n. /\ stage' # "idle" => InFlight' = IdsOf(asked') \cup IdsOf(Flight')
      /\ stage' # "idle" => (Late' <=> ~(InFlight' \subseteq {request'.id}))
      /\ stage' = "idle" => InFlight' = IdsOf(asked') \cup IdsOf(line') \cup IdsOf(port')
      /\ stage' = "idle" => (Late' <=> InFlight' # {})
  <2>1. (LinkInv =>
          /\ stage # "idle" => InFlight = IdsOf(asked) \cup IdsOf(Flight)
          /\ stage # "idle" => (Late <=> ~(InFlight \subseteq {request.id}))
          /\ stage = "idle" => InFlight = IdsOf(asked) \cup IdsOf(line) \cup IdsOf(port)
          /\ stage = "idle" => (Late <=> InFlight # {}))'
    BY InFlightIds, PTL
  <2> QED
    BY <1>i, <2>1
<1>o. /\ stage # "idle" => InFlight = IdsOf(asked) \cup IdsOf(Flight)
      /\ stage # "idle" => (Late <=> ~(InFlight \subseteq {request.id}))
      /\ stage = "idle" => InFlight = IdsOf(asked) \cup IdsOf(line) \cup IdsOf(port)
      /\ stage = "idle" => (Late <=> InFlight # {})
  BY InFlightIds
<1>s. ASSUME UNCHANGED <<stage, reached, ok>>, Late' => Late
      PROVE  [Transactions!Next]_(Transactions!vars)
  <2>1. CASE Late
    <3>1. CASE Late'
      <4>1. Late' = Late
        BY <2>1, <3>1, Zenon DEF Late
      <4> QED
        BY <1>s, <4>1, Zenon DEF Transactions!vars, Late
    <3>2. CASE ~Late'
      <4>1. Late' = FALSE
        BY <3>2, Zenon DEF Late
      <4>2. Transactions!Settle
        BY <1>s, <4>1, Zenon DEF Transactions!Settle, Late
      <4> QED
        BY <4>2, Zenon DEF Transactions!Next
    <3> QED
      BY <3>1, <3>2
  <2>2. CASE ~Late
    <3>1. Late' = Late
      BY <1>s, <2>2, Zenon DEF Late
    <3> QED
      BY <1>s, <3>1, Zenon DEF Transactions!vars, Late
  <2> QED
    BY <2>1, <2>2
<1>1. ASSUME NEW kind \in Kinds, Flush(kind) PROVE Transactions!Next
  <2>1. /\ stage = "idle" /\ stage' = "flushed" /\ reached' = FALSE /\ ok' = FALSE
    BY <1>1 DEF Flush
  <2>2. Late' => Late
    <3>1. /\ Flight' = line /\ asked' = asked
      BY <1>1, FlushFlight DEF LinkInv
    <3> QED
      BY <1>n, <1>o, <2>1, <3>1
  <2>3. Late' \in {FALSE, Late}
    BY <2>2, Zenon DEF Late
  <2>4. Transactions!Begin
    <3>1. ~(stage # "idle") /\ (stage' # "idle") = TRUE
      BY <2>1
    <3> QED
      BY <2>1, <2>3, <3>1, Zenon DEF Transactions!Begin, Late
  <2> QED
    BY <2>4, Zenon DEF Transactions!Next
<1>2. CASE SendPacket
  <2>1. /\ stage = "flushed" /\ stage' = "waiting" /\ request' = request /\ ok' = ok
        /\ Flight' = Flight
    BY <1>2 DEF SendPacket, Flight
  <2>2. CASE asked' = asked /\ reached' = reached
    <3>1. Late' = Late
      <4>1. Late' <=> Late
        BY <1>n, <1>o, <2>1, <2>2
      <4> QED
        BY <4>1, Zenon DEF Late
    <3>2. (stage' # "idle") = (stage # "idle")
      BY <2>1
    <3> QED
      BY <2>1, <2>2, <3>1, <3>2, Zenon DEF Transactions!vars, Late
  <2>3. ASSUME NEW kind \in IF request.kind = "write" THEN {"write"} ELSE Reads,
               asked' = Append(asked, [request EXCEPT !.kind = kind]), reached' = TRUE
        PROVE  Transactions!Next
    <3> DEFINE r == [request EXCEPT !.kind = kind]
    <3>1. r \in Requests /\ r.id = request.id /\ asked \in Seq(Requests)
      BY DEF Requests, Kinds, LinkInv, LinkTypes
    <3> HIDE DEF r
    <3>2. IdsOf(Append(asked, r)) = IdsOf(asked) \cup {r.id}
      BY <3>1, IdsOfAppend
    <3>3. IdsOf(asked') = IdsOf(asked) \cup {request.id}
      BY <2>3, <3>1, <3>2, Zenon DEF r
    <3>4. Late' <=> Late
      BY <1>n, <1>o, <2>1, <3>3
    <3>5. Late' = Late
      BY <3>4, Zenon DEF Late
    <3>6. (stage' # "idle") = (stage # "idle") /\ stage # "idle"
      BY <2>1
    <3>7. Transactions!Reach
      BY <2>1, <2>3, <3>5, <3>6, Zenon DEF Transactions!Reach, Late
    <3> QED
      BY <3>7, Zenon DEF Transactions!Next
  <2> QED
    BY <1>2, <2>2, <2>3 DEF SendPacket
<1>3. ASSUME stage # "idle", Return(FALSE), UNCHANGED <<request, wire, port, got, reached, quiet>>
      PROVE  Transactions!Next
  <2>1. Late' => Late \/ reached
    BY <1>i, <1>3, ReturnKeeps DEF Return
  <2>2. Transactions!Return
    BY <1>3, <2>1, ReturnsOutcome
  <2> QED
    BY <2>2, Zenon DEF Transactions!Next
<1>4. ASSUME stage = "waiting", Return(TRUE), UNCHANGED <<request, wire, port, got, reached, quiet>>,
             Len(got) >= 1, got[Len(got)].nr = Bytes(got[Len(got)].kind)
      PROVE  Transactions!Next
  <2>1. TRUE => reached \/ Late
    BY <1>4, <1>o, FirstByte
  <2>2. Late' => Late \/ (reached /\ ~TRUE)
    <3> SUFFICES ASSUME ~Late PROVE ~Late'
      OBVIOUS
    <3>1. IdsOf(asked) \cup IdsOf(line) \cup IdsOf(port) = {}
      BY <1>4, AnswerIsAll
    <3> QED
      BY <1>4, <1>n, <3>1 DEF Return, wire
  <2>3. Transactions!Return
    BY <1>4, <2>1, <2>2, ReturnsOutcome
  <2> QED
    BY <2>3, Zenon DEF Transactions!Next
<1>5. CASE ShortWrite
  BY <1>3, <1>5 DEF ShortWrite
<1>6. CASE Timeout
  BY <1>3, <1>6 DEF Timeout
<1>7. ASSUME NEW result \in BOOLEAN, AckChecked(result) PROVE Transactions!Next
  <2>1. CASE result = FALSE
    BY <1>3, <1>7, <2>1 DEF AckChecked
  <2>2. CASE result = TRUE
    <3>1. stage = "waiting" /\ Len(got) = 1 /\ request.kind = "write"
      BY <1>7 DEF AckChecked
    <3>2. CASE Late
      <4>1. Late' => Late \/ (reached /\ ~TRUE)
        BY <3>2
      <4>2. Transactions!Return
        BY <1>7, <2>2, <3>1, <3>2, <4>1, ReturnsOutcome DEF AckChecked
      <4> QED
        BY <4>2, Zenon DEF Transactions!Next
    <3>3. CASE ~Late
      <4>1. got[1].id = request.id
        BY <1>o, <3>1, <3>3, FirstByte
      <4>2. 1 \in DOMAIN Flight /\ Flight[1] = got[1]
        BY <3>1, FlightBegins DEF LinkInv
      <4>3. Flight[1].kind = "write" /\ Flight[1].nr \in 1 .. Bytes(Flight[1].kind)
        BY <3>1, <4>1, <4>2 DEF LinkInv, OwnInv, Sound
      <4>4. got[Len(got)].nr = Bytes(got[Len(got)].kind)
        BY <3>1, <4>2, <4>3 DEF Bytes
      <4> QED
        BY <1>4, <1>7, <2>2, <3>1, <4>4 DEF AckChecked
    <3> QED
      BY <3>2, <3>3
  <2> QED
    BY <2>1, <2>2
<1>8. CASE CrcChecked
  <2>1. stage = "waiting" /\ Len(got) >= 1 /\ Len(got) = Answer(request.kind)
        /\ request.kind \in Reads /\ UNCHANGED <<request, wire, port, got, reached, quiet>>
    BY <1>8, LinkAssumption DEF CrcChecked
  <2>2. CASE ~CrcMatches(request.kind, got)
    <3>1. Return(FALSE)
      BY <1>8, <2>2, Zenon DEF CrcChecked, Return, CrcMatches
    <3> QED
      BY <1>3, <2>1, <3>1
  <2>3. CASE CrcMatches(request.kind, got)
    <3>1. Return(TRUE)
      BY <1>8, <2>3, Zenon DEF CrcChecked, Return, CrcMatches
    <3>2. PICK id \in Ids : got = AnswerTo([id |-> id, kind |-> request.kind])
      BY <2>3 DEF CrcMatches
    <3> DEFINE r == [id |-> id, kind |-> request.kind]
    <3>3. r \in Requests /\ r.kind = request.kind /\ Bytes(r.kind) = Len(got)
      BY <2>1, LinkAssumption DEF Requests, Kinds, Bytes
    <3> HIDE DEF r
    <3>4. \A i \in 1 .. Bytes(r.kind) : got[i] = Byte(r, i)
      BY <3>2, <3>3, AnswerBytes DEF r
    <3>5. Bytes(r.kind) \in Nat /\ Bytes(r.kind) >= 1
      BY <3>3, RequestTypes
    <3>6. got[Len(got)].nr = Len(got) /\ got[Len(got)].kind = r.kind
      <4>1. Len(got) \in 1 .. Bytes(r.kind)
        BY <3>3, <3>5
      <4>2. got[Len(got)] = Byte(r, Len(got))
        BY <3>4, <4>1, Zenon
      <4> QED
        BY <4>2 DEF Byte
    <3> QED
      BY <1>4, <2>1, <3>1, <3>3, <3>6
  <2> QED
    BY <2>2, <2>3
<1>9. CASE ReadBytes
  <2>1. /\ UNCHANGED <<stage, request, asked, reached, ok>> /\ stage # "idle" /\ Flight' = Flight
    BY <1>9, FlightMoves DEF ReadBytes, wire, LinkInv
  <2> QED
    BY <1>n, <1>o, <1>s, <2>1
<1>10. CASE Reply
  <2>1. /\ UNCHANGED <<stage, request, port, reached, ok>>
        /\ IdsOf(Flight') = IdsOf(Flight) \cup {Head(asked).id}
        /\ IdsOf(asked) = {Head(asked).id} \cup IdsOf(asked')
    BY <1>10, FlightReply DEF Reply, LinkInv
  <2>2. IdsOf(line') = IdsOf(line) \cup {Head(asked).id}
    <3> DEFINE a == AnswerTo(Head(asked))
    <3>1. a \in Seq(LineBytes) /\ line \in Seq(LineBytes) /\ line' = line \o a /\ IdsOf(a) = {Head(asked).id}
      BY <1>10, ReplyMoves, AnswerBytes DEF LinkInv, LinkTypes
    <3> HIDE DEF a
    <3> QED
      BY <3>1, IdsConcat
  <2> QED
    BY <1>n, <1>o, <1>s, <2>1, <2>2
<1>11. CASE Arrive
  <2>1. /\ UNCHANGED <<stage, request, asked, reached, ok>> /\ Flight' = Flight
    BY <1>11, FlightMoves DEF Arrive, LinkInv
  <2>2. IdsOf(port') \cup IdsOf(line') = IdsOf(port) \cup IdsOf(line)
    <3>1. port' \in Seq(LineBytes) /\ line' \in Seq(LineBytes) /\ port' \o line' = port \o line
          /\ port \in Seq(LineBytes) /\ line \in Seq(LineBytes)
      BY <1>11, ArriveMoves DEF LinkInv, LinkTypes
    <3>2. \A s, t \in Seq(LineBytes) : IdsOf(s \o t) = IdsOf(s) \cup IdsOf(t)
      BY IdsConcat
    <3>3. IdsOf(port' \o line') = IdsOf(port') \cup IdsOf(line')
      BY <3>1, <3>2, Zenon
    <3>4. IdsOf(port \o line) = IdsOf(port) \cup IdsOf(line)
      BY <3>1, <3>2, Zenon
    <3> QED
      BY <3>1, <3>3, <3>4, Zenon
  <2> QED
    BY <1>n, <1>o, <1>s, <2>1, <2>2
<1>12. CASE Lose
  <2>1. /\ UNCHANGED <<stage, request, asked, port, reached, ok>>
        /\ IdsOf(Flight') \subseteq IdsOf(Flight) /\ IdsOf(line') \subseteq IdsOf(line)
    BY <1>12, FlightLose DEF Lose, LinkInv
  <2> QED
    BY <1>n, <1>o, <1>s, <2>1
<1>13. CASE Damage
  <2>1. /\ UNCHANGED <<stage, request, asked, port, reached, ok>>
        /\ IdsOf(Flight') = IdsOf(Flight) /\ IdsOf(line') = IdsOf(line)
    BY <1>13, FlightDamage DEF Damage, LinkInv
  <2> QED
    BY <1>n, <1>o, <1>s, <2>1
<1>14. CASE UNCHANGED vars
  <2>1. UNCHANGED <<stage, reached, ok>> /\ Late' = Late
    BY <1>14 DEF vars, wire, Late, InFlight, OnTheWay
  <2> QED
    BY <1>s, <2>1
<1> QED
  BY <1>1, <1>2, <1>5, <1>6, <1>7, <1>8, <1>9, <1>10, <1>11, <1>12, <1>13, <1>14 DEF Next

\* The driver implements the transactions that DrivetrainPid is built on: every
\* step of a driver, a controller or the line is one of theirs or is not seen.
THEOREM LinkImplementsTransactions == Spec => ImplementsTransactions
BY InitTransactions, StepTransactions, LinkInvariant, PTL
   DEF Spec, ImplementsTransactions, Transactions!Spec

=============================================================================
