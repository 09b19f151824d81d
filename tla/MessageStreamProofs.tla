---------------------------- MODULE MessageStreamProofs ------------------------
(***************************************************************************)
(* Messages between two ends, for every number of byte values, every       *)
(* maximal size, every message and every set of tasks.  Framing: decode    *)
(* inverts encode and never answers early.  MessageStream: one direction   *)
(* of a connection implements MessageChannel, and its close is clean.      *)
(* TcpClient: a retry after a reconnect is clean.                          *)
(***************************************************************************)
EXTENDS MessageStream, TcpClient, SequenceTheorems, TLAPS

\* Division with remainder, and its parts are natural numbers.
LEMMA DivMod ==
    ASSUME NEW x \in Nat
    PROVE  /\ x \div Base \in Nat /\ x % Base \in Nat
           /\ Base * (x \div Base) + (x % Base) = x
BY FramingAssumption

\* The header of a length gives it back, whatever follows.
LEMMA HeaderValue ==
    ASSUME NEW n \in Nat, NEW h, h[1] = BigEndian(n)[1], h[2] = BigEndian(n)[2],
           h[3] = BigEndian(n)[3], h[4] = BigEndian(n)[4]
    PROVE  FromBigEndian(h) = n
<1> DEFINE q1 == n \div Base
           q2 == q1 \div Base
           q3 == q2 \div Base
<1>1. q1 \in Nat /\ Base * q1 + (n % Base) = n
    BY DivMod
<1>2. q2 \in Nat /\ Base * q2 + (q1 % Base) = q1
    BY <1>1, DivMod
<1>3. q3 \in Nat /\ Base * q3 + (q2 % Base) = q2
    BY <1>2, DivMod
<1>4. h[1] = q3 /\ h[2] = q2 % Base /\ h[3] = q1 % Base /\ h[4] = n % Base
    BY DEF BigEndian
<1> HIDE DEF q1, q2, q3
<1> QED  BY <1>1, <1>2, <1>3, <1>4 DEF FromBigEndian

LEMMA HeaderShape ==
    ASSUME NEW n \in Nat
    PROVE  BigEndian(n) \in Seq(Int) /\ Len(BigEndian(n)) = 4
<1>1. n \div Base \in Nat /\ n % Base \in Nat
    BY DivMod
<1>2. (n \div Base) \div Base \in Nat /\ (n \div Base) % Base \in Nat
    BY <1>1, DivMod
<1>3. /\ ((n \div Base) \div Base) \div Base \in Nat
      /\ ((n \div Base) \div Base) % Base \in Nat
    BY <1>2, DivMod
<1> QED  BY <1>1, <1>2, <1>3 DEF BigEndian

\* The elements of a concatenation, and of a part of a sequence.
LEMMA Joined ==
    ASSUME NEW s \in Seq(Int), NEW t \in Seq(Int)
    PROVE  /\ s \o t \in Seq(Int) /\ Len(s \o t) = Len(s) + Len(t)
           /\ Len(s) \in Nat /\ Len(t) \in Nat
           /\ \A i \in 1 .. Len(s) : (s \o t)[i] = s[i]
           /\ \A i \in 1 .. Len(t) : (s \o t)[Len(s) + i] = t[i]
<1> DEFINE st == s \o t
<1>1. /\ st \in Seq(Int) /\ Len(st) = Len(s) + Len(t)
      /\ \A i \in 1 .. Len(s) + Len(t) :
            st[i] = IF i <= Len(s) THEN s[i] ELSE t[i - Len(s)]
    BY ConcatProperties
<1>2. Len(s) \in Nat /\ Len(t) \in Nat
    BY LenProperties
<1> HIDE DEF st
<1>3. \A i \in 1 .. Len(s) : st[i] = s[i]
    BY <1>1, <1>2
<1>4. ASSUME NEW i \in 1 .. Len(t)
      PROVE  st[Len(s) + i] = t[i]
    <2>1. Len(s) + i \in 1 .. Len(s) + Len(t) /\ ~(Len(s) + i <= Len(s))
        BY <1>2
    <2>2. st[Len(s) + i] = t[(Len(s) + i) - Len(s)]
        BY <1>1, <2>1
    <2> QED  BY <1>2, <2>2
<1> QED  BY <1>1, <1>2, <1>3, <1>4 DEF st

LEMMA Part ==
    ASSUME NEW s \in Seq(Int), NEW m \in Nat, NEW n \in Nat,
           m + n <= Len(s)
    PROVE  LET part == SubSeq(s, m + 1, m + n)
           IN  /\ part \in Seq(Int) /\ Len(part) = n
               /\ \A i \in 1 .. n : part[i] = s[m + i]
<1> DEFINE part == SubSeq(s, m + 1, m + n)
<1>1. \A i \in m + 1 .. m + n : s[i] \in Int
    BY LenProperties, ElementOfSeq
<1>2. /\ part \in Seq(Int)
      /\ Len(part) = IF m + 1 <= m + n THEN (m + n) - (m + 1) + 1 ELSE 0
      /\ \A i \in 1 .. (m + n) - (m + 1) + 1 : part[i] = s[(m + 1) + i - 1]
    <2>1. m + 1 \in Int /\ m + n \in Int
        OBVIOUS
    <2> QED  BY <1>1, <2>1, SubSeqProperties
<1> HIDE DEF part
<1>3. Len(part) = n
    BY <1>2
<1>4. ASSUME NEW i \in 1 .. n
      PROVE  part[i] = s[m + i]
    <2>1. i \in 1 .. (m + n) - (m + 1) + 1 /\ (m + 1) + i - 1 = m + i
        OBVIOUS
    <2> QED  BY <1>2, <2>1
<1> QED  BY <1>2, <1>3, <1>4 DEF part

\* What decode reads of a buffer that begins with a whole frame.
LEMMA FrameIn ==
    ASSUME NEW m \in Seq(Bytes), NEW rest \in Seq(Bytes)
    PROVE  LET buf == Encode(m) \o rest
           IN  /\ buf \in Seq(Int)
               /\ Len(buf) = HeaderSize + Len(m) + Len(rest)
               /\ Announced(buf) = Len(m)
               /\ \A i \in 1 .. Len(m) : buf[HeaderSize + i] = m[i]
               /\ \A i \in 1 .. Len(rest) : buf[HeaderSize + Len(m) + i] = rest[i]
<1> DEFINE h == BigEndian(Len(m))
           hm == h \o m
           buf == hm \o rest
<1>1. h \in Seq(Int) /\ Len(h) = 4 /\ Len(m) \in Nat /\ Len(rest) \in Nat
    BY HeaderShape
<1>2. m \in Seq(Int) /\ rest \in Seq(Int)
    BY FramingAssumption DEF Bytes
<1> HIDE DEF h
<1>3. /\ hm \in Seq(Int) /\ Len(hm) = Len(h) + Len(m)
      /\ \A i \in 1 .. Len(h) : hm[i] = h[i]
      /\ \A i \in 1 .. Len(m) : hm[Len(h) + i] = m[i]
    BY <1>1, <1>2, Joined, Zenon
<1> HIDE DEF hm
<1>4. /\ buf \in Seq(Int) /\ Len(buf) = Len(hm) + Len(rest)
      /\ \A i \in 1 .. Len(hm) : buf[i] = hm[i]
      /\ \A i \in 1 .. Len(rest) : buf[Len(hm) + i] = rest[i]
    BY <1>2, <1>3, Joined, Zenon
<1> HIDE DEF buf
<1>5. buf[1] = h[1] /\ buf[2] = h[2] /\ buf[3] = h[3] /\ buf[4] = h[4]
    <2>1. \A i \in 1 .. 4 : i \in 1 .. Len(h) /\ i \in 1 .. Len(hm)
        BY <1>1, <1>3
    <2>2. \A i \in 1 .. 4 : buf[i] = h[i]
        BY <1>3, <1>4, <2>1, Zenon
    <2> QED  BY <2>2
<1>6. FromBigEndian(buf) = Len(m)
    BY <1>1, <1>5, HeaderValue DEF h
<1>7. ASSUME NEW i \in 1 .. Len(m)
      PROVE  buf[4 + i] = m[i]
    <2>1. 4 + i \in 1 .. Len(hm)
        BY <1>1, <1>3
    <2> QED  BY <1>1, <1>3, <1>4, <2>1
<1>8. /\ Len(buf) = 4 + Len(m) + Len(rest)
      /\ \A i \in 1 .. Len(rest) : buf[4 + Len(m) + i] = rest[i]
    BY <1>1, <1>3, <1>4
<1>9. buf = Encode(m) \o rest
    BY DEF buf, hm, h, Encode
<1> QED  BY <1>4, <1>6, <1>7, <1>8, <1>9 DEF HeaderSize, Announced

\* decode (message.rs) inverts encode, whatever bytes follow in the buffer: a
\* message that encode accepts is found whole, and only its frame is consumed.
THEOREM RoundTrip ==
    ASSUME NEW m \in Seq(Bytes), ~TooLarge(m), NEW rest \in Seq(Bytes)
    PROVE  LET buf == Encode(m) \o rest
           IN  Complete(buf) /\ MessageIn(buf) = m /\ RestOf(buf) = rest
<1> DEFINE buf == Encode(m) \o rest
<1>1. /\ buf \in Seq(Int)
      /\ Len(buf) = HeaderSize + Len(m) + Len(rest)
      /\ Announced(buf) = Len(m)
      /\ \A i \in 1 .. Len(m) : buf[HeaderSize + i] = m[i]
      /\ \A i \in 1 .. Len(rest) : buf[HeaderSize + Len(m) + i] = rest[i]
    BY FrameIn
<1>2. Len(m) \in Nat /\ Len(rest) \in Nat /\ m \in Seq(Int) /\ rest \in Seq(Int)
    BY FramingAssumption DEF Bytes
<1> HIDE DEF buf
<1>3. Complete(buf)
    BY <1>1, <1>2, FramingAssumption
       DEF Complete, HasHeader, Rejected, TooLarge, HeaderSize
<1>4. MessageIn(buf) = m
    <2>1. /\ MessageIn(buf) \in Seq(Int) /\ Len(MessageIn(buf)) = Len(m)
          /\ \A i \in 1 .. Len(m) : MessageIn(buf)[i] = buf[4 + i]
        BY <1>1, <1>2, Part DEF MessageIn, HeaderSize
    <2> QED  BY <1>1, <1>2, <2>1, SeqEqual DEF HeaderSize
<1>5. RestOf(buf) = rest
    <2> DEFINE n == HeaderSize + Len(m)
    <2>1. n \in Nat /\ Len(buf) = n + Len(rest)
        BY <1>1, <1>2 DEF HeaderSize
    <2>2. RestOf(buf) = SubSeq(buf, n + 1, n + Len(rest))
        BY <1>1, <2>1 DEF RestOf
    <2> HIDE DEF n
    <2>3. /\ RestOf(buf) \in Seq(Int) /\ Len(RestOf(buf)) = Len(rest)
          /\ \A i \in 1 .. Len(rest) : RestOf(buf)[i] = buf[n + i]
        BY <1>1, <1>2, <2>1, <2>2, Part
    <2>4. \A i \in 1 .. Len(rest) : RestOf(buf)[i] = rest[i]
        BY <1>1, <2>3 DEF n
    <2> QED  BY <1>2, <2>3, <2>4, SeqEqual
<1> QED  BY <1>3, <1>4, <1>5 DEF buf

\* decode (message.rs) never answers early: while a frame is still arriving, at
\* whatever byte it was cut, the answer is "more bytes are needed", neither a
\* message nor an error.
THEOREM NeverEarly ==
    ASSUME NEW m \in Seq(Bytes), ~TooLarge(m),
           NEW k \in 0 .. HeaderSize + Len(m) - 1
    PROVE  Incomplete(SubSeq(Encode(m), 1, k))
<1> DEFINE h == BigEndian(Len(m))
           whole == h \o m
           part == SubSeq(whole, 1, k)
<1>1. h \in Seq(Int) /\ Len(h) = 4 /\ Len(m) \in Nat /\ m \in Seq(Int)
    BY HeaderShape, FramingAssumption DEF Bytes
<1> HIDE DEF h
<1>2. /\ whole \in Seq(Int) /\ Len(whole) = Len(h) + Len(m)
      /\ \A i \in 1 .. Len(h) : whole[i] = h[i]
    BY <1>1, Joined, Zenon
<1> HIDE DEF whole
<1>3. /\ Len(part) = k /\ \A i \in 1 .. k : part[i] = whole[i]
    BY <1>1, <1>2 DEF HeaderSize
<1> HIDE DEF part
<1>4. CASE k < 4
    BY <1>3, <1>4 DEF part, whole, h, Encode, Incomplete, Rejected, Complete,
                      HasHeader, HeaderSize
<1>5. CASE k >= 4
    <2>1. part[1] = h[1] /\ part[2] = h[2] /\ part[3] = h[3] /\ part[4] = h[4]
        BY <1>1, <1>2, <1>3, <1>5
    <2>2. Announced(part) = Len(m)
        BY <1>1, <2>1, HeaderValue DEF Announced, h
    <2>3. Incomplete(part)
        BY <1>1, <1>3, <2>2, FramingAssumption
           DEF Incomplete, Rejected, Complete, HasHeader, HeaderSize, TooLarge
    <2> QED  BY <2>3 DEF part, whole, h, Encode
<1> QED  BY <1>1, <1>4, <1>5 DEF HeaderSize

\* Frames are bytes, and so are the parts and the concatenations of bytes.
LEMMA Shifted ==
    ASSUME NEW n \in Nat, NEW k \in Nat, n < Base * k
    PROVE  n \div Base < k
<1>1. n \div Base \in Nat /\ n % Base \in Nat /\ Base * (n \div Base) + (n % Base) = n
    BY DivMod
<1> DEFINE q == n \div Base
<1>2. Base * q < Base * k /\ q \in Nat
    BY <1>1, FramingAssumption
<1> HIDE DEF q
<1>3. q >= k => Base * q >= Base * k
    BY <1>2, FramingAssumption
<1>4. q < k
    BY <1>2, <1>3, FramingAssumption
<1> QED  BY <1>4 DEF q

LEMMA EncodeBytes ==
    ASSUME NEW m \in Seq(Bytes), ~TooLarge(m)
    PROVE  Encode(m) \in Seq(Bytes) /\ Len(Encode(m)) = HeaderSize + Len(m)
<1> DEFINE n == Len(m)
           q1 == n \div Base
           q2 == q1 \div Base
           q3 == q2 \div Base
           h == <<q3, q2 % Base, q1 % Base, n % Base>>
<1>1. n \in Nat /\ n < Base * (Base * (Base * Base)) /\ Base \in Nat
    BY FramingAssumption DEF TooLarge
<1>2. \A x \in Nat : x % Base \in Bytes /\ x \div Base \in Nat
    BY FramingAssumption DEF Bytes
<1>3. Base * Base \in Nat /\ Base * (Base * Base) \in Nat
    BY FramingAssumption
<1> HIDE DEF n
<1>4. q1 \in Nat /\ q1 < Base * (Base * Base)
    BY <1>1, <1>2, <1>3, Shifted
<1> HIDE DEF q1
<1>5. q2 \in Nat /\ q2 < Base * Base
    BY <1>2, <1>3, <1>4, Shifted
<1> HIDE DEF q2
<1>6. q3 \in Nat /\ q3 < Base
    BY <1>1, <1>2, <1>5, Shifted
<1> HIDE DEF q3
<1>7. q3 \in Bytes /\ q2 % Base \in Bytes /\ q1 % Base \in Bytes /\ n % Base \in Bytes
    <2>1. q3 \in Bytes
        BY <1>1, <1>6 DEF Bytes
    <2> QED  BY <1>1, <1>2, <1>4, <1>5, <2>1, Zenon
<1>8. h \in Seq(Bytes) /\ Len(h) = 4
    BY <1>7
<1>9. h = BigEndian(Len(m))
    BY DEF BigEndian, h, q1, q2, q3, n
<1> HIDE DEF h
<1>10. h \o m \in Seq(Bytes) /\ Len(h \o m) = Len(h) + Len(m)
    BY <1>8, ConcatProperties, Zenon
<1> QED  BY <1>8, <1>9, <1>10 DEF Encode, HeaderSize

LEMMA BytesInts == Bytes \subseteq Int /\ \A s \in Seq(Bytes) : s \in Seq(Int) /\ Len(s) \in Nat
BY FramingAssumption DEF Bytes

LEMMA JoinedBytes ==
    ASSUME NEW s \in Seq(Bytes), NEW t \in Seq(Bytes)
    PROVE  /\ s \o t \in Seq(Bytes) /\ Len(s \o t) = Len(s) + Len(t)
           /\ \A i \in 1 .. Len(s) : (s \o t)[i] = s[i]
           /\ \A i \in 1 .. Len(t) : (s \o t)[Len(s) + i] = t[i]
<1>1. s \in Seq(Int) /\ t \in Seq(Int)
    BY BytesInts
<1>2. s \o t \in Seq(Bytes)
    BY ConcatProperties, Zenon
<1> QED  BY <1>1, <1>2, Joined, Zenon

LEMMA PartBytes ==
    ASSUME NEW s \in Seq(Bytes), NEW m \in Nat, NEW n \in Nat, m + n <= Len(s)
    PROVE  LET part == SubSeq(s, m + 1, m + n)
           IN  /\ part \in Seq(Bytes) /\ Len(part) = n
               /\ \A i \in 1 .. n : part[i] = s[m + i]
<1>1. s \in Seq(Int)
    BY BytesInts
<1>2. \A i \in m + 1 .. m + n : s[i] \in Bytes
    BY LenProperties, ElementOfSeq
<1>3. SubSeq(s, m + 1, m + n) \in Seq(Bytes)
    <2>1. m + 1 \in Int /\ m + n \in Int
        OBVIOUS
    <2> QED  BY <1>2, <2>1, SubSeqProperties
<1> QED  BY <1>1, <1>3, Part

LEMMA SameBytes ==
    ASSUME NEW s \in Seq(Bytes), NEW t \in Seq(Bytes),
           Len(s) = Len(t), \A i \in 1 .. Len(s) : s[i] = t[i]
    PROVE  s = t
BY SeqEqual, Zenon

\* What decode makes of a buffer whose first bytes are those of a frame, or of
\* the beginning of one.
LEMMA FirstFrame ==
    ASSUME NEW m \in Seq(Bytes), ~TooLarge(m), NEW buf \in Seq(Bytes),
           \A j \in 1 .. Len(buf) : j <= HeaderSize + Len(m) => buf[j] = Encode(m)[j]
    PROVE  /\ Len(buf) < HeaderSize + Len(m) => Incomplete(buf)
           /\ Len(buf) >= HeaderSize + Len(m) =>
                /\ Complete(buf) /\ MessageIn(buf) = m
                /\ RestOf(buf) \in Seq(Bytes)
                /\ Len(RestOf(buf)) = Len(buf) - (HeaderSize + Len(m))
                /\ \A i \in 1 .. Len(RestOf(buf)) :
                      RestOf(buf)[i] = buf[(HeaderSize + Len(m)) + i]
<1> DEFINE k == HeaderSize + Len(m)
           e == Encode(m)
<1>1. e \in Seq(Bytes) /\ Len(e) = k /\ k \in Nat /\ Len(buf) \in Nat
    BY EncodeBytes DEF HeaderSize
<1>2. \A j \in 1 .. Len(buf) : j <= k => buf[j] = e[j]
    OBVIOUS
<1> HIDE DEF e, k
<1>3. CASE Len(buf) < k
    <2> DEFINE p == SubSeq(e, 1, Len(buf))
    <2>1. p \in Seq(Bytes) /\ Len(p) = Len(buf) /\ \A j \in 1 .. Len(buf) : p[j] = e[j]
        <3>1. 0 + Len(buf) <= Len(e) /\ p = SubSeq(e, 0 + 1, 0 + Len(buf))
            BY <1>1, <1>3
        <3>2. /\ p \in Seq(Bytes) /\ Len(p) = Len(buf)
              /\ \A j \in 1 .. Len(buf) : p[j] = e[0 + j]
            BY <1>1, <3>1, PartBytes
        <3> QED  BY <1>1, <3>2
    <2> HIDE DEF p
    <2>2. p = buf
        BY <1>1, <1>2, <1>3, <2>1, SameBytes
    <2>3. Len(buf) \in 0 .. HeaderSize + Len(m) - 1
        BY <1>1, <1>3 DEF k, HeaderSize
    <2>4. Incomplete(p)
        BY <2>3, NeverEarly DEF p, e
    <2> QED  BY <1>1, <1>3, <2>2, <2>4 DEF k
<1>4. CASE Len(buf) >= k
    <2> DEFINE rest == SubSeq(buf, k + 1, Len(buf))
               all == e \o rest
    <2>1. /\ rest \in Seq(Bytes) /\ Len(rest) = Len(buf) - k
          /\ \A i \in 1 .. Len(rest) : rest[i] = buf[k + i]
        <3> DEFINE r == Len(buf) - k
        <3>1. r \in Nat /\ k + r = Len(buf)
            BY <1>1, <1>4
        <3> HIDE DEF r
        <3> QED  BY <1>1, <3>1, PartBytes
    <2> HIDE DEF rest
    <2>2. /\ all \in Seq(Bytes) /\ Len(all) = Len(e) + Len(rest)
          /\ \A i \in 1 .. Len(e) : all[i] = e[i]
          /\ \A i \in 1 .. Len(rest) : all[Len(e) + i] = rest[i]
        BY <1>1, <2>1, JoinedBytes, Zenon
    <2> HIDE DEF all
    <2>3. ASSUME NEW i \in 1 .. Len(buf)
          PROVE  buf[i] = all[i]
        <3>1. CASE i <= k
            BY <1>1, <1>2, <2>2, <3>1
        <3>2. CASE i > k
            <4>1. i - k \in 1 .. Len(rest) /\ k + (i - k) = i
                BY <1>1, <2>1, <3>2
            <4>2. all[Len(e) + (i - k)] = rest[i - k] /\ rest[i - k] = buf[k + (i - k)]
                BY <2>1, <2>2, <4>1
            <4> QED  BY <1>1, <4>1, <4>2
        <3> QED  BY <1>1, <3>1, <3>2
    <2>4. Len(buf) = Len(all)
        BY <1>1, <1>4, <2>1, <2>2
    <2>5. buf = all
        BY <2>2, <2>3, <2>4, SameBytes
    <2>6. Complete(all) /\ MessageIn(all) = m /\ RestOf(all) = rest
        BY <2>1, RoundTrip DEF all, e
    <2> QED  BY <1>1, <1>4, <2>1, <2>5, <2>6 DEF k
<1> QED  BY <1>1, <1>3, <1>4 DEF k

-----------------------------------------------------------------------------
(* One direction of a connection. *)

StreamTypes ==
    /\ direction \in Directions
    /\ sender \in [Senders -> {"out", "locking", "writing"}]
    /\ message \in [Senders -> Seq(Bytes)] /\ frame \in [Senders -> Seq(Bytes)]
    /\ writer \in Senders \union {None}
    /\ wire \in Seq(Bytes) /\ buffer \in Seq(Bytes)
    /\ receiver \in [Receivers -> {"out", "locking", "fresh", "again"}]
    /\ sent \in Seq(Seq(Bytes)) /\ received \in Seq(Seq(Bytes))
    /\ cut \in BOOLEAN /\ dropped \in BOOLEAN /\ reset \in BOOLEAN

\* The mutex of the write half: who writes holds it, and a half that is closed
\* has no writer.
WriteLock ==
    /\ \A t \in Senders : sender[t] = "writing" <=> writer = t
    /\ ~writeOpen => writer = None

\* The bytes of its frame that a sender has written.
Done(t) == HeaderSize + Len(message[t]) - Len(frame[t])

\* What a sender has yet to write is the end of its frame, all of it before it
\* has the lock.
FrameOf(t) ==
    sender[t] # "out" =>
        /\ ~TooLarge(message[t])
        /\ Len(frame[t]) \in 1 .. HeaderSize + Len(message[t])
        /\ \A j \in 1 .. Len(frame[t]) :
              frame[t][j] = Encode(message[t])[Done(t) + j]
        /\ sender[t] = "locking" => Done(t) = 0

Frames ==
    /\ \A i \in 1 .. Len(sent) : ~TooLarge(sent[i])
    /\ \A t \in Senders : FrameOf(t)

\* The bytes of a frame that is only in part on the wire.
Partial == IF writer = None THEN 0 ELSE Done(writer)

\* bytes is all that was ever written, and frame i ends with byte end[i] ...
History(bytes, end) ==
    /\ end[0] = 0
    /\ \A i \in 1 .. Len(sent) : end[i] = end[i - 1] + (HeaderSize + Len(sent[i]))
    /\ \A i, k \in 0 .. Len(sent) : i <= k => end[i] <= end[k]
    /\ \A i \in 1 .. Len(sent) : \A j \in 1 .. HeaderSize + Len(sent[i]) :
          bytes[end[i - 1] + j] = Encode(sent[i])[j]
    /\ writer # None =>
          \A j \in 1 .. Done(writer) :
              bytes[end[Len(sent)] + j] = Encode(message[writer])[j]

\* ... of which the receiver has decoded some frames, buffered some bytes and
\* has the others to come, unless a reset lost them.
Position(bytes, end) ==
    LET start == end[Len(received)] IN
    /\ Len(received) <= Len(sent)
    /\ \A i \in 1 .. Len(received) : received[i] = sent[i]
    /\ \A i \in 1 .. Len(buffer) : buffer[i] = bytes[start + i]
    /\ \A i \in 1 .. Len(wire) : wire[i] = bytes[(start + Len(buffer)) + i]
    /\ (start + Len(buffer)) + Len(wire) <= end[Len(sent)] + Partial
    /\ ~reset => (start + Len(buffer)) + Len(wire) = end[Len(sent)] + Partial

InStep ==
    \E bytes \in [Nat -> Int], end \in [Nat -> Nat] :
        History(bytes, end) /\ Position(bytes, end)

StreamInv ==
    StreamTypes /\ WriteLock /\ Frames /\ (~cut /\ ~dropped => InStep)

-----------------------------------------------------------------------------

LEMMA Payload ==
    ASSUME NEW m \in Seq(Bytes), ~TooLarge(m)
    PROVE  m \in Payloads
<1>1. Len(m) \in 0 .. MaxMessageSize /\ m \in [1 .. Len(m) -> Bytes]
    BY FramingAssumption, LenProperties DEF TooLarge
<1> QED  BY <1>1 DEF Payloads

\* What a receive returns and leaves, from a broken connection too, is bytes.
LEMMA DecodedBytes ==
    ASSUME NEW buf \in Seq(Bytes), Complete(buf)
    PROVE  /\ MessageIn(buf) \in Seq(Bytes) /\ ~TooLarge(MessageIn(buf))
           /\ RestOf(buf) \in Seq(Bytes)
<1> DEFINE n == Announced(buf)
           r == Len(buf) - (HeaderSize + n)
<1>1. Len(buf) \in Nat /\ Len(buf) >= 4
    BY DEF Complete, HasHeader, HeaderSize
<1>2. buf[1] \in Nat /\ buf[2] \in Nat /\ buf[3] \in Nat /\ buf[4] \in Nat
    BY <1>1, FramingAssumption, ElementOfSeq DEF Bytes
<1>3. n \in Nat
    <2> DEFINE x == Base * buf[1] + buf[2]
               y == Base * x + buf[3]
               z == Base * y + buf[4]
    <2>0. \A a, b \in Nat : Base * a + b \in Nat
        BY FramingAssumption
    <2>1. x \in Nat
        BY <1>2, <2>0
    <2> HIDE DEF x
    <2>2. y \in Nat
        BY <1>2, <2>0, <2>1
    <2> HIDE DEF y
    <2>3. z \in Nat
        BY <1>2, <2>0, <2>2
    <2> QED  BY <2>3 DEF Announced, FromBigEndian, x, y
<1>4. n <= MaxMessageSize /\ Len(buf) >= HeaderSize + n
    BY <1>3, FramingAssumption DEF Complete, Rejected
<1> HIDE DEF n
<1>5. r \in Nat /\ HeaderSize \in Nat /\ (HeaderSize + n) + r = Len(buf)
    BY <1>1, <1>3, <1>4 DEF HeaderSize
<1> HIDE DEF r
<1>6. MessageIn(buf) \in Seq(Bytes) /\ Len(MessageIn(buf)) = n
    BY <1>3, <1>4, <1>5, PartBytes DEF MessageIn, n
<1>7. RestOf(buf) \in Seq(Bytes)
    <2>1. RestOf(buf) = SubSeq(buf, (HeaderSize + n) + 1, (HeaderSize + n) + r)
        BY <1>5 DEF RestOf, n
    <2> QED  BY <1>3, <1>5, <2>1, PartBytes
<1> QED  BY <1>3, <1>4, <1>6, <1>7, FramingAssumption DEF TooLarge

LEMMA StreamInit == Init => StreamInv
<1> SUFFICES ASSUME Init PROVE StreamInv
    OBVIOUS
<1>1. StreamTypes
    <2>1. <<>> \in Seq(Bytes) /\ <<>> \in Seq(Seq(Bytes))
        BY EmptySeq
    <2>2. message \in [Senders -> Seq(Bytes)] /\ frame \in [Senders -> Seq(Bytes)]
        BY <2>1 DEF Init
    <2> QED  BY <2>1, <2>2 DEF Init, StreamTypes, Directions
<1>2. WriteLock /\ Frames
    <2>1. \A t \in Senders : sender[t] = "out" /\ t # None
        BY StreamAssumption DEF Init
    <2>2. Len(sent) = 0 /\ writer = None
        BY DEF Init
    <2> QED  BY <2>1, <2>2 DEF WriteLock, Frames, FrameOf
<1>3. InStep
    <2> DEFINE zero == [k \in Nat |-> 0]
    <2>1. zero \in [Nat -> Int] /\ zero \in [Nat -> Nat]
        OBVIOUS
    <2>2. History(zero, zero) /\ Position(zero, zero)
        BY DEF Init, History, Position, Partial
    <2> QED  BY <2>1, <2>2 DEF InStep
<1> QED  BY <1>1, <1>2, <1>3 DEF StreamInv

Sides == StreamTypes /\ WriteLock /\ Frames

\* The step of a sender that puts the next n bytes of its frame on the wire.
LEMMA WrittenPiece ==
    ASSUME Sides, NEW t \in Senders, sender[t] = "writing", NEW n \in 1 .. Len(frame[t])
    PROVE  LET piece == SubSeq(frame[t], 1, n)
               rest == SubSeq(frame[t], n + 1, Len(frame[t]))
           IN  /\ piece \in Seq(Bytes) /\ Len(piece) = n
               /\ \A j \in 1 .. n : piece[j] = frame[t][j]
               /\ rest \in Seq(Bytes) /\ Len(rest) = Len(frame[t]) - n
               /\ \A j \in 1 .. Len(rest) : rest[j] = frame[t][n + j]
               /\ wire \o piece \in Seq(Bytes) /\ Len(wire \o piece) = Len(wire) + n
               /\ \A i \in 1 .. Len(wire) : (wire \o piece)[i] = wire[i]
               /\ \A i \in 1 .. n : (wire \o piece)[Len(wire) + i] = piece[i]
<1> DEFINE fr == frame[t]
           piece == SubSeq(fr, 1, n)
           rest == SubSeq(fr, n + 1, Len(fr))
           k == Len(fr) - n
<1>1. fr \in Seq(Bytes) /\ wire \in Seq(Bytes) /\ Len(fr) \in Nat
    BY DEF Sides, StreamTypes
<1>2. n \in Nat /\ k \in Nat /\ n + k = Len(fr) /\ 0 + n <= Len(fr)
    BY <1>1
<1> HIDE DEF fr, k
<1>3. piece \in Seq(Bytes) /\ Len(piece) = n /\ \A j \in 1 .. n : piece[j] = fr[j]
    <2>1. piece = SubSeq(fr, 0 + 1, 0 + n)
        BY <1>2
    <2>2. piece \in Seq(Bytes) /\ Len(piece) = n /\ \A j \in 1 .. n : piece[j] = fr[0 + j]
        BY <1>1, <1>2, <2>1, PartBytes
    <2> QED  BY <1>2, <2>2
<1>4. rest \in Seq(Bytes) /\ Len(rest) = k /\ \A j \in 1 .. k : rest[j] = fr[n + j]
    <2>1. rest = SubSeq(fr, n + 1, n + k)
        BY <1>2
    <2>2. n + k <= Len(fr)
        BY <1>1, <1>2
    <2> HIDE DEF rest
    <2> QED  BY <1>1, <1>2, <2>1, <2>2, PartBytes
<1> HIDE DEF piece, rest
<1>5. /\ wire \o piece \in Seq(Bytes) /\ Len(wire \o piece) = Len(wire) + Len(piece)
      /\ \A i \in 1 .. Len(wire) : (wire \o piece)[i] = wire[i]
      /\ \A i \in 1 .. Len(piece) : (wire \o piece)[Len(wire) + i] = piece[i]
    BY <1>1, <1>3, JoinedBytes, Zenon
<1>6. k = Len(fr) - n
    BY DEF k
<1> QED  BY <1>3, <1>4, <1>5, <1>6 DEF fr, piece, rest

\* The step of a receiver that takes n bytes off the wire.
LEMMA ReadPiece ==
    ASSUME Sides, NEW n \in 1 .. Len(wire)
    PROVE  LET more == buffer \o SubSeq(wire, 1, n)
               rest == SubSeq(wire, n + 1, Len(wire))
           IN  /\ more \in Seq(Bytes) /\ Len(more) = Len(buffer) + n
               /\ \A i \in 1 .. Len(buffer) : more[i] = buffer[i]
               /\ \A i \in 1 .. n : more[Len(buffer) + i] = wire[i]
               /\ rest \in Seq(Bytes) /\ Len(rest) = Len(wire) - n
               /\ \A i \in 1 .. Len(rest) : rest[i] = wire[n + i]
<1> DEFINE piece == SubSeq(wire, 1, n)
           rest == SubSeq(wire, n + 1, Len(wire))
           k == Len(wire) - n
<1>1. wire \in Seq(Bytes) /\ buffer \in Seq(Bytes) /\ Len(wire) \in Nat
    BY DEF Sides, StreamTypes
<1>2. n \in Nat /\ k \in Nat /\ n + k = Len(wire) /\ 0 + n <= Len(wire)
    BY <1>1
<1> HIDE DEF k
<1>3. piece \in Seq(Bytes) /\ Len(piece) = n /\ \A j \in 1 .. n : piece[j] = wire[j]
    <2>1. piece = SubSeq(wire, 0 + 1, 0 + n)
        BY <1>2
    <2>2. piece \in Seq(Bytes) /\ Len(piece) = n /\ \A j \in 1 .. n : piece[j] = wire[0 + j]
        BY <1>1, <1>2, <2>1, PartBytes
    <2> QED  BY <1>2, <2>2
<1>4. rest \in Seq(Bytes) /\ Len(rest) = k /\ \A j \in 1 .. k : rest[j] = wire[n + j]
    <2>1. rest = SubSeq(wire, n + 1, n + k)
        BY <1>2
    <2>2. n + k <= Len(wire)
        BY <1>1, <1>2
    <2>3. /\ SubSeq(wire, n + 1, n + k) \in Seq(Bytes) /\ Len(SubSeq(wire, n + 1, n + k)) = k
          /\ \A j \in 1 .. k : SubSeq(wire, n + 1, n + k)[j] = wire[n + j]
        BY <1>1, <1>2, <2>2, PartBytes, Zenon
    <2> HIDE DEF rest
    <2> QED  BY <2>1, <2>3, Zenon
<1> HIDE DEF piece, rest
<1>5. /\ buffer \o piece \in Seq(Bytes)
      /\ Len(buffer \o piece) = Len(buffer) + Len(piece)
      /\ \A i \in 1 .. Len(buffer) : (buffer \o piece)[i] = buffer[i]
      /\ \A i \in 1 .. Len(piece) : (buffer \o piece)[Len(buffer) + i] = piece[i]
    BY <1>1, <1>3, JoinedBytes, Zenon
<1>6. k = Len(wire) - n
    BY DEF k
<1> QED  BY <1>3, <1>4, <1>5, <1>6 DEF piece, rest

LEMMA TypesStep == Sides /\ [Next]_vars => StreamTypes'
<1> SUFFICES ASSUME Sides, [Next]_vars
             PROVE  StreamTypes'
    OBVIOUS
<1> USE DEF Sides
<1>0. <<>> \in Seq(Bytes)
    BY EmptySeq
<1>1. ASSUME NEW t \in Senders, NEW m \in Messages, SendStart(t, m)
      PROVE  StreamTypes'
    <2>1. ~TooLarge(m) => Encode(m) \in Seq(Bytes)
        BY StreamAssumption, EncodeBytes
    <2>2. m \in Seq(Bytes)
        BY StreamAssumption
    <2> QED  BY <1>1, <2>1, <2>2 DEF SendStart, StreamTypes, endVars, receiverVars
<1>2. ASSUME NEW t \in Senders, Write(t)
      PROVE  StreamTypes'
    <2>1. PICK n \in 1 .. Len(frame[t]) :
              /\ wire' = wire \o SubSeq(frame[t], 1, n)
              /\ IF n = Len(frame[t])
                 THEN SendReturns(t) /\ writer' = None /\ sent' = Append(sent, message[t])
                 ELSE /\ frame' = [frame EXCEPT ![t] = SubSeq(@, n + 1, Len(@))]
                      /\ UNCHANGED <<sender, message, writer, sent>>
        BY <1>2 DEF Write
    <2>2. /\ wire \o SubSeq(frame[t], 1, n) \in Seq(Bytes)
          /\ SubSeq(frame[t], n + 1, Len(frame[t])) \in Seq(Bytes)
        BY <1>2, WrittenPiece DEF Write
    <2>3. Append(sent, message[t]) \in Seq(Seq(Bytes))
        BY AppendProperties DEF StreamTypes
    <2> QED  BY <1>0, <1>2, <2>1, <2>2, <2>3
             DEF Write, SendReturns, StreamTypes, endVars, receiverVars
<1>3. ASSUME NEW t \in Senders, SendLock(t) \/ SendFail(t) \/ SendCancel(t)
      PROVE  StreamTypes'
    <2>1. CASE SendLock(t)
        BY <1>0, <2>1 DEF SendLock, SendReturns, StreamTypes, endVars, receiverVars
    <2>2. CASE SendFail(t)
        BY <1>0, <2>2 DEF SendFail, SendReturns, StreamTypes, endVars, receiverVars
    <2>3. CASE SendCancel(t)
        BY <1>0, <2>3 DEF SendCancel, SendReturns, StreamTypes, endVars, receiverVars
    <2> QED  BY <1>3, <2>1, <2>2, <2>3
<1>4. ASSUME NEW t \in Receivers, ReceiveOk(t)
      PROVE  StreamTypes'
    <2>1. MessageIn(buffer) \in Seq(Bytes) /\ RestOf(buffer) \in Seq(Bytes)
        BY <1>4, DecodedBytes DEF ReceiveOk, StreamTypes
    <2>2. Append(received, MessageIn(buffer)) \in Seq(Seq(Bytes))
        BY <2>1, AppendProperties DEF StreamTypes
    <2> QED  BY <1>0, <1>4, <2>1, <2>2
             DEF ReceiveOk, ReceiveReturns, KeptForNext, StreamTypes, endVars, senderVars
<1>5. ASSUME NEW t \in Receivers, Read(t)
      PROVE  StreamTypes'
    <2>1. PICK n \in 1 .. Len(wire) : /\ buffer' = buffer \o SubSeq(wire, 1, n)
                                      /\ wire' = SubSeq(wire, n + 1, Len(wire))
        BY <1>5 DEF Read
    <2>2. buffer' \in Seq(Bytes) /\ wire' \in Seq(Bytes)
        BY <2>1, ReadPiece
    <2> QED  BY <1>5, <2>2 DEF Read, StreamTypes, endVars, senderVars
<1>6. ASSUME NEW t \in Receivers, ReceiveError(t) \/ ReceiveTimeout(t)
      PROVE  StreamTypes'
    BY <1>0, <1>6 DEF ReceiveError, ReceiveTimeout, ReceiveReturns, KeptForNext, StreamTypes, endVars,
                      senderVars
<1>7. ASSUME NEW t \in Receivers, ReceiveStart(t) \/ ReceiveLock(t) \/ ReceiveCancel(t)
      PROVE  StreamTypes'
    BY <1>7 DEF ReceiveStart, ReceiveLock, ReceiveCancel, StreamTypes, endVars, senderVars
<1>8. CASE CloseStart \/ CloseHalf \/ Disconnect \/ GrowIdle \/ Reset \/ UNCHANGED vars
    BY <1>0, <1>8 DEF CloseStart, CloseHalf, Disconnect, GrowIdle, Reset, StreamTypes,
                      endVars, senderVars, receiverVars, vars
<1> QED  BY <1>1, <1>2, <1>3, <1>4, <1>5, <1>6, <1>7, <1>8 DEF Next

LEMMA WriteLockStep == Sides /\ [Next]_vars => WriteLock'
<1> SUFFICES ASSUME Sides, [Next]_vars
             PROVE  WriteLock'
    OBVIOUS
<1> USE DEF Sides
<1>0. \A t \in Senders : t # None
    BY StreamAssumption
<1>1. ASSUME NEW t \in Senders, NEW m \in Messages, SendStart(t, m)
      PROVE  WriteLock'
    BY <1>0, <1>1 DEF SendStart, StreamTypes, WriteLock, endVars
<1>2. ASSUME NEW t \in Senders,
             SendLock(t) \/ Write(t) \/ SendFail(t) \/ SendCancel(t)
      PROVE  WriteLock'
    BY <1>0, <1>2 DEF SendLock, Write, SendFail, SendCancel, SendReturns, WriteFree,
                      StreamTypes, WriteLock, endVars
<1>3. ASSUME NEW t \in Receivers,
             \/ ReceiveStart(t) \/ ReceiveLock(t) \/ ReceiveCancel(t)
             \/ ReceiveOk(t) \/ Read(t) \/ ReceiveError(t) \/ ReceiveTimeout(t)
      PROVE  WriteLock'
    BY <1>3 DEF ReceiveStart, ReceiveLock, ReceiveCancel, ReceiveOk, Read, ReceiveError, ReceiveTimeout,
                WriteLock, endVars, senderVars
<1>4. CASE CloseStart \/ CloseHalf \/ Disconnect \/ GrowIdle \/ Reset \/ UNCHANGED vars
    BY <1>4 DEF CloseStart, CloseHalf, CloseMayTake, Disconnect, GrowIdle, Reset,
                StreamTypes, WriteLock, endVars, senderVars, receiverVars, vars
<1> QED  BY <1>1, <1>2, <1>3, <1>4 DEF Next

\* A sender that a step leaves alone keeps its frame.
LEMMA FrameKept ==
    ASSUME Frames, NEW t \in Senders,
           \/ sender'[t] = "out"
           \/ /\ sender'[t] = sender[t] \/ (sender'[t] = "writing" /\ sender[t] # "out")
              /\ message'[t] = message[t] /\ frame'[t] = frame[t]
    PROVE  FrameOf(t)'
BY DEF Frames, FrameOf, Done

LEMMA FramesStep == Sides /\ [Next]_vars => Frames'
<1> SUFFICES ASSUME Sides, [Next]_vars
             PROVE  Frames'
    OBVIOUS
<1> USE DEF Sides
<1>1. ASSUME NEW t \in Senders, NEW m \in Messages, SendStart(t, m)
      PROVE  Frames'
    <2>1. sent' = sent
        BY <1>1 DEF SendStart
    <2>2. CASE UNCHANGED <<sender, message, frame>>
        BY <2>1, <2>2, FrameKept DEF Frames
    <2>3. CASE ~TooLarge(m) /\ sender' = [sender EXCEPT ![t] = "locking"]
               /\ message' = [message EXCEPT ![t] = m]
               /\ frame' = [frame EXCEPT ![t] = Encode(m)]
        <3>1. Len(Encode(m)) = HeaderSize + Len(m) /\ Len(m) \in Nat
            BY <2>3, StreamAssumption, EncodeBytes
        <3>2. \A u \in Senders \ {t} : FrameOf(u)'
            BY <2>3, FrameKept DEF StreamTypes
        <3>3. sender'[t] = "locking" /\ message'[t] = m /\ frame'[t] = Encode(m)
            BY <2>3 DEF StreamTypes
        <3>4. Done(t)' = 0
            BY <3>1, <3>3 DEF Done, HeaderSize
        <3>5. \A j \in 1 .. Len(Encode(m)) : Encode(m)[j] = Encode(m)[0 + j]
            OBVIOUS
        <3>6. Len(Encode(m)) \in 1 .. HeaderSize + Len(m)
            BY <3>1 DEF HeaderSize
        <3>7. FrameOf(t)'
            BY <2>3, <3>3, <3>4, <3>5, <3>6 DEF FrameOf
        <3> QED  BY <2>1, <3>2, <3>7 DEF Frames
    <2> QED  BY <1>1, <2>2, <2>3 DEF SendStart
<1>2. ASSUME NEW t \in Senders, SendLock(t) \/ SendFail(t) \/ SendCancel(t)
      PROVE  Frames'
    <2>1. sent' = sent
        BY <1>2 DEF SendLock, SendFail, SendCancel
    <2>2. \A u \in Senders : FrameOf(u)'
        BY <1>2, FrameKept DEF SendLock, SendFail, SendCancel, SendReturns, StreamTypes
    <2> QED  BY <2>1, <2>2 DEF Frames
<1>3. ASSUME NEW t \in Senders, Write(t)
      PROVE  Frames'
    <2>1. PICK n \in 1 .. Len(frame[t]) :
              IF n = Len(frame[t])
              THEN SendReturns(t) /\ writer' = None /\ sent' = Append(sent, message[t])
              ELSE /\ frame' = [frame EXCEPT ![t] = SubSeq(@, n + 1, Len(@))]
                   /\ UNCHANGED <<sender, message, writer, sent>>
        BY <1>3 DEF Write
    <2>2. /\ sender[t] = "writing"
          /\ ~TooLarge(message[t]) /\ Len(frame[t]) \in 1 .. HeaderSize + Len(message[t])
          /\ \A j \in 1 .. Len(frame[t]) : frame[t][j] = Encode(message[t])[Done(t) + j]
        BY <1>3 DEF Write, Frames, FrameOf
    <2>3. CASE n = Len(frame[t])
        <3>1. \A i \in 1 .. Len(sent') : ~TooLarge(sent'[i])
            <4>1. message[t] \in Seq(Bytes) /\ sent \in Seq(Seq(Bytes))
                BY DEF StreamTypes
            <4>a. sent' = Append(sent, message[t])
                BY <2>1, <2>3
            <4>2. /\ Len(sent') = Len(sent) + 1 /\ sent'[Len(sent) + 1] = message[t]
                  /\ \A i \in 1 .. Len(sent) : sent'[i] = sent[i]
                BY <4>1, <4>a, AppendProperties
            <4>3. Len(sent) \in Nat /\ \A i \in 1 .. Len(sent) + 1 :
                      i \in 1 .. Len(sent) \/ i = Len(sent) + 1
                BY <4>1
            <4> QED  BY <2>2, <4>2, <4>3 DEF Frames, TooLarge
        <3>2. \A u \in Senders : FrameOf(u)'
            BY <2>1, <2>3, FrameKept DEF SendReturns, StreamTypes
        <3> QED  BY <3>1, <3>2 DEF Frames
    <2>4. CASE n # Len(frame[t])
        <3> DEFINE rest == SubSeq(frame[t], n + 1, Len(frame[t]))
        <3>1. /\ rest \in Seq(Bytes) /\ Len(rest) = Len(frame[t]) - n
              /\ \A j \in 1 .. Len(rest) : rest[j] = frame[t][n + j]
            BY <2>2, WrittenPiece
        <3>2. frame'[t] = rest /\ sender'[t] = "writing" /\ message'[t] = message[t]
            BY <2>1, <2>2, <2>4 DEF StreamTypes
        <3>3. \A u \in Senders \ {t} : FrameOf(u)'
            BY <2>1, <2>4, FrameKept DEF StreamTypes
        <3> HIDE DEF rest
        <3>5. Len(frame[t]) \in Nat /\ Len(message[t]) \in Nat /\ HeaderSize \in Nat
            BY DEF StreamTypes, HeaderSize
        <3>6. Len(rest) \in 1 .. HeaderSize + Len(message[t])
            BY <2>2, <2>4, <3>1, <3>5
        <3>7. Done(t) \in Nat /\ Done(t)' = Done(t) + n
            <4>1. n \in Nat
                BY <3>5
            <4>2. Done(t)' = HeaderSize + Len(message[t]) - Len(rest)
                BY <3>2 DEF Done
            <4>3. Done(t) = HeaderSize + Len(message[t]) - Len(frame[t])
                BY DEF Done
            <4>4. Len(frame[t]) <= HeaderSize + Len(message[t])
                BY <2>2, <3>5
            <4>5. Len(rest) = Len(frame[t]) - n
                BY <3>1
            <4> QED  BY <3>5, <4>1, <4>2, <4>3, <4>4, <4>5
        <3>8. ASSUME NEW j \in 1 .. Len(rest)
              PROVE  rest[j] = Encode(message[t])[Done(t)' + j]
            <4>1. n + j \in 1 .. Len(frame[t]) /\ Done(t) + (n + j) = Done(t)' + j
                BY <3>1, <3>5, <3>7
            <4>2. frame[t][n + j] = Encode(message[t])[Done(t) + (n + j)]
                BY <2>2, <4>1
            <4> QED  BY <3>1, <4>1, <4>2
        <3>9. FrameOf(t)'
            BY <2>2, <3>2, <3>6, <3>8 DEF FrameOf
        <3> QED  BY <2>1, <2>4, <3>3, <3>9 DEF Frames
    <2> QED  BY <2>3, <2>4
<1>4. CASE UNCHANGED <<sender, message, frame, sent>>
    BY <1>4, FrameKept DEF Frames
<1>5. ASSUME NEW t \in Receivers,
             \/ ReceiveStart(t) \/ ReceiveLock(t) \/ ReceiveCancel(t)
             \/ ReceiveOk(t) \/ Read(t) \/ ReceiveError(t) \/ ReceiveTimeout(t)
      PROVE  Frames'
    BY <1>4, <1>5 DEF ReceiveStart, ReceiveLock, ReceiveCancel, ReceiveOk, Read,
                      ReceiveError, ReceiveTimeout, senderVars
<1>6. CASE CloseStart \/ CloseHalf \/ Disconnect \/ GrowIdle \/ Reset \/ UNCHANGED vars
    BY <1>4, <1>6 DEF CloseStart, CloseHalf, Disconnect, GrowIdle, Reset, senderVars, vars
<1> QED  BY <1>1, <1>2, <1>3, <1>5, <1>6 DEF Next

-----------------------------------------------------------------------------
(* The two ends stay in step. *)

LEMMA Lengths ==
    ASSUME Sides
    PROVE  /\ Len(sent) \in Nat /\ Len(received) \in Nat /\ Len(buffer) \in Nat
           /\ Len(wire) \in Nat /\ HeaderSize \in Nat /\ HeaderSize = 4
           /\ \A t \in Senders : Len(message[t]) \in Nat /\ Len(frame[t]) \in Nat
           /\ \A t \in Senders : sender[t] = "writing" =>
                 Done(t) \in Nat /\ Done(t) < HeaderSize + Len(message[t])
           /\ \A i \in 1 .. Len(sent) : sent[i] \in Seq(Bytes) /\ Len(sent[i]) \in Nat
           /\ Partial \in Nat
<1>1. /\ Len(sent) \in Nat /\ Len(received) \in Nat /\ Len(buffer) \in Nat
      /\ Len(wire) \in Nat /\ HeaderSize \in Nat /\ HeaderSize = 4
      /\ \A t \in Senders : Len(message[t]) \in Nat /\ Len(frame[t]) \in Nat
    BY DEF Sides, StreamTypes, HeaderSize
<1>2. \A t \in Senders : sender[t] = "writing" =>
          Done(t) \in Nat /\ Done(t) < HeaderSize + Len(message[t])
    <2> TAKE t \in Senders
    <2> HAVE sender[t] = "writing"
    <2>1. Len(frame[t]) \in 1 .. HeaderSize + Len(message[t])
        BY DEF Sides, Frames, FrameOf
    <2> DEFINE a == Len(message[t])
               b == Len(frame[t])
    <2>2. a \in Nat /\ b \in Nat
        BY <1>1
    <2> HIDE DEF a, b
    <2>3. b \in 1 .. 4 + a /\ Done(t) = 4 + a - b
        BY <2>1 DEF Done, HeaderSize, a, b
    <2>4. Done(t) \in Nat /\ Done(t) < 4 + a
        BY <2>2, <2>3
    <2> QED  BY <2>4 DEF HeaderSize, a
<1>3. \A i \in 1 .. Len(sent) : sent[i] \in Seq(Bytes) /\ Len(sent[i]) \in Nat
    <2>1. \A i \in 1 .. Len(sent) : sent[i] \in Seq(Bytes)
        BY ElementOfSeq DEF Sides, StreamTypes
    <2> QED  BY <2>1, LenProperties
<1>4. Partial \in Nat
    BY <1>2, StreamAssumption DEF Sides, StreamTypes, WriteLock, Partial
<1> QED  BY <1>1, <1>2, <1>3, <1>4

\* A step that moves no bytes.
LEMMA NothingMoves ==
    ASSUME InStep, UNCHANGED <<sent, received, buffer, wire, reset>>,
           \/ /\ writer' = writer
              /\ writer # None => /\ message'[writer] = message[writer]
                                  /\ frame'[writer] = frame[writer]
           \/ Partial = 0 /\ Partial' = 0
    PROVE  InStep'
<1>1. PICK bytes \in [Nat -> Int], end \in [Nat -> Nat] :
          History(bytes, end) /\ Position(bytes, end)
    BY DEF InStep
<1>2. Partial' = Partial
    BY DEF Partial, Done
<1>3. \A j : writer' # None /\ j \in 1 .. Done(writer)' =>
          bytes[end[Len(sent)] + j] = Encode(message'[writer'])[j]
    <2>1. CASE Partial' = 0
        BY <2>1 DEF Partial
    <2>2. CASE /\ writer' = writer
               /\ writer # None => /\ message'[writer] = message[writer]
                                   /\ frame'[writer] = frame[writer]
        BY <1>1, <2>2 DEF History, Done
    <2> QED  BY <2>1, <2>2
<1>4. History(bytes, end)'
    BY <1>1, <1>3 DEF History
<1>5. Position(bytes, end)'
    BY <1>1, <1>2 DEF Position
<1> QED  BY <1>4, <1>5 DEF InStep

LEMMA ResetMoves ==
    ASSUME Sides, InStep, Reset
    PROVE  InStep'
<1>1. PICK bytes \in [Nat -> Int], end \in [Nat -> Nat] :
          History(bytes, end) /\ Position(bytes, end)
    BY DEF InStep
<1>2. History(bytes, end)' /\ Partial' = Partial
    BY <1>1 DEF Reset, senderVars, History, Partial, Done
<1>3. Len(wire') = 0 /\ reset' /\ UNCHANGED <<sent, received, buffer>>
    BY DEF Reset, senderVars, receiverVars
<1> DEFINE start == end[Len(received)]
<1>4. /\ start \in Nat /\ end[Len(sent)] \in Nat /\ Len(buffer) \in Nat
      /\ Len(wire) \in Nat /\ Partial \in Nat
    BY Lengths
<1>5. (start + Len(buffer)) + Len(wire) <= end[Len(sent)] + Partial
    BY <1>1 DEF Position
<1>6. (start + Len(buffer)) + 0 <= end[Len(sent)] + Partial
    <2> DEFINE a == end[Len(sent)]
               b == Partial
               c == Len(buffer)
    <2> HIDE DEF start, a, b, c
    <2>1. start \in Nat /\ a \in Nat /\ b \in Nat /\ c \in Nat
        BY <1>4 DEF a, b, c
    <2>2. (start + c) + Len(wire) <= a + b
        BY <1>5 DEF a, b, c
    <2>3. (start + c) + 0 <= a + b
        BY <1>4, <2>1, <2>2
    <2> QED  BY <2>3 DEF a, b, c
<1>7. Position(bytes, end)'
    <2>1. \A i \in 1 .. Len(wire') : FALSE
        BY <1>3
    <2> QED  BY <1>1, <1>2, <1>3, <1>6, <2>1 DEF Position
<1> QED  BY <1>2, <1>7 DEF InStep

LEMMA ReadMoves ==
    ASSUME Sides, InStep, NEW t \in Receivers, Read(t)
    PROVE  InStep'
<1>1. PICK bytes \in [Nat -> Int], end \in [Nat -> Nat] :
          History(bytes, end) /\ Position(bytes, end)
    BY DEF InStep
<1>2. PICK n \in 1 .. Len(wire) : /\ buffer' = buffer \o SubSeq(wire, 1, n)
                                  /\ wire' = SubSeq(wire, n + 1, Len(wire))
    BY DEF Read
<1>3. History(bytes, end)' /\ Partial' = Partial
    BY <1>1 DEF Read, senderVars, History, Partial, Done
<1>4. /\ Len(buffer') = Len(buffer) + n
      /\ \A i \in 1 .. Len(buffer) : buffer'[i] = buffer[i]
      /\ \A i \in 1 .. n : buffer'[Len(buffer) + i] = wire[i]
      /\ Len(wire') = Len(wire) - n
      /\ \A i \in 1 .. Len(wire') : wire'[i] = wire[n + i]
    BY <1>2, ReadPiece
<1> DEFINE start == end[Len(received)]
<1>5. /\ start \in Nat /\ n \in Nat /\ Len(buffer) \in Nat /\ Len(wire) \in Nat
      /\ end[Len(sent)] \in Nat /\ Partial \in Nat
    BY Lengths
<1>6. /\ UNCHANGED <<sent, received, reset>>
    BY DEF Read, senderVars, receiverVars
<1>7. /\ Len(received) <= Len(sent)
      /\ \A i \in 1 .. Len(received) : received[i] = sent[i]
      /\ \A i \in 1 .. Len(buffer) : buffer[i] = bytes[start + i]
      /\ \A i \in 1 .. Len(wire) : wire[i] = bytes[(start + Len(buffer)) + i]
      /\ (start + Len(buffer)) + Len(wire) <= end[Len(sent)] + Partial
      /\ ~reset => (start + Len(buffer)) + Len(wire) = end[Len(sent)] + Partial
    BY <1>1 DEF Position
<1> HIDE DEF start
<1>8. ASSUME NEW i \in 1 .. Len(buffer')
      PROVE  buffer'[i] = bytes[start + i]
    <2>0. i \in 1 .. Len(buffer) + n
        BY <1>4
    <2>1. CASE i <= Len(buffer)
        <3>1. i \in 1 .. Len(buffer)
            BY <1>5, <2>0, <2>1
        <3> QED  BY <1>4, <1>7, <3>1
    <2>2. CASE i > Len(buffer)
        <3> DEFINE j == i - Len(buffer)
        <3>1. j \in 1 .. n /\ i = Len(buffer) + j
            BY <1>5, <2>0, <2>2
        <3>0. j \in 1 .. Len(wire)
            BY <1>5, <3>1
        <3> HIDE DEF j
        <3>2. buffer'[Len(buffer) + j] = wire[j] /\ wire[j] = bytes[(start + Len(buffer)) + j]
            BY <1>4, <1>7, <3>1, <3>0
        <3>3. (start + Len(buffer)) + j = start + i
            BY <1>5, <3>1
        <3> QED  BY <3>1, <3>2, <3>3
    <2> QED  BY <1>5, <2>0, <2>1, <2>2
<1>9. ASSUME NEW i \in 1 .. Len(wire')
      PROVE  wire'[i] = bytes[(start + Len(buffer')) + i]
    <2>0. Len(wire') = Len(wire) - n /\ Len(buffer') = Len(buffer) + n
        BY <1>4
    <2>1. n + i \in 1 .. Len(wire)
        BY <1>5, <2>0
    <2>2. (start + Len(buffer)) + (n + i) = (start + Len(buffer')) + i
        BY <1>5, <2>0
    <2> QED  BY <1>4, <1>7, <2>1, <2>2
<1>10. (start + Len(buffer')) + Len(wire') = (start + Len(buffer)) + Len(wire)
    BY <1>4, <1>5
<1>11. Position(bytes, end)'
    BY <1>3, <1>6, <1>7, <1>8, <1>9, <1>10 DEF Position, start
<1> QED  BY <1>3, <1>11 DEF InStep

\* The frame that the receiver has to decode next, if there is one.
LEMMA FrameAhead ==
    ASSUME Sides, NEW bytes, NEW end \in [Nat -> Nat],
           History(bytes, end), Position(bytes, end), Len(received) < Len(sent)
    PROVE  LET m == sent[Len(received) + 1]
           IN  /\ m \in Seq(Bytes) /\ ~TooLarge(m)
               /\ end[Len(received) + 1] = end[Len(received)] + (HeaderSize + Len(m))
               /\ end[Len(received) + 1] <= end[Len(sent)]
               /\ \A j \in 1 .. Len(buffer) :
                     j <= HeaderSize + Len(m) => buffer[j] = Encode(m)[j]
<1> DEFINE r == Len(received)
           N == Len(sent)
           q == r + 1
           m == sent[q]
<1>1. /\ q \in 1 .. N /\ q - 1 = r
      /\ q \in 0 .. N /\ N \in 0 .. N /\ q <= N
    <2>1. r \in Nat /\ N \in Nat /\ r < N
        BY Lengths
    <2> HIDE DEF r, N
    <2> QED  BY <2>1
<1>2. m \in Seq(Bytes) /\ ~TooLarge(m) /\ Len(m) \in Nat
    BY <1>1, Lengths DEF Sides, Frames
<1> HIDE DEF q
<1>3. /\ end[q] = end[q - 1] + (HeaderSize + Len(sent[q]))
      /\ \A j \in 1 .. HeaderSize + Len(sent[q]) : bytes[end[q - 1] + j] = Encode(sent[q])[j]
    BY <1>1 DEF History
<1>4. end[q] <= end[N]
    BY <1>1 DEF History
<1>5. \A j \in 1 .. Len(buffer) : buffer[j] = bytes[end[r] + j]
    BY DEF Position
<1>6. ASSUME NEW j \in 1 .. Len(buffer), j <= HeaderSize + Len(m)
      PROVE  buffer[j] = Encode(m)[j]
    <2>1. j \in 1 .. HeaderSize + Len(m)
        BY <1>2, <1>6, Lengths DEF HeaderSize
    <2> QED  BY <1>1, <1>3, <1>5, <2>1
<1> QED  BY <1>1, <1>2, <1>3, <1>4, <1>6 DEF q

\* When the receiver has decoded every frame, its buffer holds at most the
\* beginning of the one that is being written.
LEMMA NothingAhead ==
    ASSUME Sides, NEW bytes, NEW end \in [Nat -> Nat],
           History(bytes, end), Position(bytes, end), Len(received) = Len(sent)
    PROVE  Incomplete(buffer) /\ (writer = None => buffer = <<>> /\ wire = <<>>)
<1> DEFINE e == end[Len(sent)]
           b == Len(buffer)
           w == Len(wire)
           p == Partial
<1>1. e \in Nat /\ b \in Nat /\ w \in Nat /\ p \in Nat
    BY Lengths
<1>2. (e + b) + w <= e + p
    BY DEF Position
<1> HIDE DEF e, b, w, p
<1>3. b <= p /\ w <= p
    BY <1>1, <1>2
<1>4. CASE writer = None
    <2>1. Len(buffer) = 0 /\ Len(wire) = 0
        BY <1>1, <1>3, <1>4 DEF p, b, w, Partial
    <2>2. buffer = <<>> /\ wire = <<>>
        BY <2>1, EmptySeq DEF Sides, StreamTypes
    <2> QED  BY <2>1, <2>2 DEF Incomplete, Rejected, Complete, HasHeader, HeaderSize
<1>5. CASE writer # None
    <2>1. writer \in Senders /\ sender[writer] = "writing"
        BY <1>5 DEF Sides, StreamTypes, WriteLock
    <2> DEFINE m == message[writer]
    <2>2. m \in Seq(Bytes) /\ ~TooLarge(m)
        BY <2>1 DEF Sides, StreamTypes, Frames, FrameOf
    <2>3. p = Done(writer) /\ p < HeaderSize + Len(m)
        BY <1>5, <2>1, Lengths DEF p, Partial
    <2>4. Len(m) \in Nat /\ HeaderSize \in Nat
        BY <2>2, LenProperties DEF HeaderSize
    <2> HIDE DEF m
    <2>5. b < HeaderSize + Len(m)
        BY <1>1, <1>3, <2>3, <2>4
    <2>6. ASSUME NEW j \in 1 .. Len(buffer)
          PROVE  buffer[j] = Encode(m)[j]
        <3>1. j \in 1 .. Done(writer)
            BY <1>1, <1>3, <2>3 DEF b
        <3>2. buffer[j] = bytes[end[Len(sent)] + j]
            BY DEF Position
        <3> QED  BY <1>5, <3>1, <3>2 DEF History, m
    <2>7. Incomplete(buffer)
        BY <2>2, <2>5, <2>6, FirstFrame DEF b, Sides, StreamTypes
    <2> QED  BY <1>5, <2>7
<1> QED  BY <1>4, <1>5

\* What receive decodes is the next message.
LEMMA NextMessage ==
    ASSUME Sides, NEW bytes, NEW end \in [Nat -> Nat],
           History(bytes, end), Position(bytes, end), Complete(buffer)
    PROVE  LET m == sent[Len(received) + 1]
               k == HeaderSize + Len(m)
               rest == RestOf(buffer)
           IN  /\ Len(received) < Len(sent) /\ MessageIn(buffer) = m
               /\ k \in Nat /\ end[Len(received) + 1] = end[Len(received)] + k
               /\ k <= Len(buffer)
               /\ Len(rest) = Len(buffer) - k
               /\ \A i \in 1 .. Len(rest) : rest[i] = buffer[k + i]
<1>1. Len(received) < Len(sent)
    <2>1. Len(received) <= Len(sent)
        BY DEF Position
    <2>2. Len(received) # Len(sent)
        BY NothingAhead DEF Incomplete
    <2> QED  BY <2>1, <2>2, Lengths
<1> DEFINE m == sent[Len(received) + 1]
           k == HeaderSize + Len(m)
<1>2. /\ m \in Seq(Bytes) /\ ~TooLarge(m)
      /\ end[Len(received) + 1] = end[Len(received)] + k
      /\ \A j \in 1 .. Len(buffer) : j <= k => buffer[j] = Encode(m)[j]
    BY <1>1, FrameAhead
<1> HIDE DEF m
<1>3. k \in Nat /\ Len(buffer) \in Nat
    BY <1>2, Lengths DEF HeaderSize
<1>4. /\ Len(buffer) < k => Incomplete(buffer)
      /\ Len(buffer) >= k =>
           /\ MessageIn(buffer) = m
           /\ Len(RestOf(buffer)) = Len(buffer) - k
           /\ \A i \in 1 .. Len(RestOf(buffer)) : RestOf(buffer)[i] = buffer[k + i]
    BY <1>2, FirstFrame DEF Sides, StreamTypes
<1>5. Len(buffer) >= k
    BY <1>3, <1>4 DEF Incomplete
<1> QED  BY <1>1, <1>2, <1>3, <1>4, <1>5 DEF m

LEMMA DecodeMoves ==
    ASSUME Sides, InStep, NEW t \in Receivers, ReceiveOk(t), ~dropped'
    PROVE  InStep'
<1>1. PICK bytes \in [Nat -> Int], end \in [Nat -> Nat] :
          History(bytes, end) /\ Position(bytes, end)
    BY DEF InStep
<1> DEFINE r == Len(received)
           N == Len(sent)
           m == sent[r + 1]
           k == HeaderSize + Len(m)
           rest == RestOf(buffer)
           start == end[r]
<1>2. /\ r < N /\ MessageIn(buffer) = m
      /\ k \in Nat /\ end[r + 1] = end[r] + k /\ k <= Len(buffer)
      /\ Len(rest) = Len(buffer) - k
      /\ \A i \in 1 .. Len(rest) : rest[i] = buffer[k + i]
    BY <1>1, NextMessage DEF ReceiveOk
<1>3. buffer' = rest /\ received' = Append(received, m) /\ UNCHANGED <<sent, wire, reset>>
    BY <1>2 DEF ReceiveOk, ReceiveReturns, KeptForNext, senderVars, Sides, StreamTypes,
                Directions
<1>4. History(bytes, end)' /\ Partial' = Partial
    BY <1>1 DEF ReceiveOk, senderVars, History, Partial, Done
<1>5. /\ r \in Nat /\ N \in Nat /\ Len(buffer) \in Nat /\ Len(wire) \in Nat
      /\ start \in Nat
    BY Lengths
<1>6. /\ Len(received') = r + 1 /\ received'[r + 1] = m
      /\ \A i \in 1 .. r : received'[i] = received[i]
    <2>1. m \in Seq(Bytes) /\ received \in Seq(Seq(Bytes))
        <3>1. r + 1 \in 1 .. N
            <4> HIDE DEF r, N
            <4> QED  BY <1>2, <1>5
        <3> QED  BY <3>1, Lengths DEF Sides, StreamTypes
    <2> HIDE DEF m
    <2> QED  BY <1>3, <2>1, AppendProperties
<1>7. /\ \A i \in 1 .. r : received[i] = sent[i]
      /\ \A i \in 1 .. Len(buffer) : buffer[i] = bytes[start + i]
      /\ \A i \in 1 .. Len(wire) : wire[i] = bytes[(start + Len(buffer)) + i]
      /\ (start + Len(buffer)) + Len(wire) <= end[N] + Partial
      /\ ~reset => (start + Len(buffer)) + Len(wire) = end[N] + Partial
    BY <1>1 DEF Position
<1> HIDE DEF k, rest, start
<1>8. end[r + 1] = start + k
    BY <1>2 DEF start
<1>9. ASSUME NEW i \in 1 .. Len(rest)
      PROVE  rest[i] = bytes[(start + k) + i]
    <2>1. k + i \in 1 .. Len(buffer) /\ start + (k + i) = (start + k) + i
        BY <1>2, <1>5
    <2> QED  BY <1>2, <1>7, <2>1
<1>10. (start + k) + Len(rest) = start + Len(buffer)
    BY <1>2, <1>5
<1>11. \A i \in 1 .. r + 1 : received'[i] = sent[i]
    <2>1. \A i \in 1 .. r + 1 : i \in 1 .. r \/ i = r + 1
        <3> HIDE DEF r
        <3> QED  BY <1>5
    <2> QED  BY <1>6, <1>7, <2>1
<1>12. r + 1 <= N
    BY <1>2, <1>5
<1>13. Position(bytes, end)'
    <2>1. end[Len(received')] = start + k
        BY <1>6, <1>8
    <2>2. (end[Len(received')] + Len(buffer')) = start + Len(buffer)
        BY <1>3, <1>10, <2>1
    <2>3. \A i \in 1 .. Len(buffer') : buffer'[i] = bytes[end[Len(received')] + i]
        BY <1>3, <1>9, <2>1
    <2> QED  BY <1>3, <1>4, <1>6, <1>7, <1>11, <1>12, <2>2, <2>3 DEF Position
<1> QED  BY <1>4, <1>13 DEF InStep

LEMMA WriteMoves ==
    ASSUME Sides, InStep, NEW t \in Senders, Write(t)
    PROVE  InStep'
<1>1. PICK bytes \in [Nat -> Int], end \in [Nat -> Nat] :
          History(bytes, end) /\ Position(bytes, end)
    BY DEF InStep
<1>2. PICK n \in 1 .. Len(frame[t]) :
          /\ wire' = wire \o SubSeq(frame[t], 1, n)
          /\ IF n = Len(frame[t])
             THEN SendReturns(t) /\ writer' = None /\ sent' = Append(sent, message[t])
             ELSE /\ frame' = [frame EXCEPT ![t] = SubSeq(@, n + 1, Len(@))]
                  /\ UNCHANGED <<sender, message, writer, sent>>
    BY DEF Write
<1> DEFINE N == Len(sent)
           m == message[t]
           fr == frame[t]
           d == Done(t)
           e == end[N]
           L == e + d
           W == Len(wire)
           B == Len(buffer)
           start == end[Len(received)]
           longer == [k \in Nat |-> IF k \in L + 1 .. L + n THEN fr[k - L] ELSE bytes[k]]
<1>3. /\ sender[t] = "writing" /\ writer = t /\ ~reset
      /\ UNCHANGED <<received, buffer, reset>>
    BY StreamAssumption DEF Write, Sides, WriteLock, receiverVars
<1>4. /\ N \in Nat /\ d \in Nat /\ Len(fr) \in Nat /\ Len(m) \in Nat
      /\ B \in Nat /\ W \in Nat /\ Len(received) \in Nat
    BY <1>3, Lengths
<1>5. e \in Nat /\ start \in Nat /\ L \in Nat /\ n \in Nat /\ n \in 1 .. Len(fr)
    <2>1. e \in Nat /\ start \in Nat /\ n \in 1 .. Len(fr)
        BY <1>4
    <2> HIDE DEF e, d, fr
    <2> QED  BY <1>4, <2>1
<1>6. d + Len(fr) = HeaderSize + Len(m)
    <2>1. d = HeaderSize + Len(m) - Len(fr)
        BY DEF Done
    <2> HIDE DEF d, m, fr
    <2> QED  BY <1>4, <2>1 DEF HeaderSize
<1>7. /\ fr \in Seq(Bytes) /\ m \in Seq(Bytes)
      /\ \A j \in 1 .. Len(fr) : fr[j] = Encode(m)[d + j]
    BY <1>3 DEF Sides, StreamTypes, Frames, FrameOf
<1>8. /\ Len(wire') = W + n
      /\ \A i \in 1 .. W : wire'[i] = wire[i]
      /\ \A i \in 1 .. n : wire'[W + i] = fr[i]
    <2> DEFINE piece == SubSeq(fr, 1, n)
    <2>1. /\ \A j \in 1 .. n : piece[j] = fr[j]
          /\ Len(wire \o piece) = W + n
          /\ \A i \in 1 .. W : (wire \o piece)[i] = wire[i]
          /\ \A i \in 1 .. n : (wire \o piece)[W + i] = piece[i]
        BY <1>3, WrittenPiece
    <2>2. wire' = wire \o piece
        BY <1>2
    <2> HIDE DEF piece, fr, W
    <2> QED  BY <2>1, <2>2
<1>9. /\ end[0] = 0
      /\ \A i \in 1 .. N : end[i] = end[i - 1] + (HeaderSize + Len(sent[i]))
      /\ \A i, k \in 0 .. N : i <= k => end[i] <= end[k]
      /\ \A i \in 1 .. N : \A j \in 1 .. HeaderSize + Len(sent[i]) :
            bytes[end[i - 1] + j] = Encode(sent[i])[j]
      /\ \A j \in 1 .. d : bytes[e + j] = Encode(m)[j]
    BY <1>1, <1>3, StreamAssumption DEF History
<1>10. /\ Len(received) <= N
       /\ \A i \in 1 .. Len(received) : received[i] = sent[i]
       /\ \A i \in 1 .. B : buffer[i] = bytes[start + i]
       /\ \A i \in 1 .. W : wire[i] = bytes[(start + B) + i]
    BY <1>1, <1>3, StreamAssumption DEF Position, Partial
<1>22. (start + B) + W = L
    BY <1>1, <1>3, StreamAssumption DEF Position, Partial
<1>11. \A i \in 1 .. N : Len(sent[i]) \in Nat
    BY Lengths
<1>23. Len(wire') = W + n
    BY <1>8
<1>24. Len(received) <= N
    BY <1>10
<1>25. Len(received') = Len(received) /\ Len(buffer') = B /\ reset' = reset
    BY <1>3
<1> HIDE DEF N, m, fr, d, e, L, W, B, start
<1>26. longer \in [Nat -> Int]
    <2>1. \A k \in L + 1 .. L + n : fr[k - L] \in Int
        <3>1. \A k \in L + 1 .. L + n : k - L \in 1 .. Len(fr)
            BY <1>4, <1>5
        <3>2. \A i \in 1 .. Len(fr) : fr[i] \in Int
            BY <1>7, ElementOfSeq, BytesInts
        <3> QED  BY <3>1, <3>2
    <2> QED  BY <2>1
<1>27. /\ \A k \in Nat : k <= L => longer[k] = bytes[k]
       /\ \A i \in 1 .. n : longer[L + i] = fr[i]
    <2>1. \A k \in Nat : k <= L => k \notin L + 1 .. L + n
        BY <1>5
    <2>2. \A i \in 1 .. n : L + i \in L + 1 .. L + n /\ L + i \in Nat /\ (L + i) - L = i
        BY <1>5
    <2>3. \A k \in Nat : k <= L => longer[k] = bytes[k]
        BY <2>1
    <2>4. \A i \in 1 .. n : longer[L + i] = fr[(L + i) - L]
        BY <2>2
    <2> QED  BY <2>2, <2>3, <2>4
<1> HIDE DEF longer
<1>12. PICK more \in [Nat -> Int] : more = longer
    BY <1>26
<1>13. /\ \A k \in Nat : k <= L => more[k] = bytes[k]
       /\ \A i \in 1 .. n : more[L + i] = fr[i]
    BY <1>12, <1>27
<1>14. L = e + d
    BY DEF L
\* The frames that were complete are where they were ...
<1>15. ASSUME NEW i \in 1 .. N, NEW j \in 1 .. HeaderSize + Len(sent[i])
       PROVE  more[end[i - 1] + j] = Encode(sent[i])[j]
    <2> DEFINE a == end[i - 1]
               b == end[i]
               c == Len(sent[i])
    <2>1. i \in 0 .. N /\ N \in 0 .. N /\ i <= N /\ i \in Nat /\ i - 1 \in Nat
        BY <1>4
    <2>2. a \in Nat /\ b \in Nat /\ c \in Nat
        BY <1>11, <2>1
    <2>3. b = a + (HeaderSize + c) /\ b <= e
        BY <1>9, <2>1 DEF e
    <2>4. bytes[a + j] = Encode(sent[i])[j]
        BY <1>9
    <2> HIDE DEF a, b, c
    <2>5. j \in 1 .. 4 + c
        BY DEF HeaderSize, c
    <2>6. a + j <= L /\ a + j \in Nat
        BY <1>4, <1>5, <1>14, <2>2, <2>3, <2>5 DEF HeaderSize
    <2> QED  BY <1>13, <2>4, <2>6 DEF a
\* ... and the one under way goes on.
<1>16. ASSUME NEW j \in 1 .. d + n
       PROVE  more[e + j] = Encode(m)[j]
    <2>1. CASE j <= d
        <3>1. j \in 1 .. d /\ e + j <= L /\ e + j \in Nat
            BY <1>4, <1>5, <1>14, <2>1
        <3> QED  BY <1>9, <1>13, <3>1
    <2>2. CASE j > d
        <3> DEFINE i == j - d
        <3>1. i \in 1 .. n /\ d + i = j /\ L + i = e + j /\ i \in 1 .. Len(fr)
            BY <1>4, <1>5, <1>14, <2>2
        <3> HIDE DEF i
        <3>2. more[L + i] = fr[i] /\ fr[i] = Encode(m)[d + i]
            BY <1>7, <1>13, <3>1
        <3> QED  BY <3>1, <3>2
    <2> QED  BY <1>4, <1>5, <2>1, <2>2
<1>17. ASSUME NEW i \in 1 .. B
       PROVE  buffer[i] = more[start + i]
    <2>1. start + i <= L /\ start + i \in Nat
        BY <1>4, <1>5, <1>22
    <2> QED  BY <1>10, <1>13, <2>1
<1>18. ASSUME NEW i \in 1 .. W + n
       PROVE  wire'[i] = more[(start + B) + i]
    <2>1. CASE i <= W
        <3>1. i \in 1 .. W /\ (start + B) + i <= L
              /\ (start + B) + i \in Nat
            BY <1>4, <1>5, <1>22, <2>1
        <3> QED  BY <1>8, <1>10, <1>13, <3>1
    <2>2. CASE i > W
        <3> DEFINE j == i - W
        <3>1. j \in 1 .. n /\ W + j = i /\ L + j = (start + B) + i
            BY <1>4, <1>5, <1>22, <2>2
        <3> HIDE DEF j
        <3>2. wire'[W + j] = fr[j] /\ more[L + j] = fr[j]
            BY <1>8, <1>13, <3>1
        <3> QED  BY <3>1, <3>2
    <2> QED  BY <1>4, <1>5, <2>1, <2>2
<1>19. (start + B) + (W + n) = e + (d + n)
    BY <1>4, <1>5, <1>22, <1>14
<1>20. CASE n = Len(fr)
    <2> DEFINE M == Len(sent')
               ends == [end EXCEPT ![M] = e + (d + n)]
    <2>1. writer' = None /\ sent' = Append(sent, m)
        BY <1>2, <1>20 DEF fr, m
    <2>2. /\ M = N + 1 /\ sent'[M] = m
          /\ \A i \in 1 .. N : sent'[i] = sent[i]
        BY <1>7, <2>1, AppendProperties DEF N, Sides, StreamTypes
    <2> HIDE DEF M
    <2>20. M = N + 1
        BY <2>2
    <2>3. M \in Nat /\ e + (d + n) \in Nat
        BY <1>4, <1>5, <2>20
    <2>21. ends \in [Nat -> Nat] /\ ends[M] = e + (d + n)
        BY <2>3
    <2>22. \A i \in 0 .. N : ends[i] = end[i]
        BY <1>4, <2>20
    <2> HIDE DEF ends
    <2>4. PICK last \in [Nat -> Nat] :
              last[M] = e + (d + n) /\ \A i \in 0 .. N : last[i] = end[i]
        BY <2>21, <2>22
    <2>5. \A i \in 0 .. N : last[i] = end[i]
        BY <2>4
    <2>6. \A i \in 1 .. M : i \in 1 .. N \/ i = M
        BY <1>4, <2>20
    <2>7. \A i \in 1 .. N : i \in 0 .. N /\ i - 1 \in 0 .. N
        BY <1>4
    <2>8. 0 \in 0 .. N /\ N \in 0 .. N /\ M - 1 = N
        BY <1>4, <2>20
    <2>9. e + (d + n) = e + (HeaderSize + Len(m))
        BY <1>4, <1>6, <1>20
    <2>10. ASSUME NEW i \in 1 .. M
           PROVE  last[i] = last[i - 1] + (HeaderSize + Len(sent'[i]))
        <3>1. CASE i \in 1 .. N
            BY <1>9, <2>2, <2>5, <2>7, <3>1
        <3>2. CASE i = M
            BY <2>2, <2>4, <2>5, <2>8, <2>9, <3>2 DEF e
        <3> QED  BY <2>6, <3>1, <3>2
    <2>11. ASSUME NEW i \in 0 .. M, NEW k \in 0 .. M, i <= k
           PROVE  last[i] <= last[k]
        <3>1. CASE k \in 0 .. N
            <4>1. i \in 0 .. N
                BY <1>4, <2>11, <2>20, <3>1
            <4> QED  BY <1>9, <2>5, <2>11, <3>1, <4>1
        <3>2. CASE k = M /\ i \in 0 .. N
            <4>0. i \in Nat /\ i <= N
                BY <1>4, <3>2
            <4>1. end[i] <= e /\ end[i] \in Nat
                BY <1>9, <2>8, <3>2, <4>0 DEF e
            <4>2. last[i] = end[i] /\ last[k] = e + (d + n)
                BY <2>4, <2>5, <3>2
            <4> QED  BY <1>4, <1>5, <4>1, <4>2
        <3>3. CASE k = M /\ i = M
            BY <2>3, <2>4, <3>3
        <3>4. \A x \in 0 .. M : x \in 0 .. N \/ x = M
            BY <1>4, <2>20
        <3> QED  BY <3>1, <3>2, <3>3, <3>4
    <2>12. ASSUME NEW i \in 1 .. M, NEW j \in 1 .. HeaderSize + Len(sent'[i])
           PROVE  more[last[i - 1] + j] = Encode(sent'[i])[j]
        <3>1. CASE i \in 1 .. N
            BY <1>15, <2>2, <2>5, <2>7, <3>1
        <3>2. CASE i = M
            <4>1. j \in 1 .. d + n
                BY <1>6, <1>20, <2>2, <3>2
            <4> QED  BY <1>16, <2>2, <2>5, <2>8, <3>2, <4>1 DEF e
        <3> QED  BY <2>6, <3>1, <3>2
    <2>13. History(more, last)'
        <3>1. last[0] = 0
            BY <1>9, <2>5, <2>8
        <3>2. \A i \in 1 .. M : last[i] = last[i - 1] + (HeaderSize + Len(sent'[i]))
            BY <2>10
        <3>3. \A i, k \in 0 .. M : i <= k => last[i] <= last[k]
            BY <2>11
        <3>4. \A i \in 1 .. M : \A j \in 1 .. HeaderSize + Len(sent'[i]) :
                  more[last[i - 1] + j] = Encode(sent'[i])[j]
            BY <2>12
        <3> QED  BY <2>1, <3>1, <3>2, <3>3, <3>4, Zenon DEF History, M
    <2>14. Partial' = 0
        BY <2>1 DEF Partial
    <2>15. last[Len(received)] = start /\ last[M] = e + (d + n)
        <3>1. Len(received) \in 0 .. N
            BY <1>4, <1>10
        <3> QED  BY <2>2, <2>4, <2>5, <3>1 DEF start
    <2>16. \A i \in 1 .. Len(received) : received[i] = sent'[i]
        <3>1. \A i \in 1 .. Len(received) : i \in 1 .. N
            BY <1>4, <1>10
        <3> QED  BY <1>10, <2>2, <3>1
    <2>17. /\ (start + B) + (W + n) = (e + (d + n)) + 0
           /\ (start + B) + (W + n) <= (e + (d + n)) + 0
        BY <1>4, <1>5, <1>19
    <2>18. Len(received) <= M
        <3> DEFINE x == Len(received)
        <3>1. x \in Nat /\ x <= N
            BY <1>4, <1>24
        <3> HIDE DEF x
        <3>2. x <= M
            BY <1>4, <2>20, <3>1
        <3> QED  BY <3>2 DEF x
    <2>19. Position(more, last)'
        <3>1. last[Len(received')] = start /\ last[Len(sent')] = e + (d + n)
            BY <1>25, <2>15 DEF M
        <3>2. Len(received') <= Len(sent')
            BY <1>25, <2>18 DEF M
        <3>3. \A i \in 1 .. Len(received') : received'[i] = sent'[i]
            BY <1>3, <2>16
        <3>4. \A i \in 1 .. Len(buffer') : buffer'[i] = more[last[Len(received')] + i]
            BY <1>3, <1>17, <1>25, <3>1
        <3>5. \A i \in 1 .. Len(wire') :
                  wire'[i] = more[(last[Len(received')] + Len(buffer')) + i]
            BY <1>18, <1>23, <1>25, <3>1
        <3>6. /\ (last[Len(received')] + Len(buffer')) + Len(wire')
                    = last[Len(sent')] + Partial'
              /\ (last[Len(received')] + Len(buffer')) + Len(wire')
                    <= last[Len(sent')] + Partial'
            BY <1>23, <1>25, <2>14, <2>17, <3>1
        <3> QED  BY <3>2, <3>3, <3>4, <3>5, <3>6 DEF Position
    <2> QED  BY <1>12, <2>4, <2>13, <2>19 DEF InStep
<1>21. CASE n # Len(fr)
    <2>1. /\ frame'[t] = SubSeq(fr, n + 1, Len(fr)) /\ message'[t] = m
          /\ UNCHANGED <<writer, sent>>
        BY <1>2, <1>21 DEF fr, m, Sides, StreamTypes
    <2>2. Len(frame'[t]) = Len(fr) - n
        <3>1. Len(SubSeq(frame[t], n + 1, Len(frame[t]))) = Len(frame[t]) - n
            BY <1>3, WrittenPiece
        <3> QED  BY <2>1, <3>1 DEF fr
    <2>3. Done(t)' = d + n
        <3>1. Done(t)' = HeaderSize + Len(message'[t]) - Len(frame'[t])
            BY DEF Done
        <3> DEFINE x == Len(m)
                   y == Len(fr)
        <3>2. message'[t] = m
            BY <2>1
        <3>3. Done(t)' = HeaderSize + x - (y - n)
            BY <2>2, <3>1, <3>2
        <3>4. x \in Nat /\ y \in Nat /\ d + y = 4 + x
            BY <1>4, <1>6 DEF HeaderSize
        <3> HIDE DEF x, y
        <3>5. 4 + x - (y - n) = d + n
            BY <1>4, <1>5, <3>4
        <3> QED  BY <3>3, <3>5 DEF HeaderSize
    <2>4. History(more, end)'
        BY <1>3, <1>9, <1>15, <1>16, <2>1, <2>3 DEF History, N, e
    <2>5. Partial' = d + n
        BY <1>3, <2>1, <2>3, StreamAssumption DEF Partial
    <2>6. (start + B) + (W + n) <= e + (d + n)
        BY <1>4, <1>5, <1>19
    <2>7. Position(more, end)'
        <3>1. end[Len(received')] = start /\ end[Len(sent')] = e /\ Len(sent') = N
            BY <1>25, <2>1 DEF start, e, N
        <3>2. Len(received') <= Len(sent')
            BY <1>24, <1>25, <3>1
        <3>3. \A i \in 1 .. Len(received') : received'[i] = sent'[i]
            BY <1>3, <1>10, <2>1
        <3>4. \A i \in 1 .. Len(buffer') : buffer'[i] = more[end[Len(received')] + i]
            BY <1>3, <1>17, <1>25, <3>1
        <3>5. \A i \in 1 .. Len(wire') :
                  wire'[i] = more[(end[Len(received')] + Len(buffer')) + i]
            BY <1>18, <1>23, <1>25, <3>1
        <3>6. /\ (end[Len(received')] + Len(buffer')) + Len(wire')
                    = end[Len(sent')] + Partial'
              /\ (end[Len(received')] + Len(buffer')) + Len(wire')
                    <= end[Len(sent')] + Partial'
            BY <1>19, <1>23, <1>25, <2>5, <2>6, <3>1
        <3> QED  BY <3>2, <3>3, <3>4, <3>5, <3>6 DEF Position
    <2> QED  BY <1>12, <2>4, <2>7 DEF InStep
<1> QED  BY <1>20, <1>21


\* The invariant is kept by every step.
LEMMA StreamStep == StreamInv /\ [Next]_vars => StreamInv'
<1> SUFFICES ASSUME StreamInv, [Next]_vars
             PROVE  StreamInv'
    OBVIOUS
<1>1. Sides
    BY DEF StreamInv, Sides
<1>2. StreamTypes' /\ WriteLock' /\ Frames'
    BY <1>1, TypesStep, WriteLockStep, FramesStep
<1>3. SUFFICES ASSUME ~cut', ~dropped'
               PROVE  InStep'
    BY <1>2 DEF StreamInv
<1>4. ~cut /\ ~dropped
    BY <1>1, <1>3 DEF Next, SendStart, SendLock, Write, SendFail, SendCancel, ReceiveStart,
        ReceiveLock, ReceiveCancel, ReceiveOk, Read, ReceiveError, ReceiveTimeout, ReceiveReturns,
        CloseStart, CloseHalf, Disconnect, GrowIdle, Reset, senderVars, receiverVars,
        vars, Sides, StreamTypes
<1>5. InStep
    BY <1>4 DEF StreamInv
<1>6. ASSUME UNCHANGED <<sent, received, buffer, wire, reset, message, frame, writer>>
      PROVE  InStep'
    BY <1>5, <1>6, NothingMoves
<1>7. ASSUME NEW t \in Senders, NEW m \in Messages, SendStart(t, m)
      PROVE  InStep'
    <2>1. UNCHANGED <<sent, received, buffer, wire, reset, writer>>
        BY <1>7 DEF SendStart, receiverVars
    <2>2. writer # None => writer # t
        BY <1>1, <1>7 DEF SendStart, Sides, WriteLock
    <2>3. writer # None => message'[writer] = message[writer] /\ frame'[writer] = frame[writer]
        BY <1>1, <1>7, <2>2 DEF SendStart, Sides, StreamTypes
    <2> QED  BY <1>5, <2>1, <2>3, NothingMoves
<1>8. ASSUME NEW t \in Senders, SendLock(t)
      PROVE  InStep'
    <2>1. UNCHANGED <<sent, received, buffer, wire, reset>>
        BY <1>8 DEF SendLock, receiverVars
    <2>2. writer = None /\ Partial = 0
        BY <1>8 DEF SendLock, WriteFree, Partial
    <2>3. Done(t) = 0
        BY <1>1, <1>8 DEF SendLock, Sides, Frames, FrameOf
    <2>4. Partial' = 0
        BY <1>8, <2>2, <2>3 DEF SendLock, Partial, Done
    <2> QED  BY <1>5, <2>1, <2>2, <2>4, NothingMoves
<1>9. ASSUME NEW t \in Senders, SendFail(t)
      PROVE  InStep'
    <2>1. UNCHANGED <<sent, received, buffer, wire, reset>> /\ writer' = None
        BY <1>9 DEF SendFail, receiverVars
    <2>2. writer = t /\ t # None
        BY <1>1, <1>9, StreamAssumption DEF SendFail, Sides, WriteLock
    <2>3. Done(t) = 0
        <3> DEFINE a == Len(message[t])
                   b == Len(frame[t])
        <3>1. a \in Nat /\ b \in Nat /\ b \in 1 .. 4 + a
            BY <1>1, <1>9, Lengths DEF SendFail, Sides, Frames, FrameOf, HeaderSize
        <3>2. ~(b < 4 + a) /\ Done(t) = 4 + a - b
            BY <1>3, <1>9 DEF SendFail, HeaderSize, Done
        <3> HIDE DEF a, b
        <3> QED  BY <3>1, <3>2
    <2>4. Partial = 0 /\ Partial' = 0
        BY <2>1, <2>2, <2>3 DEF Partial
    <2> QED  BY <1>5, <2>1, <2>4, NothingMoves
<1>10. ASSUME NEW t \in Senders, SendCancel(t)
       PROVE  InStep'
    <2>1. UNCHANGED <<sent, received, buffer, wire, reset, writer>>
        BY <1>10 DEF SendCancel, receiverVars
    <2>2. writer # None => writer # t
        BY <1>1, <1>10 DEF SendCancel, Sides, WriteLock
    <2>3. writer # None => message'[writer] = message[writer] /\ frame'[writer] = frame[writer]
        BY <1>1, <1>10, <2>2 DEF SendCancel, SendReturns, Sides, StreamTypes
    <2> QED  BY <1>5, <2>1, <2>3, NothingMoves
<1>11. ASSUME NEW t \in Receivers, ReceiveStart(t) \/ ReceiveLock(t) \/ ReceiveCancel(t)
       PROVE  InStep'
    BY <1>6, <1>11 DEF ReceiveStart, ReceiveLock, ReceiveCancel, senderVars
<1>12. ASSUME NEW t \in Receivers, ReceiveError(t) \/ ReceiveTimeout(t)
       PROVE  InStep'
    <2>1. buffer' = buffer
        BY <1>1, <1>3, <1>12 DEF ReceiveError, ReceiveTimeout, ReceiveReturns, KeptForNext, Sides,
                                 StreamTypes, Directions
    <2> QED  BY <1>6, <1>12, <2>1 DEF ReceiveError, ReceiveTimeout, senderVars
<1>13. CASE CloseStart \/ CloseHalf \/ Disconnect \/ GrowIdle \/ UNCHANGED vars
    BY <1>6, <1>13 DEF CloseStart, CloseHalf, Disconnect, GrowIdle, senderVars,
                       receiverVars, vars
<1> QED  BY <1>1, <1>3, <1>5, <1>7, <1>8, <1>9, <1>10, <1>11, <1>12, <1>13,
            ResetMoves, ReadMoves, DecodeMoves, WriteMoves DEF Next

LEMMA StreamInvariant == Spec => []StreamInv
<1>1. Init => StreamInv
    BY StreamInit
<1>2. StreamInv /\ [Next]_vars => StreamInv'
    BY StreamStep
<1> QED  BY <1>1, <1>2, PTL DEF Spec

\* A session's close never cuts a frame (session/mod.rs:257-276): it takes the
\* write half under its lock, so that a peer which has read all that was written
\* has every message and no part of another one, for every set of tasks, every
\* message and every maximal size.
THEOREM CleanCloseTheorem == Spec => []CleanClose
<1>1. StreamInv => CleanClose
    <2> SUFFICES ASSUME StreamInv, ~writeOpen, wire = <<>>, ~reset, ~cut, ~dropped,
                        Incomplete(buffer)
                 PROVE  buffer = <<>> /\ received = sent
        BY DEF CleanClose
    <2>1. Sides /\ writer = None
        BY DEF StreamInv, Sides, WriteLock
    <2>2. PICK bytes \in [Nat -> Int], end \in [Nat -> Nat] :
              History(bytes, end) /\ Position(bytes, end)
        BY DEF StreamInv, InStep
    <2> DEFINE r == Len(received)
               N == Len(sent)
    <2>3. r \in Nat /\ N \in Nat /\ r <= N
        BY <2>1, <2>2, Lengths DEF Position
    <2>4. CASE r < N
        <3> DEFINE m == sent[r + 1]
                   b == Len(buffer)
                   k == HeaderSize + Len(m)
                   x == end[r]
                   y == end[r + 1]
                   z == end[N]
        <3>1. /\ m \in Seq(Bytes) /\ ~TooLarge(m) /\ y = x + k /\ y <= z
              /\ \A j \in 1 .. Len(buffer) : j <= k => buffer[j] = Encode(m)[j]
            BY <2>1, <2>2, <2>4, FrameAhead
        <3>2. b < k => Incomplete(buffer)
            BY <2>1, <3>1, FirstFrame DEF Sides, StreamTypes
        <3>3. b >= k => Complete(buffer)
            BY <2>1, <3>1, FirstFrame DEF Sides, StreamTypes
        <3>4. b \in Nat /\ k \in Nat /\ x \in Nat /\ y \in Nat /\ z \in Nat
            <4>1. Len(m) \in Nat
                BY <3>1, LenProperties
            <4>2. r + 1 \in Nat
                BY <2>3
            <4>3. x \in Nat /\ y \in Nat /\ z \in Nat
                BY <2>3, <4>2
            <4>4. b \in Nat
                BY <2>1, Lengths
            <4> HIDE DEF m
            <4>5. k \in Nat
                BY <4>1 DEF HeaderSize
            <4> QED  BY <4>3, <4>4, <4>5
        <3>5. (x + b) + 0 = z + 0
            BY <2>1, <2>2 DEF Position, Partial
        <3> HIDE DEF b, k, x, y, z
        <3>6. b >= k
            BY <3>1, <3>4, <3>5
        <3> QED  BY <3>3, <3>6 DEF Incomplete
    <2>5. CASE r = N
        <3>1. buffer = <<>>
            BY <2>1, <2>2, <2>5, NothingAhead
        <3>2. received = sent
            <4>1. \A i \in 1 .. Len(received) : received[i] = sent[i]
                BY <2>2 DEF Position
            <4>2. received \in Seq(Seq(Bytes)) /\ sent \in Seq(Seq(Bytes))
                BY <2>1 DEF Sides, StreamTypes
            <4> QED  BY <2>5, <4>1, <4>2, SeqEqual
        <3> QED  BY <3>1, <3>2
    <2> QED  BY <2>3, <2>4, <2>5
<1> QED  BY <1>1, StreamInvariant, PTL

\* One direction of a connection is a channel (session/mod.rs:152-251,
\* client.rs:284-404): messages arrive once, in the order their frames were
\* written and none before it was written, until a send is cut short or a client
\* drops bytes.  Every step of the stream is a step of MessageChannel or none.
THEOREM ChannelTheorem == Spec => IsAChannel
<1>1. Init => Channel!Init
    BY DEF Init, Channel!Init
<1>2. StreamInv /\ [Next]_vars => [Channel!Next]_(Channel!vars)
    <2> SUFFICES ASSUME StreamInv, [Next]_vars
                 PROVE  Channel!Next \/ UNCHANGED Channel!vars
        OBVIOUS
    <2>1. Sides
        BY DEF StreamInv, Sides
    <2>2. ASSUME NEW t \in Senders, Write(t)
          PROVE  Channel!Next \/ UNCHANGED Channel!vars
        <3>1. UNCHANGED <<received, cut, dropped>>
            BY <2>2 DEF Write, receiverVars
        <3>2. sent' = Append(sent, message[t]) \/ sent' = sent
            BY <2>2 DEF Write
        <3>3. message[t] \in Payloads
            BY <2>1, <2>2, Payload DEF Write, Sides, StreamTypes, Frames, FrameOf
        <3> QED  BY <3>1, <3>2, <3>3 DEF Channel!Next, Channel!Send, Channel!vars
    <2>3. ASSUME NEW t \in Receivers, ReceiveOk(t)
          PROVE  Channel!Next
        <3>1. sent' = sent /\ cut' = cut /\ received' = Append(received, MessageIn(buffer))
            BY <2>3 DEF ReceiveOk, senderVars
        <3>2. (cut \/ dropped) \in BOOLEAN /\ (cut' \/ dropped') \in BOOLEAN
            OBVIOUS
        <3>3. dropped => dropped'
            BY <2>3 DEF ReceiveOk, ReceiveReturns
        <3>4. CASE ~cut /\ ~dropped
            <4>1. PICK bytes \in [Nat -> Int], end \in [Nat -> Nat] :
                      History(bytes, end) /\ Position(bytes, end)
                BY <3>4 DEF StreamInv, InStep
            <4>2. Len(received) < Len(sent) /\ MessageIn(buffer) = sent[Len(received) + 1]
                BY <2>1, <2>3, <4>1, NextMessage DEF ReceiveOk
            <4> QED  BY <3>1, <3>2, <3>4, <4>2 DEF Channel!Next, Channel!Deliver
        <3>5. CASE cut \/ dropped
            <4>1. MessageIn(buffer) \in Payloads
                BY <2>1, <2>3, DecodedBytes, Payload DEF ReceiveOk, Sides, StreamTypes
            <4>2. (cut' \/ dropped') = (cut \/ dropped)
                BY <3>1, <3>3, <3>5
            <4> QED  BY <3>1, <3>5, <4>1, <4>2 DEF Channel!Next, Channel!DeliverAnything
        <3> QED  BY <3>4, <3>5
    <2>4. ASSUME NEW t \in Senders, SendFail(t)
          PROVE  Channel!Next \/ UNCHANGED Channel!vars
        <3>1. UNCHANGED <<sent, received, dropped>> /\ (cut => cut')
            BY <2>4 DEF SendFail, receiverVars
        <3> QED  BY <3>1 DEF Channel!Next, Channel!Break, Channel!vars
    <2>5. ASSUME NEW t \in Receivers, ReceiveError(t) \/ ReceiveTimeout(t)
          PROVE  Channel!Next \/ UNCHANGED Channel!vars
        <3>1. UNCHANGED <<sent, received, cut>> /\ (dropped => dropped')
            BY <2>5 DEF ReceiveError, ReceiveTimeout, ReceiveReturns, senderVars
        <3> QED  BY <3>1 DEF Channel!Next, Channel!Break, Channel!vars
    <2>6. ASSUME UNCHANGED <<sent, received, cut, dropped>>
          PROVE  UNCHANGED Channel!vars
        BY <2>6 DEF Channel!vars
    <2>7. ASSUME NEW t \in Senders, NEW m \in Messages, SendStart(t, m)
          PROVE  UNCHANGED Channel!vars
        BY <2>6, <2>7 DEF SendStart, receiverVars
    <2>8. ASSUME NEW t \in Senders, SendLock(t) \/ SendCancel(t)
          PROVE  UNCHANGED Channel!vars
        BY <2>6, <2>8 DEF SendLock, SendCancel, receiverVars
    <2>9. ASSUME NEW t \in Receivers,
                 ReceiveStart(t) \/ ReceiveLock(t) \/ ReceiveCancel(t) \/ Read(t)
          PROVE  UNCHANGED Channel!vars
        BY <2>6, <2>9 DEF ReceiveStart, ReceiveLock, ReceiveCancel, Read, senderVars
    <2>10. CASE CloseStart \/ CloseHalf \/ Disconnect \/ GrowIdle \/ Reset \/ UNCHANGED vars
        BY <2>6, <2>10 DEF CloseStart, CloseHalf, Disconnect, GrowIdle, Reset, senderVars,
                           receiverVars, vars
    <2> QED  BY <2>2, <2>3, <2>4, <2>5, <2>7, <2>8, <2>9, <2>10 DEF Next
<1> QED  BY <1>1, <1>2, StreamInvariant, PTL DEF Spec, IsAChannel, Channel!Spec


-----------------------------------------------------------------------------
(* The client that owns the ends of two such streams, core/client.rs. *)

\* Where a task can be, and the calls that take &mut self.
ClientPoints == {"out", "checking", "locking", "writing", "rest", "landed",
                 "reading", "dialling", "redialling", "closing"}
Exclusive == Redialling \union {"connect", "disconnect"}
Ops == Sends \union Receives \union Exclusive \union {"none"}

ClientTypes ==
    /\ pc \in [Tasks -> ClientPoints] /\ op \in [Tasks -> Ops]
    /\ second \in [Tasks -> BOOLEAN] /\ landed \in [Tasks -> {0, 1}]

\* A call that takes &mut self excludes every other.
OneAtATime ==
    \A t, u \in Tasks :
        op[t] \in Exclusive /\ t # u => pc[u] = "out"

\* A frame has landed once when the write has ended and the call not yet
\* returned; only a call with_reconnect tries again.
CallStages(t) ==
    /\ pc[t] = "out" => op[t] = "none" /\ ~second[t]
    /\ landed[t] = IF pc[t] = "landed" THEN 1 ELSE 0
    /\ pc[t] \in {"dialling", "redialling", "closing"} => op[t] \in Exclusive
    /\ second[t] => /\ op[t] \in Retrying
                    /\ pc[t] \in {"checking", "locking", "writing", "rest",
                                  "landed", "reading"}

\* From reconnecting to the end of its write, a second try has the new stream to
\* itself.  RetryIsClean says so only of a try that writes, which is not inductive.
CleanStream ==
    \A t \in Tasks :
        second[t] /\ pc[t] \in {"checking", "locking", "writing", "rest"}
            => written = "nothing"

ClientInv ==
    /\ ClientTypes /\ OneAtATime /\ CleanStream
    /\ \A t \in Tasks : CallStages(t)

LEMMA ClientInitially == ClientInit => ClientInv
BY DEF ClientInit, ClientInv, ClientTypes, ClientPoints, Ops, Exclusive, OneAtATime,
       CallStages, CleanStream, Redialling, Retrying

\* A call that returns leaves nothing of itself behind.
LEMMA ClientReturns ==
    ASSUME ClientInv, NEW t \in Tasks, Return(t),
           written' \in {written, "nothing"} \/ (\A u \in Tasks \ {t} : ~second[u])
    PROVE  ClientInv'
<1> USE DEF ClientInv, Return
<1>0. "none" \notin Exclusive /\ "none" \in Ops
    BY DEF Exclusive, Ops, Redialling, Retrying
<1>1. ClientTypes'
    BY <1>0 DEF ClientTypes, ClientPoints
<1>2. OneAtATime'
    BY <1>0 DEF OneAtATime, ClientTypes
<1>3. CleanStream'
    BY DEF CleanStream, ClientTypes
<1>4. \A u \in Tasks : CallStages(u)'
    BY <1>0 DEF CallStages, ClientTypes
<1> QED  BY <1>1, <1>2, <1>3, <1>4

\* A call that fails returns, or goes on to reconnect.
LEMMA ClientFails ==
    ASSUME ClientInv, NEW t \in Tasks, NEW kind, Fail(t, kind),
           pc[t] \notin {"out", "landed"},
           written' = written \/ (\A u \in Tasks \ {t} : ~second[u])
    PROVE  ClientInv'
<1>1. CASE Return(t)
    BY <1>1, ClientReturns
<1>2. CASE /\ op[t] \in Retrying /\ ~second[t]
           /\ pc' = [pc EXCEPT ![t] = "redialling"] /\ UNCHANGED callVars
    <2> USE <1>2 DEF ClientInv, callVars
    <2>0. op[t] \in Exclusive
        BY DEF Exclusive, Redialling
    <2>1. ClientTypes'
        BY DEF ClientTypes, ClientPoints
    <2>2. OneAtATime' /\ CleanStream'
        BY DEF OneAtATime, CleanStream, ClientTypes
    <2>3. \A u \in Tasks : CallStages(u)'
        BY <2>0 DEF CallStages, ClientTypes
    <2> QED  BY <2>1, <2>2, <2>3
<1> QED  BY <1>1, <1>2 DEF Fail

\* A task that is in a call excludes a second try of the others.
LEMMA ClientAlone ==
    ASSUME ClientInv, NEW t \in Tasks, pc[t] # "out"
    PROVE  \A u \in Tasks \ {t} : ~second[u]
BY DEF ClientInv, OneAtATime, CallStages, Exclusive, Redialling

\* Every step of a call keeps the invariant.
LEMMA ClientStep ==
    ASSUME ClientInv, NEW t \in Tasks, CallNext(t)
    PROVE  ClientInv'
<1> USE DEF ClientInv
<1>0. /\ Exclusive \subseteq Ops
      /\ Retrying \subseteq Exclusive
      /\ \A o \in Sends \union Receives :
            o \in Ops /\ (o \in Exclusive <=> o \in Retrying)
      /\ \A o \in SharedSends \union {"receive", "none"} : o \notin Exclusive
      /\ "connect" \in Exclusive /\ "disconnect" \in Exclusive /\ "reconnect" \in Exclusive
      /\ Redialling \subseteq Exclusive
    BY DEF Exclusive, Ops, Redialling, Retrying, Sends,
           Receives, SharedSends
<1>1. ASSUME NEW o \in Sends \union Receives, Call(t, o)
      PROVE  ClientInv'
    <2> USE <1>1 DEF Call
    <2>1. ClientTypes'
        BY <1>0 DEF ClientTypes, ClientPoints
    <2>2. OneAtATime'
        BY <1>0 DEF OneAtATime, ClientTypes, Alone, Shareable, CallStages
    <2>3. CleanStream' /\ \A u \in Tasks : CallStages(u)'
        BY DEF CleanStream, CallStages, ClientTypes
    <2> QED  BY <2>1, <2>2, <2>3
<1>2. CASE Check(t)
    <2>1. CASE Fail(t, "invalid")
        BY <1>2, <2>1, ClientFails DEF Check
    <2>2. CASE pc' = [pc EXCEPT ![t] = "locking"] /\ UNCHANGED callVars
        BY <1>2, <2>2 DEF Check, callVars, ClientTypes, ClientPoints,
                          OneAtATime, CleanStream, CallStages
    <2> QED  BY <1>2, <2>1, <2>2 DEF Check
<1>3. CASE EncodeError(t)
    BY <1>3, ClientFails DEF EncodeError
<1>4. CASE Lock(t)
    <2>1. CASE Fail(t, "invalid")
        BY <1>4, <2>1, ClientFails DEF Lock
    <2>2. CASE /\ UNCHANGED callVars
               /\ pc' = [pc EXCEPT ![t] = IF op[t] \in Sends
                                          THEN "writing" ELSE "reading"]
        BY <1>4, <2>2 DEF Lock, callVars, ClientTypes, ClientPoints,
                          OneAtATime, CleanStream, CallStages
    <2> QED  BY <1>4, <2>1, <2>2 DEF Lock
<1>5. CASE WritePiece(t)
    BY <1>5 DEF WritePiece, callVars, ClientTypes, ClientPoints,
                OneAtATime, CleanStream, CallStages
<1>6. CASE WriteAll(t)
    <2>1. \A u \in Tasks \ {t} : ~second[u]
        BY <1>6, ClientAlone DEF WriteAll
    <2> QED
        BY <1>6, <2>1 DEF WriteAll, ClientTypes, ClientPoints, OneAtATime,
                          CleanStream, CallStages
<1>7. CASE SendOk(t) \/ ReadOk(t)
    BY <1>7, ClientReturns DEF SendOk, ReadOk
<1>8. CASE WriteError(t) \/ WriteTimeout(t)
    BY <1>8, ClientAlone, ClientFails DEF WriteError, WriteTimeout
<1>9. CASE ReadError(t) \/ ReadTimeout(t)
    BY <1>9, ClientFails DEF ReadError, ReadTimeout
<1>10. CASE Connect(t) \/ Reconnect(t)
    BY <1>10, <1>0 DEF Connect, Reconnect, Alone, ClientTypes,
                ClientPoints, OneAtATime, CleanStream, CallStages
<1>11. CASE Redial(t)
    <2>1. CASE Return(t)
        BY <1>11, <2>1, ClientReturns DEF Redial
    <2>2. CASE /\ pc' = [pc EXCEPT ![t] = "dialling"]
               /\ UNCHANGED <<op, second, landed>>
        BY <1>11, <2>2 DEF Redial, ClientTypes, ClientPoints, OneAtATime,
                           CleanStream, CallStages
    <2> QED  BY <1>11, <2>1, <2>2 DEF Redial
<1>12. CASE DialOk(t)
    <2>1. written' = "nothing"
        BY <1>12 DEF DialOk, NewStream
    <2>2. CASE Return(t)
        BY <2>1, <2>2, ClientReturns
    <2>3. CASE /\ op[t] \in Retrying
               /\ pc' = [pc EXCEPT ![t] = "checking"]
               /\ second' = [second EXCEPT ![t] = TRUE] /\ UNCHANGED <<op, landed>>
        BY <1>12, <2>1, <2>3 DEF DialOk, ClientTypes, ClientPoints, OneAtATime,
                           CleanStream, CallStages
    <2> QED  BY <1>12, <2>2, <2>3 DEF DialOk
<1>13. CASE DialFail(t)
    <2>1. CASE Return(t)
        BY <1>13, <2>1, ClientReturns DEF DialFail
    <2>2. CASE /\ op[t] \in Redialling
               /\ pc' = [pc EXCEPT ![t] = "redialling"] /\ UNCHANGED callVars
        BY <1>13, <2>2 DEF DialFail, callVars, ClientTypes, ClientPoints,
                           OneAtATime, CleanStream, CallStages
    <2> QED  BY <1>13, <2>1, <2>2 DEF DialFail
<1>14. CASE BeginDisconnect(t)
    BY <1>14, <1>0 DEF BeginDisconnect, Alone, ClientTypes, ClientPoints,
                OneAtATime, CleanStream, CallStages
<1>15. CASE Disconnected(t)
    BY <1>15, ClientReturns DEF Disconnected
<1>16. CASE Cancel(t)
    BY <1>16, ClientAlone, ClientReturns DEF Cancel
<1> QED
    BY <1>1, <1>2, <1>3, <1>4, <1>5, <1>6, <1>7, <1>8, <1>9, <1>10, <1>11, <1>12,
       <1>13, <1>14, <1>15, <1>16 DEF CallNext

\* send_with_reconnect (client.rs:544-560) writes its message at most once, and
\* its second try finds a stream on which nothing was written: for every number
\* of tasks, connections, attempts and calls dropped at any await.
THEOREM RetryTheorem == ClientSpec => []RetryIsClean
<1>1. ClientInv /\ [ClientNext]_clientVars => ClientInv'
    <2> SUFFICES ASSUME ClientInv, [ClientNext]_clientVars
                 PROVE  ClientInv'
        OBVIOUS
    <2>1. CASE \E t \in Tasks : CallNext(t)
        BY <2>1, ClientStep
    <2>2. CASE ServerSwitch \/ PeerGone \/ Noticed
               \/ UNCHANGED clientVars
        BY <2>2 DEF ServerSwitch, PeerGone, Noticed,
                    clientVars, callVars, ClientInv, ClientTypes, OneAtATime,
                    CleanStream, CallStages
    <2> QED  BY <2>1, <2>2 DEF ClientNext
<1>2. ClientInv => RetryIsClean
    BY DEF ClientInv, ClientTypes, CleanStream, CallStages, RetryIsClean
<1> QED  BY <1>1, <1>2, ClientInitially, PTL DEF ClientSpec

=============================================================================
