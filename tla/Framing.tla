------------------------------- MODULE Framing -------------------------------
(***************************************************************************)
(* The wire format of core/message.rs: the length of the payload as a      *)
(* big-endian u32, then the payload.  A message is the sequence of its     *)
(* bytes; Base is the number of values of a byte, 256 in the code.         *)
(***************************************************************************)
EXTENDS Integers, Sequences

CONSTANTS
    Base,
    MaxMessageSize   \* MAX_MESSAGE_SIZE

\* Every length that encode accepts fits a u32.
ASSUME FramingAssumption ==
    /\ Base \in Nat \ {0, 1}
    /\ MaxMessageSize \in Nat
    /\ MaxMessageSize < Base * (Base * (Base * Base))

Bytes == 0 .. Base - 1

HeaderSize == 4

\* put_u32 and from_be_bytes.
BigEndian(n) ==
    <<((n \div Base) \div Base) \div Base, ((n \div Base) \div Base) % Base,
      (n \div Base) % Base, n % Base>>
FromBigEndian(h) == Base * (Base * (Base * h[1] + h[2]) + h[3]) + h[4]

\* encode: MessageTooLarge, or header and payload.
TooLarge(message) == Len(message) > MaxMessageSize
Encode(message) == BigEndian(Len(message)) \o message

-----------------------------------------------------------------------------
(* decode: what it finds in a buffer, the message and what it leaves. *)

HasHeader(buf) == Len(buf) >= HeaderSize
Announced(buf) == FromBigEndian(buf)

\* Err(MessageTooLarge): the buffer stays as it is.
Rejected(buf) == HasHeader(buf) /\ Announced(buf) > MaxMessageSize

\* Ok(Some(message)).
Complete(buf) ==
    /\ HasHeader(buf) /\ ~Rejected(buf)
    /\ Len(buf) >= HeaderSize + Announced(buf)

MessageIn(buf) == SubSeq(buf, HeaderSize + 1, HeaderSize + Announced(buf))
RestOf(buf) == SubSeq(buf, HeaderSize + Announced(buf) + 1, Len(buf))

\* Ok(None): more bytes are needed.
Incomplete(buf) == ~Rejected(buf) /\ ~Complete(buf)

=============================================================================
