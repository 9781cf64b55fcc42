------------------------------- MODULE Varint -------------------------------
(***************************************************************************)
(* The integers of the wire format: ZigZag and LEB128, as written and read *)
(* by pf-core/src/varint.rs and, statement for statement, by enc_uvarint,  *)
(* enc_ivarint, pf_read_uvarint and pf_read_ivarint of the PHP extension.  *)
(*                                                                         *)
(* In the code a byte carries 7 bits, a varint has at most 10 bytes, and   *)
(* 9 * 7 + 1 = 64 is the width of the integers: of the tenth byte one bit  *)
(* is left.  The same relation defines the width here, so that smaller     *)
(* numbers meet the same edges.  Other modules have varints of one byte.   *)
(***************************************************************************)
EXTENDS Integers, Sequences

CONSTANTS
    GroupBits,      \* 7
    MaxLen          \* MAX_VARINT_LEN

ASSUME VarintAssumption == GroupBits \in Nat \ {0} /\ MaxLen \in Nat \ {0}

\* 1 << n.
Pow2[n \in Nat] == IF n = 0 THEN 1 ELSE 2 * Pow2[n - 1]

Group == Pow2[GroupBits]
Modulus == Pow2[GroupBits * (MaxLen - 1) + 1]       \* 2^64
Half == Modulus \div 2

U64 == 0..(Modulus - 1)
I64 == (-Half)..(Half - 1)
Bytes == [bits : 0..(Group - 1), more : BOOLEAN]

\* A 64-bit pattern read as an i64, and one xor-ed with all zeros or all ones.
AsSigned(u) == IF u < Half THEN u ELSE u - Modulus
AsUnsigned(n) == IF n < 0 THEN n + Modulus ELSE n
XorMask(u, ones) == IF ones THEN Modulus - 1 - u ELSE u

\* Mutant of zigzag_encode: the shift does not drop the sign.
zigzag_encode_wide(n) == XorMask(2 * AsUnsigned(n), n < 0)

\* ((n << 1) ^ (n >> 63)) as u64; the right shift is arithmetic.
zigzag_encode(n) == XorMask((2 * AsUnsigned(n)) % Modulus, n < 0)

\* Mutant of zigzag_decode: negated instead of complemented.
zigzag_decode_negated(u) == IF u % 2 = 1 THEN -(u \div 2) ELSE u \div 2

\* ((u >> 1) as i64) ^ (-((u & 1) as i64)).
zigzag_decode(u) == AsSigned(XorMask(u \div 2, u % 2 = 1))
-----------------------------------------------------------------------------
VARIABLES
    value,      \* the integer given to write_ivarint, if one is: <<>> or <<n>>
    rest,       \* write_uvarint: what is left of it
    input,      \* the bytes written, or bytes from elsewhere
    written,    \* how many of them write_ivarint wrote
    i,          \* read_uvarint: the bytes it has read
    result,     \* read_uvarint: result
    shift,      \* read_uvarint: shift
    outcome     \* "writing", "reading", "ok", "VarInt" or "Truncated"

vars == <<value, rest, input, written, i, result, shift, outcome>>

Init ==
    /\ i = 0 /\ result = 0 /\ shift = 0 /\ written = 0
    /\ \/ /\ \E n \in I64 : value = <<n>> /\ rest = zigzag_encode(n)
          /\ input = <<>> /\ outcome = "writing"
       \/ /\ value = <<>> /\ rest = 0
          /\ input \in UNION {[1..n -> Bytes] : n \in 0..(MaxLen + 1)}
          /\ outcome = "reading"

\* One turn of the loop of write_uvarint; behind the last byte the document may
\* go on.
WriteByte ==
    /\ outcome = "writing"
    /\ rest' = rest \div Group
    /\ written' = written + 1
    /\ LET byte == [bits |-> rest % Group, more |-> rest' # 0]
       IN  \/ /\ byte.more
              /\ input' = Append(input, byte)
              /\ UNCHANGED outcome
           \/ /\ ~byte.more
              /\ \E next \in {<<>>} \cup {<<b>> : b \in Bytes} :
                     input' = Append(input, byte) \o next
              /\ outcome' = "reading"
    /\ UNCHANGED <<value, i, result, shift>>

Reading == outcome = "reading" /\ UNCHANGED <<value, rest, input, written>>

\* Mutant of TooLong: of the last byte only the continuation bit is looked at.
TooLongByMore(byte) == i = MaxLen - 1 /\ byte.more

\* The tenth byte has one bit of the number and no other byte behind it.
TooLong(byte) == i = MaxLen - 1 /\ (byte.bits > 1 \/ byte.more)

\* One turn of the loop of read_uvarint: result |= bits << shift.
ReadByte ==
    /\ Reading /\ i < Len(input)
    /\ LET byte == input[i + 1]
       IN  IF TooLong(byte)
           THEN outcome' = "VarInt" /\ UNCHANGED <<i, result, shift>>
           ELSE /\ i' = i + 1
                /\ result' = (result + byte.bits * Pow2[shift]) % Modulus
                /\ shift' = shift + GroupBits
                /\ outcome' = IF byte.more THEN "reading" ELSE "ok"

EndOfInput ==
    /\ Reading /\ i = Len(input)
    /\ outcome' = "Truncated"
    /\ UNCHANGED <<i, result, shift>>

Stopped == outcome \in {"ok", "VarInt", "Truncated"} /\ UNCHANGED vars

Next == WriteByte \/ ReadByte \/ EndOfInput \/ Stopped

Spec == Init /\ [][Next]_vars
-----------------------------------------------------------------------------
TypeOK ==
    /\ value \in {<<>>} \cup {<<n>> : n \in I64} /\ rest \in U64
    /\ input \in Seq(Bytes) /\ written \in 0..MaxLen /\ i \in 0..Len(input)
    /\ result \in U64 /\ shift = i * GroupBits
    /\ outcome \in {"writing", "reading", "ok", "VarInt", "Truncated"}

\* Every i64, its minimum included, is read back as itself, and the reader stops
\* behind the bytes that were written, whatever follows them.
IntegersSurvive ==
    value # <<>> /\ outcome \notin {"writing", "reading"} =>
        outcome = "ok" /\ <<zigzag_decode(result)>> = value /\ i = written

\* The numbers that the first bytes of a sequence are the digits of.
Sums(bytes) ==
    LET sum[k \in 0..Len(bytes)] ==
            IF k = 0 THEN 0 ELSE sum[k - 1] + bytes[k].bits * Pow2[GroupBits * (k - 1)]
    IN  sum

\* What a varint means (protocol-v1.md, 6.1), without shifts and widths: the
\* groups up to the first byte that does not announce another, as digits.
Meaning ==
    LET ends == {k \in 1..Len(input) : k <= MaxLen /\ ~input[k].more}
        end == CHOOSE k \in ends : \A l \in ends : k <= l
    IN  IF ends # {}
        THEN IF Sums(input)[end] < Modulus THEN [outcome |-> "ok", n |-> Sums(input)[end]]
             ELSE [outcome |-> "VarInt", n |-> 0]
        ELSE [outcome |-> IF Len(input) < MaxLen THEN "Truncated" ELSE "VarInt", n |-> 0]

\* Any bytes, also ones no encoder writes, are read as what they mean: no bit is
\* shifted out unnoticed, and what does not fit 64 bits or ten bytes is refused.
ReadsMeaning ==
    outcome \in {"ok", "VarInt", "Truncated"} =>
        /\ outcome = Meaning.outcome
        /\ outcome = "ok" => result = Meaning.n
=============================================================================
