------------------------------ MODULE Document ------------------------------
(***************************************************************************)
(* A document as it is stored: the header in front of the payload          *)
(* (pf-format/src/header.rs; again in php/encode_c.c and php/decode_c.c),  *)
(* its writers and readers, the limits a reader is asked to keep, and a    *)
(* store that may damage it.  What is in the payload is left to the other  *)
(* modules: a reader's answer is what it hands to decode_value.            *)
(*                                                                         *)
(* The four bytes of the magic are one here, and so are the four of the    *)
(* checksum: a header has the length 3, or 4 with a checksum.  Hash tells a*)
(* payload from what one damage makes of it, as XXH3 does but for one in   *)
(* 2^32.                                                                   *)
(***************************************************************************)
EXTENDS Integers, Sequences

CONSTANTS
    Payloads,       \* the payloads that are written
    Foreign,        \* documents of other formats
    Bytes,          \* what damage makes of a byte
    Hash(_),        \* the low 32 bits of xxh3_64
    DepthsAsked,    \* the caller's max_depth, of a type wider than u32 in PHP
    SizesAsked,     \* the caller's max_size
    U32,            \* 2^32
    DefaultDepth,   \* DEFAULT_MAX_DEPTH, PF_DEFAULT_MAX_DEPTH
    DefaultSize,    \* DEFAULT_MAX_SIZE, PF_DEFAULT_MAX_SIZE
    MaxDamage       \* bound: how often a stored document is damaged

\* What one damage makes of bytes: one of them changed, the end lost, one more.
Changed(bytes, i) == {[bytes EXCEPT ![i] = b] : b \in Bytes}
Cut(bytes) == {SubSeq(bytes, 1, n) : n \in 0..Len(bytes)}
Longer(bytes) == {Append(bytes, b) : b \in Bytes}

ASSUME DocumentAssumption ==
    /\ Payloads \subseteq Seq(Nat) /\ Foreign \subseteq Seq(Nat) /\ Bytes \subseteq Nat
    /\ \A p \in Payloads :
          /\ Hash(p) \in Nat
          /\ \A q \in Cut(p) \cup Longer(p) \cup UNION {Changed(p, i) : i \in DOMAIN p} :
                Hash(q) = Hash(p) => q = p
    /\ DepthsAsked \subseteq Int /\ SizesAsked \subseteq Int /\ U32 \in Nat \ {0}
    /\ DefaultDepth \in 1..(U32 - 1) /\ DefaultSize \in Nat \ {0}

VARIABLES
    stored,         \* the bytes in the store
    origin,         \* who wrote what: [writer, flags, payload]
    damage,         \* the kinds of damage done to it, in order
    asked,          \* the limits its readers are asked to keep
    answers         \* what each reader that has read it answered

vars == <<stored, origin, damage, asked, answers>>

MAGIC == 80
VERSION_V1 == 1
HEADER_BASE_LEN == 3
CHECKSUM_LEN == 1

\* The bits of the flags byte.
HasChecksum(flags) == flags % 2 = 1
HasStrdedup(flags) == (flags \div 2) % 2 = 1
HasReserved(flags) == flags >= 4
Flags == 0..7

Nothing == [writer |-> "none", flags |-> 0, payload |-> <<>>]

Init ==
    /\ stored = <<>> /\ origin = Nothing /\ damage = <<>> /\ answers = <<>>
    /\ asked \in [depth : DepthsAsked, size : SizesAsked]
-----------------------------------------------------------------------------
(* Writing.                                                                  *)

Store(who, flags, payload, bytes) ==
    /\ origin = Nothing
    /\ origin' = [writer |-> who, flags |-> flags, payload |-> payload]
    /\ stored' = bytes
    /\ UNCHANGED <<damage, asked, answers>>

\* Mutant of Finished: the checksum follows the payload.
FinishedChecksumLast(flags, payload) ==
    <<MAGIC, VERSION_V1, flags>> \o payload
        \o (IF HasChecksum(flags) THEN <<Hash(payload)>> ELSE <<>>)

\* Encoder::finish.
Finished(flags, payload) ==
    <<MAGIC, VERSION_V1, flags>>
        \o (IF HasChecksum(flags) THEN <<Hash(payload)>> ELSE <<>>) \o payload

\* Encoder::new refuses reserved flags; nothing is written then.
WriteRust ==
    \E flags \in Flags, payload \in Payloads :
        ~HasReserved(flags) /\ Store("rust", flags, payload, Finished(flags, payload))

\* pf_c_encode refuses the checksum as well.
WriteC ==
    \E flags \in Flags, payload \in Payloads :
        /\ ~HasReserved(flags) /\ ~HasChecksum(flags)
        /\ Store("c", flags, payload, <<MAGIC, VERSION_V1, flags>> \o payload)

WriteOther == \E bytes \in Foreign : Store("other", 0, <<>>, bytes)

\* The store changes a byte, loses the end or appends something.
Damaged(kind, bytes) ==
    /\ origin # Nothing /\ answers = <<>> /\ Len(damage) < MaxDamage
    /\ stored' = bytes /\ bytes # stored
    /\ damage' = Append(damage, kind)
    /\ UNCHANGED <<origin, asked, answers>>

Damage ==
    \/ \E i \in DOMAIN stored : \E bytes \in Changed(stored, i) :
          Damaged(IF i = HEADER_BASE_LEN THEN "flags" ELSE "byte", bytes)
    \/ \E bytes \in Cut(stored) : Damaged("cut", bytes)
    \/ \E bytes \in Longer(stored) : Damaged("longer", bytes)
-----------------------------------------------------------------------------
(* Reading.                                                                  *)

Refused(e) == [err |-> e, payload |-> <<>>, strdedup |-> FALSE, depth |-> 0, size |-> 0]

Behind(n) == SubSeq(stored, n + 1, Len(stored))

\* The checks both readers begin with, in their order: "none" if all are passed.
HeaderError ==
    IF Len(stored) < HEADER_BASE_LEN THEN "Truncated"
    ELSE IF stored[1] # MAGIC THEN "BadMagic"
    ELSE IF stored[2] # VERSION_V1 THEN "UnsupportedVersion"
    ELSE IF HasReserved(stored[3]) THEN "UnknownFlags"
    ELSE "none"

\* 0 means the default, in all readers.
OrDefault(limit, default) == IF limit = 0 THEN default ELSE limit

\* The payload is handed on if it is not larger than max_size.
Bounded(payload, depth, size) ==
    IF Len(payload) > OrDefault(size, DefaultSize) THEN Refused("MaxSize")
    ELSE [err |-> "none", payload |-> payload, strdedup |-> HasStrdedup(stored[3]),
          depth |-> OrDefault(depth, DefaultDepth), size |-> OrDefault(size, DefaultSize)]

\* Mutant of ChecksumError: a payload without bytes is not checked.
ChecksumErrorIfAny ==
    IF Len(stored) < HEADER_BASE_LEN + CHECKSUM_LEN THEN "Truncated"
    ELSE IF Len(stored) > 4 /\ stored[4] # Hash(Behind(4)) THEN "Checksum"
    ELSE "none"

\* What parse_header checks if the flags announce a checksum.
ChecksumError ==
    IF Len(stored) < HEADER_BASE_LEN + CHECKSUM_LEN THEN "Truncated"
    ELSE IF stored[4] # Hash(Behind(HEADER_BASE_LEN + CHECKSUM_LEN)) THEN "Checksum"
    ELSE "none"

\* parse_header and the start of decode_with.
DecodeWith(depth, size) ==
    IF HeaderError # "none" THEN Refused(HeaderError)
    ELSE IF ~HasChecksum(stored[3]) THEN Bounded(Behind(HEADER_BASE_LEN), depth, size)
    ELSE IF ChecksumError # "none" THEN Refused(ChecksumError)
    ELSE Bounded(Behind(HEADER_BASE_LEN + CHECKSUM_LEN), depth, size)

\* Mutant of CDecode: reserved flags are ignored.
CDecodeLax(depth, size) ==
    IF HeaderError \notin {"none", "UnknownFlags"} THEN Refused(HeaderError)
    ELSE IF HasChecksum(stored[3]) THEN Refused("Checksum")
    ELSE Bounded(Behind(HEADER_BASE_LEN), depth, size)

\* The start of pf_c_decode.
CDecode(depth, size) ==
    IF HeaderError # "none" THEN Refused(HeaderError)
    ELSE IF HasChecksum(stored[3]) THEN Refused("Checksum")
    ELSE Bounded(Behind(HEADER_BASE_LEN), depth, size)

Answer(reader, answer) ==
    /\ origin # Nothing /\ reader \notin DOMAIN answers
    /\ answers' = [r \in DOMAIN answers \cup {reader} |->
                      IF r = reader THEN answer ELSE answers[r]]
    /\ UNCHANGED <<stored, origin, damage, asked>>

\* The callers of decode_with and pf_decode have a u32 and a usize.
ReadRust ==
    /\ asked.depth \in 0..(U32 - 1) /\ asked.size >= 0
    /\ Answer("rust", DecodeWith(asked.depth, asked.size))

\* pf_decode; one of its pointers may be null, or a required function of the table.
ReadFfi ==
    /\ asked.depth \in 0..(U32 - 1) /\ asked.size >= 0
    /\ \/ Answer("ffi", Refused("NullArg"))
       \/ Answer("ffi", DecodeWith(asked.depth, asked.size))

\* Mutant of NotNegative: a limit below zero is cut like any other.
NotNegativeNever(limit) == limit

NotNegative(limit) == IF limit < 0 THEN 0 ELSE limit

\* pfserialize_decode: zend_long parameters, max_depth cut to a uint32_t.
ReadPhp ==
    Answer("php", CDecode(NotNegative(asked.depth) % U32, NotNegative(asked.size)))

Next == WriteRust \/ WriteC \/ WriteOther \/ Damage \/ ReadRust \/ ReadFfi \/ ReadPhp

\* A document may be read by nobody else.
Stopped == origin # Nothing /\ UNCHANGED vars

Spec == Init /\ [][Next \/ Stopped]_vars
-----------------------------------------------------------------------------
Readers == DOMAIN answers
Accepts(r) == answers[r].err = "none"

TypeOK ==
    /\ stored \in Seq(Nat) /\ asked.depth \in Int /\ asked.size \in Int
    /\ DOMAIN answers \subseteq {"rust", "ffi", "php"}
    /\ \A r \in Readers : Accepts(r) => answers[r].depth \in 1..(U32 - 1)

\* An undamaged document is handed on as it was written, whoever wrote it and
\* whoever reads it, unless it is larger than was asked for; the PHP extension
\* alone refuses a checksum (php/decode_c.h:9).
Delivered ==
    damage = <<>> /\ origin.writer # "other" =>
        \A r \in Readers :
            \/ /\ Accepts(r) /\ ~(r = "php" /\ HasChecksum(origin.flags))
               /\ answers[r].payload = origin.payload
               /\ answers[r].strdedup = HasStrdedup(origin.flags)
            \/ answers[r].err = "MaxSize" /\ Len(origin.payload) > OrDefault(asked.size, DefaultSize)
            \/ answers[r].err = "Checksum" /\ r = "php" /\ HasChecksum(origin.flags)
            \/ answers[r].err = "NullArg" /\ r = "ffi"

\* Nobody accepts a document that was written with a checksum and damaged in one place,
\* wherever that is: in the payload, in the checksum, in the header or at the end.
\* The flags byte is the exception, because it is what says that there is a checksum and
\* the checksum does not cover it (protocol-v1.md:42).  (A second damage may undo the
\* first, or make the checksum fit it.)
DamageIsNoticed ==
    Len(damage) = 1 /\ damage[1] # "flags" /\ HasChecksum(origin.flags) =>
        \A r \in Readers : ~Accepts(r)

\* The two hand-written header parsers take the same documents for the same and
\* refuse the same with the same error, a checksum aside.
ReadersAgree ==
    \A r \in Readers \cap {"rust", "ffi"} :
        "php" \in Readers /\ answers["php"].err # "Checksum" /\ answers[r].err # "NullArg"
            => answers[r] = answers["php"]

\* A reader that was asked for a limit keeps to no larger one, although PHP's depth is
\* cut to 32 bits on its way: what is lost can only lower the limit or make it the
\* default, and a negative one is never taken for a large one.
LimitsAreKept ==
    \A r \in Readers : Accepts(r) =>
        /\ answers[r].depth <= (IF asked.depth > 0 THEN asked.depth ELSE DefaultDepth)
        /\ answers[r].size = (IF asked.size > 0 THEN asked.size ELSE DefaultSize)
        /\ Len(answers[r].payload) <= answers[r].size
=============================================================================
