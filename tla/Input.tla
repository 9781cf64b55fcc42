------------------------------- MODULE Input -------------------------------
(***************************************************************************)
(* The payload a decoder reads, and reads of it.  Its length is known from *)
(* the start, as in a byte slice; its bytes are chosen when a decoder first*)
(* looks at them, from the bytes that make a difference in that place, so  *)
(* that every payload over those bytes is covered.  A module that has a    *)
(* payload already gives all of data in its Init.                          *)
(***************************************************************************)
EXTENDS Naturals, Sequences

CONSTANTS
    TagBytes,       \* bytes chosen where a tag is read
    NumBytes,       \* bytes chosen where a varint is read
    CharBytes,      \* bytes chosen inside a string or a double
    Lengths,        \* payload lengths
    Overlong        \* a varint of more than ten bytes, which no read accepts

ASSUME InputAssumption ==
    /\ TagBytes \subseteq Nat /\ NumBytes \subseteq Nat /\ CharBytes \subseteq Nat
    /\ Lengths \subseteq Nat

VARIABLES
    len,            \* the length of the payload
    data            \* the bytes of it chosen so far, from the first one on

InitInput == len \in Lengths /\ data = <<>>

\* The bytes that may be at this place; none behind the end.
Peek(at, choices) ==
    IF at <= Len(data) THEN {data[at]} ELSE IF at <= len THEN choices ELSE {}

\* Cursor::take: the n bytes from this place on, which the payload has.
Take(at, n) ==
    LET known == SubSeq(data, at, Len(data))
    IN  IF n <= Len(known)
        THEN {SubSeq(known, 1, n)}
        ELSE {known \o rest : rest \in [1..(n - Len(known)) -> CharBytes]}

\* The bytes in front of a decoder at pos that it has looked at.
Learn(pos, bytes) ==
    data' = IF pos + Len(bytes) <= Len(data) THEN data ELSE SubSeq(data, 1, pos) \o bytes

\* read_uvarint: what it returns and the bytes it took.
ReadUvarint(at) ==
    IF Peek(at, NumBytes) = {}
    THEN {[err |-> "Truncated", val |-> 0, bytes |-> <<>>]}
    ELSE {[err |-> IF b = Overlong THEN "VarInt" ELSE "none", val |-> b, bytes |-> <<b>>] :
             b \in Peek(at, NumBytes)}
=============================================================================
