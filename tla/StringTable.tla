---------------------------- MODULE StringTable ----------------------------
(***************************************************************************)
(* The two string tables of one document: EncodeStringTable inside the     *)
(* Encoder and DecodeStringTable inside the Decoder (string_table.rs), with*)
(* the handlers that keep them in lockstep: write_string_bytes on one side *)
(* and, on the other, decode_string_tag for a string in value place and    *)
(* read_key_owned for one in key place (encoder.rs, decoder.rs).           *)
(*                                                                         *)
(* Only the string tokens of the document are kept; the values and arrays  *)
(* between them touch neither table.  The document is written to the end   *)
(* (finish) before it is read (decode_with).                               *)
(***************************************************************************)
EXTENDS Naturals, Sequences, FiniteSets

CONSTANTS
    Strings,        \* the non-empty byte strings a document may mention
    Empty,          \* b""
    Size(_),        \* the length in bytes of a string
    IdSpace,        \* 2^32: a string id is a u32
    MaxMentions,    \* bound: string tokens in one document
    MaxSize         \* DecodeOptions::max_size

ASSUME StringsAssumption == Empty \notin Strings
ASSUME SizeAssumption ==
    /\ \A s \in Strings : Size(s) \in Nat \ {0}
    /\ MaxSize \in Nat
\* A document of 2^32 string tokens is longer than 4 GiB; ids do not wrap in
\* any shorter one.
ASSUME IdSpaceAssumption ==
    /\ IdSpace \in Nat \ {0}
    /\ MaxMentions \in Nat
    /\ MaxMentions <= IdSpace

Places == {"key", "value"}
Items == [place : Places, bytes : Strings \cup {Empty}]

VARIABLES
    strdedup,   \* FLAG_STRDEDUP of the header, never changed
    phase,      \* "write", "read", "done" or "failed"
    error,      \* the Error decode_with returned, "none" before
    written,    \* history: the strings handed to write_string_bytes
    ids,        \* EncodeStringTable.map
    wire,       \* the string tokens of the document
    defs,       \* history: defs[k] are the definitions in front of token k
    strings,    \* DecodeStringTable.entries
    hostTable,  \* the strings the Host was told to intern, by id
    size_used,  \* Decoder.size_used
    received    \* history: the strings the Host was given, in order

encoder == <<written, ids, wire, defs>>
decoder == <<strings, hostTable, size_used, received>>
vars == <<strdedup, phase, error, encoder, decoder>>

Tokens ==
    [tag : {"STR_EMPTY"}, place : Places]
        \cup [tag : {"STR_VARINT"}, place : Places, bytes : Strings]
        \cup [tag : {"STR_REF"}, place : Places, id : Nat]

Init ==
    /\ strdedup \in BOOLEAN
    /\ phase = "write" /\ error = "none"
    /\ written = <<>> /\ ids = <<>> /\ wire = <<>> /\ defs = <<<<>>>>
    /\ strings = <<>> /\ hostTable = <<>> /\ size_used = 0 /\ received = <<>>
-----------------------------------------------------------------------------
(* The encoder.                                                            *)

\* Mutants of FreshId: counting from one, or from one too few.
FreshIdFromOne == (Cardinality(DOMAIN ids) + 1) % IdSpace
FreshIdBelow == Cardinality(DOMAIN ids) - 1

\* The id intern_get gives to a string the map does not hold yet.
FreshId == Cardinality(DOMAIN ids) % IdSpace

\* intern_get on a string the map does not hold: it is added under FreshId.
InternNew(s) == ids' = [x \in DOMAIN ids \cup {s} |-> IF x = s THEN FreshId ELSE ids[x]]

\* The definitions in front of the next token.
Current == defs[Len(defs)]

Emit(place, s, token, definitions) ==
    /\ phase = "write" /\ Len(wire) < MaxMentions
    /\ written' = Append(written, [place |-> place, bytes |-> s])
    /\ wire' = Append(wire, token)
    /\ defs' = Append(defs, definitions)
    /\ UNCHANGED <<strdedup, phase, error, decoder>>

\* Mutant of WriteEmpty: the empty string takes an id, which no decoder gives it.
WriteEmptyInterned(place) ==
    /\ Emit(place, Empty, [tag |-> "STR_EMPTY", place |-> place], Current)
    /\ IF Empty \in DOMAIN ids THEN UNCHANGED ids ELSE InternNew(Empty)

WriteEmpty(place) ==
    /\ Emit(place, Empty, [tag |-> "STR_EMPTY", place |-> place], Current)
    /\ UNCHANGED ids

WriteRef(place, s) ==
    /\ strdedup /\ s \in DOMAIN ids
    /\ Emit(place, s, [tag |-> "STR_REF", place |-> place, id |-> ids[s]], Current)
    /\ UNCHANGED ids

WriteDefinition(place, s) ==
    /\ strdedup => s \notin DOMAIN ids
    /\ IF strdedup THEN InternNew(s) ELSE UNCHANGED ids
    /\ Emit(place, s, [tag |-> "STR_VARINT", place |-> place, bytes |-> s],
            Append(Current, s))

Finish ==
    /\ phase = "write"
    /\ phase' = "read"
    /\ UNCHANGED <<strdedup, error, encoder, decoder>>
-----------------------------------------------------------------------------
(* The decoder.                                                            *)

Reading == phase = "read" /\ Len(received) < Len(wire)
Token == wire[Len(received) + 1]

\* Any `?` of the decoder: decode_with returns the error.
Fail(e) ==
    /\ phase' = "failed" /\ error' = e
    /\ UNCHANGED <<strdedup, encoder, decoder>>

\* Whether one more string of this many bytes passes charge.
Fits(n) == size_used + n <= MaxSize

Receive(bytes) ==
    received' = Append(received, [place |-> Token.place, bytes |-> bytes])

ReadEmpty ==
    /\ Reading /\ Token.tag = "STR_EMPTY"
    /\ Receive(Empty)
    /\ UNCHANGED <<strdedup, phase, error, encoder, strings, hostTable, size_used>>

\* Mutant of DefineString: definitions are kept only if the header announces
\* references.
DefineStringIfDedup(bytes) ==
    /\ hostTable' = Append(hostTable, bytes)
    /\ strings' = IF strdedup THEN Append(strings, bytes) ELSE strings
    /\ size_used' = size_used + Size(bytes)
    /\ Receive(bytes)
    /\ UNCHANGED <<strdedup, phase, error, encoder>>

\* define_string: the id is the table's length as a u32; the host is told first,
\* then the table grows, and the host is asked for the string by that id.
DefineString(bytes) ==
    LET id == Len(strings) % IdSpace
    IN  IF id # Len(hostTable)
        THEN Fail("Internal")
        ELSE /\ hostTable' = Append(hostTable, bytes)
             /\ strings' = Append(strings, bytes)
             /\ size_used' = size_used + Size(bytes)
             /\ Receive(hostTable'[id + 1])
             /\ UNCHANGED <<strdedup, phase, error, encoder>>

ReadDefinition ==
    /\ Reading /\ Token.tag = "STR_VARINT"
    /\ IF Fits(Size(Token.bytes))
       THEN DefineString(Token.bytes)
       ELSE Fail("MaxSize")

\* make_string_id, or the insertion under ArrayKey::StringId.
Resolve(id) ==
    /\ Receive(hostTable[id + 1])
    /\ size_used' = size_used + Size(strings[id + 1])
    /\ UNCHANGED <<strdedup, phase, error, encoder, strings, hostTable>>

\* Without the flag a STR_REF is not a tag of the document.
RefWithoutFlag(place) == IF place = "key" THEN "BadKey" ELSE "UnknownTag"

ReadRef ==
    /\ Reading /\ Token.tag = "STR_REF"
    /\ IF ~strdedup THEN Fail(RefWithoutFlag(Token.place))
       ELSE IF Token.id >= Len(strings) THEN Fail("BadStrRef")
       ELSE IF ~Fits(Size(strings[Token.id + 1])) THEN Fail("MaxSize")
       ELSE Resolve(Token.id)

\* The Host may refuse a string it is told to intern or asked to make.
HostRefuses == Reading /\ Fail("Host")

\* Mutant of Return: the decoder does not insist on the whole document.
ReturnEarly ==
    /\ phase = "read"
    /\ phase' = "done"
    /\ UNCHANGED <<strdedup, error, encoder, decoder>>

Return ==
    /\ phase = "read" /\ Len(received) = Len(wire)
    /\ phase' = "done"
    /\ UNCHANGED <<strdedup, error, encoder, decoder>>

Stopped == phase \in {"done", "failed"} /\ UNCHANGED vars
-----------------------------------------------------------------------------
Write ==
    \E place \in Places :
        \/ WriteEmpty(place)
        \/ \E s \in Strings : WriteRef(place, s) \/ WriteDefinition(place, s)

Read == ReadEmpty \/ ReadDefinition \/ ReadRef \/ HostRefuses \/ Return

Next == Write \/ Finish \/ Read \/ Stopped

Spec == Init /\ [][Next]_vars
-----------------------------------------------------------------------------
TypeOK ==
    /\ strdedup \in BOOLEAN
    /\ phase \in {"write", "read", "done", "failed"}
    /\ error \in {"none", "MaxSize", "Host", "Internal", "BadStrRef", "BadKey", "UnknownTag"}
    /\ written \in Seq(Items)
    /\ DOMAIN ids \subseteq Strings /\ ids \in [DOMAIN ids -> Nat]
    /\ wire \in Seq(Tokens) /\ Len(wire) = Len(written) /\ Len(wire) <= MaxMentions
    /\ defs \in Seq(Seq(Strings)) /\ Len(defs) = Len(wire) + 1
    /\ strings \in Seq(Strings) /\ hostTable \in Seq(Strings)
    /\ size_used \in Nat
    /\ received \in Seq(Items) /\ Len(received) <= Len(wire)

\* The reader of a document that an encoder wrote is handed the strings that
\* were written, in that order: every STR_REF resolves to the string it stands
\* for, whatever mixture of keys and values defined it.
ReceivedIsWritten ==
    /\ \A k \in 1..Len(received) : received[k] = written[k]
    /\ phase = "done" => received = written

\* The only errors a document that an encoder wrote can meet are the size limit
\* and the host's own: BadStrRef, BadKey, UnknownTag and the host's Internal
\* ("ids are dense from 0") are for malformed documents.
OnlyLimitsRefuse == error \in {"none", "MaxSize", "Host"}

\* Decoder and host agree on every id, and the decoder knows exactly the
\* definitions that stand in front of its position, as the encoder did when it
\* wrote that position.
Lockstep ==
    /\ hostTable = strings
    /\ phase # "failed" => strings = defs[Len(received) + 1]

\* The tables refine the channel: no step hands over a string out of order,
\* hands one over before the document is finished, or completes early.
ChannelStatus ==
    CASE phase = "write" -> "open"
      [] phase = "read" -> "closed"
      [] phase = "done" -> "complete"
      [] OTHER -> "refused"

Channel == INSTANCE StringChannel WITH
    sent <- written, got <- received, status <- ChannelStatus

ImplementsChannel == Channel!Spec
=============================================================================
