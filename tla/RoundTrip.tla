----------------------------- MODULE RoundTrip -----------------------------
(***************************************************************************)
(* What the Rust tests call a round trip: encode_with, and then decode_with*)
(* on the payload with a TestHost.  Interop has the other pairs of writers *)
(* and readers; this one has no recursive operators, so that it can be     *)
(* proved about for values of any size and depth.                          *)
(***************************************************************************)
EXTENDS Decoder

CONSTANTS
    Levels,         \* bound: levels of arrays in a document
    Documents       \* the values to encode

V == INSTANCE Values
SameValue(a, b) == V!SameValue(a, b)

\* read_uvarint takes one byte here, whatever its number is: that of an overlong
\* varint is none that an encoder writes.
ASSUME RoundTripAssumption ==
    /\ Levels \in Nat /\ Documents \subseteq V!Nested[Levels]
    /\ Overlong \notin Nat

VARIABLES value, todo, strtab, buf      \* of the encoder; strdedup is in both

Enc == INSTANCE Encoder

encoder == <<value, todo, strtab, buf>>
decoder == <<input, pos, stack, arrs, root, tables, depth, result>>

\* No decoder yet; the Host may have been lent before.
TripInit ==
    /\ Enc!Init
    /\ len = 0 /\ data = <<>> /\ pos = 0 /\ stack = <<>> /\ arrs = <<>> /\ root = <<>>
    /\ strings = <<>> /\ hostTable \in Leftovers /\ size_used = 0 /\ depth = 0
    /\ result = "idle"

Encode == Enc!Encode /\ UNCHANGED decoder

\* decode_with on what encode_with returned; the header carries the flag over.
Open ==
    /\ todo = <<>> /\ result = "idle"
    /\ len' = Len(buf) /\ data' = buf
    /\ result' = IF Len(buf) > MaxSize THEN "MaxSize" ELSE "running"
    /\ UNCHANGED <<encoder, strdedup, pos, stack, arrs, root, tables, depth>>

Decode == (Step \/ HostError) /\ UNCHANGED encoder

TripStopped == result \notin {"idle", "running"} /\ UNCHANGED <<vars, encoder>>

TripNext == Encode \/ Open \/ Decode \/ TripStopped
TripSpec == TripInit /\ [][TripNext]_<<vars, encoder>>
-----------------------------------------------------------------------------
\* The value arrives: whichever form each array was written in and wherever its strings
\* were defined, a document that is decoded is the value that was encoded, in order
\* and to the bit, up to the one empty array of Value::eq.
ValueArrives == result = "ok" => SameValue(root[1], value)

\* Nothing an encoder wrote is malformed (in a document of less than 4 GiB; string ids
\* have 32 bits): it is refused by the Host, by one that had strings already, or for
\* a limit.  max_depth refuses the values that are deeper and no others, whatever
\* form their arrays have (protocol-v1.md, 8.4), and without references max_size is
\* about the document's length alone.
OnlyLimitsRefuse ==
    /\ Len(buf) <= MaxU32 => result # "BadStrRef"
    /\ result \in {"idle", "running", "ok", "Host", "Internal", "MaxDepth", "MaxSize", "BadStrRef"}
    /\ result = "Internal" => hostTable # <<>>
    /\ result = "ok" => value \in V!Nested[MaxDepth]
    /\ result = "MaxDepth" => value \notin V!Nested[MaxDepth]
    /\ result = "MaxSize" /\ ~strdedup => Len(buf) > MaxSize

\* The decoder's table is what the encoder's was at the same place of the document: its
\* entry n is the string that has the id n, and an encoder that goes on numbers on.
TablesAgree ==
    strdedup =>
        \A n \in DOMAIN strings :
            strings[n] \in DOMAIN strtab /\ strtab[strings[n]] = n - 1
=============================================================================
