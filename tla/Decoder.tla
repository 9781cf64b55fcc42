------------------------------ MODULE Decoder ------------------------------
(***************************************************************************)
(* The Rust decoder (pf-core/src/decoder.rs) building a value through a    *)
(* Host that keeps what it is given (test_host.rs).                        *)
(*                                                                         *)
(* decoder.rs is a set of mutually recursive functions; here the call stack*)
(* is the variable "stack", one frame for every array whose function has   *)
(* been entered and not left, and an action is what the functions do from  *)
(* one read of the input to the next.  "arrs" holds, frame by frame, what  *)
(* the Host has been given for that array.  A `?` that returns an error    *)
(* drops every frame at once.                                              *)
(***************************************************************************)
EXTENDS Format, Input

CONSTANTS
    MaxDepth,       \* DecodeOptions::max_depth
    MaxSize,        \* DecodeOptions::max_size
    MaxU32,         \* u32::MAX, for counts and string ids
    DoubleWidth,    \* 8, the bytes of a double
    StrictTrailing, \* DecodeOptions::strict_trailing
    Leftovers       \* what the table of a Host may hold when decode is lent it

ASSUME DecoderAssumption ==
    /\ MaxDepth \in Nat \ {0} /\ MaxSize \in Nat \ {0}
    /\ MaxU32 \in Nat /\ DoubleWidth \in Nat /\ StrictTrailing \in BOOLEAN
    /\ <<>> \in Leftovers /\ Leftovers \subseteq Seq(Seq(Nat))

VARIABLES
    strdedup,   \* the header's FLAG_STRDEDUP
    pos,        \* Cursor.pos
    stack,      \* the arrays being decoded, outermost first
    arrs,       \* H::ArrayState of each of them, and the template of a repeat
    root,       \* what the outermost decode_value returned: <<>> or <<value>>
    strings,    \* DecodeStringTable.entries
    hostTable,  \* the strings the Host interned
    depth,      \* Decoder.depth
    size_used,  \* Decoder.size_used
    result      \* "running", "ok" or the error decode_with returned

input == <<len, data>>
tables == <<strings, hostTable, size_used>>
vars == <<input, strdedup, pos, stack, arrs, root, tables, depth, result>>

-----------------------------------------------------------------------------
(* Frames and keys.                                                        *)

\* A frame is in a function that reads: the elements of a packed or hash array;
\* a run of longs; the keys of a rowset ("schema"), its rows, or the cells of
\* one row; the value of a repeat ("template"), or makes copies of it.
Kinds == {"packed", "hash", "longs", "schema", "rows", "row", "template", "copies"}

\* ArrayKeyOwned: an int, the empty string, or a string id.
Keys == [kind : {"int", "empty", "id"}, n : Int]

\* count: the declared number of elements; left: those still to come; keys: the
\* key of the element to come (hash), the key table (schema, rows), the keys of
\* the cells to come (row); cols: the number of keys of a rowset.
Frames == [kind : Kinds, count : Nat, left : Nat, keys : Seq(Keys), cols : Nat]

Frame(kind, count, keys, cols) ==
    [kind |-> kind, count |-> count, left |-> count, keys |-> keys, cols |-> cols]

EmptyArray == [items |-> <<>>, template |-> <<>>]

Top == stack[Len(stack)]
Below == SubSeq(stack, 1, Len(stack) - 1)
TopArray == arrs[Len(arrs)]
ArraysBelow == SubSeq(arrs, 1, Len(arrs) - 1)

\* Whether the function of this frame has called for a value.
Expecting(f) ==
    \/ f.kind = "template"
    \/ f.kind \in {"packed", "rows"} /\ f.left > 0
    \/ f.kind \in {"hash", "row"} /\ f.left > 0 /\ f.keys # <<>>

\* The frame after the value it called for has been pushed or inserted.
Filled(f) ==
    IF f.kind = "template" THEN [f EXCEPT !.kind = "copies"]
    ELSE IF f.kind \in {"hash", "row"} THEN [f EXCEPT !.left = @ - 1, !.keys = Tail(@)]
    ELSE [f EXCEPT !.left = @ - 1]

\* The key the Host inserts under: a string id is looked up in its own table.
HostKey(k) ==
    CASE k.kind = "int" -> <<"int", k.n>>
      [] k.kind = "empty" -> <<"str", <<>>>>
      [] k.kind = "id" -> <<"str", hostTable[k.n + 1]>>

\* push_packed or push_scalar, insert_key or insert_scalar, by the frame.
Stored(f, a, v) ==
    IF f.kind = "template" THEN [a EXCEPT !.template = <<v>>]
    ELSE IF f.kind \in {"hash", "row"}
         THEN [a EXCEPT !.items = Append(@, <<HostKey(Head(f.keys)), v>>)]
    ELSE [a EXCEPT !.items = Append(@, v)]

\* A value is complete: it goes to the function that called for it, which is the
\* innermost frame of st, or decode_with.
Deliver(st, as, v) ==
    IF st = <<>>
    THEN stack' = <<>> /\ arrs' = <<>> /\ root' = <<v>>
    ELSE /\ stack' = [st EXCEPT ![Len(st)] = Filled(@)]
         /\ arrs' = [as EXCEPT ![Len(as)] = Stored(st[Len(st)], @, v)]
         /\ UNCHANGED root

Running == result = "running"
At == pos + 1

\* The next byte is the tag of a value: one that the innermost array has called
\* for (a rowset gets rows, which have no tag) or, at first, decode_with.
WantsValue ==
    /\ Running
    /\ IF stack = <<>> THEN root = <<>> ELSE Expecting(Top) /\ Top.kind # "rows"

Consume(bytes) == pos' = pos + Len(bytes) /\ Learn(pos, bytes)

\* An error after looking at these bytes: the Decoder and all frames are gone.
Fail(e, bytes) ==
    /\ result' = e
    /\ stack' = <<>> /\ arrs' = <<>> /\ root' = <<>>
    /\ Learn(pos, bytes)
    /\ UNCHANGED <<len, strdedup, pos, tables, depth>>

-----------------------------------------------------------------------------
(* Strings: what read_str_varint_define, read_str_ref_id, decode_string_tag  *)
(* and read_key_owned have in common.                                        *)

Refused(e, bytes) ==
    [err |-> e, bytes |-> bytes, key |-> [kind |-> "empty", n |-> 0],
     def |-> <<>>, charge |-> 0]

EmptyString ==
    [err |-> "none", bytes |-> <<>>, key |-> [kind |-> "empty", n |-> 0],
     def |-> <<>>, charge |-> 0]

\* Mutant of DefinitionRead: the Host takes a string whatever its id is.
DefinitionReadTrusting(at, u) ==
    IF u.err # "none" THEN {Refused(u.err, u.bytes)}
    ELSE IF u.val > len - at THEN {Refused("Overflow", u.bytes)}
    ELSE IF size_used + u.val > MaxSize THEN {Refused("MaxSize", u.bytes)}
    ELSE {[err |-> "none", bytes |-> u.bytes \o s,
           key |-> [kind |-> "id", n |-> Len(strings)],
           def |-> <<s>>, charge |-> u.val] : s \in Take(at + 1, u.val)}

\* Length, charge, take, intern on the Host, push on the table.
DefinitionRead(at, u) ==
    IF u.err # "none" THEN {Refused(u.err, u.bytes)}
    ELSE IF u.val > len - at THEN {Refused("Overflow", u.bytes)}
    ELSE IF size_used + u.val > MaxSize THEN {Refused("MaxSize", u.bytes)}
    ELSE IF Len(strings) # Len(hostTable) THEN {Refused("Internal", u.bytes)}
    ELSE {[err |-> "none", bytes |-> u.bytes \o s,
           key |-> [kind |-> "id", n |-> Len(strings)],
           def |-> <<s>>, charge |-> u.val] : s \in Take(at + 1, u.val)}

\* Flag, id, lookup, charge.
RefRead(u, withoutFlag) ==
    IF ~strdedup THEN Refused(withoutFlag, <<>>)
    ELSE IF u.err # "none" THEN Refused(u.err, u.bytes)
    ELSE IF u.val > MaxU32 \/ u.val >= Len(strings) THEN Refused("BadStrRef", u.bytes)
    ELSE IF size_used + Len(strings[u.val + 1]) > MaxSize THEN Refused("MaxSize", u.bytes)
    ELSE [err |-> "none", bytes |-> u.bytes, key |-> [kind |-> "id", n |-> u.val],
          def |-> <<>>, charge |-> Len(strings[u.val + 1])]

\* The string behind a string tag; withoutFlag is the error for a STR_REF in a
\* document whose header does not announce any.
ReadString(at, tag, withoutFlag) ==
    CASE tag = TAG_STR_EMPTY -> {EmptyString}
      [] tag = TAG_STR_VARINT -> UNION {DefinitionRead(at, u) : u \in ReadUvarint(at)}
      [] tag = TAG_STR_REF -> {RefRead(u, withoutFlag) : u \in ReadUvarint(at)}

\* read_key_owned behind its tag.
ReadKey(at, tag) ==
    IF tag = TAG_VARINT
    THEN {[err |-> u.err, bytes |-> u.bytes,
           key |-> [kind |-> "int", n |-> ZigzagDecode(u.val)],
           def |-> <<>>, charge |-> 0] : u \in ReadUvarint(at)}
    ELSE ReadString(at, tag, "BadKey")

\* Mutant of Intern: a reference is free.
InternFreeReferences(r) ==
    /\ strings' = strings \o r.def
    /\ hostTable' = hostTable \o r.def
    /\ size_used' = IF r.def = <<>> THEN size_used ELSE size_used + r.charge

\* What a successful read does to the tables.
Intern(r) ==
    /\ strings' = strings \o r.def
    /\ hostTable' = hostTable \o r.def
    /\ size_used' = size_used + r.charge

\* make_string_id, or make_string(b"").
Text(r) == IF r.key.kind = "empty" THEN <<>> ELSE (hostTable \o r.def)[r.key.n + 1]

-----------------------------------------------------------------------------
(* Scalars, where a value is called for.                                     *)

\* A value that is complete after these bytes and defines no string.
Scalar(bytes, v) ==
    /\ Consume(bytes)
    /\ Deliver(stack, arrs, v)
    /\ UNCHANGED <<len, strdedup, tables, depth, result>>

DecodeConst ==
    /\ WantsValue
    /\ \E t \in Peek(At, TagBytes) \cap {TAG_NULL, TAG_FALSE, TAG_TRUE} :
           Scalar(<<t>>, CASE t = TAG_NULL -> <<"null">>
                           [] t = TAG_FALSE -> <<"bool", FALSE>>
                           [] t = TAG_TRUE -> <<"bool", TRUE>>)

DecodeInt ==
    /\ WantsValue
    /\ \E t \in Peek(At, TagBytes) \cap {TAG_VARINT}, u \in ReadUvarint(At + 1) :
           IF u.err # "none"
           THEN Fail(u.err, <<t>> \o u.bytes)
           ELSE Scalar(<<t>> \o u.bytes, <<"int", ZigzagDecode(u.val)>>)

\* Mutant of DecodeDouble: the tag is counted as one of the bytes left.
DecodeDoubleShort ==
    /\ WantsValue
    /\ \E t \in Peek(At, TagBytes) \cap {TAG_DOUBLE} :
           IF len - pos < DoubleWidth
           THEN Fail("Truncated", <<t>>)
           ELSE \E raw \in Take(At + 1, DoubleWidth) : Scalar(<<t>> \o raw, <<"double", raw>>)

DecodeDouble ==
    /\ WantsValue
    /\ \E t \in Peek(At, TagBytes) \cap {TAG_DOUBLE} :
           IF len - At < DoubleWidth
           THEN Fail("Truncated", <<t>>)
           ELSE \E raw \in Take(At + 1, DoubleWidth) : Scalar(<<t>> \o raw, <<"double", raw>>)

DecodeString ==
    /\ WantsValue
    /\ \E t \in Peek(At, TagBytes) \cap StringTags :
         \E r \in ReadString(At + 1, t, "UnknownTag") :
           IF r.err # "none"
           THEN Fail(r.err, <<t>> \o r.bytes)
           ELSE /\ Consume(<<t>> \o r.bytes)
                /\ Intern(r)
                /\ Deliver(stack, arrs, <<"str", Text(r)>>)
                /\ UNCHANGED <<len, strdedup, depth, result>>

UnknownTag ==
    /\ WantsValue
    /\ \E t \in Peek(At, TagBytes) \ ValueTags : Fail("UnknownTag", <<t>>)

NoTag == WantsValue /\ Peek(At, TagBytes) = {} /\ Fail("Truncated", <<>>)

-----------------------------------------------------------------------------
(* Arrays: entering.                                                         *)

\* Mutants of CountError: a count is believed, or max_depth is one less.
CountErrorUnchecked(u, minBytes, rest) ==
    IF u.err # "none" THEN u.err
    ELSE IF u.val > MaxU32 THEN "Overflow"
    ELSE IF depth + 1 > MaxDepth THEN "MaxDepth"
    ELSE "none"
CountErrorTooDeep(u, minBytes, rest) ==
    IF u.err # "none" THEN u.err
    ELSE IF u.val > MaxU32 \/ u.val * minBytes > rest THEN "Overflow"
    ELSE IF depth + 1 >= MaxDepth THEN "MaxDepth"
    ELSE "none"

\* check_array_count, and then enter_depth.
CountError(u, minBytes, rest) ==
    IF u.err # "none" THEN u.err
    ELSE IF u.val > MaxU32 \/ u.val * minBytes > rest THEN "Overflow"
    ELSE IF depth + 1 > MaxDepth THEN "MaxDepth"
    ELSE "none"

\* decode_array_repeat does without check_array_count.
RepeatError(u, rest) ==
    IF u.err # "none" THEN u.err
    ELSE IF u.val > MaxU32 THEN "Overflow"
    ELSE IF rest < 1 /\ u.val > 0 THEN "Truncated"
    ELSE IF depth + 1 > MaxDepth THEN "MaxDepth"
    ELSE "none"

\* decode_array_rows; its second check of nrows alone is implied by the first.
RowsError(r, c, rest) ==
    IF r.err # "none" THEN r.err
    ELSE IF c.err # "none" THEN c.err
    ELSE IF r.val > MaxU32 \/ c.val > MaxU32 THEN "Overflow"
    ELSE IF c.val + r.val * (IF c.val > 1 THEN c.val ELSE 1) > rest THEN "Overflow"
    ELSE IF depth + 1 > MaxDepth THEN "MaxDepth"
    ELSE "none"

Enter(f, bytes) ==
    /\ Consume(bytes)
    /\ stack' = Append(stack, f)
    /\ arrs' = Append(arrs, EmptyArray)
    /\ depth' = depth + 1
    /\ UNCHANGED <<len, strdedup, root, tables, result>>

EnterOr(e, f, bytes) == IF e # "none" THEN Fail(e, bytes) ELSE Enter(f, bytes)

BeginCounted(tag, kind, minBytes) ==
    /\ WantsValue
    /\ \E t \in Peek(At, TagBytes) \cap {tag}, u \in ReadUvarint(At + 1) :
           EnterOr(CountError(u, minBytes, len - At - 1), Frame(kind, u.val, <<>>, 0),
                   <<t>> \o u.bytes)

BeginPacked == BeginCounted(TAG_ARRAY_PACKED, "packed", 1)
BeginHash == BeginCounted(TAG_ARRAY_HASH, "hash", 2)
BeginLongs == BeginCounted(TAG_PACKED_LONGS, "longs", 1)

BeginRepeat ==
    /\ WantsValue
    /\ \E t \in Peek(At, TagBytes) \cap {TAG_ARRAY_REPEAT}, u \in ReadUvarint(At + 1) :
           EnterOr(RepeatError(u, len - At - 1), Frame("template", u.val, <<>>, 0),
                   <<t>> \o u.bytes)

BeginRows ==
    /\ WantsValue
    /\ \E t \in Peek(At, TagBytes) \cap {TAG_ARRAY_ROWS}, r \in ReadUvarint(At + 1) :
         \E c \in IF r.err = "none" THEN ReadUvarint(At + 2) ELSE {r} :
           EnterOr(RowsError(r, c, len - At - 2), Frame("schema", r.val, <<>>, c.val),
                   IF r.err = "none" THEN <<t>> \o r.bytes \o c.bytes ELSE <<t>> \o r.bytes)

-----------------------------------------------------------------------------
(* Arrays: inside.                                                           *)

InTop(kind) == Running /\ stack # <<>> /\ Top.kind = kind

\* A key for the innermost frame: of its next element, or of its key table.
WantsKey ==
    \/ InTop("hash") /\ Top.left > 0 /\ Top.keys = <<>>
    \/ InTop("schema") /\ Len(Top.keys) < Top.cols

TakeKey ==
    /\ WantsKey
    /\ \E t \in Peek(At, TagBytes) \cap KeyTags : \E r \in ReadKey(At + 1, t) :
           IF r.err # "none"
           THEN Fail(r.err, <<t>> \o r.bytes)
           ELSE /\ Consume(<<t>> \o r.bytes)
                /\ Intern(r)
                /\ stack' = [stack EXCEPT ![Len(stack)].keys = Append(@, r.key)]
                /\ UNCHANGED <<len, strdedup, arrs, root, depth, result>>

BadKey ==
    /\ WantsKey
    /\ \E t \in Peek(At, TagBytes) \ KeyTags : Fail("BadKey", <<t>>)

NoKey == WantsKey /\ Peek(At, TagBytes) = {} /\ Fail("Truncated", <<>>)

Inside == <<len, strdedup, root, tables, result>>

\* The key table is complete: begin_array for the rows.
OpenRows ==
    /\ InTop("schema") /\ Len(Top.keys) = Top.cols
    /\ stack' = [stack EXCEPT ![Len(stack)].kind = "rows"]
    /\ UNCHANGED <<Inside, data, pos, arrs, depth>>

BeginRow ==
    /\ InTop("rows") /\ Top.left > 0
    /\ IF depth + 1 > MaxDepth
       THEN Fail("MaxDepth", <<>>)
       ELSE /\ stack' = Append(stack, Frame("row", Top.cols, Top.keys, Top.cols))
            /\ arrs' = Append(arrs, EmptyArray)
            /\ depth' = depth + 1
            /\ UNCHANGED <<Inside, data, pos>>

\* One more element of the innermost array, without a tag of its own.
AddElement(v) ==
    /\ stack' = [stack EXCEPT ![Len(stack)].left = @ - 1]
    /\ arrs' = [arrs EXCEPT ![Len(arrs)].items = Append(@, v)]
    /\ UNCHANGED <<Inside, depth>>

ReadLong ==
    /\ InTop("longs") /\ Top.left > 0
    /\ \E u \in ReadUvarint(At) :
           IF u.err # "none"
           THEN Fail(u.err, u.bytes)
           ELSE Consume(u.bytes) /\ AddElement(<<"int", ZigzagDecode(u.val)>>)

CopyTemplate ==
    /\ InTop("copies") /\ Top.left > 0
    /\ AddElement(TopArray.template[1])
    /\ UNCHANGED <<data, pos>>

\* Mutants of EndArray: a rowset does not leave its depth; a row without cells
\* is not pushed, so that it does not count.
EndArrayRowsStay ==
    /\ Running /\ stack # <<>> /\ Top.left = 0
    /\ Top.kind \notin {"schema", "template"}
    /\ depth' = IF Top.kind = "rows" THEN depth ELSE depth - 1
    /\ Deliver(Below, ArraysBelow,
               <<IF Top.kind \in {"hash", "row"} THEN "hash" ELSE "list", TopArray.items>>)
    /\ UNCHANGED <<len, data, strdedup, pos, tables, result>>
EndArrayNoEmptyRow ==
    /\ Running /\ stack # <<>> /\ Top.left = 0
    /\ Top.kind \notin {"schema", "template"}
    /\ depth' = depth - 1
    /\ IF Top.kind = "row" /\ Top.cols = 0
       THEN stack' = Below /\ arrs' = ArraysBelow /\ UNCHANGED root
       ELSE Deliver(Below, ArraysBelow,
               <<IF Top.kind \in {"hash", "row"} THEN "hash" ELSE "list", TopArray.items>>)
    /\ UNCHANGED <<len, data, strdedup, pos, tables, result>>

\* leave_depth and end_array; a row is also pushed onto the rows outside it.
EndArray ==
    /\ Running /\ stack # <<>> /\ Top.left = 0
    /\ Top.kind \notin {"schema", "template"}
    /\ depth' = depth - 1
    /\ Deliver(Below, ArraysBelow,
               <<IF Top.kind \in {"hash", "row"} THEN "hash" ELSE "list", TopArray.items>>)
    /\ UNCHANGED <<len, data, strdedup, pos, tables, result>>

\* decode_with after the outermost decode_value.
Return ==
    /\ Running /\ root # <<>>
    /\ IF StrictTrailing /\ pos < len
       THEN Fail("Trailing", <<>>)
       ELSE /\ result' = "ok"
            /\ UNCHANGED <<input, strdedup, pos, stack, arrs, root, tables, depth>>

\* Any callback of the Host may return an error.
HostError == Running /\ Fail("Host", <<>>)

Stopped == ~Running /\ UNCHANGED vars
-----------------------------------------------------------------------------
\* A new Decoder, and a Host it is lent: decode borrows the Host, so that its
\* caller may lend it again, and nothing empties the table of a TestHost in between.
Init ==
    /\ strdedup \in BOOLEAN
    /\ pos = 0 /\ stack = <<>> /\ arrs = <<>> /\ root = <<>>
    /\ strings = <<>> /\ hostTable \in Leftovers /\ size_used = 0 /\ depth = 0
    /\ result = IF len > MaxSize THEN "MaxSize" ELSE "running"

Step ==
    \/ DecodeConst \/ DecodeInt \/ DecodeDouble \/ DecodeString \/ UnknownTag \/ NoTag
    \/ BeginPacked \/ BeginHash \/ BeginLongs \/ BeginRows \/ BeginRepeat
    \/ TakeKey \/ BadKey \/ NoKey \/ OpenRows \/ BeginRow \/ ReadLong \/ CopyTemplate
    \/ EndArray \/ Return

Next == Step \/ HostError \/ Stopped

\* Of a decoder that is given its payload by nobody else.
Start == InitInput /\ Init

Spec == Start /\ [][Next]_vars

\* The decoder is one call: nothing but its own return ends it, so it keeps
\* taking steps.
FairSpec == Spec /\ WF_vars(Step)
-----------------------------------------------------------------------------
Errors ==
    {"Truncated", "VarInt", "Overflow", "MaxSize", "MaxDepth", "Internal", "BadStrRef",
     "BadKey", "UnknownTag", "Trailing", "Host"}

\* Types; items and templates are the Host's and have no type here.
TypeOK ==
    /\ len \in Nat /\ pos \in 0..len
    /\ strdedup \in BOOLEAN
    /\ stack \in Seq(Frames)
    /\ strings \in Seq(Seq(Nat)) /\ hostTable \in Seq(Seq(Nat))
    /\ depth \in Nat /\ size_used \in Nat
    /\ result \in {"running", "ok"} \cup Errors

\* enter_depth and leave_depth pair up on every path: while the decoder runs,
\* depth is the number of arrays (rows of a rowset included) it is inside of,
\* and that is never more than max_depth.
DepthIsNesting ==
    result \in {"running", "ok"} => depth = Len(stack) /\ depth <= MaxDepth

\* No string id is ever resolved to a string of another document: as soon as the
\* document has a string, Decoder and Host number the strings alike (before that
\* there is no id: a Host that was lent before refuses the first definition,
\* test_host.rs:50, and the Decoder, whose own table is new, every reference), and an
\* id kept in a frame, for a whole rowset maybe, is one the Host can look up.
IdsResolve ==
    /\ strings # <<>> => hostTable = strings
    /\ result = "Internal" => strings = <<>> /\ hostTable # <<>>
    /\ \A i \in 1..Len(stack) : \A k \in 1..Len(stack[i].keys) :
           stack[i].keys[k].kind = "id" => stack[i].keys[k].n \in 0..(Len(strings) - 1)

\* The Host is never asked to reserve more elements for one array than the
\* payload has bytes (decoder.rs:185), a repeat's copies aside.
ReserveBounded ==
    \A i \in 1..Len(stack) :
        stack[i].kind \in {"packed", "hash", "longs", "rows", "row"} => stack[i].count <= len

\* The decoder keeps the promise of HostCalls: from the arrays it has called
\* begin_array for, with the elements the Host was not given yet.  (The key table of a
\* rowset is read before that.)
Begun == IF stack # <<>> /\ Top.kind = "schema" THEN Below ELSE stack
Calls == INSTANCE HostCalls WITH
    MaxCount <- MaxU32,
    open <- [i \in DOMAIN Begun |->
                [needs |-> Begun[i].count - Len(arrs[i].items),
                 template |-> Begun[i].kind = "template"]],
    whole <- root # <<>>,
    answer <- CASE result = "running" -> "none" [] result = "ok" -> "value" [] OTHER -> "error"

KeepsHostCalls == Calls!Spec

\* No payload makes the decoder run for ever.
Terminates == <>(result # "running")
=============================================================================
