------------------------------ MODULE DecoderC ------------------------------
(***************************************************************************)
(* The C decoder of the PHP extension (php/decode_c.c), which builds zvals *)
(* and, unlike the Rust one, has no destructors: every function that meets *)
(* an error destroys by hand what it holds, leaves its depth and returns   *)
(* the error to its caller, which does the same.                           *)
(*                                                                         *)
(* "frames" is the C call stack, one frame for every array function that   *)
(* has passed pf_enter, and "outs" what each has put into its out zval.    *)
(* "owned" counts the zvals that local variables own: a value is owned when*)
(* it is created and no longer when it is inserted or destroyed.  "keytabs"*)
(* counts the key tables of pf_decode_array_rows that are not freed.       *)
(***************************************************************************)
EXTENDS Format, Input, FiniteSets

CONSTANTS
    MaxDepth, MaxSize, MaxU32, DoubleWidth,     \* as in Decoder
    SymtableKey(_)  \* the key zend_symtable_update makes of a string

ASSUME DecoderCAssumption ==
    MaxDepth \in Nat /\ MaxSize \in Nat /\ MaxU32 \in Nat /\ DoubleWidth \in Nat

VARIABLES
    strdedup, pos, frames, outs, root, strs, depth, size_used,
    owned, keytabs,
    err,        \* the error being returned, "none" otherwise
    result      \* "running", "ok" or what pf_c_decode returned

vars == <<len, data, strdedup, pos, frames, outs, root, strs, depth, size_used,
          owned, keytabs, err, result>>

Init ==
    /\ strdedup \in BOOLEAN
    /\ pos = 0 /\ frames = <<>> /\ outs = <<>> /\ root = <<>> /\ strs = <<>>
    /\ depth = 0 /\ size_used = 0 /\ owned = 0 /\ keytabs = 0
    /\ err = "none"
    /\ result = IF len > MaxSize THEN "MaxSize" ELSE "running"
-----------------------------------------------------------------------------
Running == result = "running" /\ err = "none"
At == pos + 1
Top == frames[Len(frames)]
Out == outs[Len(outs)]
DropTop(s) == SubSeq(s, 1, Len(s) - 1)

NoOut == [items |-> <<>>, template |-> <<>>]

\* The function of this frame is about to call pf_decode_value.
Expecting(f) ==
    \/ f.kind = "template"
    \/ f.kind = "packed" /\ f.left > 0
    \/ f.kind \in {"hash", "row"} /\ f.keys # <<>>

WantsValue == Running /\ IF frames = <<>> THEN root = <<>> ELSE Expecting(Top)

InTop(kind) == Running /\ frames # <<>> /\ Top.kind = kind

Advance(bytes) == pos' = pos + Len(bytes) /\ Learn(pos, bytes)

\* A function returns e, its own locals not yet cleaned up.
Raise(e, bytes) ==
    /\ err' = e
    /\ Learn(pos, bytes)
    /\ UNCHANGED <<len, strdedup, pos, frames, outs, root, strs, depth, size_used,
                   owned, keytabs, result>>

\* zend_symtable_update, zend_symtable_str_update, zend_hash_index_update: an
\* existing key keeps its place and gets the new value.
Update(items, key, v) ==
    IF \E i \in DOMAIN items : items[i][1] = key
    THEN [i \in DOMAIN items |-> IF items[i][1] = key THEN <<key, v>> ELSE items[i]]
    ELSE Append(items, <<key, v>>)

\* The value just decoded, counted in o, goes to the caller: *out of
\* pf_c_decode, the template of a repeat (whose out is initialised next), or
\* the array the caller builds, which then owns it.
Store(fs, os, v, o) ==
    IF fs = <<>>
    THEN frames' = <<>> /\ outs' = <<>> /\ root' = <<v>> /\ owned' = o
    ELSE LET n == Len(fs)
             f == fs[n]
         IN  /\ UNCHANGED root
             /\ CASE f.kind = "template" ->
                       /\ frames' = [fs EXCEPT ![n].kind = "copies"]
                       /\ outs' = [os EXCEPT ![n].template = <<v>>]
                       /\ owned' = o + 1
                  [] f.kind \in {"hash", "row"} ->
                       /\ frames' = [fs EXCEPT ![n].left = @ - 1, ![n].keys = Tail(@)]
                       /\ outs' = [os EXCEPT ![n].items = Update(@, Head(f.keys), v)]
                       /\ owned' = o - 1
                  [] f.kind \in {"packed", "rows"} ->
                       /\ frames' = [fs EXCEPT ![n].left = @ - 1]
                       /\ outs' = [os EXCEPT ![n].items = Append(@, v)]
                       /\ owned' = o - 1
-----------------------------------------------------------------------------
(* Strings and keys.                                                         *)

NoRead(e, bytes) == [err |-> e, bytes |-> bytes, text |-> <<>>, def |-> <<>>, charge |-> 0]

\* pf_charge would refuse n more bytes.
OverLimit(n) == n > MaxSize - size_used

\* The string behind a string tag, from pf_decode_string_tag and pf_read_key.
StringRead(at, tag, withoutFlag) ==
    IF tag = TAG_STR_EMPTY THEN {NoRead("none", <<>>)}
    ELSE IF tag = TAG_STR_REF /\ ~strdedup THEN {NoRead(withoutFlag, <<>>)}
    ELSE UNION {
        IF u.err # "none" THEN {NoRead(u.err, u.bytes)}
        ELSE IF tag = TAG_STR_VARINT
        THEN IF u.val > len - at THEN {NoRead("Overflow", u.bytes)}
             ELSE IF OverLimit(u.val) THEN {NoRead("MaxSize", u.bytes)}
             ELSE {[err |-> "none", bytes |-> u.bytes \o s, text |-> s,
                    def |-> <<s>>, charge |-> u.val] : s \in Take(at + 1, u.val)}
        ELSE IF u.val > MaxU32 \/ u.val >= Len(strs) THEN {NoRead("BadStrRef", u.bytes)}
             ELSE IF OverLimit(Len(strs[u.val + 1])) THEN {NoRead("MaxSize", u.bytes)}
             ELSE {[err |-> "none", bytes |-> u.bytes, text |-> strs[u.val + 1],
                    def |-> <<>>, charge |-> Len(strs[u.val + 1])]}
        : u \in ReadUvarint(at)}

Intern(r) == strs' = strs \o r.def /\ size_used' = size_used + r.charge

TakeKey ==
    /\ \/ InTop("hash") /\ Top.left > 0 /\ Top.keys = <<>>
       \/ InTop("schema") /\ Len(Top.keys) < Top.cols
    /\ \/ Peek(At, TagBytes) = {} /\ Raise("Truncated", <<>>)
       \/ \E t \in Peek(At, TagBytes) \ KeyTags : Raise("BadKey", <<t>>)
       \/ \E t \in Peek(At, TagBytes) \cap KeyTags :
            \E r \in IF t = TAG_VARINT THEN ReadUvarint(At + 1)
                     ELSE StringRead(At + 1, t, "BadKey") :
              IF r.err # "none" THEN Raise(r.err, <<t>> \o r.bytes)
              ELSE /\ Advance(<<t>> \o r.bytes)
                   /\ IF t = TAG_VARINT THEN UNCHANGED <<strs, size_used>> ELSE Intern(r)
                   /\ frames' = [frames EXCEPT ![Len(frames)].keys =
                          Append(@, IF t = TAG_VARINT THEN <<"int", ZigzagDecode(r.val)>>
                                    ELSE SymtableKey(r.text))]
                   /\ UNCHANGED <<len, strdedup, outs, root, depth, owned, keytabs, err, result>>
-----------------------------------------------------------------------------
(* pf_decode_value where the value is a scalar.                              *)

Scalar(bytes, v) ==
    /\ Advance(bytes)
    /\ Store(frames, outs, v, owned + 1)
    /\ UNCHANGED <<len, strdedup, strs, depth, size_used, keytabs, err, result>>

DecodeScalar ==
    /\ WantsValue
    /\ \/ Peek(At, TagBytes) = {} /\ Raise("Truncated", <<>>)
       \/ \E t \in Peek(At, TagBytes) :
            \/ t \notin ValueTags /\ Raise("UnknownTag", <<t>>)
            \/ t = TAG_NULL /\ Scalar(<<t>>, <<"null">>)
            \/ t = TAG_FALSE /\ Scalar(<<t>>, <<"bool", FALSE>>)
            \/ t = TAG_TRUE /\ Scalar(<<t>>, <<"bool", TRUE>>)
            \/ /\ t = TAG_VARINT
               /\ \E u \in ReadUvarint(At + 1) :
                    IF u.err # "none" THEN Raise(u.err, <<t>> \o u.bytes)
                    ELSE Scalar(<<t>> \o u.bytes, <<"int", ZigzagDecode(u.val)>>)
            \/ /\ t = TAG_DOUBLE
               /\ IF len - At < DoubleWidth THEN Raise("Truncated", <<t>>)
                  ELSE \E raw \in Take(At + 1, DoubleWidth) :
                           Scalar(<<t>> \o raw, <<"double", raw>>)

DecodeString ==
    /\ WantsValue
    /\ \E t \in Peek(At, TagBytes) \cap StringTags :
         \E r \in StringRead(At + 1, t, "UnknownTag") :
           IF r.err # "none" THEN Raise(r.err, <<t>> \o r.bytes)
           ELSE /\ Advance(<<t>> \o r.bytes)
                /\ Intern(r)
                /\ Store(frames, outs, <<"str", r.text>>, owned + 1)
                /\ UNCHANGED <<len, strdedup, depth, keytabs, err, result>>
-----------------------------------------------------------------------------
(* Arrays.                                                                   *)

\* pf_check_count, the check of pf_decode_array_repeat, the one of
\* pf_decode_array_rows; then pf_enter.
ThenEnter(e) == IF e # "none" THEN e ELSE IF depth >= MaxDepth THEN "MaxDepth" ELSE "none"

CountError(u, minBytes, rest) ==
    IF u.err # "none" THEN u.err
    ELSE IF u.val > MaxU32 \/ u.val * minBytes > rest THEN "Overflow" ELSE "none"

\* Mutant of RepeatError: the count is checked as that of any other array.
RepeatErrorAsCount(u, rest) == CountError(u, 1, rest)

RepeatError(u, rest) ==
    IF u.err # "none" THEN u.err
    ELSE IF u.val > MaxU32 THEN "Overflow"
    ELSE IF u.val > 0 /\ rest < 1 THEN "Truncated" ELSE "none"

RowsError(r, c, rest) ==
    IF r.err # "none" THEN r.err
    ELSE IF c.err # "none" THEN c.err
    ELSE IF \/ r.val > MaxU32 \/ c.val > MaxU32
            \/ c.val + r.val * (IF c.val > 0 THEN c.val ELSE 1) > rest
         THEN "Overflow" ELSE "none"

\* Past pf_enter; how many zvals and key tables the function initialises there.
Enter(e, kind, count, cols, bytes, zvals, tables) ==
    IF ThenEnter(e) # "none" THEN Raise(ThenEnter(e), bytes)
    ELSE /\ Advance(bytes)
         /\ frames' = Append(frames, [kind |-> kind, count |-> count, left |-> count,
                                      keys |-> <<>>, cols |-> cols])
         /\ outs' = Append(outs, NoOut)
         /\ depth' = depth + 1
         /\ owned' = owned + zvals /\ keytabs' = keytabs + tables
         /\ UNCHANGED <<len, strdedup, root, strs, size_used, err, result>>

BeginArray ==
    /\ WantsValue
    /\ \E t \in Peek(At, TagBytes) : \E u \in IF t \in TAG_ARRAY_PACKED..TAG_ARRAY_REPEAT
                                              THEN ReadUvarint(At + 1) ELSE {} :
         LET bytes == <<t>> \o u.bytes
             rest == len - At - 1
         IN  \/ t = TAG_ARRAY_PACKED /\ Enter(CountError(u, 1, rest), "packed", u.val, 0, bytes, 1, 0)
             \/ t = TAG_ARRAY_HASH /\ Enter(CountError(u, 2, rest), "hash", u.val, 0, bytes, 1, 0)
             \/ t = TAG_PACKED_LONGS /\ Enter(CountError(u, 1, rest), "longs", u.val, 0, bytes, 1, 0)
             \/ t = TAG_ARRAY_REPEAT /\ Enter(RepeatError(u, rest), "template", u.val, 0, bytes, 0, 0)
             \/ /\ t = TAG_ARRAY_ROWS
                /\ \E c \in IF u.err = "none" THEN ReadUvarint(At + 2) ELSE {u} :
                     Enter(RowsError(u, c, rest - 1), "schema", u.val, c.val,
                           IF u.err = "none" THEN bytes \o c.bytes ELSE bytes, 0, 1)

Settled == <<len, strdedup, root, strs, size_used, err, result>>

\* The key table is read: array_init_size for the rows.
OpenRows ==
    /\ InTop("schema") /\ Len(Top.keys) = Top.cols
    /\ frames' = [frames EXCEPT ![Len(frames)].kind = "rows"]
    /\ owned' = owned + 1
    /\ UNCHANGED <<Settled, data, pos, outs, depth, keytabs>>

BeginRow ==
    /\ InTop("rows") /\ Top.left > 0
    /\ IF depth >= MaxDepth THEN Raise("MaxDepth", <<>>)
       ELSE /\ frames' = Append(frames, [Top EXCEPT !.kind = "row", !.count = Top.cols,
                                                    !.left = Top.cols])
            /\ outs' = Append(outs, NoOut)
            /\ depth' = depth + 1 /\ owned' = owned + 1
            /\ UNCHANGED <<Settled, data, pos, keytabs>>

AddElement(v) ==
    /\ frames' = [frames EXCEPT ![Len(frames)].left = @ - 1]
    /\ outs' = [outs EXCEPT ![Len(outs)].items = Append(@, v)]
    /\ UNCHANGED <<Settled, depth, owned, keytabs>>

ReadLong ==
    /\ InTop("longs") /\ Top.left > 0
    /\ \E u \in ReadUvarint(At) :
         IF u.err # "none" THEN Raise(u.err, u.bytes)
         ELSE Advance(u.bytes) /\ AddElement(<<"int", ZigzagDecode(u.val)>>)

CopyTemplate ==
    /\ InTop("copies") /\ Top.left > 0
    /\ AddElement(Out.template[1])
    /\ UNCHANGED <<data, pos>>

Finished == Running /\ frames # <<>> /\ Top.left = 0 /\ Top.kind \notin {"schema", "template"}

\* Mutant of EndArray: a row without cells is not inserted, so that it does not
\* count.
EndArrayNoEmptyRow ==
    /\ Finished
    /\ depth' = depth - 1
    /\ keytabs' = IF Top.kind = "rows" THEN keytabs - 1 ELSE keytabs
    /\ IF Top.kind = "row" /\ Top.cols = 0
       THEN /\ frames' = DropTop(frames) /\ outs' = DropTop(outs)
            /\ owned' = owned - 1 /\ UNCHANGED root
       ELSE Store(DropTop(frames), DropTop(outs),
                  <<IF Top.kind \in {"hash", "row"} THEN "hash" ELSE "list", Out.items>>,
                  IF Top.kind = "copies" THEN owned - 1 ELSE owned)
    /\ UNCHANGED <<len, data, strdedup, pos, strs, size_used, err, result>>

\* pf_leave and return PF_OK, after freeing the template or the key table.
EndArray ==
    /\ Finished
    /\ depth' = depth - 1
    /\ keytabs' = IF Top.kind = "rows" THEN keytabs - 1 ELSE keytabs
    /\ Store(DropTop(frames), DropTop(outs),
             <<IF Top.kind \in {"hash", "row"} THEN "hash" ELSE "list", Out.items>>,
             IF Top.kind = "copies" THEN owned - 1 ELSE owned)
    /\ UNCHANGED <<len, data, strdedup, pos, strs, size_used, err, result>>

-----------------------------------------------------------------------------
(* Errors on their way out.                                                  *)

\* An insertion returns NULL: the scalar or the copy that was to be inserted is
\* destroyed at once; an array that was to be inserted has left its depth already.
InsertFails ==
    \/ /\ \/ WantsValue /\ frames # <<>> /\ Top.kind # "template"
          \/ (InTop("longs") \/ InTop("copies")) /\ Top.left > 0
       /\ Raise("Host", <<>>)
    \/ /\ Finished /\ Len(frames) > 1 /\ frames[Len(frames) - 1].kind # "template"
       /\ frames' = DropTop(frames) /\ outs' = DropTop(outs)
       /\ depth' = depth - 1
       /\ keytabs' = IF Top.kind = "rows" THEN keytabs - 1 ELSE keytabs
       /\ owned' = IF Top.kind = "copies" THEN owned - 2 ELSE owned - 1
       /\ err' = "Host"
       /\ UNCHANGED <<len, data, strdedup, pos, root, strs, size_used, result>>

\* Mutants of Destroys: a row that fails is forgotten, or a template is destroyed
\* once more by the caller.
DestroysNoRow(kind) ==
    CASE kind \in {"packed", "hash", "longs", "rows", "row"} -> 1
      [] kind = "copies" -> 2
      [] kind \in {"schema", "template"} -> 0
DestroysTemplateTwice(kind) ==
    CASE kind \in {"packed", "hash", "longs", "rows"} -> 1
      [] kind = "row" -> 2
      [] kind = "copies" -> 3
      [] kind \in {"schema", "template"} -> 0

\* The zvals destroyed on the error path of a function.
Destroys(kind) ==
    CASE kind \in {"packed", "hash", "longs", "rows"} -> 1
      [] kind \in {"row", "copies"} -> 2
      [] kind \in {"schema", "template"} -> 0

\* Mutant of Leaves: a failing cell leaves its row but not the rowset.
LeavesOnce(kind) == 1

\* The calls of pf_leave on the error path.
Leaves(kind) == IF kind = "row" THEN 2 ELSE 1

\* One function destroys what it holds, leaves and returns the error.  A failing
\* cell cleans up the row and the rowset around it in one go.
Unwind ==
    /\ result = "running" /\ err # "none" /\ frames # <<>>
    /\ LET gone == IF Top.kind = "row" THEN 2 ELSE 1
       IN  /\ frames' = SubSeq(frames, 1, Len(frames) - gone)
           /\ outs' = SubSeq(outs, 1, Len(outs) - gone)
    /\ depth' = depth - Leaves(Top.kind)
    /\ owned' = owned - Destroys(Top.kind)
    /\ keytabs' = IF Top.kind \in {"schema", "rows", "row"} THEN keytabs - 1 ELSE keytabs
    /\ UNCHANGED <<len, data, strdedup, pos, root, strs, size_used, err, result>>

\* Mutant of Given: what is followed by more bytes is not destroyed.
GivenWithTrailing(e) == IF e \in {"ok", "Trailing"} THEN root ELSE <<>>

\* What the out of pf_c_decode holds when it returns e.
Given(e) == IF e = "ok" THEN root ELSE <<>>

\* pf_c_decode returns: with an error, after destroying what out may hold and
\* freeing the string table; with the value; or with PF_E_TRAILING.
Return ==
    /\ result = "running" /\ frames = <<>>
    /\ err # "none" \/ root # <<>>
    /\ result' = IF err # "none" THEN err ELSE IF pos # len THEN "Trailing" ELSE "ok"
    /\ root' = Given(result')
    /\ owned' = owned - (Len(root) - Len(root'))
    /\ strs' = <<>>
    /\ UNCHANGED <<len, data, strdedup, pos, frames, outs, depth, size_used, keytabs, err>>

Stopped == result # "running" /\ UNCHANGED vars
-----------------------------------------------------------------------------
Step ==
    \/ DecodeScalar \/ DecodeString \/ TakeKey
    \/ BeginArray \/ OpenRows \/ BeginRow \/ ReadLong \/ CopyTemplate \/ EndArray
    \/ Unwind \/ Return

Next == Step \/ InsertFails \/ Stopped

\* Of a decoder that is given its payload by nobody else.
Start == InitInput /\ Init

Spec == Start /\ [][Next]_vars /\ WF_vars(Step)
-----------------------------------------------------------------------------
Kinds == {"packed", "hash", "longs", "schema", "rows", "row", "template", "copies"}

TypeOK ==
    /\ len \in Nat /\ pos \in 0..len
    /\ \A i \in DOMAIN frames : frames[i].kind \in Kinds /\ frames[i].left \in Nat
    /\ Len(outs) = Len(frames)
    /\ depth \in Nat /\ size_used \in Nat /\ owned \in Nat /\ keytabs \in Nat
    /\ result # "running" => frames = <<>>

FramesIn(kinds) == Cardinality({i \in DOMAIN frames : frames[i].kind \in kinds})

\* pf_enter and pf_leave pair up on every path, the error paths included: depth
\* is the number of arrays that are open, or still to be cleaned up, and is zero
\* again when pf_c_decode returns.
DepthIsNesting == depth = Len(frames) /\ depth <= MaxDepth

\* Every zval and key table belongs to a function that is still to return, each
\* to one: at any time the open arrays, the templates and the finished root are
\* all there is.
EveryZvalIsHeld ==
    /\ owned = FramesIn({"packed", "hash", "longs", "rows", "row"})
                 + 2 * FramesIn({"copies"}) + Len(root)
    /\ keytabs = FramesIn({"schema", "rows"})

\* "On failure, *out is UNDEF and no partial value leaks" (decode_c.h:13), nor
\* a key table or the string table; on success the caller owns one value.
FailureIsAtomic ==
    result # "running" =>
        /\ keytabs = 0 /\ strs = <<>>
        /\ owned = (IF result = "ok" THEN 1 ELSE 0)
        /\ Len(root) = owned

\* The C decoder builds arrays as HostCalls says: what is cleaned up after an error
\* is not built any more.  (A rowset is begun when its key table has been read.)
Begun == IF frames # <<>> /\ Top.kind = "schema" THEN DropTop(frames) ELSE frames
Calls == INSTANCE HostCalls WITH
    MaxCount <- MaxU32,
    open <- IF err # "none" THEN <<>>
            ELSE [i \in DOMAIN Begun |->
                     [needs |-> Begun[i].left, template |-> Begun[i].kind = "template"]],
    whole <- err = "none" /\ root # <<>>,
    answer <- IF result = "ok" THEN "value"
              ELSE IF result = "running" /\ err = "none" THEN "none" ELSE "error"

KeepsHostCalls == Calls!Spec

\* pf_c_decode returns, whatever the payload, also when it cleans up.
Terminates == <>(result # "running")
=============================================================================
