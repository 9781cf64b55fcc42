------------------------------ MODULE EncoderC ------------------------------
(***************************************************************************)
(* The C encoder of the PHP extension (php/encode_c.c): pf_c_encode on a   *)
(* PHP value.  As in Encoder, "todo" is what the activations of enc_zval   *)
(* and enc_array have still to write; each thing carries the e->depth it   *)
(* is written at.  An error of any of them is what pf_c_encode returns.    *)
(* A reference or an indirect slot is the value it leads to.               *)
(***************************************************************************)
EXTENDS Format, Sequences, FiniteSets
LOCAL INSTANCE SequencesExt

CONSTANTS
    Documents,      \* the PHP values to encode; <<"object">> is unsupported
    EncMaxDepth,    \* PF_ENCODE_MAX_DEPTH
    PosZero, NegZero, NaN   \* doubles that === does not compare by their bits

VARIABLES
    strdedup,   \* pf_cenc.strdedup, in the header as PF_FLAG_STRDEDUP
    value,      \* the argument of pf_c_encode
    todo,       \* what is still to be written
    strtab,     \* pf_cenc.strtab
    buf,        \* pf_cenc.buf behind the header
    encErr      \* what pf_c_encode returns, "none" for PF_OK

vars == <<strdedup, value, todo, strtab, buf, encErr>>

Task(kind, x, depth) == [kind |-> kind, what |-> x, depth |-> depth]
Each(kind, xs, depth) == [i \in DOMAIN xs |-> Task(kind, xs[i], depth)]

Init ==
    /\ strdedup \in BOOLEAN
    /\ value \in Documents
    /\ todo = <<Task("value", value, 0)>>
    /\ strtab = <<>> /\ buf = <<>> /\ encErr = "none"
-----------------------------------------------------------------------------
What == todo[1].what
Depth == todo[1].depth

\* enc_zval goes on only at a depth that is not beyond its limit.
UpcomingValue == todo # <<>> /\ todo[1].kind = "value" /\ Depth <= EncMaxDepth

Write(bytes, tasks) ==
    /\ buf' = buf \o bytes
    /\ todo' = tasks \o Tail(todo)
    /\ UNCHANGED <<strdedup, value, encErr>>

Plain(bytes, tasks) == Write(bytes, tasks) /\ UNCHANGED strtab

\* The buffer and the string table are freed.
Fail(e) ==
    /\ encErr' = e
    /\ todo' = <<>> /\ buf' = <<>> /\ strtab' = <<>>
    /\ UNCHANGED <<strdedup, value>>

TooDeep ==
    /\ todo # <<>> /\ todo[1].kind = "value" /\ Depth > EncMaxDepth
    /\ Fail("MaxDepth")

Unsupported == UpcomingValue /\ What = <<"object">> /\ Fail("UnsupportedType")

EncScalar ==
    /\ UpcomingValue
    /\ \/ What = <<"null">> /\ Plain(<<TAG_NULL>>, <<>>)
       \/ What = <<"bool", FALSE>> /\ Plain(<<TAG_FALSE>>, <<>>)
       \/ What = <<"bool", TRUE>> /\ Plain(<<TAG_TRUE>>, <<>>)
       \/ What[1] = "int" /\ Plain(<<TAG_VARINT, ZigzagEncode(What[2])>>, <<>>)
       \/ What[1] = "double" /\ Plain(<<TAG_DOUBLE>> \o What[2], <<>>)

\* enc_zstr; next_str_id is the number of strings in the table.
EncZstr(s) ==
    IF s = <<>> THEN Plain(<<TAG_STR_EMPTY>>, <<>>)
    ELSE IF strdedup /\ s \in DOMAIN strtab
    THEN Plain(<<TAG_STR_REF, strtab[s]>>, <<>>)
    ELSE /\ strtab' = IF ~strdedup THEN strtab
                      ELSE [x \in DOMAIN strtab \cup {s} |->
                               IF x = s THEN Cardinality(DOMAIN strtab) ELSE strtab[x]]
         /\ Write(<<TAG_STR_VARINT, Len(s)>> \o s, <<>>)

EncString == UpcomingValue /\ What[1] = "str" /\ EncZstr(What[2])

EncKey ==
    /\ todo # <<>> /\ todo[1].kind = "key"
    /\ IF What[1] = "int"
       THEN Plain(<<TAG_VARINT, ZigzagEncode(What[2])>>, <<>>)
       ELSE EncZstr(What[2])

EncLong ==
    /\ todo # <<>> /\ todo[1].kind = "long"
    /\ Plain(<<ZigzagEncode(What[2])>>, <<>>)
-----------------------------------------------------------------------------
(* The form of an array: enc_array and the functions it asks.                *)

KeysOf(row) == [i \in DOMAIN row[2] |-> IF row[1] = "list" THEN <<"int", i - 1>> ELSE row[2][i][1]]
CellsOf(row) == [i \in DOMAIN row[2] |-> IF row[1] = "list" THEN row[2][i] ELSE row[2][i][2]]

SameDouble(x, y) ==
    /\ x # NaN /\ y # NaN
    /\ x = y \/ {x, y} = {PosZero, NegZero}

IsArray(v) == v[1] \in {"list", "hash"}

\* zend_is_identical, the === of PHP.  Values do not say whether two equal
\* arrays are one zend_array (shared), which is identical to itself whatever it
\* holds.
RECURSIVE Identical(_, _, _)
Identical(a, b, shared) ==
    /\ a[1] = b[1]
    /\ IF a[1] = "double" THEN SameDouble(a[2], b[2])
       ELSE IF IsArray(a)
       THEN \/ shared /\ a = b
            \/ /\ KeysOf(a) = KeysOf(b)
               /\ \A i \in DOMAIN a[2] : Identical(CellsOf(a)[i], CellsOf(b)[i], shared)
       ELSE a = b

IsLongs(items) == items # <<>> /\ \A i \in DOMAIN items : items[i][1] = "int"

\* array_is_repeat, behind the look at the second element (maybe_repeat).
IsRepeat(items, shared) ==
    /\ Len(items) >= 2
    /\ \A i \in DOMAIN items : Identical(items[1], items[i], shared)

\* Mutant of SchemasMatch: rows of the same length have the same keys.
SchemasMatchByLength(a, b) == {Len(a[2]) = Len(b[2])}

\* What schemas_match may say.  It reads the slots of both tables as Buckets,
\* which those of a packed table are not since PHP 8.2: it may say anything of
\* lists of the same length.
SchemasMatch(a, b) ==
    IF Len(a[2]) # Len(b[2]) THEN {FALSE}
    ELSE IF a[1] = "hash" /\ b[1] = "hash" THEN {KeysOf(a) = KeysOf(b)}
    ELSE BOOLEAN

\* What array_is_rowset may say.
RowsetOutcomes(items) ==
    IF /\ Len(items) >= 2 /\ \A i \in DOMAIN items : IsArray(items[i])
       /\ items[1][2] # <<>>
    THEN {b \in BOOLEAN :
             IF b THEN \A i \in DOMAIN items : TRUE \in SchemasMatch(items[1], items[i])
             ELSE \E i \in DOMAIN items : FALSE \in SchemasMatch(items[1], items[i])}
    ELSE {FALSE}

\* The forms enc_array may choose for a list.
Forms(items) ==
    IF IsLongs(items) THEN {"longs"}
    ELSE UNION {IF IsRepeat(items, shared) THEN {"repeat"}
                ELSE {IF rowset THEN "rows" ELSE "packed" : rowset \in RowsetOutcomes(items)}
                : shared \in BOOLEAN}

EncList(form) == UpcomingValue /\ What[1] = "list" /\ form \in Forms(What[2])

EncLongs ==
    /\ EncList("longs")
    /\ Plain(<<TAG_PACKED_LONGS, Len(What[2])>>, Each("long", What[2], Depth + 1))

EncRepeat ==
    /\ EncList("repeat")
    /\ Plain(<<TAG_ARRAY_REPEAT, Len(What[2])>>, <<Task("value", What[2][1], Depth + 1)>>)

\* The rows are not entered by enc_zval: their cells are one deeper than the
\* list, not two.
EncRows ==
    /\ EncList("rows")
    /\ LET rows == What[2]
       IN  Plain(<<TAG_ARRAY_ROWS, Len(rows), Len(rows[1][2])>>,
                 Each("key", KeysOf(rows[1]), Depth + 1)
                     \o FlattenSeq([i \in DOMAIN rows |->
                                       Each("value", CellsOf(rows[i]), Depth + 1)]))

EncPacked ==
    /\ EncList("packed")
    /\ Plain(<<TAG_ARRAY_PACKED, Len(What[2])>>, Each("value", What[2], Depth + 1))

EncHash ==
    /\ UpcomingValue /\ What[1] = "hash"
    /\ Plain(<<TAG_ARRAY_HASH, Len(What[2])>>,
             FlattenSeq([i \in DOMAIN What[2] |->
                 <<Task("key", What[2][i][1], Depth + 1),
                   Task("value", What[2][i][2], Depth + 1)>>]))

Encode ==
    \/ TooDeep \/ Unsupported \/ EncScalar \/ EncString \/ EncKey \/ EncLong
    \/ EncLongs \/ EncRepeat \/ EncRows \/ EncPacked \/ EncHash
=============================================================================
