------------------------------- MODULE Writer -------------------------------
(***************************************************************************)
(* The write_* functions of the Rust Encoder (pf-core/src/encoder.rs) on   *)
(* its state: what encode_with calls for every part of a Value, and the C  *)
(* API for every call of its user.  A module that uses them says who calls *)
(* which.                                                                  *)
(***************************************************************************)
EXTENDS Format, Sequences, FiniteSets

VARIABLES
    strdedup,   \* Encoder.strdedup, in the header as FLAG_STRDEDUP
    strtab,     \* EncodeStringTable.map
    buf         \* Encoder.buf

written == <<strdedup, strtab, buf>>

\* Encoder::new, with flags that validate_flags accepts.
WriterInit == strdedup \in BOOLEAN /\ strtab = <<>> /\ buf = <<>>

\* Append these bytes; the string table stays as it is.
Put(bytes) == buf' = buf \o bytes /\ UNCHANGED <<strdedup, strtab>>

WriteNull == Put(<<TAG_NULL>>)
WriteBool(v) == Put(<<IF v THEN TAG_TRUE ELSE TAG_FALSE>>)
WriteDouble(raw) == Put(<<TAG_DOUBLE>> \o raw)

\* write_i64, and byte for byte the same write_key_i64.
WriteInt(n) == Put(<<TAG_VARINT, ZigzagEncode(n)>>)

\* Mutant of NextId: ids count from one.
NextIdFromOne == Cardinality(DOMAIN strtab) + 1

\* The id intern_get gives to a new string.
NextId == Cardinality(DOMAIN strtab)

\* write_string and write_key_string; intern_get is called with the flag only.
WriteStringBytes(s) ==
    IF s = <<>> THEN Put(<<TAG_STR_EMPTY>>)
    ELSE IF strdedup /\ s \in DOMAIN strtab
    THEN Put(<<TAG_STR_REF, strtab[s]>>)
    ELSE /\ buf' = buf \o <<TAG_STR_VARINT, Len(s)>> \o s
         /\ strtab' = IF ~strdedup THEN strtab
                      ELSE [x \in DOMAIN strtab \cup {s} |->
                               IF x = s THEN NextId ELSE strtab[x]]
         /\ UNCHANGED strdedup

BeginPacked(count) == Put(<<TAG_ARRAY_PACKED, count>>)
BeginHash(count) == Put(<<TAG_ARRAY_HASH, count>>)
BeginLongs(count) == Put(<<TAG_PACKED_LONGS, count>>)
BeginRepeat(count) == Put(<<TAG_ARRAY_REPEAT, count>>)

\* Mutant of BeginRows: the two counts are swapped.
BeginRowsSwapped(nrows, ncols) == Put(<<TAG_ARRAY_ROWS, ncols, nrows>>)
BeginRows(nrows, ncols) == Put(<<TAG_ARRAY_ROWS, nrows, ncols>>)

\* write_packed_long_item: no tag.
WriteLongItem(n) == Put(<<ZigzagEncode(n)>>)
=============================================================================
