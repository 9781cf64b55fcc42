------------------------------- MODULE Format -------------------------------
(***************************************************************************)
(* The wire format constants of PFBinary v1 (pf-format/src/tags.rs, and the*)
(* same values in php/encode_c.c and php/decode_c.c).  A byte is a natural *)
(* number; a varint is one byte here (module Varint has the ten-byte one). *)
(***************************************************************************)
EXTENDS Integers

TAG_NULL == 0
TAG_FALSE == 1
TAG_TRUE == 2
TAG_VARINT == 3
TAG_DOUBLE == 4
TAG_STR_EMPTY == 5
TAG_STR_VARINT == 6
TAG_STR_REF == 7
TAG_ARRAY_PACKED == 8
TAG_ARRAY_HASH == 9
TAG_PACKED_LONGS == 10
TAG_ARRAY_ROWS == 11
TAG_ARRAY_REPEAT == 12

\* is_v1_value_tag and is_v1_key_tag.
ValueTags == TAG_NULL..TAG_ARRAY_REPEAT
KeyTags == {TAG_VARINT, TAG_STR_EMPTY, TAG_STR_VARINT, TAG_STR_REF}
StringTags == {TAG_STR_EMPTY, TAG_STR_VARINT, TAG_STR_REF}

\* zigzag_encode and zigzag_decode on numbers that fit one varint byte.
ZigzagEncode(n) == IF n >= 0 THEN 2 * n ELSE -2 * n - 1
ZigzagDecode(u) == IF u % 2 = 0 THEN u \div 2 ELSE -((u + 1) \div 2)
=============================================================================
