--------------------------- MODULE DecoderProofs ---------------------------
(***************************************************************************)
(* What holds of the Rust decoder for every payload, of whatever length and*)
(* bytes, for all limits, and for every Host that may have been lent       *)
(* before.                                                                 *)
(***************************************************************************)
EXTENDS Decoder, TLAPS, SequenceTheorems

\* The cursor: the bytes in front of pos are known, and there are no more than len.
CursorOK ==
    /\ len \in Nat /\ pos \in Nat /\ data \in Seq(Nat)
    /\ pos <= Len(data) /\ Len(data) <= len

\* n bytes from the cursor on that the payload has.
Ahead(bytes) == bytes \in Seq(Nat) /\ pos + Len(bytes) <= len

\* A byte at a place of the payload is a number, and at a place beyond there is none.
LEMMA PeekByte ==
    ASSUME CursorOK, NEW at \in Nat \ {0}, NEW choices \in SUBSET Nat, NEW b \in Peek(at, choices)
    PROVE  b \in Nat /\ at <= len
<1>1. CASE at <= Len(data)
  <2>1. data[at] \in Nat
    BY <1>1, ElementOfSeq DEF CursorOK
  <2>. QED
    BY <1>1, <2>1 DEF Peek, CursorOK
<1>2. CASE ~(at <= Len(data))
  BY <1>2 DEF Peek, CursorOK
<1>. QED
  BY <1>1, <1>2

\* read_uvarint takes a byte that is there, or fails without one.
LEMMA UvarintRead ==
    ASSUME CursorOK, NEW at \in Nat \ {0}, NEW u \in ReadUvarint(at)
    PROVE  /\ u.err \in {"none", "Truncated", "VarInt"} /\ u.val \in Nat
           /\ u.bytes \in Seq(Nat) /\ Len(u.bytes) \in Nat
           /\ at - 1 <= len => at - 1 + Len(u.bytes) <= len
           /\ u.err = "none" => Len(u.bytes) = 1
<1>1. CASE Peek(at, NumBytes) = {}
  <2>1. u = [err |-> "Truncated", val |-> 0, bytes |-> <<>>]
    BY <1>1 DEF ReadUvarint
  <2>. QED
    BY <2>1 DEF CursorOK
<1>2. CASE Peek(at, NumBytes) # {}
  <2>1. PICK b \in Peek(at, NumBytes) :
            u = [err |-> IF b = Overlong THEN "VarInt" ELSE "none", val |-> b, bytes |-> <<b>>]
    BY <1>2 DEF ReadUvarint
  <2>2. b \in Nat /\ at <= len
    BY <2>1, PeekByte, InputAssumption
  <2>3. u.bytes = <<b>> /\ Len(u.bytes) = 1 /\ u.val = b
    BY <2>1
  <2>. QED
    BY <2>1, <2>2, <2>3 DEF CursorOK
<1>. QED
  BY <1>1, <1>2

\* A function on 1..k is a sequence of k elements.
LEMMA FunctionIsSeq ==
    ASSUME NEW S, NEW k \in Nat, NEW f \in [1..k -> S]
    PROVE  f \in Seq(S) /\ Len(f) = k
<1>1. f \in Seq(S)
  BY SeqDef
<1>2. Len(f) \in Nat /\ DOMAIN f = 1..Len(f) /\ DOMAIN f = 1..k
  BY <1>1, LenProperties
<1>3. CASE Len(f) < k
  BY <1>2, <1>3, k \in 1..k, k \notin 1..Len(f)
<1>4. CASE Len(f) > k
  BY <1>2, <1>4, Len(f) \in 1..Len(f), Len(f) \notin 1..k
<1>. QED
  BY <1>1, <1>2, <1>3, <1>4

\* Cursor::take returns as many bytes as it was asked for.
LEMMA TakeBytes ==
    ASSUME CursorOK, NEW at \in Nat \ {0}, NEW n \in Nat, NEW s \in Take(at, n)
    PROVE  s \in Seq(Nat) /\ Len(s) = n
<1>. DEFINE known == SubSeq(data, at, Len(data))
<1>1. known \in Seq(Nat) /\ Len(known) \in Nat
  <2>1. \A i \in at..Len(data) : data[i] \in Nat
    BY ElementOfSeq DEF CursorOK
  <2>2. Len(data) \in Int /\ at \in Int
    BY LenProperties DEF CursorOK
  <2>. QED
    BY <2>1, <2>2, SubSeqProperties, LenProperties
<1>2. CASE n <= Len(known)
  <2>1. s = SubSeq(known, 1, n)
    BY <1>2 DEF Take
  <2>2. \A i \in 1..n : known[i] \in Nat
    BY <1>1, <1>2, ElementOfSeq
  <2>. HIDE DEF known
  <2>3. /\ SubSeq(known, 1, n) \in Seq(Nat)
        /\ Len(SubSeq(known, 1, n)) = IF 1 <= n THEN n - 1 + 1 ELSE 0
    BY <2>2, SubSeqProperties
  <2>. QED
    BY <2>1, <2>3
<1>3. CASE ~(n <= Len(known))
  <2>1. PICK rest \in [1..(n - Len(known)) -> CharBytes] : s = known \o rest
    BY <1>3 DEF Take
  <2>2. rest \in Seq(Nat) /\ Len(rest) = n - Len(known)
    <3>. DEFINE k == n - Len(known)
    <3>1. k \in Nat
      BY <1>1, <1>3
    <3>2. rest \in [1..k -> Nat]
      BY <2>1, InputAssumption
    <3>. HIDE DEF k
    <3>3. rest \in Seq(Nat) /\ Len(rest) = k
      BY <3>1, <3>2, FunctionIsSeq
    <3>. QED
      BY <3>3 DEF k
  <2>. QED
    BY <1>1, <2>1, <2>2, ConcatProperties
<1>. QED
  BY <1>2, <1>3

\* Bytes that were looked at keep the cursor in the payload, advanced or not.
LEMMA CursorStep ==
    ASSUME CursorOK, NEW bytes, Ahead(bytes), Learn(pos, bytes), len' = len,
           pos' = pos \/ pos' = pos + Len(bytes)
    PROVE  CursorOK'
<1>0. Len(bytes) \in Nat /\ len \in Nat /\ pos \in Nat /\ Len(data) \in Nat
      /\ pos <= Len(data) /\ Len(data) <= len /\ data \in Seq(Nat)
      /\ bytes \in Seq(Nat) /\ pos + Len(bytes) <= len
  BY LenProperties DEF CursorOK, Ahead
<1>1. CASE pos + Len(bytes) <= Len(data)
  BY <1>0, <1>1 DEF CursorOK, Learn
<1>2. CASE ~(pos + Len(bytes) <= Len(data))
  <2>1. data' = SubSeq(data, 1, pos) \o bytes
    BY <1>2 DEF Learn
  <2>2. \A i \in 1..pos : data[i] \in Nat
    BY <1>0, ElementOfSeq
  <2>3. SubSeq(data, 1, pos) \in Seq(Nat) /\ Len(SubSeq(data, 1, pos)) = pos
    BY <1>0, <2>2, SubSeqProperties
  <2>4. data' \in Seq(Nat) /\ Len(data') = pos + Len(bytes)
    BY <1>0, <2>1, <2>3, ConcatProperties
  <2>. QED
    BY <1>0, <2>4 DEF CursorOK
<1>. QED
  BY <1>1, <1>2
-----------------------------------------------------------------------------
(* Strings and their ids.                                                    *)

\* Both tables, and what was charged for what is in them.
TablesOK ==
    /\ strings \in Seq(Seq(Nat)) /\ hostTable \in Seq(Seq(Nat))
    /\ strings # <<>> => hostTable = strings
    /\ size_used \in Nat /\ size_used <= MaxSize

\* The errors of the functions that read strings and keys.
ReadErrors ==
    {"Truncated", "VarInt", "Overflow", "MaxSize", "Internal", "BadStrRef", "BadKey", "UnknownTag"}

\* What a read of a string or key at this place returns: an error, which is Internal
\* only if the Host has strings the decoder has not; or a key that has its string in
\* the tables as they will be, and a string for both tables or none.
ReadOK(r, at) ==
    /\ r.err \in ReadErrors \cup {"none"}
    /\ r.bytes \in Seq(Nat) /\ at - 1 + Len(r.bytes) <= len
    /\ r.err = "Internal" => Len(strings) # Len(hostTable)
    /\ r.err = "none" =>
          /\ r.key \in Keys
          /\ r.charge \in Nat /\ size_used + r.charge <= MaxSize
          /\ \/ r.def = <<>> /\ (r.key.kind = "id" => r.key.n \in 0..(Len(strings) - 1))
             \/ /\ \E s \in Seq(Nat) : r.def = <<s>>
                /\ Len(strings) = Len(hostTable)
                /\ r.key.kind = "id" => r.key.n = Len(strings)

\* An error after looking at bytes the payload has.
LEMMA RefusedOK ==
    ASSUME NEW e \in ReadErrors, e = "Internal" => Len(strings) # Len(hostTable),
           NEW bytes \in Seq(Nat), NEW at, at - 1 + Len(bytes) <= len
    PROVE  ReadOK(Refused(e, bytes), at)
<1>1. Refused(e, bytes).err = e /\ Refused(e, bytes).bytes = bytes
  BY DEF Refused
<1>2. e # "none"
  BY DEF ReadErrors
<1>. QED
  BY <1>1, <1>2 DEF ReadOK

\* A string from the tables, or one that will be.
LEMMA KeyOK ==
    ASSUME NEW r, NEW at, r.err = "none", r.bytes \in Seq(Nat), at - 1 + Len(r.bytes) <= len,
           r.key \in Keys,
           r.charge \in Nat, size_used + r.charge <= MaxSize,
           \/ r.def = <<>> /\ (r.key.kind = "id" => r.key.n \in 0..(Len(strings) - 1))
           \/ /\ \E s \in Seq(Nat) : r.def = <<s>>
              /\ Len(strings) = Len(hostTable)
              /\ r.key.kind = "id" => r.key.n = Len(strings)
    PROVE  ReadOK(r, at)
BY DEF ReadOK

\* read_str_varint_define.
LEMMA DefinitionReadOK ==
    ASSUME CursorOK, TablesOK, NEW at \in Nat \ {0}, at - 1 <= len,
           NEW u \in ReadUvarint(at), NEW r \in DefinitionRead(at, u)
    PROVE  ReadOK(r, at)
<1>1. /\ u.err \in {"none", "Truncated", "VarInt"} /\ u.val \in Nat
      /\ u.bytes \in Seq(Nat) /\ Len(u.bytes) \in Nat
      /\ at - 1 + Len(u.bytes) <= len /\ len \in Nat
      /\ u.err = "none" => Len(u.bytes) = 1
  BY UvarintRead DEF CursorOK
<1>2. CASE \E e \in ReadErrors :
               r = Refused(e, u.bytes) /\ (e = "Internal" => Len(strings) # Len(hostTable))
  BY <1>1, <1>2, RefusedOK
<1>3. CASE /\ u.err = "none" /\ u.val <= len - at /\ size_used + u.val <= MaxSize
           /\ Len(strings) = Len(hostTable)
  <2>0. ~(u.val > len - at) /\ ~(size_used + u.val > MaxSize)
    <3>1. size_used \in Nat /\ MaxSize \in Nat
      BY DecoderAssumption DEF TablesOK
    <3>2. \A a \in Int, b \in Int : a <= b => ~(a > b)
      OBVIOUS
    <3>3. len - at \in Int /\ size_used + u.val \in Int
      BY <1>1, <3>1
    <3>. QED
      BY <1>1, <1>3, <3>1, <3>2, <3>3
  <2>1. PICK s \in Take(at + 1, u.val) :
            r = [err |-> "none", bytes |-> u.bytes \o s,
                 key |-> [kind |-> "id", n |-> Len(strings)],
                 def |-> <<s>>, charge |-> u.val]
    BY <1>3, <2>0 DEF DefinitionRead
  <2>2. s \in Seq(Nat) /\ Len(s) = u.val
    BY <1>1, <2>1, TakeBytes
  <2>3. u.bytes \o s \in Seq(Nat) /\ Len(u.bytes \o s) = 1 + u.val
    <3>1. \A b, c \in Seq(Nat) : b \o c \in Seq(Nat) /\ Len(b \o c) = Len(b) + Len(c)
      BY ConcatProperties
    <3>. QED
      BY <1>1, <1>3, <2>2, <3>1
  <2>4. Len(strings) \in Nat
    BY LenProperties DEF TablesOK
  <2>5. at - 1 + Len(r.bytes) <= len
    BY <1>1, <1>3, <2>1, <2>3
  <2>6. /\ r.err = "none" /\ r.bytes = u.bytes \o s /\ r.def = <<s>> /\ r.charge = u.val
        /\ r.key = [kind |-> "id", n |-> Len(strings)]
    BY <2>1
  <2>7. r.key \in Keys /\ r.key.n = Len(strings) /\ \E x \in Seq(Nat) : r.def = <<x>>
    BY <2>2, <2>4, <2>6 DEF Keys
  <2>8. r.bytes \in Seq(Nat) /\ r.charge \in Nat /\ size_used + r.charge <= MaxSize
    BY <1>1, <1>3, <2>3, <2>6
  <2>. QED
    BY <1>3, <2>5, <2>6, <2>7, <2>8, KeyOK
<1>4. CASE u.err # "none"
  BY <1>1, <1>2, <1>4 DEF DefinitionRead, ReadErrors
<1>5. CASE u.err = "none" /\ u.val > len - at
  BY <1>2, <1>5 DEF DefinitionRead, ReadErrors
<1>6. CASE u.err = "none" /\ ~(u.val > len - at) /\ size_used + u.val > MaxSize
  BY <1>2, <1>6 DEF DefinitionRead, ReadErrors
<1>7. CASE /\ u.err = "none" /\ ~(u.val > len - at) /\ ~(size_used + u.val > MaxSize)
           /\ Len(strings) # Len(hostTable)
  BY <1>2, <1>7 DEF DefinitionRead, ReadErrors
<1>8. CASE /\ u.err = "none" /\ ~(u.val > len - at) /\ ~(size_used + u.val > MaxSize)
           /\ Len(strings) = Len(hostTable)
  <2>1. u.val <= len - at /\ size_used + u.val <= MaxSize
    BY <1>1, <1>8, DecoderAssumption DEF TablesOK
  <2>. QED
    BY <1>3, <1>8, <2>1
<1>. QED
  BY <1>4, <1>5, <1>6, <1>7, <1>8

\* read_str_ref_id.
LEMMA RefReadOK ==
    ASSUME CursorOK, TablesOK, NEW at \in Nat \ {0}, at - 1 <= len,
           NEW u \in ReadUvarint(at), NEW e \in {"UnknownTag", "BadKey"}
    PROVE  ReadOK(RefRead(u, e), at)
<1>1. /\ u.err \in {"none", "Truncated", "VarInt"} /\ u.val \in Nat
      /\ u.bytes \in Seq(Nat) /\ Len(u.bytes) \in Nat
      /\ at - 1 + Len(u.bytes) <= len /\ len \in Nat
  BY UvarintRead DEF CursorOK
<1>2. CASE \E f \in ReadErrors \ {"Internal"}, bytes \in {u.bytes, <<>>} :
               RefRead(u, e) = Refused(f, bytes)
  <2>1. <<>> \in Seq(Nat) /\ Len(<<>>) = 0
    OBVIOUS
  <2>2. at - 1 + 0 <= len
    BY <1>1
  <2>3. PICK f \in ReadErrors \ {"Internal"}, bytes \in {u.bytes, <<>>} :
            RefRead(u, e) = Refused(f, bytes)
    BY <1>2
  <2>4. bytes \in Seq(Nat) /\ at - 1 + Len(bytes) <= len
    BY <1>1, <2>1, <2>2
  <2>. QED
    BY <2>3, <2>4, RefusedOK
<1>3. CASE /\ u.val < Len(strings) /\ size_used + Len(strings[u.val + 1]) <= MaxSize
           /\ RefRead(u, e) =
                [err |-> "none", bytes |-> u.bytes, key |-> [kind |-> "id", n |-> u.val],
                 def |-> <<>>, charge |-> Len(strings[u.val + 1])]
  <2>1. Len(strings) \in Nat /\ Len(strings[u.val + 1]) \in Nat
    BY <1>1, <1>3, ElementOfSeq, LenProperties DEF TablesOK
  <2>. DEFINE r == RefRead(u, e)
  <2>2. /\ r.err = "none" /\ r.bytes = u.bytes /\ r.def = <<>>
        /\ r.key = [kind |-> "id", n |-> u.val] /\ r.charge = Len(strings[u.val + 1])
    BY <1>3
  <2>3. u.val \in 0..(Len(strings) - 1) /\ u.val \in Int
    BY <1>1, <1>3, <2>1
  <2>4. r.key \in Keys /\ r.key.n = u.val
    BY <2>2, <2>3 DEF Keys
  <2>. HIDE DEF r
  <2>. QED
    BY <1>1, <1>3, <2>1, <2>2, <2>3, <2>4, KeyOK DEF r
<1>4. Len(strings) \in Nat
      /\ (u.val < Len(strings) => Len(strings[u.val + 1]) \in Nat)
  BY <1>1, ElementOfSeq, LenProperties DEF TablesOK
<1>5. CASE ~strdedup
  BY <1>2, <1>5 DEF RefRead, ReadErrors
<1>6. CASE strdedup /\ u.err # "none"
  BY <1>1, <1>2, <1>6 DEF RefRead, ReadErrors
<1>7. CASE strdedup /\ u.err = "none" /\ (u.val > MaxU32 \/ u.val >= Len(strings))
  BY <1>2, <1>7 DEF RefRead, ReadErrors
<1>8. CASE strdedup /\ u.err = "none" /\ ~(u.val > MaxU32 \/ u.val >= Len(strings))
  <2>1. CASE size_used + Len(strings[u.val + 1]) > MaxSize
    BY <1>2, <1>8, <2>1 DEF RefRead, ReadErrors
  <2>2. CASE ~(size_used + Len(strings[u.val + 1]) > MaxSize)
    <3>1. u.val < Len(strings) /\ size_used + Len(strings[u.val + 1]) <= MaxSize
      BY <1>1, <1>4, <1>8, <2>2, DecoderAssumption DEF TablesOK
    <3>. QED
      BY <1>3, <1>8, <2>2, <3>1 DEF RefRead
  <2>. QED
    BY <2>1, <2>2
<1>. QED
  BY <1>5, <1>6, <1>7, <1>8

\* decode_string_tag, and the strings of read_key_owned.
LEMMA ReadStringOK ==
    ASSUME CursorOK, TablesOK, NEW at \in Nat \ {0}, at - 1 <= len,
           NEW tag \in StringTags, NEW e \in {"UnknownTag", "BadKey"},
           NEW r \in ReadString(at, tag, e)
    PROVE  ReadOK(r, at)
<1>1. CASE tag = TAG_STR_EMPTY
  <2>1. r = EmptyString
    BY <1>1 DEF ReadString, TAG_STR_EMPTY, TAG_STR_VARINT, TAG_STR_REF
  <2>. QED
    BY <2>1 DEF EmptyString, ReadOK, Keys, CursorOK, TablesOK
<1>2. CASE tag = TAG_STR_VARINT
  <2>1. PICK u \in ReadUvarint(at) : r \in DefinitionRead(at, u)
    BY <1>2 DEF ReadString, TAG_STR_EMPTY, TAG_STR_VARINT, TAG_STR_REF
  <2>. QED
    BY <2>1, DefinitionReadOK
<1>3. CASE tag = TAG_STR_REF
  <2>1. PICK u \in ReadUvarint(at) : r = RefRead(u, e)
    BY <1>3 DEF ReadString, TAG_STR_EMPTY, TAG_STR_VARINT, TAG_STR_REF
  <2>. QED
    BY <2>1, RefReadOK
<1>. QED
  BY <1>1, <1>2, <1>3 DEF StringTags

\* read_key_owned.
LEMMA ReadKeyOK ==
    ASSUME CursorOK, TablesOK, NEW at \in Nat \ {0}, at - 1 <= len,
           NEW tag \in KeyTags, NEW r \in ReadKey(at, tag)
    PROVE  ReadOK(r, at)
<1>1. CASE tag = TAG_VARINT
  <2>1. PICK u \in ReadUvarint(at) :
            r = [err |-> u.err, bytes |-> u.bytes,
                 key |-> [kind |-> "int", n |-> ZigzagDecode(u.val)], def |-> <<>>, charge |-> 0]
    BY <1>1 DEF ReadKey
  <2>2. /\ u.err \in {"none", "Truncated", "VarInt"} /\ u.val \in Nat
        /\ u.bytes \in Seq(Nat) /\ at - 1 + Len(u.bytes) <= len
    BY UvarintRead
  <2>3. ZigzagDecode(u.val) \in Int
    BY <2>2 DEF ZigzagDecode
  <2>4. CASE u.err = "none"
    <3>1. size_used + 0 <= MaxSize
      BY DecoderAssumption DEF TablesOK
    <3>2. /\ r.err = "none" /\ r.bytes = u.bytes /\ r.def = <<>> /\ r.charge = 0
          /\ r.key = [kind |-> "int", n |-> ZigzagDecode(u.val)]
      BY <2>1, <2>4
    <3>3. r.key \in Keys /\ r.key.kind # "id"
      BY <2>3, <3>2 DEF Keys
    <3>4. r.charge \in Nat /\ size_used + r.charge <= MaxSize
      BY <3>1, <3>2
    <3>5. r.bytes \in Seq(Nat) /\ at - 1 + Len(r.bytes) <= len
      BY <2>2, <3>2
    <3>. QED
      BY <3>2, <3>3, <3>4, <3>5 DEF ReadOK
  <2>5. CASE u.err # "none"
    BY <2>1, <2>2, <2>5 DEF ReadOK, ReadErrors
  <2>. QED
    BY <2>4, <2>5
<1>2. CASE tag # TAG_VARINT
  <2>1. tag \in StringTags /\ r \in ReadString(at, tag, "BadKey")
    BY <1>2 DEF ReadKey, KeyTags, StringTags
  <2>. QED
    BY <2>1, ReadStringOK
<1>. QED
  BY <1>1, <1>2

\* A definition goes to both tables or to none, and no id that was given out before
\* gets another string.
LEMMA InternKeeps ==
    ASSUME TablesOK, NEW r, NEW at, ReadOK(r, at), r.err = "none", Intern(r)
    PROVE  /\ TablesOK'
           /\ Len(strings) <= Len(strings')
           /\ r.key.kind = "id" => r.key.n \in 0..(Len(strings') - 1)
<1>1. /\ strings \in Seq(Seq(Nat)) /\ hostTable \in Seq(Seq(Nat))
      /\ Len(strings) \in Nat /\ Len(hostTable) \in Nat
  BY LenProperties DEF TablesOK
<1>2. size_used' \in Nat /\ size_used' <= MaxSize
  <2>1. r.charge \in Nat /\ size_used + r.charge <= MaxSize
    BY DEF ReadOK
  <2>2. size_used \in Nat
    BY DEF TablesOK
  <2>3. size_used' = size_used + r.charge
    BY DEF Intern
  <2> HIDE DEF TablesOK, ReadOK, Intern
  <2>. QED
    BY <2>1, <2>2, <2>3
<1>3. CASE r.def = <<>> /\ (r.key.kind = "id" => r.key.n \in 0..(Len(strings) - 1))
  <2>1. strings' = strings /\ hostTable' = hostTable
    BY <1>1, <1>3, ConcatEmptySeq DEF Intern
  <2>. QED
    BY <1>1, <1>2, <1>3, <2>1 DEF TablesOK
<1>4. CASE /\ \E s \in Seq(Nat) : r.def = <<s>>
           /\ Len(strings) = Len(hostTable)
           /\ r.key.kind = "id" => r.key.n = Len(strings)
  <2>1. strings = hostTable
    BY <1>1, <1>4, EmptySeq DEF TablesOK
  <2>2. r.def \in Seq(Seq(Nat)) /\ Len(r.def) = 1
    BY <1>4
  <2>3. strings' \in Seq(Seq(Nat)) /\ Len(strings') = Len(strings) + 1 /\ hostTable' = strings'
    <3>1. \A b, c \in Seq(Seq(Nat)) :
              b \o c \in Seq(Seq(Nat)) /\ Len(b \o c) = Len(b) + Len(c)
      BY ConcatProperties
    <3>2. strings' = strings \o r.def /\ hostTable' = hostTable \o r.def
      BY <1>1 DEF Intern
    <3>3. strings \in Seq(Seq(Nat))
      BY DEF TablesOK
    <3>4. strings \o r.def \in Seq(Seq(Nat)) /\ Len(strings \o r.def) = Len(strings) + 1
      BY <2>2, <3>1, <3>3
    <3>. QED
      BY <2>1, <3>2, <3>4
  <2>. QED
    BY <1>1, <1>2, <1>4, <2>3 DEF TablesOK
<1>. QED
  BY <1>3, <1>4 DEF ReadOK
-----------------------------------------------------------------------------
(* The call stack.                                                           *)

\* A frame in a payload of l bytes, with n strings in the tables: it reserves no more
\* than the payload can fill, and its keys have their strings.
FrameOK(f, n, l) ==
    /\ f.kind \notin {"template", "copies"} => f.count <= l
    /\ f.cols <= l
    /\ \A k \in 1..Len(f.keys) : f.keys[k].kind = "id" => f.keys[k].n \in 0..(n - 1)

\* Every array but the innermost is waiting for the value that the next one becomes.
StackOK(st, n, l) ==
    /\ st \in Seq(Frames)
    /\ \A i \in 1..Len(st) : FrameOK(st[i], n, l)
    /\ \A i \in 1..(Len(st) - 1) : Expecting(st[i])

\* The tables only grow.
LEMMA StackWithMore ==
    ASSUME NEW st, NEW n \in Int, NEW m \in Int, NEW l, StackOK(st, n, l), n <= m
    PROVE  StackOK(st, m, l)
<1>1. ASSUME NEW i \in 1..Len(st) PROVE FrameOK(st[i], m, l)
  <2>1. FrameOK(st[i], n, l)
    BY DEF StackOK
  <2>2. \A x : x \in 0..(n - 1) => x \in 0..(m - 1)
    OBVIOUS
  <2>. QED
    BY <2>1, <2>2 DEF FrameOK
<1>. QED
  BY <1>1 DEF StackOK

\* The innermost frame has gone on.
LEMMA TopReplaced ==
    ASSUME NEW st, NEW n, NEW l, StackOK(st, n, l), st # <<>>,
           NEW f \in Frames, FrameOK(f, n, l)
    PROVE  /\ StackOK([st EXCEPT ![Len(st)] = f], n, l)
           /\ Len([st EXCEPT ![Len(st)] = f]) = Len(st)
<1>1. st \in Seq(Frames) /\ Len(st) \in 1..Len(st) /\ Len(st) \in Nat \ {0}
  BY EmptySeq, LenProperties DEF StackOK
<1>. DEFINE after == [st EXCEPT ![Len(st)] = f]
<1>2. /\ after \in Seq(Frames) /\ Len(after) = Len(st)
      /\ \A j \in 1..Len(st) : after[j] = IF j = Len(st) THEN f ELSE st[j]
  BY <1>1, ExceptSeq
<1>. HIDE DEF after
<1>3. \A i \in 1..Len(after) : FrameOK(after[i], n, l)
  BY <1>1, <1>2 DEF StackOK
<1>4. \A i \in 1..(Len(after) - 1) : Expecting(after[i])
  BY <1>1, <1>2 DEF StackOK
<1>5. StackOK(after, n, l) /\ Len(after) = Len(st)
  BY <1>2, <1>3, <1>4 DEF StackOK
<1>. QED
  BY <1>5 DEF after

\* One more array is entered, inside one that is waiting for it.
LEMMA FrameAdded ==
    ASSUME NEW st, NEW n, NEW l, StackOK(st, n, l), st = <<>> \/ Expecting(st[Len(st)]),
           NEW f \in Frames, FrameOK(f, n, l)
    PROVE  StackOK(Append(st, f), n, l) /\ Len(Append(st, f)) = Len(st) + 1
<1>1. st \in Seq(Frames) /\ Len(st) \in Nat
  BY LenProperties DEF StackOK
<1>2. /\ Append(st, f) \in Seq(Frames) /\ Len(Append(st, f)) = Len(st) + 1
      /\ \A i \in 1..Len(st) : Append(st, f)[i] = st[i]
      /\ Append(st, f)[Len(st) + 1] = f
  BY <1>1
<1>3. \A i \in 1..(Len(st) + 1) : FrameOK(Append(st, f)[i], n, l)
  BY <1>1, <1>2 DEF StackOK
<1>4. \A i \in 1..Len(st) : Expecting(Append(st, f)[i])
  <2>1. ASSUME NEW i \in 1..Len(st) PROVE Expecting(st[i])
    <3>1. CASE i = Len(st)
      BY <1>1, <3>1, EmptySeq
    <3>2. CASE i # Len(st)
      BY <1>1, <3>2 DEF StackOK
    <3>. QED
      BY <3>1, <3>2
  <2>. QED
    BY <1>2, <2>1
<1>5. Len(st) + 1 - 1 = Len(st)
  BY <1>1
<1>. QED
  BY <1>2, <1>3, <1>4, <1>5 DEF StackOK

\* An array is left for the one that is waiting for it.
LEMMA FrameLeft ==
    ASSUME NEW n, NEW l, StackOK(stack, n, l), stack # <<>>
    PROVE  /\ StackOK(Below, n, l) /\ Len(Below) = Len(stack) - 1
           /\ Below = <<>> \/ Expecting(Below[Len(Below)])
<1>1. stack \in Seq(Frames) /\ Len(stack) \in Nat \ {0}
  BY EmptySeq DEF StackOK
<1>2. \A i \in 1..(Len(stack) - 1) : stack[i] \in Frames
  BY <1>1, ElementOfSeq
<1>3. /\ Below \in Seq(Frames)
      /\ Len(Below) = IF 1 <= Len(stack) - 1 THEN (Len(stack) - 1) - 1 + 1 ELSE 0
      /\ \A i \in 1..((Len(stack) - 1) - 1 + 1) : Below[i] = stack[1 + i - 1]
  BY <1>1, <1>2, SubSeqProperties DEF Below
<1>4. Len(Below) = Len(stack) - 1 /\ \A i \in 1..Len(Below) : Below[i] = stack[i]
  <2>1. Len(Below) = Len(stack) - 1
    <3>1. \A m \in Nat \ {0} : m - 1 = IF 1 <= m - 1 THEN (m - 1) - 1 + 1 ELSE 0
      OBVIOUS
    <3>2. Len(Below) = IF 1 <= Len(stack) - 1 THEN (Len(stack) - 1) - 1 + 1 ELSE 0
      BY <1>3
    <3>. QED
      BY <1>1, <3>1, <3>2
  <2>2. ASSUME NEW i \in 1..Len(Below) PROVE Below[i] = stack[i]
    <3>1. i \in 1..((Len(stack) - 1) - 1 + 1) /\ 1 + i - 1 = i
      BY <1>1, <2>1, <2>2
    <3>. QED
      BY <1>3, <3>1
  <2>. QED
    BY <2>1, <2>2
<1>5. StackOK(Below, n, l)
  BY <1>1, <1>3, <1>4 DEF StackOK
<1>6. ASSUME Below # <<>> PROVE Expecting(Below[Len(Below)])
  <2>1. Len(Below) \in 1..Len(Below)
    BY <1>3, <1>6, EmptySeq
  <2>. QED
    BY <1>1, <1>4, <2>1 DEF StackOK
<1>. QED
  BY <1>4, <1>5, <1>6

\* A frame that called for a value has got it.
LEMMA FilledOK ==
    ASSUME NEW f \in Frames, NEW n, NEW l, FrameOK(f, n, l), Expecting(f)
    PROVE  Filled(f) \in Frames /\ FrameOK(Filled(f), n, l)
<1>1. CASE f.kind = "template"
  BY <1>1 DEF Filled, Frames, Kinds, FrameOK
<1>2. CASE f.kind \in {"hash", "row"}
  <2>1. f.left - 1 \in Nat /\ f.keys \in Seq(Keys) /\ f.keys # <<>>
    BY <1>2 DEF Expecting, Frames
  <2>2. /\ Tail(f.keys) \in Seq(Keys) /\ Len(Tail(f.keys)) = Len(f.keys) - 1
        /\ \A k \in 1..Len(Tail(f.keys)) : Tail(f.keys)[k] = f.keys[k + 1]
    BY <2>1, HeadTailProperties
  <2>3. Len(f.keys) \in Nat
    BY <2>1, LenProperties
  <2>4. Filled(f) = [f EXCEPT !.left = @ - 1, !.keys = Tail(@)]
    BY <1>2 DEF Filled
  <2>5. Filled(f) \in Frames
    BY <2>1, <2>2, <2>4 DEF Frames
  <2>6. /\ Filled(f).kind = f.kind /\ Filled(f).count = f.count /\ Filled(f).cols = f.cols
        /\ Filled(f).keys = Tail(f.keys)
    BY <2>4 DEF Frames
  <2>. QED
    BY <2>2, <2>3, <2>5, <2>6 DEF FrameOK
<1>3. CASE f.kind \in {"packed", "rows"}
  <2>1. f.left - 1 \in Nat
    BY <1>3 DEF Expecting, Frames
  <2>2. Filled(f) = [f EXCEPT !.left = @ - 1]
    BY <1>3 DEF Filled
  <2>. QED
    BY <2>1, <2>2 DEF Frames, FrameOK
<1>. QED
  BY <1>1, <1>2, <1>3 DEF Expecting

\* A complete value goes to the innermost of these frames, if there is one.
LEMMA DeliverOK ==
    ASSUME NEW st, NEW n, NEW l, NEW as, NEW v, StackOK(st, n, l),
           st = <<>> \/ Expecting(st[Len(st)]), Deliver(st, as, v)
    PROVE  StackOK(stack', n, l) /\ Len(stack') = Len(st)
<1>1. CASE st = <<>>
  <2>1. stack' = <<>> /\ st = <<>>
    BY <1>1 DEF Deliver
  <2>. QED
    BY <2>1
<1>2. CASE st # <<>>
  <2>1. st[Len(st)] \in Frames /\ FrameOK(st[Len(st)], n, l)
    BY <1>2, EmptySeq, ElementOfSeq DEF StackOK
  <2>2. Filled(st[Len(st)]) \in Frames /\ FrameOK(Filled(st[Len(st)]), n, l)
    BY <1>2, <2>1, FilledOK
  <2>3. stack' = [st EXCEPT ![Len(st)] = Filled(st[Len(st)])]
    BY <1>2 DEF Deliver
  <2>. QED
    BY <1>2, <2>2, <2>3, TopReplaced
<1>. QED
  BY <1>1, <1>2
-----------------------------------------------------------------------------
(* The inductive invariant.                                                  *)

IInv ==
    /\ CursorOK /\ TablesOK
    /\ StackOK(stack, Len(strings), len)
    /\ strdedup \in BOOLEAN /\ depth \in Nat
    /\ result \in {"running", "ok"} \cup Errors
    /\ DepthIsNesting
    /\ result = "Internal" => strings = <<>> /\ hostTable # <<>>

\* A new decoder, with whatever Host.
LEMMA InitIInv == Start => IInv
<1>. SUFFICES ASSUME Start PROVE IInv
  OBVIOUS
<1>1. len \in Nat /\ data = <<>> /\ pos = 0
  BY InputAssumption DEF Start, InitInput, Init
<1>2. CursorOK
  BY <1>1 DEF CursorOK
<1>3. TablesOK
  BY DecoderAssumption DEF Start, Init, TablesOK
<1>4. StackOK(stack, Len(strings), len)
  <2>1. stack = <<>> /\ <<>> \in Seq(Frames) /\ Len(<<>>) = 0
    BY DEF Start, Init
  <2>. QED
    BY <2>1 DEF StackOK
<1>5. depth = 0 /\ Len(stack) = 0 /\ strdedup \in BOOLEAN /\ result \in {"running", "MaxSize"}
  BY DEF Start, Init
<1>. QED
  BY <1>2, <1>3, <1>4, <1>5, DecoderAssumption DEF IInv, DepthIsNesting, Errors

\* An error: the tables stay, and the Host is to blame if it is Internal.
LEMMA FailIInv ==
    ASSUME IInv, NEW e \in Errors, e = "Internal" => Len(strings) # Len(hostTable),
           NEW bytes, Ahead(bytes), Fail(e, bytes)
    PROVE  IInv'
<1>1. CursorOK'
  BY CursorStep DEF IInv, Fail
<1>2. strings' = strings /\ hostTable' = hostTable /\ size_used' = size_used /\ TablesOK'
  BY DEF IInv, Fail, tables, TablesOK
<1>3. StackOK(stack', Len(strings'), len')
  <2>1. stack' = <<>> /\ <<>> \in Seq(Frames) /\ Len(<<>>) = 0
    BY DEF Fail
  <2>. QED
    BY <2>1 DEF StackOK
<1>4. strdedup' = strdedup /\ depth' = depth /\ result' = e
  BY DEF Fail
<1>5. e \notin {"running", "ok"}
  BY DEF Errors
<1>6. e = "Internal" => strings = <<>> /\ hostTable # <<>>
  BY DEF IInv, TablesOK
<1>. QED
  BY <1>1, <1>2, <1>3, <1>4, <1>5, <1>6 DEF IInv, DepthIsNesting

\* No byte, the tag alone, and the tag with what follows it.
LEMMA AheadBytes ==
    ASSUME CursorOK
    PROVE  /\ Ahead(<<>>)
           /\ \A b \in Nat : At <= len => Ahead(<<b>>)
           /\ \A b \in Nat, bytes \in Seq(Nat) :
                  (At + 1) - 1 + Len(bytes) <= len => Ahead(<<b>> \o bytes)
<1>1. len \in Nat /\ pos \in Nat /\ pos <= len
  BY LenProperties DEF CursorOK
<1>2. Ahead(<<>>)
  BY <1>1 DEF Ahead
<1>3. ASSUME NEW b \in Nat PROVE At <= len => Ahead(<<b>>)
  BY <1>1 DEF Ahead, At
<1>4. ASSUME NEW b \in Nat, NEW bytes \in Seq(Nat), (At + 1) - 1 + Len(bytes) <= len
      PROVE  Ahead(<<b>> \o bytes)
  <2>1. <<b>> \in Seq(Nat) /\ Len(<<b>>) = 1
    OBVIOUS
  <2>2. \A c, d \in Seq(Nat) : c \o d \in Seq(Nat) /\ Len(c \o d) = Len(c) + Len(d)
    BY ConcatProperties
  <2>3. <<b>> \o bytes \in Seq(Nat) /\ Len(<<b>> \o bytes) = 1 + Len(bytes)
    BY <2>1, <2>2
  <2>4. Len(bytes) \in Nat
    BY LenProperties
  <2>. QED
    BY <1>1, <1>4, <2>3, <2>4 DEF Ahead, At
<1>. QED
  BY <1>2, <1>3, <1>4

\* What a read at the tag of a value, a key or a count gets to see.
LEMMA TagByte ==
    ASSUME IInv, NEW t \in Peek(At, TagBytes)
    PROVE  t \in Nat /\ At <= len /\ At + 1 \in Nat \ {0} /\ (At + 1) - 1 <= len /\ Ahead(<<t>>)
<1>1. pos \in Nat /\ len \in Nat
  BY DEF IInv, CursorOK
<1>2. At \in Nat \ {0} /\ TagBytes \in SUBSET Nat
  BY <1>1, InputAssumption DEF At
<1>3. t \in Nat /\ At <= len
  BY <1>2, PeekByte DEF IInv
<1>4. Ahead(<<t>>)
  BY <1>3, AheadBytes DEF IInv
<1>. QED
  BY <1>1, <1>2, <1>3, <1>4

\* The cursor of a decoder, and the place of its next tag.
LEMMA AtCursor ==
    ASSUME IInv
    PROVE  /\ CursorOK /\ TablesOK /\ pos \in Nat /\ len \in Nat
           /\ At \in Nat \ {0} /\ At + 1 \in Nat \ {0}
BY DEF IInv, CursorOK, At

\* Bytes are consumed and a value delivered, with nothing or something for the tables.
LEMMA ValueIInv ==
    ASSUME IInv, WantsValue, NEW bytes, Ahead(bytes), Consume(bytes),
           NEW v, Deliver(stack, arrs, v),
           TablesOK', Len(strings) <= Len(strings'),
           UNCHANGED <<len, strdedup, depth, result>>
    PROVE  IInv'
<1>1. CursorOK'
  BY CursorStep DEF IInv, Consume
<1>2. Len(strings) \in Nat /\ Len(strings') \in Nat
  BY LenProperties DEF IInv, TablesOK
<1>3. StackOK(stack, Len(strings'), len)
  BY <1>2, StackWithMore DEF IInv
<1>4. stack = <<>> \/ Expecting(stack[Len(stack)])
  BY DEF WantsValue, Top
<1>5. StackOK(stack', Len(strings'), len) /\ Len(stack') = Len(stack)
  BY <1>3, <1>4, DeliverOK
<1>6. result = "running" /\ result' = "running"
  BY DEF WantsValue, Running
<1>. QED
  BY <1>1, <1>5, <1>6 DEF IInv, DepthIsNesting

\* The same, where the tables stay.
LEMMA ScalarIInv ==
    ASSUME IInv, WantsValue, NEW bytes, Ahead(bytes), NEW v, Scalar(bytes, v)
    PROVE  IInv'
<1>1. TablesOK' /\ strings' = strings
  BY DEF IInv, Scalar, tables, TablesOK
<1>2. Len(strings) <= Len(strings')
  <2>1. Len(strings) \in Nat
    BY LenProperties DEF IInv, TablesOK
  <2>. QED
    BY <1>1, <2>1
<1>. QED
  BY <1>1, <1>2, ValueIInv DEF Scalar

\* An array is entered.
LEMMA EnterIInv ==
    ASSUME IInv, Running, stack = <<>> \/ Expecting(Top), depth + 1 <= MaxDepth,
           NEW f \in Frames, FrameOK(f, Len(strings), len),
           NEW bytes, Ahead(bytes), Enter(f, bytes)
    PROVE  IInv'
<1>1. CursorOK'
  BY CursorStep DEF IInv, Enter, Consume
<1>2. strings' = strings /\ TablesOK'
  BY DEF IInv, Enter, tables, TablesOK
<1>3. StackOK(stack', Len(strings), len) /\ Len(stack') = Len(stack) + 1
  BY FrameAdded DEF IInv, Enter, Top
<1>4. /\ strdedup' = strdedup /\ depth' = depth + 1 /\ len' = len
      /\ result = "running" /\ result' = "running"
  BY DEF Enter, Running
<1>5. depth' = Len(stack') /\ depth' \in Nat
  BY <1>3, <1>4 DEF IInv, DepthIsNesting
<1>. QED
  BY <1>1, <1>2, <1>3, <1>4, <1>5 DEF IInv, DepthIsNesting

\* The innermost array has gone on.
LEMMA GoesOnIInv ==
    ASSUME IInv, Running, stack # <<>>, CursorOK', TablesOK', Len(strings) <= Len(strings'),
           NEW f \in Frames, FrameOK(f, Len(strings'), len),
           stack' = [stack EXCEPT ![Len(stack)] = f],
           UNCHANGED <<len, strdedup, depth, result>>
    PROVE  IInv'
<1>1. Len(strings) \in Nat /\ Len(strings') \in Nat
  BY LenProperties DEF IInv, TablesOK
<1>2. StackOK(stack, Len(strings'), len)
  BY <1>1, StackWithMore DEF IInv
<1>3. StackOK(stack', Len(strings'), len) /\ Len(stack') = Len(stack)
  BY <1>2, TopReplaced
<1>4. result = "running" /\ result' = "running"
  BY DEF Running
<1>. QED
  BY <1>3, <1>4 DEF IInv, DepthIsNesting

\* The innermost frame is one of the frames.
LEMMA TopFrame ==
    ASSUME IInv, stack # <<>>
    PROVE  Top \in Frames /\ FrameOK(Top, Len(strings), len)
BY EmptySeq, ElementOfSeq DEF IInv, StackOK, Top

\* An error without another look at the payload.
LEMMA FailHereIInv ==
    ASSUME IInv, NEW e \in Errors \ {"Internal"}, Fail(e, <<>>)
    PROVE  IInv'
BY AheadBytes, FailIInv DEF IInv

\* An error at a tag.
LEMMA FailAtTagIInv ==
    ASSUME IInv, NEW e \in Errors \ {"Internal"}, NEW t \in Peek(At, TagBytes), Fail(e, <<t>>)
    PROVE  IInv'
BY TagByte, FailIInv

\* A tag with the count or number behind it.
LEMMA TagAndNumber ==
    ASSUME IInv, NEW t \in Peek(At, TagBytes), NEW u \in ReadUvarint(At + 1)
    PROVE  /\ u.err \in {"none", "Truncated", "VarInt"} /\ u.val \in Nat
           /\ <<t>> \o u.bytes \in Seq(Nat) /\ Ahead(<<t>> \o u.bytes)
           /\ u.err = "none" => At + 1 <= len /\ Len(<<t>> \o u.bytes) = 2
<1>1. /\ t \in Nat /\ At + 1 \in Nat \ {0} /\ (At + 1) - 1 <= len /\ CursorOK
      /\ At \in Nat
  BY TagByte, AtCursor
<1>2. /\ u.err \in {"none", "Truncated", "VarInt"} /\ u.val \in Nat
      /\ u.bytes \in Seq(Nat) /\ (At + 1) - 1 + Len(u.bytes) <= len
      /\ u.err = "none" => Len(u.bytes) = 1
  BY <1>1, UvarintRead
<1>3. Ahead(<<t>> \o u.bytes)
  BY <1>1, <1>2, AheadBytes
<1>4. <<t>> \o u.bytes \in Seq(Nat)
  BY <1>3 DEF Ahead
<1>5. ASSUME u.err = "none" PROVE At + 1 <= len /\ Len(<<t>> \o u.bytes) = 2
  <2>1. <<t>> \in Seq(Nat) /\ Len(<<t>>) = 1
    BY <1>1
  <2>2. \A b, c \in Seq(Nat) : Len(b \o c) = Len(b) + Len(c)
    BY ConcatProperties
  <2>3. Len(<<t>> \o u.bytes) = 1 + 1
    BY <1>2, <1>5, <2>1, <2>2
  <2>4. At + 1 <= len
    <3>1. Len(u.bytes) = 1 /\ (At + 1) - 1 + Len(u.bytes) <= len
      BY <1>2, <1>5
    <3>2. At \in Nat /\ len \in Nat
      BY AtCursor
    <3>. QED
      BY <3>1, <3>2
  <2>. QED
    BY <2>3, <2>4
<1>. QED
  BY <1>2, <1>3, <1>4, <1>5
-----------------------------------------------------------------------------
(* One lemma for the actions that do the same to the invariant.              *)

\* Values without parts, and what is no value.
LEMMA ScalarsIInv ==
    ASSUME IInv, DecodeConst \/ DecodeInt \/ DecodeDouble \/ UnknownTag \/ NoTag
    PROVE  IInv'
<1>1. CASE DecodeConst
  <2>1. PICK t \in Peek(At, TagBytes) : WantsValue /\ \E v : Scalar(<<t>>, v)
    BY <1>1 DEF DecodeConst
  <2>. QED
    BY <2>1, TagByte, ScalarIInv
<1>2. CASE DecodeInt
  <2>1. PICK t \in Peek(At, TagBytes), u \in ReadUvarint(At + 1) :
            /\ WantsValue
            /\ IF u.err # "none" THEN Fail(u.err, <<t>> \o u.bytes)
               ELSE Scalar(<<t>> \o u.bytes, <<"int", ZigzagDecode(u.val)>>)
    BY <1>2 DEF DecodeInt
  <2>2. u.err \in {"none", "Truncated", "VarInt"} /\ Ahead(<<t>> \o u.bytes)
    BY TagAndNumber
  <2>. QED
    BY <2>1, <2>2, ScalarIInv, FailIInv DEF Errors
<1>3. CASE DecodeDouble
  <2>1. PICK t \in Peek(At, TagBytes) :
            /\ WantsValue
            /\ IF len - At < DoubleWidth THEN Fail("Truncated", <<t>>)
               ELSE \E raw \in Take(At + 1, DoubleWidth) :
                        Scalar(<<t>> \o raw, <<"double", raw>>)
    BY <1>3 DEF DecodeDouble
  <2>2. CASE len - At < DoubleWidth
    BY <2>1, <2>2, FailAtTagIInv DEF Errors
  <2>3. CASE ~(len - At < DoubleWidth)
    <3>1. PICK raw \in Take(At + 1, DoubleWidth) : Scalar(<<t>> \o raw, <<"double", raw>>)
      BY <2>1, <2>3
    <3>2. t \in Nat /\ At + 1 \in Nat \ {0} /\ At \in Nat /\ len \in Nat /\ CursorOK
      BY TagByte, AtCursor
    <3>3. raw \in Seq(Nat) /\ Len(raw) = DoubleWidth
      BY <3>2, TakeBytes, DecoderAssumption
    <3>4. (At + 1) - 1 + Len(raw) <= len
      BY <2>3, <3>2, <3>3, DecoderAssumption
    <3>5. Ahead(<<t>> \o raw)
      BY <3>2, <3>3, <3>4, AheadBytes
    <3>. QED
      BY <2>1, <3>1, <3>5, ScalarIInv
  <2>. QED
    BY <2>2, <2>3
<1>4. CASE UnknownTag
  BY <1>4, FailAtTagIInv DEF UnknownTag, Errors
<1>5. CASE NoTag
  BY <1>5, FailHereIInv DEF NoTag, Errors
<1>. QED
  BY <1>1, <1>2, <1>3, <1>4, <1>5

\* A string or key that could not be read.
LEMMA ReadFailsIInv ==
    ASSUME IInv, NEW t \in Peek(At, TagBytes), NEW r, ReadOK(r, At + 1), r.err # "none",
           Fail(r.err, <<t>> \o r.bytes)
    PROVE  IInv'
<1>1. r.err \in Errors /\ (r.err = "Internal" => Len(strings) # Len(hostTable))
  BY DEF ReadOK, ReadErrors, Errors
<1>2. Ahead(<<t>> \o r.bytes)
  <2>1. t \in Nat /\ r.bytes \in Seq(Nat) /\ (At + 1) - 1 + Len(r.bytes) <= len
    BY TagByte DEF ReadOK
  <2>. QED
    BY <2>1, AheadBytes, AtCursor
<1>. QED
  BY <1>1, <1>2, FailIInv

\* A string value.
LEMMA StringIInv ==
    ASSUME IInv, DecodeString
    PROVE  IInv'
<1>0. PICK t \in Peek(At, TagBytes) \cap StringTags :
          \E r \in ReadString(At + 1, t, "UnknownTag") :
              /\ WantsValue
              /\ IF r.err # "none" THEN Fail(r.err, <<t>> \o r.bytes)
                 ELSE /\ Consume(<<t>> \o r.bytes) /\ Intern(r)
                      /\ Deliver(stack, arrs, <<"str", Text(r)>>)
                      /\ UNCHANGED <<len, strdedup, depth, result>>
  BY DEF DecodeString
<1>1. PICK r \in ReadString(At + 1, t, "UnknownTag") :
          /\ WantsValue
          /\ IF r.err # "none" THEN Fail(r.err, <<t>> \o r.bytes)
             ELSE /\ Consume(<<t>> \o r.bytes) /\ Intern(r)
                  /\ Deliver(stack, arrs, <<"str", Text(r)>>)
                  /\ UNCHANGED <<len, strdedup, depth, result>>
  BY <1>0
<1>2. /\ t \in Nat /\ At + 1 \in Nat \ {0} /\ (At + 1) - 1 <= len
  BY TagByte
<1>3. ReadOK(r, At + 1)
  BY <1>2, ReadStringOK, AtCursor
<1>4. CASE r.err # "none"
  BY <1>1, <1>3, <1>4, ReadFailsIInv
<1>5. CASE r.err = "none"
  <2>0. r.bytes \in Seq(Nat) /\ (At + 1) - 1 + Len(r.bytes) <= len
    BY <1>3 DEF ReadOK
  <2>1. Ahead(<<t>> \o r.bytes)
    BY <1>2, <2>0, AheadBytes, AtCursor
  <2>2. TablesOK' /\ Len(strings) <= Len(strings')
    BY <1>1, <1>3, <1>5, InternKeeps, AtCursor
  <2>. DEFINE v == <<"str", Text(r)>>
  <2>3. Consume(<<t>> \o r.bytes) /\ Deliver(stack, arrs, v)
        /\ UNCHANGED <<len, strdedup, depth, result>>
    BY <1>1, <1>5
  <2>. HIDE DEF v
  <2>. QED
    BY <1>1, <2>1, <2>2, <2>3, ValueIInv
<1>. QED
  BY <1>4, <1>5

\* The frame of an array that was just entered.
LEMMA NewFrame ==
    ASSUME NEW kind \in Kinds, NEW count \in Nat, NEW cols \in Nat, NEW n, NEW l \in Nat,
           cols <= l, kind \notin {"template", "copies"} => count <= l
    PROVE  Frame(kind, count, <<>>, cols) \in Frames
           /\ FrameOK(Frame(kind, count, <<>>, cols), n, l)
<1>. DEFINE f == Frame(kind, count, <<>>, cols)
<1>1. f = [kind |-> kind, count |-> count, left |-> count, keys |-> <<>>, cols |-> cols]
  BY DEF Frame
<1>2. <<>> \in Seq(Keys) /\ Len(<<>>) = 0
  OBVIOUS
<1>3. /\ f.kind = kind /\ f.count = count /\ f.left = count /\ f.keys = <<>> /\ f.cols = cols
  BY <1>1
<1>. HIDE DEF f
<1>4. f \in Frames
  <2>1. [kind |-> kind, count |-> count, left |-> count, keys |-> <<>>, cols |-> cols]
          \in [kind : Kinds, count : Nat, left : Nat, keys : Seq(Keys), cols : Nat]
    BY <1>2
  <2>. QED
    BY <1>1, <2>1 DEF Frames
<1>5. \A k \in 1..Len(f.keys) : f.keys[k].kind = "id" => f.keys[k].n \in 0..(n - 1)
  BY <1>2, <1>3
<1>6. FrameOK(f, n, l)
  BY <1>3, <1>5 DEF FrameOK
<1>. QED
  BY <1>4, <1>6 DEF f

\* An array with a count of its elements.
LEMMA CountedIInv ==
    ASSUME IInv, NEW tag, NEW kind \in {"packed", "hash", "longs"}, NEW minBytes \in {1, 2},
           BeginCounted(tag, kind, minBytes)
    PROVE  IInv'
<1>1. PICK t \in Peek(At, TagBytes), u \in ReadUvarint(At + 1) :
          /\ WantsValue
          /\ EnterOr(CountError(u, minBytes, len - At - 1), Frame(kind, u.val, <<>>, 0),
                     <<t>> \o u.bytes)
  BY DEF BeginCounted
<1>2. /\ u.err \in {"none", "Truncated", "VarInt"} /\ u.val \in Nat
      /\ Ahead(<<t>> \o u.bytes)
  BY TagAndNumber
<1>. DEFINE e == CountError(u, minBytes, len - At - 1)
<1>3. e \in (Errors \ {"Internal"}) \cup {"none"}
  BY <1>2 DEF CountError, Errors
<1>4. CASE e # "none"
  BY <1>1, <1>2, <1>3, <1>4, FailIInv DEF EnterOr
<1>5. CASE e = "none"
  <2>. DEFINE f == Frame(kind, u.val, <<>>, 0)
  <2>1. Enter(f, <<t>> \o u.bytes)
    BY <1>1, <1>5 DEF EnterOr
  <2>2. ~(depth + 1 > MaxDepth) /\ ~(u.val * minBytes > len - At - 1)
    BY <1>5 DEF CountError
  <2>3. depth + 1 <= MaxDepth
    BY <2>2, DecoderAssumption DEF IInv
  <2>4. u.val <= len
    <3>1. len \in Nat /\ At \in Nat
      BY AtCursor
    <3>2. CASE minBytes = 1
      BY <1>2, <2>2, <3>1, <3>2
    <3>3. CASE minBytes = 2
      BY <1>2, <2>2, <3>1, <3>3
    <3>. QED
      BY <3>2, <3>3
  <2>5. kind \in Kinds /\ len \in Nat /\ 0 <= len
    BY AtCursor DEF Kinds
  <2>6. f \in Frames /\ FrameOK(f, Len(strings), len)
    BY <1>2, <2>4, <2>5, NewFrame
  <2>7. Running /\ (stack = <<>> \/ Expecting(Top))
    BY <1>1 DEF WantsValue
  <2>. HIDE DEF f
  <2>. QED
    BY <1>2, <2>1, <2>3, <2>6, <2>7, EnterIInv
<1>. QED
  BY <1>4, <1>5

\* A repeat, whose count nothing bounds.
LEMMA RepeatIInv ==
    ASSUME IInv, BeginRepeat
    PROVE  IInv'
<1>1. PICK t \in Peek(At, TagBytes), u \in ReadUvarint(At + 1) :
          /\ WantsValue
          /\ EnterOr(RepeatError(u, len - At - 1), Frame("template", u.val, <<>>, 0),
                     <<t>> \o u.bytes)
  BY DEF BeginRepeat
<1>2. /\ u.err \in {"none", "Truncated", "VarInt"} /\ u.val \in Nat
      /\ Ahead(<<t>> \o u.bytes)
  BY TagAndNumber
<1>. DEFINE e == RepeatError(u, len - At - 1)
<1>3. e \in (Errors \ {"Internal"}) \cup {"none"}
  BY <1>2 DEF RepeatError, Errors
<1>4. CASE e # "none"
  BY <1>1, <1>2, <1>3, <1>4, FailIInv DEF EnterOr
<1>5. CASE e = "none"
  <2>. DEFINE f == Frame("template", u.val, <<>>, 0)
  <2>1. Enter(f, <<t>> \o u.bytes)
    BY <1>1, <1>5 DEF EnterOr
  <2>2. ~(depth + 1 > MaxDepth)
    BY <1>5 DEF RepeatError
  <2>3. depth + 1 <= MaxDepth
    BY <2>2, DecoderAssumption DEF IInv
  <2>4. "template" \in Kinds /\ len \in Nat /\ 0 <= len
    BY AtCursor DEF Kinds
  <2>5. f \in Frames /\ FrameOK(f, Len(strings), len)
    BY <1>2, <2>4, NewFrame
  <2>6. Running /\ (stack = <<>> \/ Expecting(Top))
    BY <1>1 DEF WantsValue
  <2>. HIDE DEF f
  <2>. QED
    BY <1>2, <2>1, <2>3, <2>5, <2>6, EnterIInv
<1>. QED
  BY <1>4, <1>5

\* A rowset: its rows and its keys together have a byte each.
LEMMA RowsIInv ==
    ASSUME IInv, BeginRows
    PROVE  IInv'
<1>1. PICK t \in Peek(At, TagBytes), r \in ReadUvarint(At + 1) :
          /\ WantsValue
          /\ \E c \in IF r.err = "none" THEN ReadUvarint(At + 2) ELSE {r} :
               EnterOr(RowsError(r, c, len - At - 2), Frame("schema", r.val, <<>>, c.val),
                       IF r.err = "none" THEN <<t>> \o r.bytes \o c.bytes ELSE <<t>> \o r.bytes)
  BY DEF BeginRows
<1>2. /\ r.err \in {"none", "Truncated", "VarInt"} /\ r.val \in Nat
      /\ <<t>> \o r.bytes \in Seq(Nat) /\ Ahead(<<t>> \o r.bytes)
      /\ r.err = "none" => At + 1 <= len /\ Len(<<t>> \o r.bytes) = 2
  BY TagAndNumber
<1>3. CASE r.err # "none"
  <2>1. PICK c : EnterOr(RowsError(r, c, len - At - 2), Frame("schema", r.val, <<>>, c.val),
                         <<t>> \o r.bytes)
    BY <1>1, <1>3
  <2>2. Fail(r.err, <<t>> \o r.bytes)
    BY <1>3, <2>1 DEF EnterOr, RowsError
  <2>. QED
    BY <1>2, <1>3, <2>2, FailIInv DEF Errors
<1>4. CASE r.err = "none"
  <2>1. PICK c \in ReadUvarint(At + 2) :
            EnterOr(RowsError(r, c, len - At - 2), Frame("schema", r.val, <<>>, c.val),
                    (<<t>> \o r.bytes) \o c.bytes)
    BY <1>1, <1>4
  <2>. DEFINE e == RowsError(r, c, len - At - 2)
              f == Frame("schema", r.val, <<>>, c.val)
              bytes == (<<t>> \o r.bytes) \o c.bytes
  <2>2. At \in Nat /\ At + 2 \in Nat \ {0} /\ len \in Nat /\ pos \in Nat /\ CursorOK
    BY AtCursor
  <2>3. /\ c.err \in {"none", "Truncated", "VarInt"} /\ c.val \in Nat
        /\ c.bytes \in Seq(Nat) /\ Len(c.bytes) \in Nat
        /\ (At + 2) - 1 <= len => (At + 2) - 1 + Len(c.bytes) <= len
    BY <2>2, UvarintRead
  <2>4. Ahead(bytes)
    <3>1. bytes \in Seq(Nat) /\ Len(bytes) = 2 + Len(c.bytes)
      <4>1. \A b, d \in Seq(Nat) : b \o d \in Seq(Nat) /\ Len(b \o d) = Len(b) + Len(d)
        BY ConcatProperties
      <4>. QED
        BY <1>2, <1>4, <2>3, <4>1
    <3>2. At + 1 <= len
      BY <1>2, <1>4
    <3>3. (At + 2) - 1 <= len
      BY <2>2, <3>2
    <3>4. (At + 2) - 1 + Len(c.bytes) <= len
      BY <2>3, <3>3
    <3>. HIDE DEF bytes
    <3>5. pos + Len(bytes) <= len
      <4>1. \A p, k, n, l \in Nat : n = 2 + k /\ p + 1 + 2 - 1 + k <= l => p + n <= l
        OBVIOUS
      <4>2. pos \in Nat /\ len \in Nat /\ Len(c.bytes) \in Nat /\ Len(bytes) \in Nat
        BY <2>2, <2>3, <3>1
      <4>3. pos + 1 + 2 - 1 + Len(c.bytes) <= len
        <5>. HIDE DEF e, f
        <5>1. At = pos + 1
          BY DEF At
        <5>2. \A x, y \in Int : x = y + 1 => (x + 2) - 1 = y + 1 + 2 - 1
          OBVIOUS
        <5>3. (At + 2) - 1 = pos + 1 + 2 - 1
          BY <2>2, <5>1, <5>2
        <5>. QED
          BY <3>4, <5>3
      <4>. QED
        BY <3>1, <4>1, <4>2, <4>3
    <3>. QED
      BY <3>1, <3>5 DEF Ahead
  <2>. HIDE DEF bytes
  <2>5. e \in (Errors \ {"Internal"}) \cup {"none"}
    BY <1>4, <2>3 DEF RowsError, Errors
  <2>6. CASE e # "none"
    <3>1. Fail(e, bytes)
      BY <2>1, <2>6 DEF EnterOr, bytes
    <3>. QED
      BY <2>4, <2>5, <2>6, <3>1, FailIInv
  <2>7. CASE e = "none"
    <3>1. Enter(f, bytes)
      BY <2>1, <2>7 DEF EnterOr, bytes
    <3>2. /\ ~(depth + 1 > MaxDepth)
          /\ ~(c.val + r.val * (IF c.val > 1 THEN c.val ELSE 1) > len - At - 2)
      BY <2>7 DEF RowsError
    <3>3. depth + 1 <= MaxDepth
      BY <3>2, DecoderAssumption DEF IInv
    <3>4. r.val <= len /\ c.val <= len
      <4>. DEFINE m == IF c.val > 1 THEN c.val ELSE 1
      <4>1. m \in Nat \ {0}
        BY <2>3
      <4>2. \A a \in Nat, b \in Nat \ {0} : a * b \in Nat /\ a <= a * b
        OBVIOUS
      <4>. HIDE DEF m
      <4>3. r.val * m \in Nat /\ r.val <= r.val * m
        BY <1>2, <4>1, <4>2
      <4>4. ~(c.val + r.val * m > len - At - 2)
        BY <3>2 DEF m
      <4>. QED
        BY <1>2, <2>2, <2>3, <4>3, <4>4
    <3>5. "schema" \in Kinds
      BY DEF Kinds
    <3>6. f \in Frames /\ FrameOK(f, Len(strings), len)
      BY <1>2, <2>2, <2>3, <3>4, <3>5, NewFrame
    <3>7. Running /\ (stack = <<>> \/ Expecting(Top))
      BY <1>1 DEF WantsValue
    <3>. HIDE DEF f
    <3>. QED
      BY <2>4, <3>1, <3>3, <3>6, <3>7, EnterIInv
  <2>. QED
    BY <2>6, <2>7
<1>. QED
  BY <1>3, <1>4

\* A key, for the next element or for the key table.
LEMMA KeyIInv ==
    ASSUME IInv, TakeKey
    PROVE  IInv'
<1>1. WantsKey /\ Running /\ stack # <<>>
  BY DEF TakeKey, WantsKey, InTop
<1>. DEFINE after(k) == [stack EXCEPT ![Len(stack)].keys = Append(@, k)]
<1>2. PICK t \in Peek(At, TagBytes) \cap KeyTags : \E r \in ReadKey(At + 1, t) :
          IF r.err # "none" THEN Fail(r.err, <<t>> \o r.bytes)
          ELSE /\ Consume(<<t>> \o r.bytes) /\ Intern(r) /\ stack' = after(r.key)
               /\ UNCHANGED <<len, strdedup, arrs, root, depth, result>>
  BY DEF TakeKey
<1>3. PICK r \in ReadKey(At + 1, t) :
          IF r.err # "none" THEN Fail(r.err, <<t>> \o r.bytes)
          ELSE /\ Consume(<<t>> \o r.bytes) /\ Intern(r) /\ stack' = after(r.key)
               /\ UNCHANGED <<len, strdedup, arrs, root, depth, result>>
  BY <1>2
<1>4. t \in Nat /\ At + 1 \in Nat \ {0} /\ (At + 1) - 1 <= len
  BY TagByte
<1>5. ReadOK(r, At + 1)
  BY <1>4, ReadKeyOK, AtCursor
<1>6. CASE r.err # "none"
  BY <1>3, <1>5, <1>6, ReadFailsIInv
<1>7. CASE r.err = "none"
  <2>1. r.bytes \in Seq(Nat) /\ (At + 1) - 1 + Len(r.bytes) <= len /\ r.key \in Keys
    BY <1>5, <1>7 DEF ReadOK
  <2>2. Ahead(<<t>> \o r.bytes)
    BY <1>4, <2>1, AheadBytes, AtCursor
  <2>3. /\ TablesOK' /\ Len(strings) <= Len(strings')
        /\ r.key.kind = "id" => r.key.n \in 0..(Len(strings') - 1)
    BY <1>3, <1>5, <1>7, InternKeeps, AtCursor
  <2>4. CursorOK'
    BY <1>3, <1>7, <2>2, CursorStep, AtCursor DEF Consume
  <2>. DEFINE f == [Top EXCEPT !.keys = Append(@, r.key)]
  <2>5. Top \in Frames /\ FrameOK(Top, Len(strings), len)
    BY <1>1, TopFrame
  <2>6. Top.keys \in Seq(Keys) /\ Len(Top.keys) \in Nat
    BY <2>5, LenProperties DEF Frames
  <2>7. /\ Append(Top.keys, r.key) \in Seq(Keys)
        /\ Len(Append(Top.keys, r.key)) = Len(Top.keys) + 1
        /\ \A k \in 1..Len(Top.keys) : Append(Top.keys, r.key)[k] = Top.keys[k]
        /\ Append(Top.keys, r.key)[Len(Top.keys) + 1] = r.key
    BY <2>1, <2>6, AppendProperties
  <2>8. /\ f \in Frames /\ f.kind = Top.kind /\ f.count = Top.count /\ f.cols = Top.cols
        /\ f.keys = Append(Top.keys, r.key)
    BY <2>5, <2>7 DEF Frames
  <2>9. stack' = [stack EXCEPT ![Len(stack)] = f]
    BY <1>3, <1>7 DEF Top
  <2>. HIDE DEF f
  <2>10. Len(strings) \in Nat /\ Len(strings') \in Nat
    BY <2>3, LenProperties, AtCursor DEF TablesOK
  <2>11. FrameOK(f, Len(strings'), len)
    <3>1. ASSUME NEW k \in 1..Len(f.keys), f.keys[k].kind = "id"
          PROVE  f.keys[k].n \in 0..(Len(strings') - 1)
      <4>1. CASE k = Len(Top.keys) + 1
        BY <2>3, <2>7, <2>8, <3>1, <4>1
      <4>2. CASE k # Len(Top.keys) + 1
        <5>1. k \in 1..Len(Top.keys)
          BY <2>6, <2>7, <2>8, <3>1, <4>2
        <5>2. f.keys[k] = Top.keys[k]
          BY <2>7, <2>8, <5>1
        <5>3. Top.keys[k].n \in 0..(Len(strings) - 1)
          BY <2>5, <3>1, <5>1, <5>2 DEF FrameOK
        <5>. QED
          BY <2>3, <2>10, <5>2, <5>3
      <4>. QED
        BY <4>1, <4>2
    <3>2. f.cols <= len /\ (f.kind \notin {"template", "copies"} => f.count <= len)
      BY <2>5, <2>8 DEF FrameOK
    <3>. QED
      BY <3>1, <3>2 DEF FrameOK
  <2>12. UNCHANGED <<len, strdedup, depth, result>>
    BY <1>3, <1>7
  <2>. QED
    BY <1>1, <2>3, <2>4, <2>8, <2>9, <2>11, <2>12, GoesOnIInv
<1>. QED
  BY <1>6, <1>7

\* No key where one should be.
LEMMA NoKeyIInv ==
    ASSUME IInv, BadKey \/ NoKey
    PROVE  IInv'
<1>1. CASE BadKey
  BY <1>1, FailAtTagIInv DEF BadKey, Errors
<1>2. CASE NoKey
  BY <1>2, FailHereIInv DEF NoKey, Errors
<1>. QED
  BY <1>1, <1>2

\* The key table is complete.
LEMMA OpenRowsIInv ==
    ASSUME IInv, OpenRows
    PROVE  IInv'
<1>. DEFINE f == [Top EXCEPT !.kind = "rows"]
<1>1. Running /\ stack # <<>> /\ Top.kind = "schema"
  BY DEF OpenRows, InTop
<1>2. Top \in Frames /\ FrameOK(Top, Len(strings), len)
  BY <1>1, TopFrame
<1>3. /\ f \in Frames /\ f.kind = "rows" /\ f.count = Top.count /\ f.cols = Top.cols
      /\ f.keys = Top.keys
  BY <1>2 DEF Frames, Kinds
<1>4. stack' = [stack EXCEPT ![Len(stack)] = f]
  BY DEF OpenRows, Top
<1>. HIDE DEF f
<1>5. FrameOK(f, Len(strings), len)
  BY <1>1, <1>2, <1>3 DEF FrameOK
<1>6. UNCHANGED <<len, data, pos, strdedup, depth, result, strings, hostTable, size_used>>
  BY DEF OpenRows, Inside, tables
<1>7. CursorOK' /\ TablesOK'
  BY <1>6, AtCursor DEF CursorOK, TablesOK
<1>8. Len(strings) \in Nat
  BY LenProperties, AtCursor DEF TablesOK
<1>9. Len(strings) <= Len(strings') /\ FrameOK(f, Len(strings'), len)
  BY <1>5, <1>6, <1>8
<1>. QED
  BY <1>1, <1>3, <1>4, <1>6, <1>7, <1>9, GoesOnIInv

\* A row, for the rows that are waiting for it: its cells are the keys of the table.
LEMMA RowIInv ==
    ASSUME IInv, BeginRow
    PROVE  IInv'
<1>1. Running /\ stack # <<>> /\ Top.kind = "rows" /\ Top.left > 0
  BY DEF BeginRow, InTop
<1>2. CASE depth + 1 > MaxDepth
  BY <1>2, FailHereIInv DEF BeginRow, Errors
<1>3. CASE ~(depth + 1 > MaxDepth)
  <2>. DEFINE f == Frame("row", Top.cols, Top.keys, Top.cols)
  <2>1. Top \in Frames /\ FrameOK(Top, Len(strings), len)
    BY <1>1, TopFrame
  <2>2. f = [kind |-> "row", count |-> Top.cols, left |-> Top.cols, keys |-> Top.keys,
             cols |-> Top.cols]
    BY DEF Frame
  <2>3. f \in Frames
    BY <2>1, <2>2 DEF Frames, Kinds
  <2>4. f.count = Top.cols /\ f.cols = Top.cols /\ f.keys = Top.keys
    BY <2>2
  <2>5. /\ stack' = Append(stack, f) /\ depth' = depth + 1
        /\ UNCHANGED <<len, data, pos, strdedup, result, strings, hostTable, size_used>>
    BY <1>3 DEF BeginRow, Inside, tables
  <2>. HIDE DEF f
  <2>6. FrameOK(f, Len(strings), len)
    BY <2>1, <2>4 DEF FrameOK
  <2>7. Expecting(Top)
    BY <1>1 DEF Expecting
  <2>8. StackOK(stack', Len(strings), len) /\ Len(stack') = Len(stack) + 1
    BY <2>3, <2>5, <2>6, <2>7, FrameAdded DEF IInv, Top
  <2>9. CursorOK' /\ TablesOK'
    BY <2>5, AtCursor DEF CursorOK, TablesOK
  <2>10. depth' = Len(stack') /\ depth' \in Nat /\ depth' <= MaxDepth
    <3>1. depth = Len(stack) /\ depth \in Nat
      BY <1>1 DEF IInv, DepthIsNesting, Running
    <3>. QED
      BY <1>3, <2>5, <2>8, <3>1, DecoderAssumption
  <2>11. result = "running" /\ result' = "running" /\ strdedup' \in BOOLEAN
    BY <1>1, <2>5 DEF Running, IInv
  <2>. QED
    BY <2>5, <2>8, <2>9, <2>10, <2>11 DEF IInv, DepthIsNesting
<1>. QED
  BY <1>2, <1>3

\* An element without a tag.
LEMMA ElementIInv ==
    ASSUME IInv, Running, stack # <<>>, Top.left > 0, CursorOK', NEW v, AddElement(v)
    PROVE  IInv'
<1>. DEFINE f == [Top EXCEPT !.left = @ - 1]
<1>1. Top \in Frames /\ FrameOK(Top, Len(strings), len)
  BY TopFrame
<1>2. Top.left - 1 \in Nat
  BY <1>1 DEF Frames
<1>3. /\ f \in Frames /\ f.kind = Top.kind /\ f.count = Top.count /\ f.cols = Top.cols
      /\ f.keys = Top.keys
  BY <1>1, <1>2 DEF Frames
<1>4. stack' = [stack EXCEPT ![Len(stack)] = f]
  BY DEF AddElement, Top
<1>. HIDE DEF f
<1>5. FrameOK(f, Len(strings), len)
  BY <1>1, <1>3 DEF FrameOK
<1>6. UNCHANGED <<len, strdedup, depth, result, strings, hostTable, size_used>>
  BY DEF AddElement, Inside, tables
<1>7. TablesOK'
  BY <1>6, AtCursor DEF TablesOK
<1>8. Len(strings) \in Nat
  BY LenProperties, AtCursor DEF TablesOK
<1>9. Len(strings) <= Len(strings') /\ FrameOK(f, Len(strings'), len)
  BY <1>5, <1>6, <1>8
<1>. QED
  BY <1>3, <1>4, <1>6, <1>7, <1>9, GoesOnIInv

\* A long of a run, read from the payload, or a copy of a repeat's value.
LEMMA ElementsIInv ==
    ASSUME IInv, ReadLong \/ CopyTemplate
    PROVE  IInv'
<1>1. CASE ReadLong
  <2>1. PICK u \in ReadUvarint(At) :
            IF u.err # "none" THEN Fail(u.err, u.bytes)
            ELSE Consume(u.bytes) /\ AddElement(<<"int", ZigzagDecode(u.val)>>)
    BY <1>1 DEF ReadLong
  <2>2. Running /\ stack # <<>> /\ Top.left > 0
    BY <1>1 DEF ReadLong, InTop
  <2>3. /\ u.err \in {"none", "Truncated", "VarInt"}
        /\ u.bytes \in Seq(Nat)
        /\ At - 1 <= len => At - 1 + Len(u.bytes) <= len
    BY AtCursor, UvarintRead
  <2>4. Ahead(u.bytes)
    <3>1. At = pos + 1 /\ pos \in Nat /\ len \in Nat /\ pos <= len
      <4>1. CursorOK /\ At = pos + 1
        BY AtCursor DEF At
      <4>. QED
        BY <4>1, LenProperties DEF CursorOK
    <3>2. At - 1 = pos
      BY <3>1
    <3>3. At - 1 <= len
      BY <3>1, <3>2
    <3>4. pos + Len(u.bytes) <= len /\ u.bytes \in Seq(Nat)
      BY <2>3, <3>2, <3>3
    <3>. QED
      BY <3>4 DEF Ahead
  <2>5. CASE u.err # "none"
    BY <2>1, <2>3, <2>4, <2>5, FailIInv DEF Errors
  <2>6. CASE u.err = "none"
    <3>1. CursorOK'
      BY <2>1, <2>4, <2>6, CursorStep, AtCursor DEF Consume, AddElement, Inside
    <3>. DEFINE v == <<"int", ZigzagDecode(u.val)>>
    <3>2. AddElement(v)
      BY <2>1, <2>6
    <3>. HIDE DEF v
    <3>. QED
      BY <2>2, <3>1, <3>2, ElementIInv
  <2>. QED
    BY <2>5, <2>6
<1>2. CASE CopyTemplate
  <2>. DEFINE v == TopArray.template[1]
  <2>1. Running /\ stack # <<>> /\ Top.left > 0
    BY <1>2 DEF CopyTemplate, InTop
  <2>2. AddElement(v) /\ UNCHANGED <<data, pos>>
    BY <1>2 DEF CopyTemplate
  <2>. HIDE DEF v
  <2>3. CursorOK'
    BY <2>2, AtCursor DEF CursorOK, AddElement, Inside
  <2>. QED
    BY <2>1, <2>2, <2>3, ElementIInv
<1>. QED
  BY <1>1, <1>2

\* An array is left and its value delivered.
LEMMA LeaveIInv ==
    ASSUME IInv, EndArray
    PROVE  IInv'
<1>. DEFINE v == <<IF Top.kind \in {"hash", "row"} THEN "hash" ELSE "list", TopArray.items>>
<1>1. /\ Running /\ stack # <<>> /\ depth' = depth - 1 /\ Deliver(Below, ArraysBelow, v)
      /\ UNCHANGED <<len, data, strdedup, pos, strings, hostTable, size_used, result>>
  BY DEF EndArray, tables
<1>. HIDE DEF v
<1>2. /\ StackOK(Below, Len(strings), len) /\ Len(Below) = Len(stack) - 1
      /\ Below = <<>> \/ Expecting(Below[Len(Below)])
  BY <1>1, FrameLeft DEF IInv
<1>3. StackOK(stack', Len(strings), len) /\ Len(stack') = Len(stack) - 1
  BY <1>1, <1>2, DeliverOK
<1>4. depth' = Len(stack') /\ depth' \in Nat /\ depth' <= MaxDepth
  <2>1. depth = Len(stack) /\ depth \in Nat /\ depth <= MaxDepth
    BY <1>1 DEF IInv, DepthIsNesting, Running
  <2>2. Len(stack) \in Nat \ {0}
    BY <1>1, EmptySeq DEF IInv, StackOK
  <2>. QED
    BY <1>1, <1>3, <2>1, <2>2, DecoderAssumption
<1>5. CursorOK' /\ TablesOK'
  BY <1>1, AtCursor DEF CursorOK, TablesOK
<1>6. result = "running" /\ result' = "running" /\ strdedup' \in BOOLEAN
  BY <1>1 DEF Running, IInv
<1>. QED
  BY <1>1, <1>3, <1>4, <1>5, <1>6 DEF IInv, DepthIsNesting

\* Nothing that the invariant is about changes but result.
LEMMA ReturnIInv ==
    ASSUME IInv, Return
    PROVE  IInv'
<1>1. CASE Fail("Trailing", <<>>)
  BY <1>1, FailHereIInv DEF Errors
<1>2. CASE /\ Running /\ result' = "ok"
           /\ UNCHANGED <<input, strdedup, pos, stack, arrs, root, tables, depth>>
  BY <1>2 DEF IInv, CursorOK, TablesOK, DepthIsNesting, Running, input, tables
<1>. QED
  BY <1>1, <1>2 DEF Return
-----------------------------------------------------------------------------
\* Every step of the decoder keeps the invariant.
LEMMA NextIInv == IInv /\ [Next]_vars => IInv'
<1>. SUFFICES ASSUME IInv, [Next]_vars PROVE IInv'
  OBVIOUS
<1>1. CASE DecodeConst \/ DecodeInt \/ DecodeDouble \/ UnknownTag \/ NoTag
  BY <1>1, ScalarsIInv
<1>2. CASE DecodeString
  BY <1>2, StringIInv
<1>3. CASE BeginPacked \/ BeginHash \/ BeginLongs
  BY <1>3, CountedIInv DEF BeginPacked, BeginHash, BeginLongs
<1>4. CASE BeginRepeat
  BY <1>4, RepeatIInv
<1>5. CASE BeginRows
  BY <1>5, RowsIInv
<1>6. CASE TakeKey
  BY <1>6, KeyIInv
<1>7. CASE BadKey \/ NoKey
  BY <1>7, NoKeyIInv
<1>8. CASE OpenRows
  BY <1>8, OpenRowsIInv
<1>9. CASE BeginRow
  BY <1>9, RowIInv
<1>10. CASE ReadLong \/ CopyTemplate
  BY <1>10, ElementsIInv
<1>11. CASE EndArray
  BY <1>11, LeaveIInv
<1>12. CASE Return
  BY <1>12, ReturnIInv
<1>13. CASE HostError
  BY <1>13, FailHereIInv DEF HostError, Errors
<1>14. CASE UNCHANGED vars
  BY <1>14 DEF IInv, CursorOK, TablesOK, DepthIsNesting, vars, input, tables
<1>. QED
  BY <1>1, <1>2, <1>3, <1>4, <1>5, <1>6, <1>7, <1>8, <1>9, <1>10, <1>11, <1>12, <1>13, <1>14
  DEF Next, Step, Stopped

\* The invariant is one of the decoder.
LEMMA Invariant == Spec => []IInv
BY InitIInv, NextIInv, PTL DEF Spec

\* Every variable of the decoder has its type for every payload: above all, the cursor
\* of decoder.rs never passes the end of the slice it reads.
THEOREM DecoderTypeCorrect == Spec => []TypeOK
<1>1. IInv => TypeOK
  <2>. SUFFICES ASSUME IInv PROVE TypeOK
    OBVIOUS
  <2>1. pos \in 0..len /\ len \in Nat
    BY LenProperties DEF IInv, CursorOK
  <2>. QED
    BY <2>1 DEF IInv, TablesOK, StackOK, TypeOK
<1>. QED
  BY <1>1, Invariant, PTL

\* enter_depth and leave_depth pair up on every path of decoder.rs, and no payload
\* takes it deeper than max_depth.
THEOREM DecoderDepthNested == Spec => []DepthIsNesting
<1>1. IInv => DepthIsNesting
  BY DEF IInv
<1>. QED
  BY <1>1, Invariant, PTL

\* A string id of the payload is never resolved to a string of another document, not
\* even by a Host that has the strings of one (decoder.rs:247, test_host.rs:50).
THEOREM DecoderIdsResolve == Spec => []IdsResolve
<1>1. IInv => IdsResolve
  BY DEF IInv, TablesOK, StackOK, FrameOK, IdsResolve
<1>. QED
  BY <1>1, Invariant, PTL

\* Whatever counts a payload announces, begin_array is never asked to reserve more
\* elements than the payload has bytes, a repeat's copies aside (decoder.rs:185).
THEOREM DecoderReserveBounded == Spec => []ReserveBounded
<1>1. IInv => ReserveBounded
  BY DEF IInv, StackOK, FrameOK, ReserveBounded
<1>. QED
  BY <1>1, Invariant, PTL
-----------------------------------------------------------------------------
(* What every step does to the arrays.                                       *)

\* The kinds of step, as far as the arrays are concerned: an error drops them all;
\* a value is delivered; an array is entered, by one that called for a value.
Fails == \E e \in Errors : \E bytes : Running /\ Fail(e, bytes)

Gets == WantsValue /\ (\E v : Deliver(stack, arrs, v)) /\ UNCHANGED result

Arrived(f) ==
    /\ stack' = Append(stack, f) /\ arrs' = Append(arrs, EmptyArray)
    /\ UNCHANGED <<root, result>>

NewFrames ==
    {f \in Frames : /\ f.kind \in {"packed", "hash", "longs", "template", "schema"}
                    /\ f.left = f.count /\ f.count <= MaxU32 /\ f.cols <= MaxU32}

Enters == WantsValue /\ \E f \in NewFrames : Arrived(f)

\* A row; a key; one element more; an array that is complete.
EntersRow ==
    /\ InTop("rows") /\ Top.left > 0
    /\ Arrived(Frame("row", Top.cols, Top.keys, Top.cols))

GetsKey ==
    /\ WantsKey
    /\ \E k \in Keys : stack' = [stack EXCEPT ![Len(stack)].keys = Append(@, k)]
    /\ UNCHANGED <<arrs, root, result>>

GetsElement ==
    /\ InTop("longs") \/ InTop("copies")
    /\ Top.left > 0
    /\ \E v : AddElement(v)

\* Every step that takes the decoder on is one of these.
Moves ==
    \/ Fails \/ Gets \/ Enters \/ EntersRow \/ GetsKey \/ GetsElement
    \/ OpenRows \/ EndArray \/ Return

\* Scalars and strings.
LEMMA ValueMoves ==
    ASSUME IInv, DecodeConst \/ DecodeInt \/ DecodeDouble \/ DecodeString \/ UnknownTag \/ NoTag
    PROVE  Fails \/ Gets
<1>1. ASSUME NEW e \in Errors, NEW bytes, WantsValue, Fail(e, bytes) PROVE Fails
  BY <1>1 DEF Fails, WantsValue
<1>2. ASSUME NEW bytes, NEW v, WantsValue, Scalar(bytes, v) PROVE Gets
  BY <1>2 DEF Gets, Scalar
<1>3. CASE DecodeConst
  <2>1. PICK t, v : WantsValue /\ Scalar(<<t>>, v)
    BY <1>3 DEF DecodeConst
  <2>. QED
    BY <1>2, <2>1
<1>4. CASE DecodeInt
  <2>1. PICK t \in Peek(At, TagBytes), u \in ReadUvarint(At + 1) :
            /\ WantsValue
            /\ IF u.err # "none" THEN Fail(u.err, <<t>> \o u.bytes)
               ELSE Scalar(<<t>> \o u.bytes, <<"int", ZigzagDecode(u.val)>>)
    BY <1>4 DEF DecodeInt
  <2>2. u.err \in {"none", "Truncated", "VarInt"}
    BY TagAndNumber
  <2>. QED
    BY <1>1, <1>2, <2>1, <2>2 DEF Errors
<1>5. CASE DecodeDouble
  BY <1>1, <1>2, <1>5 DEF DecodeDouble, Errors
<1>6. CASE DecodeString
  <2>1. PICK t \in Peek(At, TagBytes) \cap StringTags :
            \E r \in ReadString(At + 1, t, "UnknownTag") :
                /\ WantsValue
                /\ IF r.err # "none" THEN Fail(r.err, <<t>> \o r.bytes)
                   ELSE /\ Deliver(stack, arrs, <<"str", Text(r)>>)
                        /\ UNCHANGED <<len, strdedup, depth, result>>
    BY <1>6 DEF DecodeString
  <2>2. PICK r \in ReadString(At + 1, t, "UnknownTag") :
            /\ WantsValue
            /\ IF r.err # "none" THEN Fail(r.err, <<t>> \o r.bytes)
               ELSE /\ Deliver(stack, arrs, <<"str", Text(r)>>)
                    /\ UNCHANGED <<len, strdedup, depth, result>>
    BY <2>1
  <2>3. ReadOK(r, At + 1)
    BY TagByte, ReadStringOK, AtCursor
  <2>4. CASE r.err # "none"
    BY <1>1, <2>2, <2>3, <2>4 DEF ReadOK, ReadErrors, Errors
  <2>5. CASE r.err = "none"
    BY <2>2, <2>5 DEF Gets
  <2>. QED
    BY <2>4, <2>5
<1>7. CASE UnknownTag
  BY <1>1, <1>7 DEF UnknownTag, Errors
<1>8. CASE NoTag
  BY <1>1, <1>8 DEF NoTag, Errors
<1>. QED
  BY <1>3, <1>4, <1>5, <1>6, <1>7, <1>8

\* Entering, where the count was found too large, or not.
LEMMA EnterMoves ==
    ASSUME IInv, WantsValue, NEW e \in Errors \cup {"none"},
           NEW kind \in {"packed", "hash", "longs", "template", "schema"},
           NEW count, NEW cols, NEW bytes,
           e = "none" => count \in 0..MaxU32 /\ cols \in 0..MaxU32,
           EnterOr(e, Frame(kind, count, <<>>, cols), bytes)
    PROVE  Fails \/ Enters
<1>1. CASE e # "none"
  BY <1>1 DEF EnterOr, Fails, WantsValue
<1>2. CASE e = "none"
  <2>. DEFINE f == Frame(kind, count, <<>>, cols)
  <2>1. f = [kind |-> kind, count |-> count, left |-> count, keys |-> <<>>, cols |-> cols]
    BY DEF Frame
  <2>2. count \in Nat /\ count <= MaxU32 /\ cols \in Nat /\ cols <= MaxU32
    BY <1>2, DecoderAssumption
  <2>3. <<>> \in Seq(Keys) /\ kind \in Kinds
    BY DEF Kinds
  <2>4. f \in NewFrames
    <3>1. f.kind = kind /\ f.count = count /\ f.left = count /\ f.cols = cols
      BY <2>1
    <3>2. [kind |-> kind, count |-> count, left |-> count, keys |-> <<>>, cols |-> cols]
            \in [kind : Kinds, count : Nat, left : Nat, keys : Seq(Keys), cols : Nat]
      BY <2>2, <2>3
    <3>. HIDE DEF f
    <3>3. f \in Frames
      BY <2>1, <3>2 DEF f, Frames
    <3>. QED
      BY <2>2, <3>1, <3>3 DEF NewFrames
  <2>5. Arrived(f)
    BY <1>2 DEF EnterOr, Enter, Arrived
  <2>. QED
    BY <2>4, <2>5 DEF Enters
<1>. QED
  BY <1>1, <1>2

\* All array tags.
LEMMA ArrayMoves ==
    ASSUME IInv, BeginPacked \/ BeginHash \/ BeginLongs \/ BeginRepeat \/ BeginRows
    PROVE  Fails \/ Enters
<1>0. 0 \in 0..MaxU32 /\ MaxU32 \in Nat /\ depth \in Nat /\ MaxDepth \in Nat
  BY DecoderAssumption DEF IInv
<1>1. ASSUME NEW tag, NEW kind \in {"packed", "hash", "longs"}, NEW minBytes,
             BeginCounted(tag, kind, minBytes)
      PROVE  Fails \/ Enters
  <2>1. PICK t \in Peek(At, TagBytes), u \in ReadUvarint(At + 1) :
            /\ WantsValue
            /\ EnterOr(CountError(u, minBytes, len - At - 1), Frame(kind, u.val, <<>>, 0),
                       <<t>> \o u.bytes)
    BY <1>1 DEF BeginCounted
  <2>. DEFINE e == CountError(u, minBytes, len - At - 1)
  <2>2. u.err \in {"none", "Truncated", "VarInt"} /\ u.val \in Nat
    BY TagAndNumber
  <2>3. e \in Errors \cup {"none"}
    BY <2>2 DEF CountError, Errors
  <2>4. e = "none" => u.val \in 0..MaxU32
    <3>1. e = "none" => ~(u.val > MaxU32)
      BY DEF CountError
    <3>. QED
      BY <1>0, <2>2, <3>1
  <2>. HIDE DEF e
  <2>. QED
    BY <1>0, <2>1, <2>3, <2>4, EnterMoves DEF e
<1>2. CASE BeginRepeat
  <2>1. PICK t \in Peek(At, TagBytes), u \in ReadUvarint(At + 1) :
            /\ WantsValue
            /\ EnterOr(RepeatError(u, len - At - 1), Frame("template", u.val, <<>>, 0),
                       <<t>> \o u.bytes)
    BY <1>2 DEF BeginRepeat
  <2>. DEFINE e == RepeatError(u, len - At - 1)
  <2>2. u.err \in {"none", "Truncated", "VarInt"} /\ u.val \in Nat
    BY TagAndNumber
  <2>3. e \in Errors \cup {"none"}
    BY <2>2 DEF RepeatError, Errors
  <2>4. e = "none" => u.val \in 0..MaxU32
    <3>1. e = "none" => ~(u.val > MaxU32)
      BY DEF RepeatError
    <3>. QED
      BY <1>0, <2>2, <3>1
  <2>. HIDE DEF e
  <2>. QED
    BY <1>0, <2>1, <2>3, <2>4, EnterMoves DEF e
<1>3. CASE BeginRows
  <2>1. PICK t \in Peek(At, TagBytes), r \in ReadUvarint(At + 1) :
            /\ WantsValue
            /\ \E c \in IF r.err = "none" THEN ReadUvarint(At + 2) ELSE {r} : \E bytes :
                 EnterOr(RowsError(r, c, len - At - 2), Frame("schema", r.val, <<>>, c.val), bytes)
    BY <1>3 DEF BeginRows
  <2>2. PICK c \in IF r.err = "none" THEN ReadUvarint(At + 2) ELSE {r} : \E bytes :
            EnterOr(RowsError(r, c, len - At - 2), Frame("schema", r.val, <<>>, c.val), bytes)
    BY <2>1
  <2>3. PICK bytes :
            EnterOr(RowsError(r, c, len - At - 2), Frame("schema", r.val, <<>>, c.val), bytes)
    BY <2>2
  <2>. DEFINE e == RowsError(r, c, len - At - 2)
  <2>4. r.err \in {"none", "Truncated", "VarInt"} /\ r.val \in Nat
    BY TagAndNumber
  <2>5. c.err \in {"none", "Truncated", "VarInt"} /\ c.val \in Nat
    <3>1. CursorOK /\ At + 2 \in Nat \ {0}
      BY AtCursor
    <3>. QED
      BY <2>2, <2>4, <3>1, UvarintRead
  <2>6. e \in Errors \cup {"none"}
    BY <2>4, <2>5 DEF RowsError, Errors
  <2>7. e = "none" => r.val \in 0..MaxU32 /\ c.val \in 0..MaxU32
    <3>1. e = "none" => ~(r.val > MaxU32 \/ c.val > MaxU32)
      BY DEF RowsError
    <3>. QED
      BY <1>0, <2>4, <2>5, <3>1
  <2>. HIDE DEF e
  <2>. QED
    BY <2>1, <2>3, <2>6, <2>7, EnterMoves DEF e
<1>. QED
  BY <1>1, <1>2, <1>3 DEF BeginPacked, BeginHash, BeginLongs

\* Every step is one of these.
LEMMA NextMoves ==
    ASSUME IInv, [Next]_vars
    PROVE  Moves \/ UNCHANGED vars
<1>1. CASE DecodeConst \/ DecodeInt \/ DecodeDouble \/ DecodeString \/ UnknownTag \/ NoTag
  BY <1>1, ValueMoves DEF Moves
<1>2. CASE BeginPacked \/ BeginHash \/ BeginLongs \/ BeginRows \/ BeginRepeat
  BY <1>2, ArrayMoves DEF Moves
<1>3. CASE TakeKey
  <2>1. PICK t \in Peek(At, TagBytes) \cap KeyTags : \E r \in ReadKey(At + 1, t) :
            IF r.err # "none" THEN Fail(r.err, <<t>> \o r.bytes)
            ELSE /\ stack' = [stack EXCEPT ![Len(stack)].keys = Append(@, r.key)]
                 /\ UNCHANGED <<arrs, root, result>>
    BY <1>3 DEF TakeKey
  <2>2. PICK r \in ReadKey(At + 1, t) :
            IF r.err # "none" THEN Fail(r.err, <<t>> \o r.bytes)
            ELSE /\ stack' = [stack EXCEPT ![Len(stack)].keys = Append(@, r.key)]
                 /\ UNCHANGED <<arrs, root, result>>
    BY <2>1
  <2>3. ReadOK(r, At + 1)
    BY TagByte, ReadKeyOK, AtCursor
  <2>4. WantsKey /\ Running
    BY <1>3 DEF TakeKey, WantsKey, InTop
  <2>5. CASE r.err # "none"
    <3>1. r.err \in Errors
      BY <2>3, <2>5 DEF ReadOK, ReadErrors, Errors
    <3>. QED
      BY <2>2, <2>4, <2>5, <3>1 DEF Fails, Moves
  <2>6. CASE r.err = "none"
    BY <2>2, <2>3, <2>4, <2>6 DEF ReadOK, GetsKey, Moves
  <2>. QED
    BY <2>5, <2>6
<1>4. CASE BadKey \/ NoKey
  <2>1. Running /\ "BadKey" \in Errors /\ "Truncated" \in Errors
    BY <1>4 DEF BadKey, NoKey, WantsKey, InTop, Errors
  <2>. QED
    BY <1>4, <2>1 DEF BadKey, NoKey, Fails, Moves
<1>5. CASE BeginRow
  <2>1. CASE depth + 1 > MaxDepth
    BY <1>5, <2>1 DEF BeginRow, InTop, Fails, Moves, Errors
  <2>2. CASE ~(depth + 1 > MaxDepth)
    BY <1>5, <2>2 DEF BeginRow, EntersRow, Arrived, Inside, Moves
  <2>. QED
    BY <2>1, <2>2
<1>6. CASE ReadLong
  <2>1. PICK u \in ReadUvarint(At) :
            IF u.err # "none" THEN Fail(u.err, u.bytes)
            ELSE Consume(u.bytes) /\ AddElement(<<"int", ZigzagDecode(u.val)>>)
    BY <1>6 DEF ReadLong
  <2>2. InTop("longs") /\ Running /\ Top.left > 0
    BY <1>6 DEF ReadLong, InTop
  <2>3. u.err \in {"none", "Truncated", "VarInt"}
    BY AtCursor, UvarintRead
  <2>4. CASE u.err # "none"
    BY <2>1, <2>2, <2>3, <2>4 DEF Fails, Moves, Errors
  <2>5. CASE u.err = "none"
    BY <2>1, <2>2, <2>5 DEF GetsElement, Moves
  <2>. QED
    BY <2>4, <2>5
<1>7. CASE CopyTemplate
  BY <1>7 DEF CopyTemplate, GetsElement, Moves
<1>8. CASE HostError
  BY <1>8 DEF HostError, Fails, Moves, Errors
<1>. QED
  BY <1>1, <1>2, <1>3, <1>4, <1>5, <1>6, <1>7, <1>8 DEF Next, Step, Stopped, Moves
-----------------------------------------------------------------------------
(* What the Host was given.                                                  *)

\* All but the last.
Lower(s) == SubSeq(s, 1, Len(s) - 1)

\* A sequence is its last element on top of the others, and that may be replaced.
LEMMA SeqTop ==
    ASSUME NEW S, NEW s \in Seq(S), s # <<>>
    PROVE  /\ Len(s) \in Nat \ {0} /\ s[Len(s)] \in S
           /\ Lower(s) \in Seq(S) /\ Len(Lower(s)) = Len(s) - 1
           /\ \A i \in 1..(Len(s) - 1) : Lower(s)[i] = s[i]
<1>1. Len(s) \in Nat \ {0} /\ s[Len(s)] \in S
  BY EmptySeq, ElementOfSeq, LenProperties
<1>2. \A i \in 1..(Len(s) - 1) : s[i] \in S
  BY <1>1, ElementOfSeq
<1>3. /\ Lower(s) \in Seq(S)
      /\ Len(Lower(s)) = IF 1 <= Len(s) - 1 THEN (Len(s) - 1) - 1 + 1 ELSE 0
      /\ \A i \in 1..((Len(s) - 1) - 1 + 1) : Lower(s)[i] = s[1 + i - 1]
  BY <1>1, <1>2, SubSeqProperties DEF Lower
<1>4. Len(Lower(s)) = Len(s) - 1
  <2>1. \A m \in Nat \ {0} : m - 1 = IF 1 <= m - 1 THEN (m - 1) - 1 + 1 ELSE 0
    OBVIOUS
  <2>. QED
    BY <1>1, <1>3, <2>1
<1>5. ASSUME NEW i \in 1..(Len(s) - 1) PROVE Lower(s)[i] = s[i]
  <2>1. i \in 1..((Len(s) - 1) - 1 + 1) /\ 1 + i - 1 = i
    BY <1>1
  <2>. QED
    BY <1>3, <2>1
<1>. QED
  BY <1>1, <1>3, <1>4, <1>5

\* One more element, and another last one.
Plus(s, x) == Append(s, x)
Change(s, x) == [s EXCEPT ![Len(s)] = x]

\* What a sequence with one more element is.
LEMMA SeqPlus ==
    ASSUME NEW S, NEW s \in Seq(S), NEW x \in S
    PROVE  /\ Plus(s, x) \in Seq(S) /\ Len(Plus(s, x)) = Len(s) + 1
           /\ \A i \in 1..Len(s) : Plus(s, x)[i] = s[i]
           /\ Plus(s, x)[Len(s) + 1] = x
BY AppendProperties DEF Plus

\* What one with another last element is.
LEMMA SeqChange ==
    ASSUME NEW S, NEW s \in Seq(S), s # <<>>, NEW x \in S
    PROVE  /\ Change(s, x) \in Seq(S) /\ Len(Change(s, x)) = Len(s)
           /\ \A i \in 1..Len(s) : Change(s, x)[i] = IF i = Len(s) THEN x ELSE s[i]
<1>1. Len(s) \in Nat \ {0} /\ Len(s) \in 1..Len(s)
  BY EmptySeq, LenProperties
<1>. QED
  BY <1>1, ExceptSeq DEF Change

\* The others stay, and on top of them is what it was changed to.
LEMMA LowerChange ==
    ASSUME NEW S, NEW s \in Seq(S), s # <<>>, NEW x \in S
    PROVE  Lower(Change(s, x)) = Lower(s)
<1>1. /\ Change(s, x) \in Seq(S) /\ Len(Change(s, x)) = Len(s)
      /\ \A i \in 1..Len(s) : Change(s, x)[i] = IF i = Len(s) THEN x ELSE s[i]
  BY SeqChange
<1>2. /\ Len(s) \in Nat \ {0} /\ Lower(s) \in Seq(S) /\ Len(Lower(s)) = Len(s) - 1
      /\ \A i \in 1..(Len(s) - 1) : Lower(s)[i] = s[i]
  BY SeqTop
<1>3. Change(s, x) # <<>>
  BY <1>1, <1>2
<1>4. /\ Lower(Change(s, x)) \in Seq(S)
      /\ Len(Lower(Change(s, x))) = Len(Change(s, x)) - 1
      /\ \A i \in 1..(Len(Change(s, x)) - 1) : Lower(Change(s, x))[i] = Change(s, x)[i]
  BY <1>1, <1>3, SeqTop
<1>5. ASSUME NEW i \in 1..(Len(s) - 1) PROVE Lower(Change(s, x))[i] = Lower(s)[i]
  <2>1. i \in 1..Len(s) /\ i # Len(s)
    BY <1>2
  <2>. QED
    BY <1>1, <1>2, <1>4, <2>1
<1>. QED
  BY <1>1, <1>2, <1>4, <1>5, SeqEqual

\* That is its last element now.
LEMMA ChangeTop ==
    ASSUME NEW S, NEW s \in Seq(S), s # <<>>, NEW x \in S
    PROVE  Change(s, x) # <<>> /\ Change(s, x)[Len(Change(s, x))] = x
<1>1. /\ Len(Change(s, x)) = Len(s)
      /\ \A i \in 1..Len(s) : Change(s, x)[i] = IF i = Len(s) THEN x ELSE s[i]
  BY SeqChange
<1>2. Len(s) \in Nat \ {0} /\ Len(s) \in 1..Len(s)
  BY SeqTop
<1>. QED
  BY <1>1, <1>2

\* Its last element changed to what it was.
LEMMA ChangeNothing ==
    ASSUME NEW S, NEW s \in Seq(S), s # <<>>
    PROVE  Change(s, s[Len(s)]) = s
<1>1. Len(s) \in Nat \ {0} /\ s[Len(s)] \in S
  BY SeqTop
<1>2. PICK x \in S : x = s[Len(s)]
  BY <1>1
<1>3. /\ Change(s, x) \in Seq(S) /\ Len(Change(s, x)) = Len(s)
      /\ \A i \in 1..Len(s) : Change(s, x)[i] = IF i = Len(s) THEN x ELSE s[i]
  BY SeqChange
<1>4. \A i \in 1..Len(s) : Change(s, x)[i] = s[i]
  BY <1>2, <1>3
<1>5. Change(s, x) = s
  BY <1>3, <1>4, SeqEqual
<1>. QED
  BY <1>2, <1>5

\* Another last element is one on top of the others.
LEMMA ChangeIsPlus ==
    ASSUME NEW S, NEW s \in Seq(S), s # <<>>, NEW x \in S
    PROVE  Change(s, x) = Plus(Lower(s), x)
<1>1. /\ Change(s, x) \in Seq(S) /\ Len(Change(s, x)) = Len(s)
      /\ \A i \in 1..Len(s) : Change(s, x)[i] = IF i = Len(s) THEN x ELSE s[i]
  BY SeqChange
<1>2. /\ Len(s) \in Nat \ {0} /\ Lower(s) \in Seq(S) /\ Len(Lower(s)) = Len(s) - 1
      /\ \A i \in 1..(Len(s) - 1) : Lower(s)[i] = s[i]
  BY SeqTop
<1>3. /\ Plus(Lower(s), x) \in Seq(S) /\ Len(Plus(Lower(s), x)) = Len(Lower(s)) + 1
      /\ \A i \in 1..Len(Lower(s)) : Plus(Lower(s), x)[i] = Lower(s)[i]
      /\ Plus(Lower(s), x)[Len(Lower(s)) + 1] = x
  BY <1>2, SeqPlus
<1>4. Len(Lower(s)) + 1 = Len(s)
  BY <1>2
<1>5. ASSUME NEW i \in 1..Len(s) PROVE Change(s, x)[i] = Plus(Lower(s), x)[i]
  <2>1. CASE i = Len(s)
    BY <1>1, <1>3, <1>4, <2>1
  <2>2. CASE i # Len(s)
    <3>1. i \in 1..(Len(s) - 1) /\ i \in 1..Len(Lower(s))
      BY <1>2, <2>2
    <3>. QED
      BY <1>1, <1>2, <1>3, <2>2, <3>1
  <2>. QED
    BY <2>1, <2>2
<1>. QED
  BY <1>1, <1>3, <1>4, <1>5, SeqEqual

\* More values to choose from.
LEMMA SeqMore ==
    ASSUME NEW S, NEW T, S \subseteq T, NEW s \in Seq(S)
    PROVE  s \in Seq(T)
BY SeqDef

\* A sequence of whatever values.
IsSeq(s) == \E S : s \in Seq(S)

\* The same of these.
LEMMA AnySeqPlus ==
    ASSUME NEW s, IsSeq(s), NEW x
    PROVE  /\ IsSeq(Plus(s, x)) /\ Len(Plus(s, x)) = Len(s) + 1
           /\ \A i \in 1..Len(s) : Plus(s, x)[i] = s[i]
           /\ Plus(s, x)[Len(s) + 1] = x
<1>1. PICK S : s \in Seq(S)
  BY DEF IsSeq
<1>2. PICK T : s \in Seq(T) /\ x \in T
  <2>1. s \in Seq(S \cup {x}) /\ x \in S \cup {x}
    BY <1>1, SeqMore
  <2>. QED
    BY <2>1
<1>3. /\ Plus(s, x) \in Seq(T) /\ Len(Plus(s, x)) = Len(s) + 1
      /\ \A i \in 1..Len(s) : Plus(s, x)[i] = s[i]
      /\ Plus(s, x)[Len(s) + 1] = x
  BY <1>2, SeqPlus
<1>4. IsSeq(Plus(s, x))
  BY <1>3 DEF IsSeq
<1>. QED
  BY <1>3, <1>4

\* The same of a change.
LEMMA AnySeqChange ==
    ASSUME NEW s, IsSeq(s), s # <<>>, NEW x
    PROVE  /\ IsSeq(Change(s, x)) /\ Len(Change(s, x)) = Len(s)
           /\ \A i \in 1..Len(s) : Change(s, x)[i] = IF i = Len(s) THEN x ELSE s[i]
<1>1. PICK S : s \in Seq(S)
  BY DEF IsSeq
<1>2. PICK T : s \in Seq(T) /\ x \in T
  <2>1. s \in Seq(S \cup {x}) /\ x \in S \cup {x}
    BY <1>1, SeqMore
  <2>. QED
    BY <2>1
<1>3. /\ Change(s, x) \in Seq(T) /\ Len(Change(s, x)) = Len(s)
      /\ \A i \in 1..Len(s) : Change(s, x)[i] = IF i = Len(s) THEN x ELSE s[i]
  BY <1>2, SeqChange
<1>4. IsSeq(Change(s, x))
  BY <1>3 DEF IsSeq
<1>. QED
  BY <1>3, <1>4

\* What the Host keeps of an array: a sequence of whatever values, and a template.
IsArray(arr) == \E S : arr \in [items : Seq(S), template : Seq(S)]

\* The Host was given as many elements as the frame has behind it, of a count that
\* fits a u32; and it has one array for each frame.
Holds(f, arr) ==
    /\ IsArray(arr) /\ Len(arr.items) = f.count - f.left
    /\ f.count <= MaxU32 /\ f.cols <= MaxU32

Given(st, hs) ==
    /\ st \in Seq(Frames) /\ IsSeq(hs) /\ Len(hs) = Len(st)
    /\ \A i \in 1..Len(st) : Holds(st[i], hs[i])

\* A frame of which elements are still to come.
LEMMA HoldsLeft ==
    ASSUME NEW f \in Frames, NEW arr, Holds(f, arr)
    PROVE  f.left \in 0..MaxU32 /\ f.count - Len(arr.items) = f.left
<1>1. f.left \in Nat /\ f.count \in Nat /\ MaxU32 \in Nat
  BY DecoderAssumption DEF Frames
<1>2. Len(arr.items) \in Nat
  BY LenProperties DEF Holds, IsArray
<1>. QED
  BY <1>1, <1>2 DEF Holds

\* An array with one element more.
LEMMA ArrayGrows ==
    ASSUME NEW arr, IsArray(arr), NEW v
    PROVE  /\ IsArray([arr EXCEPT !.items = Append(@, v)])
           /\ Len([arr EXCEPT !.items = Append(@, v)].items) = Len(arr.items) + 1
           /\ IsArray([arr EXCEPT !.template = <<v>>])
           /\ [arr EXCEPT !.template = <<v>>].items = arr.items
<1>1. PICK S : arr \in [items : Seq(S), template : Seq(S)]
  BY DEF IsArray
<1>. DEFINE T == S \cup {v}
            items == Append(arr.items, v)
            b == [arr EXCEPT !.items = items]
            c == [arr EXCEPT !.template = <<v>>]
<1>2. arr.items \in Seq(S) /\ arr.template \in Seq(S)
  BY <1>1
<1>3. arr.items \in Seq(T) /\ arr.template \in Seq(T)
  BY <1>2, SeqMore
<1>4. v \in T /\ <<v>> \in Seq(T)
  OBVIOUS
<1>. HIDE DEF T
<1>5. items \in Seq(T) /\ Len(items) = Len(arr.items) + 1
  BY <1>3, <1>4, AppendProperties
<1>. HIDE DEF items
<1>6. b = [items |-> items, template |-> arr.template]
  BY <1>1
<1>7. c = [items |-> arr.items, template |-> <<v>>]
  BY <1>1
<1>8. b \in [items : Seq(T), template : Seq(T)] /\ b.items = items
  BY <1>3, <1>5, <1>6
<1>9. c \in [items : Seq(T), template : Seq(T)] /\ c.items = arr.items
  BY <1>3, <1>4, <1>7
<1>. HIDE DEF b, c
<1>10. IsArray(b) /\ IsArray(c)
  BY <1>8, <1>9 DEF IsArray
<1>. QED
  BY <1>5, <1>8, <1>9, <1>10 DEF b, c, items

\* Storing a value in an array is one element less to come.
LEMMA StoredHolds ==
    ASSUME NEW f \in Frames, NEW arr, Holds(f, arr), Expecting(f), NEW v
    PROVE  /\ Filled(f) \in Frames /\ Holds(Filled(f), Stored(f, arr, v))
           /\ Filled(f).kind # "schema" /\ f.kind # "schema"
           /\ Filled(f).left = (IF f.kind = "template" THEN f.left ELSE f.left - 1)
           /\ Filled(f).kind # "template"
           /\ f.kind # "template" => f.left > 0
<1>1. f.left \in Nat /\ f.count \in Nat /\ IsArray(arr) /\ Len(arr.items) = f.count - f.left
  BY DEF Frames, Holds
<1>2. ASSUME NEW w
      PROVE  LET b == [arr EXCEPT !.items = Append(@, w)]
             IN  IsArray(b) /\ Len(b.items) = f.count - f.left + 1
  BY <1>1, ArrayGrows
<1>3. CASE f.kind = "template"
  <2>1. /\ Filled(f) \in Frames /\ Filled(f).count = f.count /\ Filled(f).cols = f.cols
        /\ Filled(f).left = f.left /\ Filled(f).kind = "copies"
    BY <1>3 DEF Filled, Frames, Kinds
  <2>2. Stored(f, arr, v) = [arr EXCEPT !.template = <<v>>]
    BY <1>3 DEF Stored
  <2>3. IsArray(Stored(f, arr, v)) /\ Len(Stored(f, arr, v).items) = f.count - f.left
    <3>1. /\ IsArray([arr EXCEPT !.template = <<v>>])
          /\ [arr EXCEPT !.template = <<v>>].items = arr.items
      BY <1>1, ArrayGrows
    <3>. QED
      BY <1>1, <2>2, <3>1
  <2>. QED
    BY <1>3, <2>1, <2>3 DEF Holds
<1>4. CASE f.kind # "template"
  <2>1. f.left > 0 /\ f.kind \in {"packed", "rows", "hash", "row"}
    BY <1>4 DEF Expecting
  <2>2. /\ Filled(f) \in Frames /\ Filled(f).count = f.count /\ Filled(f).cols = f.cols
        /\ Filled(f).left = f.left - 1 /\ Filled(f).kind = f.kind
    <3>1. f.left - 1 \in Nat
      BY <1>1, <2>1
    <3>2. CASE f.kind \in {"hash", "row"}
      <4>1. f.keys \in Seq(Keys) /\ f.keys # <<>>
        BY <3>2 DEF Expecting, Frames
      <4>2. Tail(f.keys) \in Seq(Keys)
        BY <4>1, HeadTailProperties
      <4>3. Filled(f) = [f EXCEPT !.left = @ - 1, !.keys = Tail(@)]
        BY <3>2 DEF Filled
      <4>. QED
        BY <3>1, <4>2, <4>3 DEF Frames
    <3>3. CASE f.kind \in {"packed", "rows"}
      <4>1. Filled(f) = [f EXCEPT !.left = @ - 1]
        BY <3>3 DEF Filled
      <4>. QED
        BY <3>1, <4>1 DEF Frames
    <3>. QED
      BY <2>1, <3>2, <3>3
  <2>3. IsArray(Stored(f, arr, v)) /\ Len(Stored(f, arr, v).items) = f.count - f.left + 1
    <3>1. \E w : Stored(f, arr, v) = [arr EXCEPT !.items = Append(@, w)]
      BY <1>4 DEF Stored
    <3>. QED
      BY <1>2, <3>1
  <2>4. f.count - f.left + 1 = f.count - (f.left - 1)
    BY <1>1
  <2>. QED
    BY <1>4, <2>1, <2>2, <2>3, <2>4 DEF Holds
<1>. QED
  BY <1>3, <1>4

\* One more array.
LEMMA GivenMore ==
    ASSUME NEW st, NEW hs, Given(st, hs), NEW f \in Frames, NEW arr, Holds(f, arr)
    PROVE  Given(Plus(st, f), Plus(hs, arr))
<1>1. st \in Seq(Frames) /\ IsSeq(hs) /\ Len(hs) = Len(st) /\ Len(st) \in Nat
  BY LenProperties DEF Given
<1>2. /\ IsSeq(Plus(hs, arr)) /\ Len(Plus(hs, arr)) = Len(hs) + 1
      /\ \A i \in 1..Len(hs) : Plus(hs, arr)[i] = hs[i]
      /\ Plus(hs, arr)[Len(hs) + 1] = arr
  BY <1>1, AnySeqPlus
<1>3. /\ Plus(st, f) \in Seq(Frames) /\ Len(Plus(st, f)) = Len(st) + 1
      /\ \A i \in 1..Len(st) : Plus(st, f)[i] = st[i]
      /\ Plus(st, f)[Len(st) + 1] = f
  BY <1>1, SeqPlus
<1>4. ASSUME NEW i \in 1..Len(Plus(st, f)) PROVE Holds(Plus(st, f)[i], Plus(hs, arr)[i])
  <2>1. CASE i \in 1..Len(st)
    BY <1>1, <1>2, <1>3, <2>1 DEF Given
  <2>2. CASE i = Len(st) + 1
    BY <1>1, <1>2, <1>3, <2>2
  <2>. QED
    BY <1>1, <1>3, <2>1, <2>2
<1>. QED
  BY <1>1, <1>2, <1>3, <1>4 DEF Given

\* The innermost array, and the others.
LEMMA GivenTop ==
    ASSUME NEW st, NEW hs, Given(st, hs), st # <<>>
    PROVE  /\ hs # <<>> /\ Len(st) \in Nat \ {0} /\ Len(hs) = Len(st)
           /\ st[Len(st)] \in Frames /\ Holds(st[Len(st)], hs[Len(hs)])
           /\ Given(Lower(st), Lower(hs))
<1>1. PICK T : hs \in Seq(T)
  BY DEF Given, IsSeq
<1>2. st \in Seq(Frames) /\ Len(hs) = Len(st) /\ Len(st) \in Nat \ {0}
  BY SeqTop DEF Given
<1>3. hs # <<>>
  BY <1>2
<1>4. st[Len(st)] \in Frames /\ Holds(st[Len(st)], hs[Len(hs)])
  <2>1. st[Len(st)] \in Frames /\ Len(st) \in 1..Len(st)
    <3>1. Len(st) \in 1..Len(st)
      BY <1>2
    <3>. QED
      BY <1>2, <3>1, ElementOfSeq
  <2>2. Holds(st[Len(st)], hs[Len(st)])
    BY <2>1 DEF Given
  <2>. QED
    BY <1>2, <2>1, <2>2
<1>5. Given(Lower(st), Lower(hs))
  <2>1. /\ Lower(st) \in Seq(Frames) /\ Len(Lower(st)) = Len(st) - 1
        /\ \A i \in 1..(Len(st) - 1) : Lower(st)[i] = st[i]
    BY <1>2, SeqTop
  <2>2. /\ Lower(hs) \in Seq(T) /\ Len(Lower(hs)) = Len(st) - 1
        /\ \A i \in 1..(Len(st) - 1) : Lower(hs)[i] = hs[i]
    BY <1>1, <1>2, <1>3, SeqTop
  <2>3. ASSUME NEW i \in 1..(Len(st) - 1) PROVE Holds(Lower(st)[i], Lower(hs)[i])
    <3>1. i \in 1..Len(st)
      BY <1>2
    <3>. QED
      BY <2>1, <2>2, <3>1 DEF Given
  <2>. QED
    BY <2>1, <2>2, <2>3 DEF Given, IsSeq
<1>. QED
  BY <1>2, <1>3, <1>4, <1>5

\* The innermost frame changes.
LEMMA FramesChange ==
    ASSUME NEW s \in Seq(Frames), s # <<>>, NEW f \in Frames
    PROVE  /\ Change(s, f) \in Seq(Frames) /\ Len(Change(s, f)) = Len(s)
           /\ \A i \in 1..Len(s) : Change(s, f)[i] = IF i = Len(s) THEN f ELSE s[i]
BY SeqChange

\* The innermost array goes on.
LEMMA GivenOn ==
    ASSUME NEW st, NEW hs, Given(st, hs), st # <<>>, NEW f \in Frames, NEW arr, Holds(f, arr)
    PROVE  Given(Change(st, f), Change(hs, arr))
<1>1. st \in Seq(Frames) /\ IsSeq(hs) /\ Len(hs) = Len(st) /\ Len(st) \in Nat \ {0} /\ hs # <<>>
  BY GivenTop DEF Given
<1>2. /\ Change(st, f) \in Seq(Frames) /\ Len(Change(st, f)) = Len(st)
      /\ \A i \in 1..Len(st) : Change(st, f)[i] = IF i = Len(st) THEN f ELSE st[i]
  <2>1. st \in Seq(Frames) /\ st # <<>>
    BY <1>1
  <2>. QED
    BY <2>1, FramesChange
<1>3. /\ IsSeq(Change(hs, arr)) /\ Len(Change(hs, arr)) = Len(hs)
      /\ \A i \in 1..Len(hs) : Change(hs, arr)[i] = IF i = Len(hs) THEN arr ELSE hs[i]
  BY <1>1, AnySeqChange
<1>4. \A i \in 1..Len(st) : Holds(Change(st, f)[i], Change(hs, arr)[i])
  BY <1>1, <1>2, <1>3 DEF Given
<1>. QED
  BY <1>1, <1>2, <1>3, <1>4 DEF Given
-----------------------------------------------------------------------------
(* The Host is given what it was told.                                       *)

HostInv ==
    /\ Given(stack, arrs)
    /\ root # <<>> => stack = <<>>

\* Nothing was begun.
LEMMA GivenNone == Given(<<>>, <<>>)
<1>1. <<>> \in Seq(Frames) /\ Len(<<>>) = 0
  OBVIOUS
<1>. QED
  BY <1>1 DEF Given, IsSeq

\* A value for whoever called for it.
LEMMA DeliverGiven ==
    ASSUME NEW st, NEW hs, Given(st, hs), st = <<>> \/ Expecting(st[Len(st)]), root = <<>>,
           NEW v, Deliver(st, hs, v)
    PROVE  HostInv'
<1>1. CASE st = <<>>
  BY <1>1, GivenNone DEF Deliver, HostInv
<1>2. CASE st # <<>>
  <2>1. /\ hs # <<>> /\ st[Len(st)] \in Frames /\ Holds(st[Len(st)], hs[Len(hs)])
    BY <1>2, GivenTop
  <2>2. /\ stack' = Change(st, Filled(st[Len(st)]))
        /\ arrs' = Change(hs, Stored(st[Len(st)], hs[Len(hs)], v)) /\ root' = root
    BY <1>2 DEF Deliver, Change
  <2>3. /\ Filled(st[Len(st)]) \in Frames
        /\ Holds(Filled(st[Len(st)]), Stored(st[Len(st)], hs[Len(hs)], v))
    BY <1>2, <2>1, StoredHolds
  <2>4. Given(Change(st, Filled(st[Len(st)])),
              Change(hs, Stored(st[Len(st)], hs[Len(hs)], v)))
    BY <1>2, <2>3, GivenOn
  <2>. QED
    BY <2>2, <2>4 DEF HostInv
<1>. QED
  BY <1>1, <1>2

\* A new array, which is empty.
LEMMA ArrivedGiven ==
    ASSUME HostInv, root = <<>>, NEW f \in Frames, f.left = f.count, f.count <= MaxU32,
           f.cols <= MaxU32, Arrived(f)
    PROVE  HostInv'
<1>1. Holds(f, EmptyArray)
  <2>1. EmptyArray \in [items : Seq({}), template : Seq({})] /\ Len(EmptyArray.items) = 0
    BY DEF EmptyArray
  <2>2. f.count \in Nat
    BY DEF Frames
  <2>. QED
    BY <2>1, <2>2 DEF Holds, IsArray
<1>2. Given(Plus(stack, f), Plus(arrs, EmptyArray))
  BY <1>1, GivenMore DEF HostInv
<1>. QED
  BY <1>2 DEF Arrived, Plus, HostInv

\* The innermost array has got something, or nothing.
LEMMA OnGiven ==
    ASSUME HostInv, stack # <<>>, NEW f \in Frames, NEW arr, Holds(f, arr),
           stack' = Change(stack, f), arrs' = Change(arrs, arr), root' = root
    PROVE  HostInv'
<1>1. root = <<>>
  BY DEF HostInv
<1>2. Given(Change(stack, f), Change(arrs, arr))
  BY GivenOn DEF HostInv
<1>. QED
  BY <1>1, <1>2 DEF HostInv

\* The same, of an array that has got nothing.
LEMMA FrameOnGiven ==
    ASSUME HostInv, stack # <<>>, NEW f \in Frames, f.count = Top.count, f.left = Top.left,
           f.cols = Top.cols, stack' = Change(stack, f), UNCHANGED <<arrs, root>>
    PROVE  HostInv'
<1>1. arrs # <<>> /\ Holds(Top, TopArray)
  BY GivenTop DEF HostInv, Top, TopArray
<1>2. Holds(f, TopArray)
  BY <1>1 DEF Holds
<1>3. arrs' = Change(arrs, TopArray)
  <2>1. PICK T : arrs \in Seq(T)
    BY DEF HostInv, Given, IsSeq
  <2>2. [arrs EXCEPT ![Len(arrs)] = arrs[Len(arrs)]] = arrs
    BY <2>1, LenProperties
  <2>. QED
    BY <2>2 DEF Change, TopArray
<1>. QED
  BY <1>2, <1>3, OnGiven

\* An element without a tag.
LEMMA ElementGiven ==
    ASSUME HostInv, GetsElement
    PROVE  HostInv'
<1>1. PICK v : AddElement(v) /\ stack # <<>> /\ Top.left > 0
  BY DEF GetsElement, InTop
<1>2. /\ Top \in Frames /\ Holds(Top, TopArray)
  BY <1>1, GivenTop DEF HostInv, Top, TopArray
<1>. DEFINE f == [Top EXCEPT !.left = @ - 1]
            arr == [TopArray EXCEPT !.items = Append(@, v)]
<1>3. f \in Frames /\ f.left = Top.left - 1 /\ f.count = Top.count /\ f.cols = Top.cols
  <2>1. Top.left - 1 \in Nat
    BY <1>1, <1>2 DEF Frames
  <2>. QED
    BY <1>2, <2>1 DEF Frames
<1>4. IsArray(arr) /\ Len(arr.items) = Len(TopArray.items) + 1
  BY <1>2, ArrayGrows DEF Holds
<1>5. stack' = Change(stack, f) /\ arrs' = Change(arrs, arr) /\ root' = root
  BY <1>1 DEF AddElement, Inside, Change, Top, TopArray
<1>. HIDE DEF f, arr
<1>6. Holds(f, arr)
  <2>1. Top.left \in Nat /\ Top.count \in Nat
    BY <1>2 DEF Frames
  <2>2. (Top.count - Top.left) + 1 = Top.count - (Top.left - 1)
    BY <2>1
  <2>. QED
    BY <1>2, <1>3, <1>4, <2>2 DEF Holds
<1>. QED
  BY <1>1, <1>3, <1>5, <1>6, OnGiven

\* Every step keeps the invariant.
LEMMA HostInvNext == IInv /\ HostInv /\ [Next]_vars => HostInv'
<1>. SUFFICES ASSUME IInv, HostInv, [Next]_vars PROVE HostInv'
  OBVIOUS
<1>1. CASE Fails
  BY <1>1, GivenNone DEF Fails, Fail, HostInv
<1>2. CASE Gets
  <2>1. PICK v : Deliver(stack, arrs, v)
    BY <1>2 DEF Gets
  <2>2. (stack = <<>> \/ Expecting(stack[Len(stack)])) /\ root = <<>>
    BY <1>2 DEF Gets, WantsValue, Top, HostInv
  <2>. QED
    BY <2>1, <2>2, DeliverGiven DEF HostInv
<1>3. CASE Enters
  BY <1>3, ArrivedGiven DEF Enters, NewFrames, WantsValue, HostInv
<1>4. CASE EntersRow
  <2>. DEFINE f == Frame("row", Top.cols, Top.keys, Top.cols)
  <2>1. Arrived(f) /\ stack # <<>>
    BY <1>4 DEF EntersRow, InTop
  <2>2. Top \in Frames /\ Holds(Top, TopArray)
    BY <2>1, GivenTop DEF HostInv, Top, TopArray
  <2>3. f = [kind |-> "row", count |-> Top.cols, left |-> Top.cols, keys |-> Top.keys,
             cols |-> Top.cols]
    BY DEF Frame
  <2>4. f \in Frames /\ f.left = Top.cols /\ f.count = Top.cols /\ f.cols = Top.cols
    BY <2>2, <2>3 DEF Frames, Kinds
  <2>5. Top.cols <= MaxU32 /\ root = <<>>
    BY <2>1, <2>2 DEF Holds, HostInv
  <2>. HIDE DEF f
  <2>. QED
    BY <2>1, <2>4, <2>5, ArrivedGiven
<1>5. CASE GetsKey
  <2>1. PICK k \in Keys : stack' = [stack EXCEPT ![Len(stack)].keys = Append(@, k)]
    BY <1>5 DEF GetsKey
  <2>2. stack # <<>> /\ UNCHANGED <<arrs, root>>
    BY <1>5 DEF GetsKey, WantsKey, InTop
  <2>. DEFINE f == [Top EXCEPT !.keys = Append(@, k)]
  <2>3. Top \in Frames
    BY <2>2, GivenTop DEF HostInv, Top
  <2>4. f \in Frames /\ f.count = Top.count /\ f.left = Top.left /\ f.cols = Top.cols
    <3>1. Append(Top.keys, k) \in Seq(Keys)
      BY <2>3, AppendProperties DEF Frames
    <3>. QED
      BY <2>3, <3>1 DEF Frames
  <2>5. stack' = Change(stack, f)
    BY <2>1 DEF Change, Top
  <2>. HIDE DEF f
  <2>. QED
    BY <2>2, <2>4, <2>5, FrameOnGiven
<1>6. CASE GetsElement
  BY <1>6, ElementGiven
<1>7. CASE OpenRows
  <2>. DEFINE f == [Top EXCEPT !.kind = "rows"]
  <2>1. stack # <<>> /\ UNCHANGED <<arrs, root>> /\ stack' = Change(stack, f)
    BY <1>7 DEF OpenRows, InTop, Inside, Change, Top
  <2>2. Top \in Frames
    BY <2>1, GivenTop DEF HostInv, Top
  <2>3. f \in Frames /\ f.count = Top.count /\ f.left = Top.left /\ f.cols = Top.cols
    BY <2>2 DEF Frames, Kinds
  <2>. HIDE DEF f
  <2>. QED
    BY <2>1, <2>3, FrameOnGiven
<1>8. CASE EndArray
  <2>1. PICK v : Deliver(Below, ArraysBelow, v)
    BY <1>8 DEF EndArray
  <2>2. stack # <<>>
    BY <1>8 DEF EndArray
  <2>3. Given(Lower(stack), Lower(arrs)) /\ root = <<>>
    BY <2>2, GivenTop DEF HostInv
  <2>4. Below = <<>> \/ Expecting(Below[Len(Below)])
    BY <2>2, FrameLeft DEF IInv
  <2>. QED
    BY <2>1, <2>3, <2>4, DeliverGiven DEF Below, ArraysBelow, Lower
<1>9. CASE Return
  <2>1. CASE Fail("Trailing", <<>>)
    BY <2>1, GivenNone DEF Fail, HostInv
  <2>2. CASE UNCHANGED <<stack, arrs, root>>
    BY <2>2 DEF HostInv
  <2>. QED
    BY <1>9, <2>1, <2>2 DEF Return
<1>10. CASE UNCHANGED vars
  BY <1>10 DEF vars, HostInv
<1>. QED
  BY <1>1, <1>2, <1>3, <1>4, <1>5, <1>6, <1>7, <1>8, <1>9, <1>10, NextMoves DEF Moves

\* Both invariants are invariants of the decoder.
LEMMA BothInvariant == Spec => [](IInv /\ HostInv)
<1>1. Start => IInv /\ HostInv
  BY InitIInv, GivenNone DEF Start, Init, HostInv
<1>2. (IInv /\ HostInv) /\ [Next]_vars => (IInv /\ HostInv)'
  BY NextIInv, HostInvNext
<1>. QED
  BY <1>1, <1>2, PTL DEF Spec
-----------------------------------------------------------------------------
(* The decoder builds arrays as HostCalls says.                              *)

\* An open function as HostCalls sees it, and all of them.
Elems == [needs : 0..MaxU32, template : BOOLEAN]
Elem(f) == [needs |-> f.left, template |-> f.kind = "template"]
OpenOf(st) == [i \in DOMAIN st |-> Elem(st[i])]

\* The frames for which HostCalls has an array.
BegunOf(st) == IF st # <<>> /\ st[Len(st)].kind = "schema" THEN Lower(st) ELSE st

\* The values of open, whole and answer.
HOpen == [i \in DOMAIN Begun |->
             [needs |-> Begun[i].count - Len(arrs[i].items),
              template |-> Begun[i].kind = "template"]]
HWhole == root # <<>>
HAnswer == CASE result = "running" -> "none" [] result = "ok" -> "value" [] OTHER -> "error"

\* The steps of HostCalls in these values.
LEMMA CallsInit ==
    HOpen = <<>> /\ HWhole = FALSE /\ HAnswer \in {"none", "error"} => Calls!Init
BY DEF Calls!Init, HOpen, HWhole, HAnswer

\* A step that leaves the open arrays, the root and the answer alone is none of HostCalls.
LEMMA CallsStutter ==
    HOpen' = HOpen /\ HWhole' = HWhole /\ HAnswer' = HAnswer => UNCHANGED Calls!vars
BY DEF Calls!vars, HOpen, HWhole, HAnswer

\* Receive, for the innermost of these arrays.
Wanted(arrays) ==
    IF arrays = <<>> THEN ~HWhole
    ELSE arrays[Len(arrays)].template \/ arrays[Len(arrays)].needs > 0

Received(arrays) ==
    /\ Wanted(arrays)
    /\ IF arrays = <<>> THEN HOpen' = <<>> /\ HWhole' = TRUE
       ELSE /\ HOpen' = [arrays EXCEPT ![Len(arrays)] = Calls!Served(@)]
            /\ HWhole' = HWhole

\* An array that wants a value receives one: a step of HostCalls.
LEMMA CallsGive ==
    ASSUME HAnswer = "none", HAnswer' = HAnswer, Received(HOpen)
    PROVE  Calls!Next
BY DEF Calls!Next, Calls!Give, Calls!Receive, Calls!Wanted, Received, Wanted,
       HOpen, HWhole, HAnswer

\* One more open array: a step of HostCalls.
LEMMA CallsBeginArray ==
    ASSUME HAnswer = "none", HAnswer' = HAnswer, HWhole' = HWhole, Wanted(HOpen),
           NEW n \in 0..MaxU32, NEW template \in BOOLEAN,
           HOpen' = Append(HOpen, [needs |-> n, template |-> template])
    PROVE  Calls!Next
BY DEF Calls!Next, Calls!BeginArray, Calls!Wanted, Wanted, HOpen, HWhole, HAnswer

\* A complete array received by the one around it, or the root: a step of HostCalls.
LEMMA CallsEndArray ==
    ASSUME HAnswer = "none", HAnswer' = HAnswer, HOpen # <<>>,
           ~HOpen[Len(HOpen)].template, HOpen[Len(HOpen)].needs = 0,
           Received(SubSeq(HOpen, 1, Len(HOpen) - 1))
    PROVE  Calls!Next
<1>. DEFINE below == SubSeq(HOpen, 1, Len(HOpen) - 1)
<1>1. Received(below)
  OBVIOUS
<1>. HIDE DEF below
<1>2. Calls!Receive(below)
  BY <1>1 DEF Calls!Receive, Calls!Wanted, Received, Wanted, HOpen, HWhole
<1>3. Calls!EndArray
  BY <1>2 DEF Calls!EndArray, below, HOpen, HAnswer
<1>. QED
  BY <1>3 DEF Calls!Next

\* The answer "value" for a complete root: a step of HostCalls.
LEMMA CallsAnswerValue ==
    ASSUME HAnswer = "none", HOpen = <<>>, HWhole, HAnswer' = "value",
           HOpen' = HOpen, HWhole' = HWhole
    PROVE  Calls!Next
BY DEF Calls!Next, Calls!AnswerValue, HOpen, HWhole, HAnswer

\* The answer "error" at any time: a step of HostCalls.
LEMMA CallsAnswerError ==
    ASSUME HAnswer = "none", HAnswer' = "error", HOpen' = <<>>, HWhole' = FALSE
    PROVE  Calls!Next
BY DEF Calls!Next, Calls!AnswerError, HOpen, HWhole, HAnswer

\* HostCalls sees one array for each frame.
LEMMA OpenOfSeq ==
    ASSUME NEW st \in Seq(Frames), \A i \in 1..Len(st) : st[i].left \in 0..MaxU32
    PROVE  /\ OpenOf(st) \in Seq(Elems) /\ Len(OpenOf(st)) = Len(st) /\ Len(st) \in Nat
           /\ \A i \in 1..Len(st) : OpenOf(st)[i] = Elem(st[i])
           /\ OpenOf(st) = <<>> <=> st = <<>>
<1>1. Len(st) \in Nat /\ DOMAIN st = 1..Len(st)
  BY LenProperties
<1>2. \A i \in 1..Len(st) : OpenOf(st)[i] = Elem(st[i])
  BY <1>1 DEF OpenOf
<1>3. \A i \in 1..Len(st) : Elem(st[i]) \in Elems
  BY <1>1 DEF Elem, Elems
<1>4. OpenOf(st) \in [1..Len(st) -> Elems]
  BY <1>1, <1>3 DEF OpenOf
<1>5. OpenOf(st) \in Seq(Elems) /\ Len(OpenOf(st)) = Len(st)
  BY <1>1, <1>4, FunctionIsSeq
<1>6. OpenOf(st) = <<>> <=> st = <<>>
  BY <1>5, EmptySeq
<1>. QED
  BY <1>1, <1>2, <1>5, <1>6

\* So it does for the frames of arrays the Host was given.
LEMMA OpenOfGiven ==
    ASSUME NEW st, NEW hs, Given(st, hs)
    PROVE  /\ OpenOf(st) \in Seq(Elems) /\ Len(OpenOf(st)) = Len(st) /\ Len(st) \in Nat
           /\ \A i \in 1..Len(st) : OpenOf(st)[i] = Elem(st[i])
           /\ OpenOf(st) = <<>> <=> st = <<>>
           /\ \A i \in 1..Len(st) : st[i].count - Len(hs[i].items) = st[i].left
<1>1. \A i \in 1..Len(st) : st[i] \in Frames /\ Holds(st[i], hs[i])
  BY ElementOfSeq DEF Given
<1>2. \A i \in 1..Len(st) :
          st[i].left \in 0..MaxU32 /\ st[i].count - Len(hs[i].items) = st[i].left
  BY <1>1, HoldsLeft
<1>. QED
  BY <1>2, OpenOfSeq DEF Given

\* Two sequences of arrays that have the same elements are the same.
LEMMA SameElems ==
    ASSUME NEW s \in Seq(Elems), NEW t \in Seq(Elems), Len(s) = Len(t),
           \A i \in 1..Len(s) : s[i] = t[i]
    PROVE  s = t
BY SeqEqual

\* One more frame is one more array.
LEMMA OpenOfPlus ==
    ASSUME NEW st, NEW hs, Given(st, hs), NEW f \in Frames, NEW arr, Holds(f, arr)
    PROVE  OpenOf(Plus(st, f)) = Plus(OpenOf(st), Elem(f))
<1>1. Given(Plus(st, f), Plus(hs, arr)) /\ st \in Seq(Frames)
  BY GivenMore DEF Given
<1>2. /\ Len(Plus(st, f)) = Len(st) + 1 /\ Plus(st, f)[Len(st) + 1] = f
      /\ \A i \in 1..Len(st) : Plus(st, f)[i] = st[i]
  BY <1>1, SeqPlus
<1>3. /\ OpenOf(Plus(st, f)) \in Seq(Elems) /\ Len(OpenOf(Plus(st, f))) = Len(Plus(st, f))
      /\ \A i \in 1..Len(Plus(st, f)) : OpenOf(Plus(st, f))[i] = Elem(Plus(st, f)[i])
  BY <1>1, OpenOfGiven
<1>4. /\ OpenOf(st) \in Seq(Elems) /\ Len(OpenOf(st)) = Len(st) /\ Len(st) \in Nat
      /\ \A i \in 1..Len(st) : OpenOf(st)[i] = Elem(st[i])
  BY OpenOfGiven
<1>5. Elem(f) \in Elems
  <2>1. f.left \in 0..MaxU32
    BY HoldsLeft
  <2>. QED
    BY <2>1 DEF Elem, Elems
<1>6. /\ Plus(OpenOf(st), Elem(f)) \in Seq(Elems)
      /\ Len(Plus(OpenOf(st), Elem(f))) = Len(OpenOf(st)) + 1
      /\ \A i \in 1..Len(OpenOf(st)) : Plus(OpenOf(st), Elem(f))[i] = OpenOf(st)[i]
      /\ Plus(OpenOf(st), Elem(f))[Len(OpenOf(st)) + 1] = Elem(f)
  <2>1. PICK s \in Seq(Elems), x \in Elems : s = OpenOf(st) /\ x = Elem(f)
    BY <1>4, <1>5
  <2>2. /\ Plus(s, x) \in Seq(Elems) /\ Len(Plus(s, x)) = Len(s) + 1
        /\ \A i \in 1..Len(s) : Plus(s, x)[i] = s[i]
        /\ Plus(s, x)[Len(s) + 1] = x
    BY SeqPlus
  <2>. QED
    BY <2>1, <2>2
<1>7. ASSUME NEW i \in 1..Len(OpenOf(Plus(st, f)))
      PROVE  OpenOf(Plus(st, f))[i] = Plus(OpenOf(st), Elem(f))[i]
  <2>1. i \in 1..(Len(st) + 1)
    BY <1>2, <1>3
  <2>2. CASE i \in 1..Len(st)
    BY <1>2, <1>3, <1>4, <1>6, <2>1, <2>2
  <2>3. CASE i = Len(st) + 1
    BY <1>2, <1>3, <1>4, <1>6, <2>1, <2>3
  <2>. QED
    BY <1>4, <2>1, <2>2, <2>3
<1>. QED
  BY <1>2, <1>3, <1>4, <1>6, <1>7, SameElems

\* The innermost frame is the innermost array, and is dropped with it.
LEMMA OpenOfTop ==
    ASSUME NEW st, NEW hs, Given(st, hs), st # <<>>
    PROVE  /\ OpenOf(st) # <<>> /\ Len(OpenOf(st)) = Len(st)
           /\ OpenOf(st)[Len(st)] = Elem(st[Len(st)])
           /\ OpenOf(Lower(st)) = Lower(OpenOf(st))
<1>1. /\ Len(st) \in Nat \ {0} /\ st \in Seq(Frames) /\ Given(Lower(st), Lower(hs))
  BY GivenTop DEF Given
<1>2. /\ OpenOf(st) \in Seq(Elems) /\ Len(OpenOf(st)) = Len(st) /\ OpenOf(st) # <<>>
      /\ \A i \in 1..Len(st) : OpenOf(st)[i] = Elem(st[i])
  BY OpenOfGiven
<1>3. Len(Lower(st)) = Len(st) - 1 /\ \A i \in 1..(Len(st) - 1) : Lower(st)[i] = st[i]
  BY <1>1, SeqTop
<1>4. /\ OpenOf(Lower(st)) \in Seq(Elems) /\ Len(OpenOf(Lower(st))) = Len(Lower(st))
      /\ \A i \in 1..Len(Lower(st)) : OpenOf(Lower(st))[i] = Elem(Lower(st)[i])
  BY <1>1, OpenOfGiven
<1>5. /\ Lower(OpenOf(st)) \in Seq(Elems) /\ Len(Lower(OpenOf(st))) = Len(OpenOf(st)) - 1
      /\ \A i \in 1..(Len(OpenOf(st)) - 1) : Lower(OpenOf(st))[i] = OpenOf(st)[i]
  BY <1>2, SeqTop
<1>6. ASSUME NEW i \in 1..Len(OpenOf(Lower(st)))
      PROVE  OpenOf(Lower(st))[i] = Lower(OpenOf(st))[i]
  <2>1. i \in 1..(Len(st) - 1) /\ i \in 1..Len(st)
    BY <1>1, <1>3, <1>4
  <2>. QED
    BY <1>2, <1>3, <1>4, <1>5, <2>1
<1>7. OpenOf(Lower(st)) = Lower(OpenOf(st))
  BY <1>2, <1>3, <1>4, <1>5, <1>6, SameElems
<1>8. OpenOf(st)[Len(st)] = Elem(st[Len(st)])
  <2>1. Len(st) \in 1..Len(st)
    BY <1>1
  <2>. QED
    BY <1>2, <2>1
<1>. QED
  BY <1>2, <1>7, <1>8

\* The innermost frame changed is the innermost array changed.
LEMMA OpenOfChange ==
    ASSUME NEW st, NEW hs, Given(st, hs), st # <<>>, NEW f \in Frames, NEW arr, Holds(f, arr)
    PROVE  OpenOf(Change(st, f)) = Change(OpenOf(st), Elem(f))
<1>1. /\ Len(st) \in Nat \ {0} /\ st \in Seq(Frames)
      /\ Given(Change(st, f), Change(hs, arr))
  BY GivenTop, GivenOn DEF Given
<1>2. /\ OpenOf(st) \in Seq(Elems) /\ Len(OpenOf(st)) = Len(st) /\ OpenOf(st) # <<>>
      /\ \A i \in 1..Len(st) : OpenOf(st)[i] = Elem(st[i])
  BY OpenOfGiven
<1>3. /\ Len(Change(st, f)) = Len(st)
      /\ \A i \in 1..Len(st) : Change(st, f)[i] = IF i = Len(st) THEN f ELSE st[i]
  BY <1>1, SeqChange
<1>4. /\ OpenOf(Change(st, f)) \in Seq(Elems)
      /\ Len(OpenOf(Change(st, f))) = Len(Change(st, f))
      /\ \A i \in 1..Len(Change(st, f)) : OpenOf(Change(st, f))[i] = Elem(Change(st, f)[i])
  BY <1>1, OpenOfGiven
<1>5. Elem(f) \in Elems
  <2>1. f.left \in 0..MaxU32
    BY HoldsLeft
  <2>. QED
    BY <2>1 DEF Elem, Elems
<1>6. /\ Change(OpenOf(st), Elem(f)) \in Seq(Elems)
      /\ Len(Change(OpenOf(st), Elem(f))) = Len(OpenOf(st))
      /\ \A i \in 1..Len(OpenOf(st)) :
             Change(OpenOf(st), Elem(f))[i] = IF i = Len(OpenOf(st)) THEN Elem(f)
                                              ELSE OpenOf(st)[i]
  <2>1. OpenOf(st) \in Seq(Elems) /\ OpenOf(st) # <<>>
    BY <1>2
  <2>. QED
    BY <1>5, <2>1, SeqChange
<1>7. ASSUME NEW i \in 1..Len(OpenOf(Change(st, f)))
      PROVE  OpenOf(Change(st, f))[i] = Change(OpenOf(st), Elem(f))[i]
  <2>1. i \in 1..Len(st)
    BY <1>3, <1>4
  <2>. QED
    BY <1>2, <1>3, <1>4, <1>6, <2>1
<1>. QED
  BY <1>2, <1>3, <1>4, <1>6, <1>7, SameElems

\* What HostCalls sees of arrays the Host was given.
LEMMA SeenOf ==
    ASSUME NEW st, NEW hs, Given(st, hs)
    PROVE  [i \in DOMAIN BegunOf(st) |->
               [needs |-> BegunOf(st)[i].count - Len(hs[i].items),
                template |-> BegunOf(st)[i].kind = "template"]] = OpenOf(BegunOf(st))
<1>1. st \in Seq(Frames)
  BY DEF Given
<1>2. /\ BegunOf(st) \in Seq(Frames) /\ Len(BegunOf(st)) \in Nat
      /\ \A i \in 1..Len(BegunOf(st)) : i \in 1..Len(st) /\ BegunOf(st)[i] = st[i]
  <2>1. CASE st # <<>> /\ st[Len(st)].kind = "schema"
    <3>1. /\ Lower(st) \in Seq(Frames) /\ Len(Lower(st)) = Len(st) - 1 /\ Len(st) \in Nat \ {0}
          /\ \A i \in 1..(Len(st) - 1) : Lower(st)[i] = st[i]
      BY <1>1, <2>1, SeqTop
    <3>2. \A i \in 1..(Len(st) - 1) : i \in 1..Len(st)
      BY <3>1
    <3>. QED
      BY <2>1, <3>1, <3>2 DEF BegunOf
  <2>2. CASE ~(st # <<>> /\ st[Len(st)].kind = "schema")
    BY <1>1, <2>2, LenProperties DEF BegunOf
  <2>. QED
    BY <2>1, <2>2
<1>3. DOMAIN BegunOf(st) = 1..Len(BegunOf(st))
  BY <1>2, LenProperties
<1>4. \A i \in 1..Len(st) : st[i].count - Len(hs[i].items) = st[i].left
  BY OpenOfGiven
<1>5. \A i \in 1..Len(BegunOf(st)) :
          BegunOf(st)[i].count - Len(hs[i].items) = BegunOf(st)[i].left
  BY <1>2, <1>4
<1>. QED
  BY <1>3, <1>5 DEF OpenOf, Elem

\* In a state, and in the next.
LEMMA Seen ==
    /\ HostInv => HOpen = OpenOf(BegunOf(stack))
    /\ HostInv' => HOpen' = OpenOf(BegunOf(stack'))
<1>1. Begun = BegunOf(stack) /\ Begun' = BegunOf(stack')
  BY DEF Begun, BegunOf, Below, Lower, Top
<1>2. ASSUME HostInv PROVE HOpen = OpenOf(BegunOf(stack))
  <2>1. Given(stack, arrs)
    BY <1>2 DEF HostInv
  <2>. QED
    BY <1>1, <2>1, SeenOf DEF HOpen
<1>3. ASSUME HostInv' PROVE HOpen' = OpenOf(BegunOf(stack'))
  <2>1. Given(stack', arrs')
    BY <1>3 DEF HostInv
  <2>. QED
    BY <1>1, <2>1, SeenOf DEF HOpen
<1>. QED
  BY <1>2, <1>3

\* A decoder that runs has not answered.
LEMMA RunningAnswer ==
    /\ Running => HAnswer = "none"
    /\ Running /\ UNCHANGED result => HAnswer' = HAnswer
BY DEF Running, HAnswer

\* A function that has called for a value waits for an element or a template.
LEMMA ExpectingWants ==
    ASSUME NEW f \in Frames, Expecting(f)
    PROVE  (Elem(f).template \/ Elem(f).needs > 0) /\ f.kind # "schema"
BY DEF Expecting, Elem

\* Nothing but a frame on top that is none of a key table is hidden from HostCalls.
LEMMA BegunIs ==
    ASSUME NEW st, st = <<>> \/ st[Len(st)].kind # "schema"
    PROVE  BegunOf(st) = st
BY DEF BegunOf

\* Delivering a value is receiving it.
LEMMA DeliverReceives ==
    ASSUME HostInv, HostInv', NEW st, NEW hs, Given(st, hs),
           st = <<>> \/ Expecting(st[Len(st)]), root = <<>>, NEW v, Deliver(st, hs, v)
    PROVE  Received(OpenOf(st))
<1>0. HOpen' = OpenOf(BegunOf(stack'))
  BY Seen
<1>1. CASE st = <<>>
  <2>1. stack' = <<>> /\ root' = <<v>>
    BY <1>1 DEF Deliver
  <2>2. OpenOf(<<>>) = <<>> /\ BegunOf(<<>>) = <<>>
    BY DEF OpenOf, BegunOf
  <2>. QED
    BY <1>0, <1>1, <2>1, <2>2 DEF Received, Wanted, HWhole
<1>2. CASE st # <<>>
  <2>. DEFINE f == st[Len(st)]
              g == Filled(st[Len(st)])
              b == Stored(st[Len(st)], hs[Len(hs)], v)
              open == OpenOf(st)
  <2>1. hs # <<>> /\ f \in Frames /\ Holds(f, hs[Len(hs)]) /\ st \in Seq(Frames)
    BY <1>2, GivenTop DEF Given
  <2>2. stack' = Change(st, g) /\ root' = root
    BY <1>2 DEF Deliver, Change
  <2>3. /\ g \in Frames /\ Holds(g, b) /\ g.kind # "schema" /\ f.kind # "schema"
        /\ g.left = (IF f.kind = "template" THEN f.left ELSE f.left - 1)
        /\ g.kind # "template"
    BY <1>2, <2>1, StoredHolds
  <2>4. /\ open # <<>> /\ Len(open) = Len(st) /\ open[Len(st)] = Elem(f)
    BY <1>2, OpenOfTop
  <2>5. OpenOf(Change(st, g)) = Change(open, Elem(g))
    BY <1>2, <2>3, OpenOfChange
  <2>6. Elem(g) = Calls!Served(Elem(f)) /\ (Elem(f).template \/ Elem(f).needs > 0)
    <3>1. Elem(f).template \/ Elem(f).needs > 0
      BY <1>2, <2>1, ExpectingWants
    <3>. HIDE DEF f, g
    <3>. QED
      BY <2>3, <3>1 DEF Elem, Calls!Served
  <2>7. Change(st, g)[Len(Change(st, g))] = g
    <3>1. st \in Seq(Frames) /\ g \in Frames
      BY <2>1, <2>3
    <3>. HIDE DEF g
    <3>. QED
      BY <1>2, <3>1, ChangeTop
  <2>. HIDE DEF g, f, b, open
  <2>8. HOpen' = Change(open, Elem(g))
    BY <1>0, <2>2, <2>3, <2>5, <2>7, BegunIs
  <2>9. HOpen' = [open EXCEPT ![Len(open)] = Calls!Served(@)]
    BY <2>4, <2>6, <2>8 DEF Change
  <2>10. HWhole' = HWhole
    BY <2>2 DEF HWhole
  <2>11. Received(open)
    BY <2>4, <2>6, <2>9, <2>10 DEF Received, Wanted
  <2>. QED
    BY <2>11 DEF open
<1>. QED
  BY <1>1, <1>2

\* An array, a row or a repeat for whoever was waiting.
LEMMA BeginCalls ==
    ASSUME HostInv, HostInv', Running, UNCHANGED <<root, result>>, root = <<>>,
           NEW st, NEW hs, Given(st, hs), st = <<>> \/ Expecting(st[Len(st)]),
           BegunOf(stack) = st, NEW f \in Frames, NEW arr, Holds(f, arr),
           f.kind # "schema", stack' = Plus(st, f)
    PROVE  Calls!Next
<1>1. /\ HAnswer = "none" /\ HAnswer' = HAnswer /\ HWhole' = HWhole /\ ~HWhole
  BY RunningAnswer DEF HWhole
<1>2. BegunOf(stack') = Plus(st, f)
  <2>1. st \in Seq(Frames) /\ Plus(st, f)[Len(st) + 1] = f /\ Len(Plus(st, f)) = Len(st) + 1
    <3>1. PICK s \in Seq(Frames) : s = st
      BY DEF Given
    <3>2. Plus(s, f)[Len(s) + 1] = f /\ Len(Plus(s, f)) = Len(s) + 1
      BY SeqPlus
    <3>. QED
      BY <3>1, <3>2
  <2>. QED
    BY <2>1, BegunIs
<1>3. HOpen = OpenOf(st) /\ HOpen' = Plus(OpenOf(st), Elem(f))
  BY <1>2, Seen, OpenOfPlus
<1>4. f.left \in 0..MaxU32 /\ (f.kind = "template") \in BOOLEAN
  BY HoldsLeft
<1>5. HOpen' = Append(HOpen, [needs |-> f.left, template |-> f.kind = "template"])
  BY <1>3 DEF Plus, Elem
<1>6. Wanted(HOpen)
  <2>1. CASE st = <<>>
    BY <1>1, <1>3, <2>1 DEF Wanted, OpenOf
  <2>2. CASE st # <<>>
    <3>1. /\ OpenOf(st) # <<>> /\ Len(OpenOf(st)) = Len(st)
          /\ OpenOf(st)[Len(st)] = Elem(st[Len(st)])
      BY <2>2, OpenOfTop
    <3>2. Elem(st[Len(st)]).template \/ Elem(st[Len(st)]).needs > 0
      BY <2>2, GivenTop, ExpectingWants
    <3>. QED
      BY <1>3, <3>1, <3>2 DEF Wanted
  <2>. QED
    BY <2>1, <2>2
<1>. QED
  BY <1>1, <1>4, <1>5, <1>6, CallsBeginArray

\* The same steps, as HostCalls sees them: an error,
LEMMA FailsCalls ==
    ASSUME NEW e \in Errors, NEW bytes, Running, Fail(e, bytes)
    PROVE  Calls!Next
<1>1. stack' = <<>> /\ root' = <<>> /\ result' = e /\ e \notin {"running", "ok"}
  BY DEF Fail, Errors
<1>2. HOpen' = <<>>
  <2>1. Begun' = <<>>
    BY <1>1 DEF Begun
  <2>. QED
    BY <2>1 DEF HOpen
<1>3. HAnswer' = "error" /\ HWhole' = FALSE
  BY <1>1 DEF HAnswer, HWhole
<1>. QED
  BY <1>2, <1>3, RunningAnswer, CallsAnswerError

\* a value,
LEMMA GetsCalls ==
    ASSUME HostInv, HostInv', Gets
    PROVE  Calls!Next
<1>1. PICK v : Deliver(stack, arrs, v)
  BY DEF Gets
<1>2. (stack = <<>> \/ Expecting(stack[Len(stack)])) /\ root = <<>> /\ Given(stack, arrs)
  BY DEF Gets, WantsValue, Top, HostInv
<1>3. Received(OpenOf(stack))
  BY <1>1, <1>2, DeliverReceives
<1>4. HOpen = OpenOf(stack)
  <2>1. stack # <<>> => stack[Len(stack)].kind # "schema"
    BY <1>2 DEF Expecting
  <2>. QED
    BY <2>1, Seen, BegunIs
<1>5. HAnswer = "none" /\ HAnswer' = HAnswer
  BY RunningAnswer DEF Gets, WantsValue
<1>. QED
  BY <1>3, <1>4, <1>5, CallsGive

\* an array that was entered: the key table of a rowset is no array yet,
LEMMA EntersCalls ==
    ASSUME HostInv, HostInv', Enters
    PROVE  Calls!Next \/ UNCHANGED Calls!vars
<1>1. PICK f \in NewFrames : Arrived(f)
  BY DEF Enters
<1>2. /\ stack = <<>> \/ Expecting(stack[Len(stack)])
      /\ root = <<>> /\ Given(stack, arrs) /\ Running
  BY DEF Enters, WantsValue, Top, HostInv
<1>3. BegunOf(stack) = stack
  BY <1>2, BegunIs DEF Expecting
<1>4. /\ f \in Frames /\ stack' = Plus(stack, f) /\ arrs' = Plus(arrs, EmptyArray)
      /\ UNCHANGED <<root, result>>
  BY <1>1 DEF NewFrames, Arrived, Plus
<1>5. Holds(f, EmptyArray)
  <2>1. EmptyArray \in [items : Seq({}), template : Seq({})] /\ Len(EmptyArray.items) = 0
    BY DEF EmptyArray
  <2>2. f.count \in Nat /\ f.left = f.count /\ f.count <= MaxU32 /\ f.cols <= MaxU32
    BY DEF Frames, NewFrames
  <2>. QED
    BY <2>1, <2>2 DEF Holds, IsArray
<1>6. CASE f.kind # "schema"
  BY <1>2, <1>3, <1>4, <1>5, <1>6, BeginCalls
<1>7. CASE f.kind = "schema"
  <2>0. stack \in Seq(Frames) /\ Len(stack) \in Nat
    <3>1. stack \in Seq(Frames)
      BY <1>2 DEF Given
    <3>. QED
      BY <3>1, LenProperties
  <2>1. /\ Plus(stack, f) \in Seq(Frames) /\ Len(Plus(stack, f)) = Len(stack) + 1
        /\ \A i \in 1..Len(stack) : Plus(stack, f)[i] = stack[i]
        /\ Plus(stack, f)[Len(stack) + 1] = f
    BY <1>4, <2>0, SeqPlus
  <2>2. Plus(stack, f) # <<>> /\ BegunOf(stack') = Lower(Plus(stack, f))
    BY <1>4, <1>7, <2>0, <2>1 DEF BegunOf
  <2>3. /\ Lower(Plus(stack, f)) \in Seq(Frames)
        /\ Len(Lower(Plus(stack, f))) = Len(Plus(stack, f)) - 1
        /\ \A i \in 1..(Len(Plus(stack, f)) - 1) : Lower(Plus(stack, f))[i] = Plus(stack, f)[i]
    BY <2>1, <2>2, SeqTop
  <2>4. Len(Plus(stack, f)) - 1 = Len(stack)
    BY <2>0, <2>1
  <2>5. Lower(Plus(stack, f)) = stack
    BY <2>0, <2>1, <2>3, <2>4, SeqEqual
  <2>6. HOpen' = HOpen
    BY <1>3, <2>2, <2>5, Seen
  <2>. QED
    BY <1>2, <1>4, <2>6, RunningAnswer, CallsStutter DEF HWhole
<1>. QED
  BY <1>6, <1>7

\* a row, which is an array although no tag begins it,
LEMMA EntersRowCalls ==
    ASSUME HostInv, HostInv', EntersRow
    PROVE  Calls!Next
<1>. DEFINE f == Frame("row", Top.cols, Top.keys, Top.cols)
<1>1. Arrived(f) /\ stack # <<>> /\ Top.kind = "rows" /\ Top.left > 0 /\ Running
  BY DEF EntersRow, InTop
<1>2. Top \in Frames /\ Holds(Top, TopArray) /\ Given(stack, arrs) /\ root = <<>>
  BY <1>1, GivenTop DEF HostInv, Top, TopArray
<1>3. f = [kind |-> "row", count |-> Top.cols, left |-> Top.cols, keys |-> Top.keys,
           cols |-> Top.cols]
  BY DEF Frame
<1>4. f \in Frames /\ f.left = f.count /\ f.count = Top.cols /\ f.cols = Top.cols
      /\ f.kind = "row"
  BY <1>2, <1>3 DEF Frames, Kinds
<1>5. stack' = Plus(stack, f) /\ UNCHANGED <<root, result>>
  BY <1>1 DEF Arrived, Plus
<1>6. stack[Len(stack)].kind = "rows" /\ Expecting(stack[Len(stack)])
  BY <1>1 DEF Expecting, Top
<1>7. BegunOf(stack) = stack
  BY <1>6, BegunIs
<1>. HIDE DEF f
<1>8. Holds(f, EmptyArray)
  <2>1. EmptyArray \in [items : Seq({}), template : Seq({})] /\ Len(EmptyArray.items) = 0
    BY DEF EmptyArray
  <2>2. f.count \in Nat /\ f.left = f.count /\ f.count <= MaxU32 /\ f.cols <= MaxU32
    BY <1>2, <1>4 DEF Frames, Holds
  <2>. QED
    BY <2>1, <2>2 DEF Holds, IsArray
<1>. QED
  BY <1>1, <1>2, <1>4, <1>5, <1>6, <1>7, <1>8, BeginCalls

\* An innermost frame that changes without being given anything: the arrays stay.
LEMMA OpenStays ==
    ASSUME HostInv, HostInv', stack # <<>>, NEW f \in Frames, stack' = Change(stack, f),
           f.kind = Top.kind, f.left = Top.left, f.count = Top.count, f.cols = Top.cols
    PROVE  HOpen' = HOpen
<1>1. Top \in Frames /\ Holds(Top, TopArray) /\ Given(stack, arrs) /\ stack \in Seq(Frames)
  BY GivenTop DEF HostInv, Top, TopArray, Given
<1>2. Holds(f, TopArray)
  BY <1>1 DEF Holds
<1>3. stack \in Seq(Frames)
  BY <1>1
<1>4. Change(stack, f)[Len(Change(stack, f))] = f /\ Change(stack, f) # <<>>
  BY <1>3, ChangeTop
<1>5. HOpen = OpenOf(BegunOf(stack)) /\ HOpen' = OpenOf(BegunOf(Change(stack, f)))
  BY Seen
<1>6. CASE Top.kind = "schema"
  <2>1. BegunOf(stack) = Lower(stack) /\ BegunOf(Change(stack, f)) = Lower(Change(stack, f))
    BY <1>4, <1>6 DEF BegunOf, Top
  <2>2. Lower(Change(stack, f)) = Lower(stack)
    BY <1>3, LowerChange
  <2>. QED
    BY <1>5, <2>1, <2>2
<1>7. CASE Top.kind # "schema"
  <2>1. BegunOf(stack) = stack /\ BegunOf(Change(stack, f)) = Change(stack, f)
    BY <1>4, <1>7, BegunIs DEF Top
  <2>2. OpenOf(Change(stack, f)) = Change(OpenOf(stack), Elem(f))
    BY <1>1, <1>2, OpenOfChange
  <2>3. /\ OpenOf(stack) # <<>> /\ Len(OpenOf(stack)) = Len(stack)
        /\ OpenOf(stack)[Len(stack)] = Elem(Top) /\ OpenOf(stack) \in Seq(Elems)
    BY <1>1, OpenOfTop, OpenOfGiven DEF Top
  <2>4. Elem(f) = Elem(Top)
    BY DEF Elem
  <2>5. Change(OpenOf(stack), OpenOf(stack)[Len(OpenOf(stack))]) = OpenOf(stack)
    BY <2>3, ChangeNothing
  <2>. QED
    BY <1>5, <2>1, <2>2, <2>3, <2>4, <2>5
<1>. QED
  BY <1>6, <1>7

\* so a key is nothing to HostCalls;
LEMMA GetsKeyCalls ==
    ASSUME HostInv, HostInv', GetsKey
    PROVE  UNCHANGED Calls!vars
<1>1. PICK k \in Keys : stack' = [stack EXCEPT ![Len(stack)].keys = Append(@, k)]
  BY DEF GetsKey
<1>2. stack # <<>> /\ UNCHANGED <<arrs, root, result>> /\ Running
  BY DEF GetsKey, WantsKey, InTop
<1>. DEFINE f == [Top EXCEPT !.keys = Append(@, k)]
<1>3. Top \in Frames
  BY <1>2, GivenTop DEF HostInv, Top
<1>4. f \in Frames /\ f.count = Top.count /\ f.left = Top.left /\ f.cols = Top.cols
      /\ f.kind = Top.kind
  <2>1. Append(Top.keys, k) \in Seq(Keys)
    BY <1>3, AppendProperties DEF Frames
  <2>. QED
    BY <1>3, <2>1 DEF Frames
<1>5. stack' = Change(stack, f)
  BY <1>1 DEF Change, Top
<1>. HIDE DEF f
<1>6. HOpen' = HOpen
  BY <1>2, <1>4, <1>5, OpenStays
<1>. QED
  BY <1>2, <1>6, RunningAnswer, CallsStutter DEF HWhole

\* an element without a tag, or a copy of a template;
LEMMA GetsElementCalls ==
    ASSUME HostInv, HostInv', GetsElement
    PROVE  Calls!Next
<1>1. PICK v : AddElement(v) /\ stack # <<>> /\ Top.left > 0 /\ Running
               /\ Top.kind \in {"longs", "copies"}
  BY DEF GetsElement, InTop
<1>2. /\ Top \in Frames /\ Holds(Top, TopArray) /\ Given(stack, arrs) /\ root = <<>>
      /\ stack \in Seq(Frames)
  BY <1>1, GivenTop DEF HostInv, Top, TopArray, Given
<1>. DEFINE f == [Top EXCEPT !.left = @ - 1]
            arr == [TopArray EXCEPT !.items = Append(@, v)]
<1>3. f \in Frames /\ f.left = Top.left - 1 /\ f.count = Top.count /\ f.cols = Top.cols
      /\ f.kind = Top.kind
  <2>1. Top.left - 1 \in Nat
    BY <1>1, <1>2 DEF Frames
  <2>. QED
    BY <1>2, <2>1 DEF Frames
<1>4. IsArray(arr) /\ Len(arr.items) = Len(TopArray.items) + 1
  BY <1>2, ArrayGrows DEF Holds
<1>5. stack' = Change(stack, f) /\ UNCHANGED <<root, result>>
  BY <1>1 DEF AddElement, Inside, Change, Top
<1>. HIDE DEF f, arr
<1>6. Holds(f, arr)
  <2>1. Top.left \in Nat /\ Top.count \in Nat
    BY <1>2 DEF Frames
  <2>2. (Top.count - Top.left) + 1 = Top.count - (Top.left - 1)
    BY <2>1
  <2>. QED
    BY <1>2, <1>3, <1>4, <2>2 DEF Holds
<1>7. stack[Len(stack)].kind # "schema" /\ f.kind # "schema"
  BY <1>1, <1>3 DEF Top
<1>8. BegunOf(stack) = stack
  BY <1>7, BegunIs
<1>9. BegunOf(Change(stack, f)) = Change(stack, f)
  <2>1. stack \in Seq(Frames)
    BY <1>2
  <2>2. Change(stack, f)[Len(Change(stack, f))] = f
    BY <1>1, <1>3, <2>1, ChangeTop
  <2>. QED
    BY <1>7, <2>2, BegunIs
<1>10. HOpen = OpenOf(stack) /\ HOpen' = Change(OpenOf(stack), Elem(f))
  BY <1>1, <1>2, <1>3, <1>5, <1>6, <1>8, <1>9, Seen, OpenOfChange
<1>11. /\ OpenOf(stack) # <<>> /\ Len(OpenOf(stack)) = Len(stack)
       /\ OpenOf(stack)[Len(stack)] = Elem(Top)
  BY <1>1, <1>2, OpenOfTop DEF Top
<1>12. Elem(f) = Calls!Served(Elem(Top)) /\ Elem(Top).needs > 0
  BY <1>1, <1>3 DEF Elem, Calls!Served
<1>13. HOpen' = [HOpen EXCEPT ![Len(HOpen)] = Calls!Served(@)]
  BY <1>10, <1>11, <1>12 DEF Change
<1>14. HWhole' = HWhole
  BY <1>5 DEF HWhole
<1>15. Received(HOpen)
  BY <1>10, <1>11, <1>12, <1>13, <1>14 DEF Received, Wanted
<1>. QED
  BY <1>1, <1>5, <1>15, RunningAnswer, CallsGive

\* a rowset, whose array is begun when its key table is complete;
LEMMA OpenRowsCalls ==
    ASSUME IInv, HostInv, HostInv', OpenRows
    PROVE  Calls!Next
<1>. DEFINE f == [Top EXCEPT !.kind = "rows"]
<1>1. /\ stack # <<>> /\ UNCHANGED <<arrs, root, result>> /\ stack' = Change(stack, f)
      /\ Top.kind = "schema" /\ Running
  BY DEF OpenRows, InTop, Inside, Change, Top
<1>2. /\ Top \in Frames /\ Holds(Top, TopArray) /\ Given(Lower(stack), Lower(arrs))
      /\ stack \in Seq(Frames) /\ root = <<>>
  BY <1>1, GivenTop DEF HostInv, Top, TopArray, Given
<1>3. f \in Frames /\ f.count = Top.count /\ f.left = Top.left /\ f.cols = Top.cols
      /\ f.kind = "rows"
  BY <1>2 DEF Frames, Kinds
<1>. HIDE DEF f
<1>4. Holds(f, TopArray)
  BY <1>2, <1>3 DEF Holds
<1>5. Lower(stack) = <<>> \/ Expecting(Lower(stack)[Len(Lower(stack))])
  BY <1>1, FrameLeft DEF IInv, Below, Lower
<1>6. BegunOf(stack) = Lower(stack)
  BY <1>1 DEF BegunOf, Top
<1>7. stack' = Plus(Lower(stack), f)
  BY <1>1, <1>2, <1>3, ChangeIsPlus
<1>. QED
  BY <1>1, <1>2, <1>3, <1>4, <1>5, <1>6, <1>7, BeginCalls

\* an array that is complete;
LEMMA EndArrayCalls ==
    ASSUME IInv, HostInv, HostInv', EndArray
    PROVE  Calls!Next
<1>1. PICK v : Deliver(Below, ArraysBelow, v)
  BY DEF EndArray
<1>2. /\ stack # <<>> /\ Running /\ UNCHANGED result
      /\ Top.left = 0 /\ Top.kind \notin {"schema", "template"}
  BY DEF EndArray
<1>3. Given(Lower(stack), Lower(arrs)) /\ root = <<>> /\ Given(stack, arrs)
  BY <1>2, GivenTop DEF HostInv
<1>4. Lower(stack) = <<>> \/ Expecting(Lower(stack)[Len(Lower(stack))])
  BY <1>2, FrameLeft DEF IInv, Below, Lower
<1>5. Deliver(Lower(stack), Lower(arrs), v)
  BY <1>1 DEF Below, ArraysBelow, Lower
<1>6. Received(OpenOf(Lower(stack)))
  BY <1>3, <1>4, <1>5, DeliverReceives
<1>7. /\ OpenOf(stack) # <<>> /\ Len(OpenOf(stack)) = Len(stack)
      /\ OpenOf(stack)[Len(stack)] = Elem(Top) /\ OpenOf(Lower(stack)) = Lower(OpenOf(stack))
  BY <1>2, <1>3, OpenOfTop DEF Top
<1>8. BegunOf(stack) = stack
  BY <1>2, BegunIs DEF Top
<1>9. HOpen = OpenOf(stack)
  BY <1>8, Seen
<1>10. Received(SubSeq(HOpen, 1, Len(HOpen) - 1))
  BY <1>6, <1>7, <1>9 DEF Lower
<1>11. ~Elem(Top).template /\ Elem(Top).needs = 0
  BY <1>2 DEF Elem
<1>. QED
  BY <1>2, <1>7, <1>9, <1>10, <1>11, RunningAnswer, CallsEndArray

\* the end.
LEMMA ReturnCalls ==
    ASSUME HostInv, HostInv', Return
    PROVE  Calls!Next
<1>1. Running /\ root # <<>> /\ stack = <<>>
  BY DEF Return, HostInv
<1>2. CASE Fail("Trailing", <<>>)
  <2>1. "Trailing" \in Errors
    BY DEF Errors
  <2>. QED
    BY <1>1, <1>2, <2>1, FailsCalls
<1>3. CASE result' = "ok" /\ UNCHANGED <<stack, arrs, root>>
  <2>1. Begun = <<>> /\ Begun' = <<>>
    BY <1>1, <1>3 DEF Begun
  <2>2. HOpen = <<>> /\ HOpen' = HOpen
    BY <2>1 DEF HOpen
  <2>3. HAnswer = "none" /\ HAnswer' = "value" /\ HWhole /\ HWhole' = HWhole
    BY <1>1, <1>3 DEF HAnswer, HWhole, Running
  <2>. QED
    BY <2>2, <2>3, CallsAnswerValue
<1>. QED
  BY <1>2, <1>3 DEF Return

\* All of them.
LEMMA NextCalls == IInv /\ HostInv /\ [Next]_vars => [Calls!Next]_(Calls!vars)
<1>. SUFFICES ASSUME IInv, HostInv, [Next]_vars PROVE Calls!Next \/ UNCHANGED Calls!vars
  OBVIOUS
<1>0. HostInv'
  BY HostInvNext
<1>1. CASE Fails
  BY <1>1, FailsCalls DEF Fails
<1>2. CASE Gets
  BY <1>0, <1>2, GetsCalls
<1>3. CASE Enters
  BY <1>0, <1>3, EntersCalls
<1>4. CASE EntersRow
  BY <1>0, <1>4, EntersRowCalls
<1>5. CASE GetsKey
  BY <1>0, <1>5, GetsKeyCalls
<1>6. CASE GetsElement
  BY <1>0, <1>6, GetsElementCalls
<1>7. CASE OpenRows
  BY <1>0, <1>7, OpenRowsCalls
<1>8. CASE EndArray
  BY <1>0, <1>8, EndArrayCalls
<1>9. CASE Return
  BY <1>0, <1>9, ReturnCalls
<1>10. CASE UNCHANGED vars
  <2>1. UNCHANGED <<stack, arrs, root, result>>
    BY <1>10 DEF vars
  <2>2. HOpen' = HOpen /\ HWhole' = HWhole /\ HAnswer' = HAnswer
    BY <2>1 DEF HOpen, HWhole, HAnswer, Begun, Top, Below
  <2>. QED
    BY <2>2, CallsStutter
<1>. QED
  BY <1>1, <1>2, <1>3, <1>4, <1>5, <1>6, <1>7, <1>8, <1>9, <1>10, NextMoves DEF Moves

\* The Rust decoder keeps the promise of HostCalls to whatever Host it builds a value
\* with: arrays nest, each gets exactly as many elements as begin_array was told, and
\* decode ends in one value or in an error that leaves nothing open.
THEOREM DecoderKeepsHostCalls == Spec => KeepsHostCalls
<1>1. Start => Calls!Init
  <2>. SUFFICES ASSUME Start PROVE Calls!Init
    OBVIOUS
  <2>1. stack = <<>> /\ root = <<>> /\ result \in {"running", "MaxSize"}
    BY DEF Start, Init
  <2>2. HOpen = <<>> /\ HWhole = FALSE /\ HAnswer \in {"none", "error"}
    BY <2>1 DEF HOpen, HWhole, HAnswer, Begun
  <2>. QED
    BY <2>2, CallsInit
<1>. QED
  BY <1>1, NextCalls, BothInvariant, PTL DEF Spec, KeepsHostCalls, Calls!Spec
=============================================================================
