--------------------------- MODULE DecoderCProofs ---------------------------
(***************************************************************************)
(* What holds of the C decoder for every payload, all limits and whatever  *)
(* insertion fails: it destroys what it holds on every way out, leaves     *)
(* every depth it entered, and builds arrays as HostCalls says.            *)
(***************************************************************************)
EXTENDS DecoderC, TLAPS, SequenceTheorems, FiniteSetTheorems

\* The cursor: the bytes in front of pos are known, and there are no more than len.
CursorOK ==
    /\ len \in Nat /\ pos \in Nat /\ data \in Seq(Nat)
    /\ pos <= Len(data) /\ Len(data) <= len

\* n bytes from the cursor on that the payload has.
Ahead(bytes) == bytes \in Seq(Nat) /\ pos + Len(bytes) <= len

\* A byte at a place of the payload is a number, and at a place beyond there is none.
LEMMA PeekByte ==
    ASSUME CursorOK, NEW at \in Nat \ {0}, NEW choices \in SUBSET Nat, NEW b \in Peek(at, choices)
    PROVE  b \in Nat /\ at <= len
<1>1. CASE at <= Len(data)
  <2>1. data[at] \in Nat
    BY <1>1, ElementOfSeq DEF CursorOK
  <2>. QED
    BY <1>1, <2>1 DEF Peek, CursorOK
<1>2. CASE ~(at <= Len(data))
  BY <1>2 DEF Peek, CursorOK
<1>. QED
  BY <1>1, <1>2

\* The errors of pf_read_uvarint.
VarintErrors == {"Truncated", "VarInt"}

\* pf_read_uvarint takes bytes that are there, or fails without one.
LEMMA UvarintRead ==
    ASSUME CursorOK, NEW at \in Nat \ {0}, NEW u \in ReadUvarint(at)
    PROVE  /\ u.err \in VarintErrors \cup {"none"} /\ u.val \in Nat
           /\ u.bytes \in Seq(Nat) /\ Len(u.bytes) \in Nat
           /\ at - 1 <= len => at - 1 + Len(u.bytes) <= len
           /\ u.err = "none" => Len(u.bytes) = 1
<1>1. CASE Peek(at, NumBytes) = {}
  <2>1. u = [err |-> "Truncated", val |-> 0, bytes |-> <<>>]
    BY <1>1 DEF ReadUvarint
  <2>. QED
    BY <2>1 DEF CursorOK, VarintErrors
<1>2. CASE Peek(at, NumBytes) # {}
  <2>1. PICK b \in Peek(at, NumBytes) :
            u = [err |-> IF b = Overlong THEN "VarInt" ELSE "none", val |-> b, bytes |-> <<b>>]
    BY <1>2 DEF ReadUvarint
  <2>2. b \in Nat /\ at <= len
    BY <2>1, PeekByte, InputAssumption
  <2>3. u.bytes = <<b>> /\ Len(u.bytes) = 1 /\ u.val = b
    BY <2>1
  <2>. QED
    BY <2>1, <2>2, <2>3 DEF CursorOK, VarintErrors
<1>. QED
  BY <1>1, <1>2

\* A function on 1..k is a sequence of k elements.
LEMMA FunctionIsSeq ==
    ASSUME NEW S, NEW k \in Nat, NEW f \in [1..k -> S]
    PROVE  f \in Seq(S) /\ Len(f) = k
<1>1. f \in Seq(S)
  BY SeqDef
<1>2. Len(f) \in Nat /\ DOMAIN f = 1..Len(f) /\ DOMAIN f = 1..k
  BY <1>1, LenProperties
<1>3. CASE Len(f) < k
  BY <1>2, <1>3, k \in 1..k, k \notin 1..Len(f)
<1>4. CASE Len(f) > k
  BY <1>2, <1>4, Len(f) \in 1..Len(f), Len(f) \notin 1..k
<1>. QED
  BY <1>1, <1>2, <1>3, <1>4

\* A read of n bytes returns n bytes.
LEMMA TakeBytes ==
    ASSUME CursorOK, NEW at \in Nat \ {0}, NEW n \in Nat, NEW s \in Take(at, n)
    PROVE  s \in Seq(Nat) /\ Len(s) = n
<1>. DEFINE known == SubSeq(data, at, Len(data))
<1>1. known \in Seq(Nat) /\ Len(known) \in Nat
  <2>1. \A i \in at..Len(data) : data[i] \in Nat
    BY ElementOfSeq DEF CursorOK
  <2>2. Len(data) \in Int /\ at \in Int
    BY LenProperties DEF CursorOK
  <2>. QED
    BY <2>1, <2>2, SubSeqProperties, LenProperties
<1>2. CASE n <= Len(known)
  <2>1. s = SubSeq(known, 1, n)
    BY <1>2 DEF Take
  <2>2. \A i \in 1..n : known[i] \in Nat
    BY <1>1, <1>2, ElementOfSeq
  <2>. HIDE DEF known
  <2>3. /\ SubSeq(known, 1, n) \in Seq(Nat)
        /\ Len(SubSeq(known, 1, n)) = IF 1 <= n THEN n - 1 + 1 ELSE 0
    BY <2>2, SubSeqProperties
  <2>. QED
    BY <2>1, <2>3
<1>3. CASE ~(n <= Len(known))
  <2>1. PICK rest \in [1..(n - Len(known)) -> CharBytes] : s = known \o rest
    BY <1>3 DEF Take
  <2>2. rest \in Seq(Nat) /\ Len(rest) = n - Len(known)
    <3>. DEFINE k == n - Len(known)
    <3>1. k \in Nat
      BY <1>1, <1>3
    <3>2. rest \in [1..k -> Nat]
      BY <2>1, InputAssumption
    <3>. HIDE DEF k
    <3>3. rest \in Seq(Nat) /\ Len(rest) = k
      BY <3>1, <3>2, FunctionIsSeq
    <3>. QED
      BY <3>3 DEF k
  <2>. QED
    BY <1>1, <2>1, <2>2, ConcatProperties
<1>. QED
  BY <1>2, <1>3

\* Bytes that were looked at keep the cursor in the payload, advanced or not.
LEMMA CursorStep ==
    ASSUME CursorOK, NEW bytes, Ahead(bytes), Learn(pos, bytes), len' = len,
           pos' = pos \/ pos' = pos + Len(bytes)
    PROVE  CursorOK'
<1>0. Len(bytes) \in Nat /\ len \in Nat /\ pos \in Nat /\ Len(data) \in Nat
      /\ pos <= Len(data) /\ Len(data) <= len /\ data \in Seq(Nat)
      /\ bytes \in Seq(Nat) /\ pos + Len(bytes) <= len
  BY LenProperties DEF CursorOK, Ahead
<1>1. CASE pos + Len(bytes) <= Len(data)
  BY <1>0, <1>1 DEF CursorOK, Learn
<1>2. CASE ~(pos + Len(bytes) <= Len(data))
  <2>1. data' = SubSeq(data, 1, pos) \o bytes
    BY <1>2 DEF Learn
  <2>2. \A i \in 1..pos : data[i] \in Nat
    BY <1>0, ElementOfSeq
  <2>3. SubSeq(data, 1, pos) \in Seq(Nat) /\ Len(SubSeq(data, 1, pos)) = pos
    BY <1>0, <2>2, SubSeqProperties
  <2>4. data' \in Seq(Nat) /\ Len(data') = pos + Len(bytes)
    BY <1>0, <2>1, <2>3, ConcatProperties
  <2>. QED
    BY <1>0, <2>4 DEF CursorOK
<1>. QED
  BY <1>1, <1>2

\* No byte, the tag alone, and the tag with what follows it.
LEMMA AheadBytes ==
    ASSUME CursorOK
    PROVE  /\ Ahead(<<>>)
           /\ \A b \in Nat : At <= len => Ahead(<<b>>)
           /\ \A b \in Nat, bytes \in Seq(Nat) :
                  (At + 1) - 1 + Len(bytes) <= len => Ahead(<<b>> \o bytes)
<1>1. len \in Nat /\ pos \in Nat /\ pos <= len
  BY LenProperties DEF CursorOK
<1>2. Ahead(<<>>)
  BY <1>1 DEF Ahead
<1>3. ASSUME NEW b \in Nat PROVE At <= len => Ahead(<<b>>)
  BY <1>1 DEF Ahead, At
<1>4. ASSUME NEW b \in Nat, NEW bytes \in Seq(Nat), (At + 1) - 1 + Len(bytes) <= len
      PROVE  Ahead(<<b>> \o bytes)
  <2>1. <<b>> \in Seq(Nat) /\ Len(<<b>>) = 1
    OBVIOUS
  <2>2. \A c, d \in Seq(Nat) : c \o d \in Seq(Nat) /\ Len(c \o d) = Len(c) + Len(d)
    BY ConcatProperties
  <2>3. <<b>> \o bytes \in Seq(Nat) /\ Len(<<b>> \o bytes) = 1 + Len(bytes)
    BY <2>1, <2>2
  <2>4. Len(bytes) \in Nat
    BY LenProperties
  <2>. QED
    BY <1>1, <1>4, <2>3, <2>4 DEF Ahead, At
<1>. QED
  BY <1>2, <1>3, <1>4

\* What a read at the tag of a value or a key gets to see.
LEMMA TagByte ==
    ASSUME CursorOK, NEW t \in Peek(At, TagBytes)
    PROVE  /\ t \in Nat /\ At <= len /\ At \in Nat /\ Ahead(<<t>>)
           /\ At + 1 \in Nat \ {0} /\ (At + 1) - 1 <= len
<1>1. pos \in Nat /\ len \in Nat
  BY DEF CursorOK
<1>2. At \in Nat \ {0} /\ TagBytes \in SUBSET Nat
  BY <1>1, InputAssumption DEF At
<1>3. t \in Nat /\ At <= len
  BY <1>2, PeekByte
<1>4. Ahead(<<t>>)
  BY <1>3, AheadBytes
<1>. QED
  BY <1>1, <1>2, <1>3, <1>4

\* A tag with the count or number behind it.
LEMMA TagAndNumber ==
    ASSUME CursorOK, NEW t \in Peek(At, TagBytes), NEW u \in ReadUvarint(At + 1)
    PROVE  /\ u.err \in VarintErrors \cup {"none"} /\ u.val \in Nat
           /\ Ahead(<<t>> \o u.bytes)
           /\ u.err = "none" => At + 1 <= len /\ Len(<<t>> \o u.bytes) = 2
<1>1. /\ t \in Nat /\ At + 1 \in Nat \ {0} /\ (At + 1) - 1 <= len
      /\ At \in Nat /\ len \in Nat
  BY TagByte DEF CursorOK
<1>2. /\ u.err \in VarintErrors \cup {"none"} /\ u.val \in Nat
      /\ u.bytes \in Seq(Nat) /\ (At + 1) - 1 + Len(u.bytes) <= len
      /\ u.err = "none" => Len(u.bytes) = 1
  BY <1>1, UvarintRead
<1>3. Ahead(<<t>> \o u.bytes)
  BY <1>1, <1>2, AheadBytes
<1>4. ASSUME u.err = "none" PROVE At + 1 <= len /\ Len(<<t>> \o u.bytes) = 2
  <2>1. <<t>> \in Seq(Nat) /\ Len(<<t>>) = 1
    BY <1>1
  <2>2. \A b, c \in Seq(Nat) : Len(b \o c) = Len(b) + Len(c)
    BY ConcatProperties
  <2>3. Len(<<t>> \o u.bytes) = 1 + 1
    BY <1>2, <1>4, <2>1, <2>2
  <2>4. Len(u.bytes) = 1 /\ (At + 1) - 1 + Len(u.bytes) <= len
    BY <1>2, <1>4
  <2>5. At + 1 <= len
    BY <1>1, <2>4
  <2>. QED
    BY <2>3, <2>5
<1>. QED
  BY <1>2, <1>3, <1>4
-----------------------------------------------------------------------------
(* Strings and keys.                                                         *)

Errors ==
    {"Truncated", "VarInt", "Overflow", "MaxSize", "BadStrRef", "BadKey", "UnknownTag",
     "MaxDepth", "Host", "Trailing"}

\* The string table, and what was charged for the strings that were read.
TableOK == strs \in Seq(Seq(Nat)) /\ size_used \in 0..MaxSize

\* What a read of a string returns: an error, or a string that pf_charge has let
\* pass and that is defined at most once.
ReadOK(r, at) ==
    /\ r.err \in Errors \cup {"none"}
    /\ r.bytes \in Seq(Nat) /\ at - 1 + Len(r.bytes) <= len
    /\ r.err = "none" =>
          /\ r.text \in Seq(Nat)
          /\ r.charge \in Nat /\ size_used + r.charge <= MaxSize
          /\ r.def = <<>> \/ \E s \in Seq(Nat) : r.def = <<s>>

\* An error, or a string of no bytes, after looking at bytes the payload has.
LEMMA NoReadOK ==
    ASSUME CursorOK, TableOK, NEW e \in Errors \cup {"none"}, NEW bytes \in Seq(Nat),
           NEW at, at - 1 + Len(bytes) <= len
    PROVE  ReadOK(NoRead(e, bytes), at)
<1>. DEFINE r == NoRead(e, bytes)
<1>1. r.err = e /\ r.bytes = bytes /\ r.text = <<>> /\ r.def = <<>> /\ r.charge = 0
  BY DEF NoRead
<1>. HIDE DEF r
<1>2. size_used + 0 <= MaxSize /\ <<>> \in Seq(Nat)
  BY DecoderCAssumption DEF TableOK
<1>3. ReadOK(r, at)
  BY <1>1, <1>2 DEF ReadOK
<1>. QED
  BY <1>3 DEF r

\* A string that pf_charge lets pass.
LEMMA ChargedOK ==
    ASSUME NEW r, NEW at, r.err = "none", r.bytes \in Seq(Nat), at - 1 + Len(r.bytes) <= len,
           r.text \in Seq(Nat), r.charge \in Nat, ~OverLimit(r.charge), TableOK,
           r.def = <<>> \/ \E s \in Seq(Nat) : r.def = <<s>>
    PROVE  ReadOK(r, at)
<1>1. size_used + r.charge <= MaxSize
  BY DecoderCAssumption DEF OverLimit, TableOK
<1>. QED
  BY <1>1 DEF ReadOK

\* pf_decode_string_tag, and the strings of pf_read_key.
LEMMA StringReadOK ==
    ASSUME CursorOK, TableOK, NEW at \in Nat \ {0}, at - 1 <= len,
           NEW tag \in StringTags, NEW e \in Errors, NEW r \in StringRead(at, tag, e)
    PROVE  ReadOK(r, at)
<1>0. <<>> \in Seq(Nat) /\ Len(<<>>) = 0 /\ at - 1 + 0 <= len /\ len \in Nat
  BY DEF CursorOK
<1>1. CASE r = NoRead("none", <<>>) \/ r = NoRead(e, <<>>)
  BY <1>0, <1>1, NoReadOK
<1>2. ASSUME NEW u \in ReadUvarint(at),
             NEW f \in VarintErrors \cup {"Overflow", "MaxSize", "BadStrRef"},
             r = NoRead(f, u.bytes)
      PROVE  ReadOK(r, at)
  <2>1. u.bytes \in Seq(Nat) /\ at - 1 + Len(u.bytes) <= len
    BY UvarintRead
  <2>2. f \in Errors
    BY DEF VarintErrors, Errors
  <2>. QED
    BY <1>2, <2>1, <2>2, NoReadOK
<1>3. CASE tag = TAG_STR_VARINT
  <2>1. PICK u \in ReadUvarint(at) :
            r \in IF u.err # "none" THEN {NoRead(u.err, u.bytes)}
                  ELSE IF u.val > len - at THEN {NoRead("Overflow", u.bytes)}
                  ELSE IF OverLimit(u.val) THEN {NoRead("MaxSize", u.bytes)}
                  ELSE {[err |-> "none", bytes |-> u.bytes \o s, text |-> s,
                         def |-> <<s>>, charge |-> u.val] : s \in Take(at + 1, u.val)}
    BY <1>3 DEF StringRead, TAG_STR_EMPTY, TAG_STR_VARINT, TAG_STR_REF
  <2>2. u.err \in VarintErrors \cup {"none"}
    BY UvarintRead
  <2>3. CASE u.err # "none" \/ u.val > len - at \/ OverLimit(u.val)
    BY <1>2, <2>1, <2>2, <2>3
  <2>4. CASE ~(u.err # "none" \/ u.val > len - at \/ OverLimit(u.val))
    <3>1. PICK s \in Take(at + 1, u.val) :
              r = [err |-> "none", bytes |-> u.bytes \o s, text |-> s,
                   def |-> <<s>>, charge |-> u.val]
      BY <2>1, <2>4
    <3>2. u.bytes \in Seq(Nat) /\ Len(u.bytes) = 1 /\ u.val \in Nat
      BY <2>4, UvarintRead
    <3>3. s \in Seq(Nat) /\ Len(s) = u.val
      BY <3>1, <3>2, TakeBytes
    <3>4. \A b, c \in Seq(Nat) : b \o c \in Seq(Nat) /\ Len(b \o c) = Len(b) + Len(c)
      BY ConcatProperties
    <3>5. u.bytes \o s \in Seq(Nat) /\ Len(u.bytes \o s) = 1 + u.val
      BY <3>2, <3>3, <3>4
    <3>6. at - 1 + (1 + u.val) <= len
      BY <1>0, <2>4, <3>2
    <3>7. /\ r.err = "none" /\ r.bytes = u.bytes \o s /\ r.text = s
          /\ r.def = <<s>> /\ r.charge = u.val
      BY <3>1
    <3>8. r.bytes \in Seq(Nat) /\ at - 1 + Len(r.bytes) <= len
      BY <3>5, <3>6, <3>7
    <3>. QED
      BY <2>4, <3>2, <3>3, <3>7, <3>8, ChargedOK
  <2>. QED
    BY <2>3, <2>4
<1>4. CASE tag = TAG_STR_REF
  <2>1. \/ r = NoRead(e, <<>>)
        \/ \E u \in ReadUvarint(at) :
            r = IF u.err # "none" THEN NoRead(u.err, u.bytes)
                ELSE IF u.val > MaxU32 \/ u.val >= Len(strs) THEN NoRead("BadStrRef", u.bytes)
                ELSE IF OverLimit(Len(strs[u.val + 1])) THEN NoRead("MaxSize", u.bytes)
                ELSE [err |-> "none", bytes |-> u.bytes, text |-> strs[u.val + 1],
                      def |-> <<>>, charge |-> Len(strs[u.val + 1])]
    <3>1. CASE ~strdedup
      BY <1>4, <3>1 DEF StringRead, TAG_STR_EMPTY, TAG_STR_VARINT, TAG_STR_REF
    <3>2. CASE strdedup
      <4>1. PICK u \in ReadUvarint(at) :
              r \in IF u.err # "none" THEN {NoRead(u.err, u.bytes)}
                    ELSE IF u.val > MaxU32 \/ u.val >= Len(strs)
                    THEN {NoRead("BadStrRef", u.bytes)}
                    ELSE IF OverLimit(Len(strs[u.val + 1]))
                    THEN {NoRead("MaxSize", u.bytes)}
                    ELSE {[err |-> "none", bytes |-> u.bytes, text |-> strs[u.val + 1],
                           def |-> <<>>, charge |-> Len(strs[u.val + 1])]}
        BY <1>4, <3>2 DEF StringRead, TAG_STR_EMPTY, TAG_STR_VARINT, TAG_STR_REF
      <4>. QED
        BY <4>1
    <3>. QED
      BY <3>1, <3>2
  <2>2. CASE r = NoRead(e, <<>>)
    BY <1>1, <2>2
  <2>3. CASE r # NoRead(e, <<>>)
    <3>1. PICK u \in ReadUvarint(at) :
            r = IF u.err # "none" THEN NoRead(u.err, u.bytes)
                ELSE IF u.val > MaxU32 \/ u.val >= Len(strs) THEN NoRead("BadStrRef", u.bytes)
                ELSE IF OverLimit(Len(strs[u.val + 1])) THEN NoRead("MaxSize", u.bytes)
                ELSE [err |-> "none", bytes |-> u.bytes, text |-> strs[u.val + 1],
                      def |-> <<>>, charge |-> Len(strs[u.val + 1])]
      BY <2>1, <2>3
    <3>2. /\ u.err \in VarintErrors \cup {"none"} /\ u.val \in Nat
          /\ u.bytes \in Seq(Nat) /\ at - 1 + Len(u.bytes) <= len
      BY UvarintRead
    <3>3. CASE \/ u.err # "none" \/ u.val > MaxU32 \/ u.val >= Len(strs)
               \/ OverLimit(Len(strs[u.val + 1]))
      BY <1>2, <3>1, <3>2, <3>3
    <3>4. CASE ~(\/ u.err # "none" \/ u.val > MaxU32 \/ u.val >= Len(strs)
                 \/ OverLimit(Len(strs[u.val + 1])))
      <4>1. Len(strs) \in Nat
        BY LenProperties DEF TableOK
      <4>2. u.val + 1 \in 1..Len(strs)
        BY <3>2, <3>4, <4>1
      <4>3. strs[u.val + 1] \in Seq(Nat) /\ Len(strs[u.val + 1]) \in Nat
        BY <4>2, ElementOfSeq, LenProperties DEF TableOK
      <4>4. /\ r.err = "none" /\ r.bytes = u.bytes /\ r.text = strs[u.val + 1]
            /\ r.def = <<>> /\ r.charge = Len(strs[u.val + 1])
        BY <3>1, <3>4
      <4>. QED
        BY <3>2, <3>4, <4>3, <4>4, ChargedOK
    <3>. QED
      BY <3>3, <3>4
  <2>. QED
    BY <2>2, <2>3
<1>5. CASE tag = TAG_STR_EMPTY
  BY <1>1, <1>5 DEF StringRead
<1>. QED
  BY <1>3, <1>4, <1>5 DEF StringTags

\* What was read goes to the table and is charged.
LEMMA InternOK ==
    ASSUME TableOK, NEW r, NEW at, ReadOK(r, at), r.err = "none", Intern(r)
    PROVE  TableOK'
<1>1. size_used' \in 0..MaxSize
  BY DecoderCAssumption DEF Intern, TableOK, ReadOK
<1>2. r.def \in Seq(Seq(Nat))
  <2>1. CASE r.def = <<>>
    BY <2>1
  <2>2. CASE \E s \in Seq(Nat) : r.def = <<s>>
    BY <2>2
  <2>. QED
    BY <2>1, <2>2 DEF ReadOK
<1>3. strs' \in Seq(Seq(Nat))
  BY <1>2, ConcatProperties DEF Intern, TableOK
<1>. QED
  BY <1>1, <1>3 DEF TableOK
-----------------------------------------------------------------------------
(* The call stack.                                                           *)

\* A key as zend_symtable_update takes it.
ArrayKeys == {<<"int", n>> : n \in Int} \cup {SymtableKey(s) : s \in Seq(Nat)}

Arrays == [kind : Kinds, count : 0..MaxU32, left : 0..MaxU32, keys : Seq(ArrayKeys),
           cols : 0..MaxU32]

\* No more keys are read than elements still to come; a rowset has a key for every
\* column.
FrameOK(f) ==
    /\ f.kind \in {"hash", "row"} => Len(f.keys) <= f.left
    /\ f.kind = "rows" => Len(f.keys) = f.cols

\* The function is in the middle of a call for an element, a template or a row.
Waits(f) == Expecting(f) \/ (f.kind = "rows" /\ f.left > 0)

\* Every function but the innermost is in such a call, and a row is in its rowset.
StackOK(st) ==
    /\ st \in Seq(Arrays)
    /\ \A i \in 1..Len(st) : FrameOK(st[i])
    /\ \A i \in 1..(Len(st) - 1) : Waits(st[i])
    /\ \A i \in 1..Len(st) : st[i].kind = "row" => i > 1 /\ st[i - 1].kind = "rows"

OfKind(st, kinds) == {i \in DOMAIN st : st[i].kind \in kinds}

\* The zvals and the key tables that these functions own, and those of one frame.
ZvalsOf(st) == Cardinality(OfKind(st, {"packed", "hash", "longs", "rows", "row"}))
                   + 2 * Cardinality(OfKind(st, {"copies"}))
TablesOf(st) == Cardinality(OfKind(st, {"schema", "rows"}))
Zvals(f) == IF f.kind \in {"packed", "hash", "longs", "rows", "row"} THEN 1
            ELSE IF f.kind = "copies" THEN 2 ELSE 0
Tables(f) == IF f.kind \in {"schema", "rows"} THEN 1 ELSE 0

\* One more frame is one more of its kind.
LEMMA OneMoreOfKind ==
    ASSUME NEW s \in Seq(Arrays), NEW f \in Arrays, NEW kinds
    PROVE  /\ Cardinality(OfKind(s, kinds)) \in Nat
           /\ Cardinality(OfKind(Append(s, f), kinds)) =
                 Cardinality(OfKind(s, kinds)) + (IF f.kind \in kinds THEN 1 ELSE 0)
<1>1. Len(s) \in Nat /\ DOMAIN s = 1..Len(s)
  BY LenProperties
<1>2. /\ DOMAIN Append(s, f) = 1..(Len(s) + 1)
      /\ \A k \in 1..Len(s) : Append(s, f)[k] = s[k]
      /\ Append(s, f)[Len(s) + 1] = f
  BY <1>1, AppendProperties, LenProperties
<1>3. IsFiniteSet(OfKind(s, kinds))
  <2>1. IsFiniteSet(1..Len(s))
    BY <1>1, FS_Interval
  <2>2. OfKind(s, kinds) \in SUBSET (1..Len(s))
    BY <1>1 DEF OfKind
  <2>. QED
    BY <2>1, <2>2, FS_Subset
<1>4. Len(s) + 1 \notin OfKind(s, kinds)
  BY <1>1 DEF OfKind
<1>5. CASE f.kind \in kinds
  <2>1. OfKind(Append(s, f), kinds) = OfKind(s, kinds) \cup {Len(s) + 1}
    BY <1>1, <1>2, <1>5 DEF OfKind
  <2>. QED
    BY <1>3, <1>4, <1>5, <2>1, FS_AddElement, FS_CardinalityType
<1>6. CASE f.kind \notin kinds
  <2>1. OfKind(Append(s, f), kinds) = OfKind(s, kinds)
    BY <1>1, <1>2, <1>6 DEF OfKind
  <2>. QED
    BY <1>3, <1>6, <2>1, FS_CardinalityType
<1>. QED
  BY <1>5, <1>6

\* One more frame brings what it owns.
LEMMA OwnedByAppend ==
    ASSUME NEW s \in Seq(Arrays), NEW f \in Arrays
    PROVE  /\ ZvalsOf(s) \in Nat /\ ZvalsOf(Append(s, f)) = ZvalsOf(s) + Zvals(f)
           /\ TablesOf(s) \in Nat /\ TablesOf(Append(s, f)) = TablesOf(s) + Tables(f)
<1>. DEFINE one == {"packed", "hash", "longs", "rows", "row"}
            two == {"copies"}
            table == {"schema", "rows"}
            more(kinds) == IF f.kind \in kinds THEN 1 ELSE 0
<1>1. \A kinds \in {one, two, table} :
          /\ Cardinality(OfKind(s, kinds)) \in Nat
          /\ Cardinality(OfKind(Append(s, f), kinds)) =
                Cardinality(OfKind(s, kinds)) + more(kinds)
  BY OneMoreOfKind
<1>2. Zvals(f) = more(one) + 2 * more(two) /\ Tables(f) = more(table)
  BY DEF Zvals, Tables
<1>3. more(one) \in Nat /\ more(two) \in Nat /\ more(table) \in Nat
  OBVIOUS
<1>. HIDE DEF more
<1>4. ZvalsOf(s) \in Nat /\ ZvalsOf(Append(s, f)) = ZvalsOf(s) + Zvals(f)
  <2>1. PICK a \in Nat, b \in Nat :
            /\ a = Cardinality(OfKind(s, one)) /\ b = Cardinality(OfKind(s, two))
            /\ Cardinality(OfKind(Append(s, f), one)) = a + more(one)
            /\ Cardinality(OfKind(Append(s, f), two)) = b + more(two)
    BY <1>1
  <2>2. ZvalsOf(s) = a + 2 * b
    BY <2>1 DEF ZvalsOf
  <2>3. ZvalsOf(Append(s, f)) = (a + more(one)) + 2 * (b + more(two))
    BY <2>1 DEF ZvalsOf
  <2>. QED
    BY <1>2, <1>3, <2>2, <2>3
<1>5. TablesOf(s) \in Nat /\ TablesOf(Append(s, f)) = TablesOf(s) + Tables(f)
  BY <1>1, <1>2 DEF TablesOf
<1>. QED
  BY <1>4, <1>5

\* What frames own is counted.
LEMMA OwnedType ==
    ASSUME NEW s \in Seq(Arrays)
    PROVE  ZvalsOf(s) \in Nat /\ TablesOf(s) \in Nat
<1>1. <<>> \in Seq(ArrayKeys) /\ 0 \in 0..MaxU32
  BY DecoderCAssumption
<1>2. [kind |-> "packed", count |-> 0, left |-> 0, keys |-> <<>>, cols |-> 0] \in Arrays
  BY <1>1 DEF Arrays, Kinds
<1>. QED
  BY <1>2, OwnedByAppend

\* No frame owns nothing.
LEMMA OwnedByNone == ZvalsOf(<<>>) = 0 /\ TablesOf(<<>>) = 0
<1>1. \A kinds : OfKind(<<>>, kinds) = {}
  BY DEF OfKind
<1>2. Cardinality({}) = 0
  BY FS_EmptySet
<1>3. \A kinds : Cardinality(OfKind(<<>>, kinds)) = 0
  BY <1>1, <1>2
<1>. QED
  BY <1>3 DEF ZvalsOf, TablesOf

\* A call stack is the innermost frame on top of the others, and may be replaced.
LEMMA TopAndBelow ==
    ASSUME NEW st \in Seq(Arrays), st # <<>>
    PROVE  /\ Len(st) \in Nat \ {0} /\ st[Len(st)] \in Arrays
           /\ DropTop(st) \in Seq(Arrays) /\ Len(DropTop(st)) = Len(st) - 1
           /\ \A i \in 1..(Len(st) - 1) : DropTop(st)[i] = st[i]
           /\ st = Append(DropTop(st), st[Len(st)])
           /\ \A f \in Arrays : /\ [st EXCEPT ![Len(st)] = f] = Append(DropTop(st), f)
                                /\ [st EXCEPT ![Len(st)] = f] \in Seq(Arrays)
<1>1. Len(st) \in Nat \ {0} /\ DOMAIN st = 1..Len(st)
  BY EmptySeq, LenProperties
<1>2. st[Len(st)] \in Arrays
  BY <1>1, ElementOfSeq
<1>3. \A i \in 1..(Len(st) - 1) : st[i] \in Arrays
  BY <1>1, ElementOfSeq
<1>4. /\ DropTop(st) \in Seq(Arrays)
      /\ Len(DropTop(st)) = Len(st) - 1
      /\ \A i \in 1..(Len(st) - 1) : DropTop(st)[i] = st[i]
  <2>1. /\ DropTop(st) \in Seq(Arrays)
        /\ Len(DropTop(st)) = IF 1 <= Len(st) - 1 THEN (Len(st) - 1) - 1 + 1 ELSE 0
        /\ \A i \in 1..((Len(st) - 1) - 1 + 1) : DropTop(st)[i] = st[1 + i - 1]
    BY <1>1, <1>3, SubSeqProperties DEF DropTop
  <2>2. \A m \in Nat \ {0} : m - 1 = IF 1 <= m - 1 THEN (m - 1) - 1 + 1 ELSE 0
    OBVIOUS
  <2>3. Len(DropTop(st)) = Len(st) - 1
    BY <1>1, <2>1, <2>2
  <2>4. ASSUME NEW i \in 1..(Len(st) - 1) PROVE DropTop(st)[i] = st[i]
    <3>1. i \in 1..((Len(st) - 1) - 1 + 1) /\ 1 + i - 1 = i
      BY <1>1
    <3>. QED
      BY <2>1, <3>1
  <2>. QED
    BY <2>1, <2>3, <2>4
<1>5. ASSUME NEW f \in Arrays
      PROVE  /\ [st EXCEPT ![Len(st)] = f] = Append(DropTop(st), f)
             /\ [st EXCEPT ![Len(st)] = f] \in Seq(Arrays)
  <2>. DEFINE a == [st EXCEPT ![Len(st)] = f]
              b == Append(DropTop(st), f)
  <2>1. /\ a \in Seq(Arrays) /\ Len(a) = Len(st)
        /\ \A j \in 1..Len(st) : a[j] = IF j = Len(st) THEN f ELSE st[j]
    BY <1>1, ExceptSeq
  <2>2. /\ b \in Seq(Arrays) /\ Len(b) = Len(DropTop(st)) + 1
        /\ \A j \in 1..Len(DropTop(st)) : b[j] = DropTop(st)[j]
        /\ b[Len(DropTop(st)) + 1] = f
    BY <1>4, AppendProperties
  <2>. HIDE DEF a, b
  <2>3. Len(b) = Len(a) /\ Len(DropTop(st)) + 1 = Len(st)
    <3>1. \A m \in Nat \ {0} : (m - 1) + 1 = m
      OBVIOUS
    <3>2. Len(DropTop(st)) + 1 = Len(st)
      BY <1>1, <1>4, <3>1
    <3>. QED
      BY <2>1, <2>2, <3>2
  <2>4. ASSUME NEW j \in 1..Len(a) PROVE a[j] = b[j]
    <3>1. CASE j = Len(st)
      BY <2>1, <2>2, <2>3, <3>1
    <3>2. CASE j # Len(st)
      <4>1. \A m \in Nat : \A i \in 1..m : i # m => i \in 1..(m - 1)
        OBVIOUS
      <4>2. j \in 1..(Len(st) - 1) /\ j \in 1..Len(st)
        BY <1>1, <2>1, <3>2, <4>1
      <4>. QED
        BY <1>4, <2>1, <2>2, <3>2, <4>2
    <3>. QED
      BY <3>1, <3>2
  <2>5. a = b
    BY <2>1, <2>2, <2>3, <2>4, SeqEqual
  <2>. QED
    BY <2>1, <2>5 DEF a, b
<1>6. st = Append(DropTop(st), st[Len(st)])
  <2>1. [st EXCEPT ![Len(st)] = st[Len(st)]] = st
    BY <1>1
  <2>. QED
    BY <1>2, <1>5, <2>1
<1>. QED
  BY <1>1, <1>2, <1>4, <1>5, <1>6

\* An array is entered, inside one that is waiting for it.
LEMMA FrameAdded ==
    ASSUME NEW st, StackOK(st), st = <<>> \/ Waits(st[Len(st)]),
           NEW f \in Arrays, FrameOK(f),
           f.kind = "row" => st # <<>> /\ st[Len(st)].kind = "rows"
    PROVE  /\ StackOK(Append(st, f)) /\ Len(Append(st, f)) = Len(st) + 1
           /\ ZvalsOf(Append(st, f)) = ZvalsOf(st) + Zvals(f)
           /\ TablesOf(Append(st, f)) = TablesOf(st) + Tables(f)
<1>1. st \in Seq(Arrays) /\ Len(st) \in Nat
  BY LenProperties DEF StackOK
<1>. DEFINE after == Append(st, f)
<1>2. /\ after \in Seq(Arrays) /\ Len(after) = Len(st) + 1
      /\ \A i \in 1..Len(st) : after[i] = st[i]
      /\ after[Len(st) + 1] = f
  BY <1>1, AppendProperties
<1>. HIDE DEF after
<1>3. \A i \in 1..Len(after) : FrameOK(after[i])
  BY <1>1, <1>2 DEF StackOK
<1>4. \A i \in 1..Len(st) : Waits(st[i])
  <2>1. ASSUME NEW i \in 1..Len(st) PROVE Waits(st[i])
    <3>1. CASE i = Len(st)
      BY <1>1, <3>1, EmptySeq
    <3>2. CASE i # Len(st)
      BY <1>1, <3>2 DEF StackOK
    <3>. QED
      BY <3>1, <3>2
  <2>. QED
    BY <2>1
<1>5. \A i \in 1..(Len(after) - 1) : Waits(after[i])
  BY <1>1, <1>2, <1>4
<1>6. ASSUME NEW i \in 1..Len(after), after[i].kind = "row"
      PROVE  i > 1 /\ after[i - 1].kind = "rows"
  <2>1. CASE i \in 1..Len(st)
    <3>1. i > 1 /\ st[i - 1].kind = "rows"
      BY <1>2, <1>6, <2>1 DEF StackOK
    <3>. QED
      BY <1>1, <1>2, <2>1, <3>1
  <2>2. CASE i = Len(st) + 1
    BY <1>1, <1>2, <1>6, <2>2, EmptySeq
  <2>. QED
    BY <1>1, <1>2, <2>1, <2>2
<1>7. StackOK(after)
  BY <1>2, <1>3, <1>5, <1>6 DEF StackOK
<1>. QED
  BY <1>1, <1>2, <1>7, OwnedByAppend DEF after

\* The innermost frame has gone on.
LEMMA FrameReplaced ==
    ASSUME NEW st, StackOK(st), st # <<>>, NEW f \in Arrays, FrameOK(f),
           f.kind = "row" => st[Len(st)].kind = "row"
    PROVE  LET after == [st EXCEPT ![Len(st)] = f]
               top == st[Len(st)]
           IN  /\ StackOK(after) /\ Len(after) = Len(st)
               /\ ZvalsOf(after) = ZvalsOf(st) - Zvals(top) + Zvals(f)
               /\ TablesOf(after) = TablesOf(st) - Tables(top) + Tables(f)
<1>. DEFINE after == [st EXCEPT ![Len(st)] = f]
            top == st[Len(st)]
            below == DropTop(st)
<1>1. st \in Seq(Arrays)
  BY DEF StackOK
<1>2. /\ Len(st) \in Nat \ {0} /\ top \in Arrays /\ below \in Seq(Arrays)
      /\ st = Append(below, top) /\ after = Append(below, f)
  BY <1>1, TopAndBelow
<1>3. /\ after \in Seq(Arrays) /\ Len(after) = Len(st)
      /\ \A j \in 1..Len(st) : after[j] = IF j = Len(st) THEN f ELSE st[j]
  BY <1>1, <1>2, ExceptSeq
<1>4. /\ ZvalsOf(below) \in Nat /\ TablesOf(below) \in Nat
      /\ ZvalsOf(st) = ZvalsOf(below) + Zvals(top) /\ ZvalsOf(after) = ZvalsOf(below) + Zvals(f)
      /\ TablesOf(st) = TablesOf(below) + Tables(top)
      /\ TablesOf(after) = TablesOf(below) + Tables(f)
  BY <1>2, OwnedByAppend
<1>. HIDE DEF after, top, below
<1>5. /\ Zvals(f) \in Nat /\ Zvals(top) \in Nat /\ Tables(f) \in Nat /\ Tables(top) \in Nat
  BY DEF Zvals, Tables
<1>6. \A i \in 1..Len(after) : FrameOK(after[i])
  BY <1>2, <1>3 DEF StackOK
<1>7. \A i \in 1..(Len(after) - 1) : Waits(after[i])
  BY <1>2, <1>3 DEF StackOK
<1>8. ASSUME NEW i \in 1..Len(after), after[i].kind = "row"
      PROVE  i > 1 /\ after[i - 1].kind = "rows"
  <2>1. st[i].kind = "row"
    BY <1>3, <1>8 DEF top
  <2>2. i > 1 /\ st[i - 1].kind = "rows"
    BY <1>3, <2>1 DEF StackOK
  <2>3. i - 1 \in 1..Len(st) /\ i - 1 # Len(st)
    BY <1>2, <1>3, <2>2
  <2>. QED
    BY <1>3, <2>2, <2>3
<1>9. StackOK(after)
  BY <1>3, <1>6, <1>7, <1>8 DEF StackOK
<1>10. /\ StackOK(after) /\ Len(after) = Len(st)
       /\ ZvalsOf(after) = ZvalsOf(st) - Zvals(top) + Zvals(f)
       /\ TablesOf(after) = TablesOf(st) - Tables(top) + Tables(f)
  BY <1>3, <1>4, <1>5, <1>9
<1>. QED
  BY <1>10 DEF after, top

\* An array is left for the one that is waiting for it.
LEMMA FrameLeft ==
    ASSUME NEW st, StackOK(st), st # <<>>
    PROVE  LET below == DropTop(st)
               top == st[Len(st)]
           IN  /\ StackOK(below) /\ Len(below) = Len(st) - 1 /\ Len(below) \in Nat
               /\ below = <<>> \/ Waits(below[Len(below)])
               /\ top.kind = "row" => below # <<>> /\ below[Len(below)].kind = "rows"
               /\ ZvalsOf(below) \in Nat /\ ZvalsOf(st) = ZvalsOf(below) + Zvals(top)
               /\ TablesOf(below) \in Nat /\ TablesOf(st) = TablesOf(below) + Tables(top)
<1>. DEFINE below == DropTop(st)
            top == st[Len(st)]
<1>1. st \in Seq(Arrays)
  BY DEF StackOK
<1>2. /\ Len(st) \in Nat \ {0} /\ top \in Arrays /\ below \in Seq(Arrays)
      /\ Len(below) = Len(st) - 1 /\ st = Append(below, top)
      /\ \A i \in 1..(Len(st) - 1) : below[i] = st[i]
  BY <1>1, TopAndBelow
<1>3. /\ ZvalsOf(below) \in Nat /\ ZvalsOf(st) = ZvalsOf(below) + Zvals(top)
      /\ TablesOf(below) \in Nat /\ TablesOf(st) = TablesOf(below) + Tables(top)
  BY <1>2, OwnedByAppend
<1>. HIDE DEF below
<1>4. Len(below) \in Nat /\ below # <<>> => Len(below) \in 1..Len(below)
  BY <1>2, EmptySeq
<1>5. StackOK(below)
  <2>1. \A i \in 1..Len(below) : i \in 1..Len(st) /\ i \in 1..(Len(st) - 1)
    BY <1>2
  <2>2. \A i \in 1..(Len(below) - 1) : i \in 1..(Len(st) - 1)
    BY <1>2
  <2>3. \A i \in 1..Len(below) : FrameOK(below[i])
    BY <1>2, <2>1 DEF StackOK
  <2>4. \A i \in 1..(Len(below) - 1) : Waits(below[i])
    BY <1>2, <2>2 DEF StackOK
  <2>5. ASSUME NEW i \in 1..Len(below), below[i].kind = "row"
        PROVE  i > 1 /\ below[i - 1].kind = "rows"
    <3>1. i > 1 /\ st[i - 1].kind = "rows"
      BY <1>2, <2>1, <2>5 DEF StackOK
    <3>2. i - 1 \in 1..(Len(st) - 1)
      BY <1>2, <3>1
    <3>. QED
      BY <1>2, <3>1, <3>2
  <2>. QED
    BY <1>2, <2>3, <2>4, <2>5 DEF StackOK
<1>6. ASSUME below # <<>> PROVE Waits(below[Len(below)])
  BY <1>2, <1>4, <1>6 DEF StackOK
<1>7. ASSUME top.kind = "row" PROVE below # <<>> /\ below[Len(below)].kind = "rows"
  <2>1. Len(st) \in 1..Len(st)
    BY <1>2
  <2>2. Len(st) > 1 /\ st[Len(st) - 1].kind = "rows"
    BY <1>7, <2>1 DEF StackOK
  <2>3. Len(below) \in 1..(Len(st) - 1)
    BY <1>2, <2>2
  <2>. QED
    BY <1>2, <2>2, <2>3, EmptySeq
<1>8. Len(below) \in Nat
  BY <1>2
<1>. QED
  BY <1>2, <1>3, <1>5, <1>6, <1>7, <1>8 DEF below

\* Two frames are gone if the innermost two are dropped one after the other.
LEMMA DropTwo ==
    ASSUME NEW st \in Seq(Arrays), Len(st) > 1
    PROVE  SubSeq(st, 1, Len(st) - 2) = DropTop(DropTop(st))
<1>. DEFINE one == DropTop(st)
            two == DropTop(one)
            cut == SubSeq(st, 1, Len(st) - 2)
<1>1. Len(st) \in Nat /\ st # <<>>
  BY LenProperties
<1>2. /\ one \in Seq(Arrays) /\ Len(one) = Len(st) - 1
      /\ \A i \in 1..(Len(st) - 1) : one[i] = st[i]
  BY <1>1, TopAndBelow
<1>. HIDE DEF one
<1>3. one # <<>>
  BY <1>1, <1>2
<1>4. /\ two \in Seq(Arrays) /\ Len(two) = Len(one) - 1
      /\ \A i \in 1..(Len(one) - 1) : two[i] = one[i]
  BY <1>2, <1>3, TopAndBelow
<1>5. \A i \in 1..(Len(st) - 2) : st[i] \in Arrays
  BY <1>1, ElementOfSeq
<1>6. /\ cut \in Seq(Arrays)
      /\ Len(cut) = IF 1 <= Len(st) - 2 THEN (Len(st) - 2) - 1 + 1 ELSE 0
      /\ \A i \in 1..((Len(st) - 2) - 1 + 1) : cut[i] = st[1 + i - 1]
  BY <1>1, <1>5, SubSeqProperties
<1>. HIDE DEF two, cut
<1>7. Len(cut) = Len(st) - 2
  <2>1. \A m \in Nat : m > 1 => m - 2 = IF 1 <= m - 2 THEN (m - 2) - 1 + 1 ELSE 0
    OBVIOUS
  <2>. QED
    BY <1>1, <1>6, <2>1
<1>8. ASSUME NEW i \in 1..Len(cut) PROVE cut[i] = two[i]
  <2>1. /\ i \in 1..((Len(st) - 2) - 1 + 1) /\ 1 + i - 1 = i
        /\ i \in 1..(Len(st) - 1) /\ i \in 1..(Len(one) - 1)
    BY <1>1, <1>2, <1>7
  <2>. QED
    BY <1>2, <1>4, <1>6, <2>1
<1>9. Len(two) = Len(cut)
  BY <1>1, <1>2, <1>4, <1>7
<1>10. cut = two
  BY <1>4, <1>6, <1>8, <1>9, SeqEqual
<1>. QED
  BY <1>10 DEF one, two, cut

\* The outs of n functions.
OutsOK(os, n) == (\E S : os \in Seq(S)) /\ Len(os) = n

\* They come and go and change one at a time.
LEMMA OutsChange ==
    ASSUME NEW os, NEW n \in Nat, OutsOK(os, n), NEW x, NEW k \in 1..n
    PROVE  OutsOK([os EXCEPT ![k] = x], n)
<1>1. PICK S : os \in Seq(S)
  BY DEF OutsOK
<1>2. /\ os \in [1..n -> S \cup {x}]
  BY <1>1, LenProperties, ElementOfSeq DEF OutsOK
<1>3. [os EXCEPT ![k] = x] \in [1..n -> S \cup {x}]
  BY <1>2
<1>4. [os EXCEPT ![k] = x] \in Seq(S \cup {x}) /\ Len([os EXCEPT ![k] = x]) = n
  BY <1>3, FunctionIsSeq
<1>. QED
  BY <1>4 DEF OutsOK

\* A handle more, for a value more.
LEMMA OutsAdded ==
    ASSUME NEW os, NEW n \in Nat, OutsOK(os, n), NEW x
    PROVE  OutsOK(Append(os, x), n + 1)
<1>1. PICK S : os \in Seq(S)
  BY DEF OutsOK
<1>2. os \in [1..n -> S \cup {x}]
  BY <1>1, LenProperties, ElementOfSeq DEF OutsOK
<1>3. os \in Seq(S \cup {x})
  BY <1>2, FunctionIsSeq
<1>4. Append(os, x) \in Seq(S \cup {x}) /\ Len(Append(os, x)) = Len(os) + 1
  BY <1>3, AppendProperties
<1>. QED
  BY <1>4 DEF OutsOK

\* A handle less, for a value that was handed on.
LEMMA OutsLeft ==
    ASSUME NEW os, NEW n \in Nat, OutsOK(os, n), NEW k \in 0..n
    PROVE  OutsOK(SubSeq(os, 1, k), k)
<1>1. PICK S : os \in Seq(S)
  BY DEF OutsOK
<1>2. \A i \in 1..k : os[i] \in S
  BY <1>1, ElementOfSeq DEF OutsOK
<1>3. /\ SubSeq(os, 1, k) \in Seq(S)
      /\ Len(SubSeq(os, 1, k)) = IF 1 <= k THEN k - 1 + 1 ELSE 0
  BY <1>2, SubSeqProperties
<1>4. Len(SubSeq(os, 1, k)) = k
  <2>1. k = IF 1 <= k THEN k - 1 + 1 ELSE 0
    OBVIOUS
  <2>. QED
    BY <1>3, <2>1
<1>. QED
  BY <1>3, <1>4 DEF OutsOK
-----------------------------------------------------------------------------
(* The inductive invariant.                                                  *)

IInv ==
    /\ CursorOK /\ TableOK
    /\ StackOK(frames) /\ OutsOK(outs, Len(frames))
    /\ root = <<>> \/ (frames = <<>> /\ \E v : root = <<v>>)
    /\ err \in Errors \cup {"none"} /\ result \in Errors \cup {"running", "ok"}
    /\ DepthIsNesting
    /\ owned = ZvalsOf(frames) + Len(root) /\ keytabs = TablesOf(frames)
    /\ result # "running" => frames = <<>> /\ strs = <<>> /\ (result = "ok" <=> root # <<>>)

\* A function called pf_c_decode has called nothing yet.
LEMMA NothingOpen == StackOK(<<>>) /\ OutsOK(<<>>, 0)
<1>1. <<>> \in Seq(Arrays) /\ Len(<<>>) = 0
  OBVIOUS
<1>. QED
  BY <1>1 DEF StackOK, OutsOK

\* IInv holds of a decoder that was given its payload.
LEMMA InitIInv == Start => IInv
<1>. SUFFICES ASSUME Start PROVE IInv
  OBVIOUS
<1>1. len \in Nat /\ data = <<>> /\ pos = 0
  BY InputAssumption DEF Start, InitInput, Init
<1>2. CursorOK
  BY <1>1 DEF CursorOK
<1>3. TableOK
  BY DecoderCAssumption DEF Start, Init, TableOK
<1>4. /\ frames = <<>> /\ outs = <<>> /\ root = <<>> /\ strs = <<>> /\ depth = 0
      /\ owned = 0 /\ keytabs = 0 /\ err = "none" /\ result \in {"running", "MaxSize"}
      /\ Len(frames) = 0 /\ Len(root) = 0
  BY DEF Start, Init
<1>. QED
  BY <1>2, <1>3, <1>4, NothingOpen, OwnedByNone, DecoderCAssumption
     DEF IInv, DepthIsNesting, Errors

\* An error is raised: only what was looked at changes.
LEMMA RaiseIInv ==
    ASSUME IInv, NEW e \in Errors, NEW bytes, Ahead(bytes), Raise(e, bytes)
    PROVE  IInv'
<1>1. CursorOK'
  BY CursorStep DEF IInv, Raise
<1>2. /\ TableOK' /\ DepthIsNesting' /\ StackOK(frames')
  BY DEF IInv, Raise, TableOK, DepthIsNesting
<1>. QED
  BY <1>1, <1>2 DEF IInv, Raise

\* The frame of a function that has got the value it called for.
Filled(f) ==
    CASE f.kind = "template" -> [f EXCEPT !.kind = "copies"]
      [] f.kind \in {"hash", "row"} -> [f EXCEPT !.left = @ - 1, !.keys = Tail(@)]
      [] f.kind \in {"packed", "rows"} -> [f EXCEPT !.left = @ - 1]

\* It is a frame still, and a template needs two zvals from then on.
LEMMA FilledOK ==
    ASSUME NEW f \in Arrays, FrameOK(f), Waits(f)
    PROVE  /\ Filled(f) \in Arrays /\ FrameOK(Filled(f))
           /\ Filled(f).kind = "row" => f.kind = "row"
           /\ Zvals(Filled(f)) = Zvals(f) + (IF f.kind = "template" THEN 2 ELSE 0)
           /\ Tables(Filled(f)) = Tables(f)
<1>0. f.left \in 0..MaxU32 /\ f.keys \in Seq(ArrayKeys) /\ MaxU32 \in Nat
  BY DecoderCAssumption DEF Arrays
<1>1. CASE f.kind = "template"
  <2>1. Filled(f) = [f EXCEPT !.kind = "copies"]
    BY <1>1 DEF Filled
  <2>. QED
    BY <1>1, <2>1 DEF Arrays, Kinds, FrameOK, Zvals, Tables
<1>2. CASE f.kind \in {"hash", "row"}
  <2>1. f.keys # <<>> /\ Len(f.keys) <= f.left
    BY <1>2 DEF Waits, Expecting, FrameOK
  <2>2. Tail(f.keys) \in Seq(ArrayKeys) /\ Len(Tail(f.keys)) = Len(f.keys) - 1
    BY <1>0, <2>1, HeadTailProperties
  <2>3. Len(f.keys) \in Nat \ {0}
    BY <1>0, <2>1, EmptySeq
  <2>4. f.left - 1 \in 0..MaxU32 /\ Len(f.keys) - 1 <= f.left - 1
    BY <1>0, <2>1, <2>3
  <2>5. Filled(f) = [f EXCEPT !.left = @ - 1, !.keys = Tail(@)]
    BY <1>2 DEF Filled
  <2>6. /\ Filled(f) \in Arrays /\ Filled(f).kind = f.kind
        /\ Filled(f).keys = Tail(f.keys) /\ Filled(f).left = f.left - 1
    BY <2>2, <2>4, <2>5 DEF Arrays
  <2>. QED
    BY <1>2, <2>2, <2>4, <2>6 DEF FrameOK, Zvals, Tables
<1>3. CASE f.kind \in {"packed", "rows"}
  <2>1. f.left > 0
    BY <1>3 DEF Waits, Expecting
  <2>2. f.left - 1 \in 0..MaxU32
    BY <1>0, <2>1
  <2>3. Filled(f) = [f EXCEPT !.left = @ - 1]
    BY <1>3 DEF Filled
  <2>4. /\ Filled(f) \in Arrays /\ Filled(f).kind = f.kind
        /\ Filled(f).keys = f.keys /\ Filled(f).cols = f.cols
    BY <2>2, <2>3 DEF Arrays
  <2>. QED
    BY <1>3, <2>4 DEF FrameOK, Zvals, Tables
<1>. QED
  BY <1>1, <1>2, <1>3 DEF Waits, Expecting

\* What Store makes of the frames.
LEMMA StoreFills ==
    ASSUME NEW fs, NEW os, NEW v, NEW o, fs # <<>>, fs \in Seq(Arrays),
           Waits(fs[Len(fs)]), Store(fs, os, v, o)
    PROVE  /\ frames' = [fs EXCEPT ![Len(fs)] = Filled(fs[Len(fs)])]
           /\ \E x : outs' = [os EXCEPT ![Len(fs)] = x]
           /\ owned' = (IF fs[Len(fs)].kind = "template" THEN o + 1 ELSE o - 1)
           /\ root' = root
<1>. DEFINE n == Len(fs)
            f == fs[n]
<1>0. n \in Nat /\ n \in 1..n /\ DOMAIN fs = 1..n /\ f \in Arrays
  BY EmptySeq, LenProperties, ElementOfSeq
<1>1. CASE f.kind = "template"
  <2>1. /\ frames' = [fs EXCEPT ![n] = [f EXCEPT !.kind = "copies"]]
        /\ outs' = [os EXCEPT ![n] = [os[n] EXCEPT !.template = <<v>>]]
        /\ owned' = o + 1 /\ root' = root
    BY <1>1 DEF Store
  <2>. QED
    BY <1>1, <2>1 DEF Filled
<1>2. CASE f.kind \in {"hash", "row"}
  <2>1. /\ frames' = [fs EXCEPT ![n].left = @ - 1, ![n].keys = Tail(@)]
        /\ outs' = [os EXCEPT ![n] = [os[n] EXCEPT !.items = Update(@, Head(f.keys), v)]]
        /\ owned' = o - 1 /\ root' = root
    BY <1>2 DEF Store
  <2>2. [fs EXCEPT ![n].left = @ - 1, ![n].keys = Tail(@)]
            = [fs EXCEPT ![n] = [f EXCEPT !.left = @ - 1, !.keys = Tail(@)]]
    BY <1>0 DEF Arrays
  <2>. QED
    BY <1>2, <2>1, <2>2 DEF Filled
<1>3. CASE f.kind \in {"packed", "rows"}
  <2>1. /\ frames' = [fs EXCEPT ![n] = [f EXCEPT !.left = @ - 1]]
        /\ outs' = [os EXCEPT ![n] = [os[n] EXCEPT !.items = Append(@, v)]]
        /\ owned' = o - 1 /\ root' = root
    BY <1>3 DEF Store
  <2>. QED
    BY <1>3, <2>1 DEF Filled
<1>. QED
  BY <1>1, <1>2, <1>3 DEF Waits, Expecting

\* A value goes to the caller, which owns it from then on.
LEMMA StoreOK ==
    ASSUME NEW fs, NEW os, NEW v, NEW o, root = <<>>, StackOK(fs), OutsOK(os, Len(fs)),
           fs = <<>> \/ Waits(fs[Len(fs)]), o = ZvalsOf(fs) + 1, Store(fs, os, v, o)
    PROVE  /\ StackOK(frames') /\ OutsOK(outs', Len(frames')) /\ Len(frames') = Len(fs)
           /\ root' = <<>> \/ (frames' = <<>> /\ root' = <<v>>)
           /\ owned' = ZvalsOf(frames') + Len(root') /\ TablesOf(frames') = TablesOf(fs)
<1>1. fs \in Seq(Arrays) /\ Len(fs) \in Nat
  BY LenProperties DEF StackOK
<1>2. CASE fs = <<>>
  <2>1. /\ frames' = <<>> /\ outs' = <<>> /\ root' = <<v>> /\ owned' = o
        /\ Len(<<>>) = 0 /\ Len(<<v>>) = 1
    BY <1>2 DEF Store
  <2>. QED
    BY <1>2, <2>1, NothingOpen, OwnedByNone
<1>3. CASE fs # <<>>
  <2>. DEFINE f == fs[Len(fs)]
  <2>1. f \in Arrays /\ FrameOK(f) /\ Waits(f) /\ Len(fs) \in 1..Len(fs)
    BY <1>1, <1>3, EmptySeq, ElementOfSeq DEF StackOK
  <2>2. /\ frames' = [fs EXCEPT ![Len(fs)] = Filled(f)]
        /\ \E x : outs' = [os EXCEPT ![Len(fs)] = x]
        /\ owned' = (IF f.kind = "template" THEN o + 1 ELSE o - 1)
        /\ root' = root
    BY <1>1, <1>3, <2>1, StoreFills
  <2>3. /\ Filled(f) \in Arrays /\ FrameOK(Filled(f))
        /\ Filled(f).kind = "row" => f.kind = "row"
        /\ Zvals(Filled(f)) = Zvals(f) + (IF f.kind = "template" THEN 2 ELSE 0)
        /\ Tables(Filled(f)) = Tables(f)
    BY <2>1, FilledOK
  <2>4. /\ StackOK(frames') /\ Len(frames') = Len(fs)
        /\ ZvalsOf(frames') = ZvalsOf(fs) - Zvals(f) + Zvals(Filled(f))
        /\ TablesOf(frames') = TablesOf(fs) - Tables(f) + Tables(Filled(f))
    BY <1>3, <2>1, <2>2, <2>3, FrameReplaced
  <2>5. OutsOK(outs', Len(frames'))
    <3>1. PICK x : outs' = [os EXCEPT ![Len(fs)] = x]
      BY <2>2
    <3>2. OutsOK([os EXCEPT ![Len(fs)] = x], Len(fs))
      BY <1>1, <2>1, OutsChange
    <3>. QED
      BY <2>4, <3>1, <3>2
  <2>6. /\ ZvalsOf(fs) \in Nat /\ TablesOf(fs) \in Nat
        /\ Zvals(f) \in Nat /\ Tables(f) \in Nat
    BY <1>1, <2>1, OwnedByAppend DEF Zvals, Tables
  <2>7. Len(root') = 0
    BY <2>2
  <2>. HIDE DEF f
  <2>. QED
    BY <2>2, <2>3, <2>4, <2>5, <2>6, <2>7
<1>. QED
  BY <1>2, <1>3

\* In a decoder that runs, no root is there while a function is waiting for a value.
LEMMA Waiting ==
    ASSUME IInv, WantsValue
    PROVE  /\ root = <<>> /\ (frames = <<>> \/ Waits(frames[Len(frames)]))
           /\ err = "none" /\ result = "running"
BY DEF IInv, WantsValue, Running, Waits, Top

\* A scalar goes to the function that was waiting for a value.
LEMMA ValueIInv ==
    ASSUME IInv, WantsValue, NEW v, Store(frames, outs, v, owned + 1), CursorOK', TableOK',
           UNCHANGED <<depth, keytabs, err, result>>
    PROVE  IInv'
<1>1. /\ root = <<>> /\ (frames = <<>> \/ Waits(frames[Len(frames)]))
      /\ err = "none" /\ result = "running" /\ Len(root) = 0
  BY Waiting
<1>2. owned + 1 = ZvalsOf(frames) + 1
  BY <1>1, OwnedType DEF IInv, StackOK
<1>3. /\ StackOK(frames') /\ OutsOK(outs', Len(frames')) /\ Len(frames') = Len(frames)
      /\ root' = <<>> \/ (frames' = <<>> /\ root' = <<v>>)
      /\ owned' = ZvalsOf(frames') + Len(root') /\ TablesOf(frames') = TablesOf(frames)
  BY <1>1, <1>2, StoreOK DEF IInv
<1>4. DepthIsNesting'
  BY <1>3 DEF IInv, DepthIsNesting
<1>. QED
  BY <1>1, <1>3, <1>4 DEF IInv

\* A function passes pf_enter and initialises what it owns.
LEMMA EnteredIInv ==
    ASSUME IInv, Running, root = <<>>, frames = <<>> \/ Waits(Top), depth < MaxDepth,
           NEW f \in Arrays, FrameOK(f), f.kind = "row" => frames # <<>> /\ Top.kind = "rows",
           frames' = Append(frames, f), outs' = Append(outs, NoOut), depth' = depth + 1,
           owned' = owned + Zvals(f), keytabs' = keytabs + Tables(f),
           CursorOK', TableOK', UNCHANGED <<root, err, result>>
    PROVE  IInv'
<1>1. /\ StackOK(frames') /\ Len(frames') = Len(frames) + 1
      /\ ZvalsOf(frames') = ZvalsOf(frames) + Zvals(f)
      /\ TablesOf(frames') = TablesOf(frames) + Tables(f)
  BY FrameAdded DEF IInv, Top
<1>2. frames \in Seq(Arrays) /\ Len(frames) \in Nat
  BY LenProperties DEF IInv, StackOK
<1>3. OutsOK(outs', Len(frames'))
  BY <1>1, <1>2, OutsAdded DEF IInv
<1>4. ZvalsOf(frames) \in Nat /\ TablesOf(frames) \in Nat /\ Zvals(f) \in Nat
  BY <1>2, OwnedByAppend DEF Zvals
<1>5. owned' = ZvalsOf(frames') + Len(root') /\ keytabs' = TablesOf(frames')
  <2>1. Len(root) = 0
    OBVIOUS
  <2>. QED
    BY <1>1, <1>4, <2>1 DEF IInv
<1>6. DepthIsNesting'
  BY <1>1, <1>2, DecoderCAssumption DEF IInv, DepthIsNesting
<1>7. result = "running"
  BY DEF Running
<1>. QED
  BY <1>1, <1>3, <1>5, <1>6, <1>7 DEF IInv

\* The innermost function goes on.
LEMMA GoesOnIInv ==
    ASSUME IInv, Running, frames # <<>>,
           NEW f \in Arrays, FrameOK(f), f.kind = "row" => Top.kind = "row",
           frames' = [frames EXCEPT ![Len(frames)] = f], OutsOK(outs', Len(frames)),
           owned' = owned - Zvals(Top) + Zvals(f), Tables(f) = Tables(Top),
           CursorOK', TableOK', UNCHANGED <<root, depth, keytabs, err, result>>
    PROVE  IInv'
<1>1. /\ StackOK(frames') /\ Len(frames') = Len(frames)
      /\ ZvalsOf(frames') = ZvalsOf(frames) - Zvals(Top) + Zvals(f)
      /\ TablesOf(frames') = TablesOf(frames) - Tables(Top) + Tables(f)
  BY FrameReplaced DEF IInv, Top
<1>2. /\ ZvalsOf(frames) \in Nat /\ TablesOf(frames) \in Nat
      /\ Zvals(Top) \in Nat /\ Zvals(f) \in Nat /\ Tables(f) \in Nat
  BY OwnedByAppend DEF IInv, StackOK, Zvals, Tables
<1>3. root = <<>> /\ Len(root) = 0 /\ result = "running"
  BY DEF IInv, Running
<1>4. owned' = ZvalsOf(frames') + Len(root') /\ keytabs' = TablesOf(frames')
  BY <1>1, <1>2, <1>3 DEF IInv
<1>5. DepthIsNesting'
  BY <1>1 DEF IInv, DepthIsNesting
<1>. QED
  BY <1>1, <1>3, <1>4, <1>5 DEF IInv

\* Bytes that were there are consumed.
LEMMA Advanced ==
    ASSUME IInv, NEW bytes, Ahead(bytes), Advance(bytes), len' = len
    PROVE  CursorOK'
BY CursorStep DEF IInv, Advance

\* The cursor and the table may stay as they are.
LEMMA NothingRead ==
    ASSUME IInv, UNCHANGED <<len, data, pos, strs, size_used>>
    PROVE  CursorOK' /\ TableOK'
BY DEF IInv, CursorOK, TableOK
-----------------------------------------------------------------------------
(* One lemma for each action.                                                *)

\* A value without a string, delivered to whoever called for it, keeps IInv.
LEMMA ScalarIInv ==
    ASSUME IInv, WantsValue, NEW bytes, Ahead(bytes), NEW v, Scalar(bytes, v)
    PROVE  IInv'
<1>1. CursorOK' /\ TableOK'
  BY Advanced DEF Scalar, IInv, TableOK
<1>. QED
  BY <1>1, ValueIInv DEF Scalar

\* Null, booleans, integers and doubles.
LEMMA DecodeScalarIInv == IInv /\ DecodeScalar => IInv'
<1>. SUFFICES ASSUME IInv, DecodeScalar PROVE IInv'
  OBVIOUS
<1>0. CursorOK /\ WantsValue
  BY DEF IInv, DecodeScalar
<1>1. CASE Raise("Truncated", <<>>)
  BY <1>0, <1>1, AheadBytes, RaiseIInv DEF Errors
<1>2. ASSUME NEW t \in Peek(At, TagBytes),
             \/ Raise("UnknownTag", <<t>>) \/ Scalar(<<t>>, <<"null">>)
             \/ Scalar(<<t>>, <<"bool", FALSE>>) \/ Scalar(<<t>>, <<"bool", TRUE>>)
      PROVE  IInv'
  <2>1. Ahead(<<t>>)
    BY <1>0, TagByte
  <2>. QED
    BY <1>0, <1>2, <2>1, RaiseIInv, ScalarIInv DEF Errors
<1>3. ASSUME NEW t \in Peek(At, TagBytes), NEW u \in ReadUvarint(At + 1),
             IF u.err # "none" THEN Raise(u.err, <<t>> \o u.bytes)
             ELSE Scalar(<<t>> \o u.bytes, <<"int", ZigzagDecode(u.val)>>)
      PROVE  IInv'
  <2>1. u.err \in VarintErrors \cup {"none"} /\ Ahead(<<t>> \o u.bytes)
    BY <1>0, TagAndNumber
  <2>. QED
    BY <1>0, <1>3, <2>1, RaiseIInv, ScalarIInv DEF Errors, VarintErrors
<1>4. ASSUME NEW t \in Peek(At, TagBytes),
             IF len - At < DoubleWidth THEN Raise("Truncated", <<t>>)
             ELSE \E raw \in Take(At + 1, DoubleWidth) : Scalar(<<t>> \o raw, <<"double", raw>>)
      PROVE  IInv'
  <2>1. /\ Ahead(<<t>>) /\ t \in Nat /\ At + 1 \in Nat \ {0} /\ At \in Nat /\ len \in Nat
    BY <1>0, TagByte DEF CursorOK
  <2>2. CASE len - At < DoubleWidth
    BY <1>4, <2>1, <2>2, RaiseIInv DEF Errors
  <2>3. CASE ~(len - At < DoubleWidth)
    <3>1. PICK raw \in Take(At + 1, DoubleWidth) : Scalar(<<t>> \o raw, <<"double", raw>>)
      BY <1>4, <2>3
    <3>2. raw \in Seq(Nat) /\ Len(raw) = DoubleWidth
      BY <1>0, <2>1, TakeBytes, DecoderCAssumption
    <3>3. (At + 1) - 1 + Len(raw) <= len
      BY <2>1, <2>3, <3>2, DecoderCAssumption
    <3>4. Ahead(<<t>> \o raw)
      BY <1>0, <2>1, <3>2, <3>3, AheadBytes
    <3>. QED
      BY <1>0, <3>1, <3>4, ScalarIInv
  <2>. QED
    BY <2>2, <2>3
<1>. QED
  BY <1>1, <1>2, <1>3, <1>4 DEF DecodeScalar

\* The tag of a string or a key, and what was read behind it.
LEMMA TagAndString ==
    ASSUME IInv, NEW t \in Peek(At, TagBytes), t \in StringTags, NEW e \in Errors,
           NEW r \in StringRead(At + 1, t, e)
    PROVE  ReadOK(r, At + 1) /\ Ahead(<<t>> \o r.bytes)
<1>1. /\ CursorOK /\ TableOK /\ t \in Nat /\ At + 1 \in Nat \ {0} /\ (At + 1) - 1 <= len
  BY TagByte DEF IInv
<1>2. ReadOK(r, At + 1)
  BY <1>1, StringReadOK
<1>3. Ahead(<<t>> \o r.bytes)
  BY <1>1, <1>2, AheadBytes DEF ReadOK
<1>. QED
  BY <1>2, <1>3

\* A string, defined or referred to.
LEMMA DecodeStringIInv == IInv /\ DecodeString => IInv'
<1>. SUFFICES ASSUME IInv, DecodeString PROVE IInv'
  OBVIOUS
<1>1. PICK t \in Peek(At, TagBytes) \cap StringTags :
        \E r \in StringRead(At + 1, t, "UnknownTag") :
           IF r.err # "none" THEN Raise(r.err, <<t>> \o r.bytes)
           ELSE /\ Advance(<<t>> \o r.bytes)
                /\ Intern(r)
                /\ Store(frames, outs, <<"str", r.text>>, owned + 1)
                /\ UNCHANGED <<len, strdedup, depth, keytabs, err, result>>
  BY DEF DecodeString
<1>2. PICK r \in StringRead(At + 1, t, "UnknownTag") :
           IF r.err # "none" THEN Raise(r.err, <<t>> \o r.bytes)
           ELSE /\ Advance(<<t>> \o r.bytes)
                /\ Intern(r)
                /\ Store(frames, outs, <<"str", r.text>>, owned + 1)
                /\ UNCHANGED <<len, strdedup, depth, keytabs, err, result>>
  BY <1>1
<1>3. ReadOK(r, At + 1) /\ Ahead(<<t>> \o r.bytes) /\ WantsValue
  BY <1>1, <1>2, TagAndString DEF DecodeString, Errors
<1>4. CASE r.err # "none"
  BY <1>2, <1>3, <1>4, RaiseIInv DEF ReadOK
<1>5. CASE r.err = "none"
  <2>1. CursorOK' /\ TableOK'
    BY <1>2, <1>3, <1>5, Advanced, InternOK DEF IInv
  <2>. QED
    BY <1>2, <1>3, <1>5, <2>1, ValueIInv
<1>. QED
  BY <1>4, <1>5

\* A key joins those of the innermost array.
LEMMA KeyTaken ==
    ASSUME IInv, NEW key \in ArrayKeys,
           \/ InTop("hash") /\ Top.left > 0 /\ Top.keys = <<>>
           \/ InTop("schema") /\ Len(Top.keys) < Top.cols,
           frames' = [frames EXCEPT ![Len(frames)].keys = Append(@, key)],
           CursorOK', TableOK',
           UNCHANGED <<outs, root, depth, owned, keytabs, err, result>>
    PROVE  IInv'
<1>. DEFINE f == [Top EXCEPT !.keys = Append(@, key)]
<1>1. /\ frames \in Seq(Arrays) /\ frames # <<>> /\ Running
      /\ Top.kind \in {"hash", "schema"}
  BY DEF IInv, StackOK, InTop
<1>2. Top \in Arrays /\ Len(frames) \in Nat \ {0} /\ MaxU32 \in Nat
  BY <1>1, TopAndBelow, DecoderCAssumption DEF Top
<1>3. /\ Append(Top.keys, key) \in Seq(ArrayKeys)
      /\ Len(Append(Top.keys, key)) = Len(Top.keys) + 1
  BY <1>2, AppendProperties DEF Arrays
<1>4. /\ f \in Arrays /\ f.kind = Top.kind /\ f.left = Top.left
      /\ Len(f.keys) = Len(Top.keys) + 1
  BY <1>2, <1>3 DEF Arrays
<1>5. FrameOK(f)
  <2>1. CASE Top.kind = "hash"
    <3>1. Top.left > 0 /\ Len(Top.keys) = 0 /\ Top.left \in Nat
      BY <1>2, <2>1 DEF InTop, Arrays
    <3>. QED
      BY <1>4, <2>1, <3>1 DEF FrameOK
  <2>2. CASE Top.kind = "schema"
    BY <1>4, <2>2 DEF FrameOK
  <2>. QED
    BY <1>1, <2>1, <2>2
<1>6. frames' = [frames EXCEPT ![Len(frames)] = f]
  BY DEF Top
<1>7. Zvals(f) = Zvals(Top) /\ Tables(f) = Tables(Top)
  BY <1>4 DEF Zvals, Tables
<1>8. owned = owned - Zvals(Top) + Zvals(f)
  <2>1. owned \in Nat /\ Zvals(Top) \in Nat
    BY <1>1, OwnedType DEF IInv, Running, Zvals
  <2>. QED
    BY <1>7, <2>1
<1>. HIDE DEF f
<1>. QED
  BY <1>1, <1>4, <1>5, <1>6, <1>7, <1>8, GoesOnIInv DEF IInv

\* A key of a hash, or one more of a key table, which owns its strings.
LEMMA TakeKeyIInv == IInv /\ TakeKey => IInv'
<1>. SUFFICES ASSUME IInv, TakeKey PROVE IInv'
  OBVIOUS
<1>0. CursorOK
  BY DEF IInv
<1>1. CASE Raise("Truncated", <<>>)
  BY <1>0, <1>1, AheadBytes, RaiseIInv DEF Errors
<1>2. ASSUME NEW t \in Peek(At, TagBytes), Raise("BadKey", <<t>>)
      PROVE  IInv'
  BY <1>0, <1>2, TagByte, RaiseIInv DEF Errors
<1>3. ASSUME NEW t \in Peek(At, TagBytes) \cap KeyTags,
             NEW r \in IF t = TAG_VARINT THEN ReadUvarint(At + 1)
                       ELSE StringRead(At + 1, t, "BadKey"),
             IF r.err # "none" THEN Raise(r.err, <<t>> \o r.bytes)
             ELSE /\ Advance(<<t>> \o r.bytes)
                  /\ IF t = TAG_VARINT THEN UNCHANGED <<strs, size_used>> ELSE Intern(r)
                  /\ frames' = [frames EXCEPT ![Len(frames)].keys =
                         Append(@, IF t = TAG_VARINT THEN <<"int", ZigzagDecode(r.val)>>
                                   ELSE SymtableKey(r.text))]
                  /\ UNCHANGED <<len, strdedup, outs, root, depth, owned, keytabs, err, result>>
      PROVE  IInv'
  <2>. DEFINE key == IF t = TAG_VARINT THEN <<"int", ZigzagDecode(r.val)>>
                     ELSE SymtableKey(r.text)
  <2>1. /\ r.err \in Errors \cup {"none"} /\ Ahead(<<t>> \o r.bytes)
        /\ r.err = "none" => key \in ArrayKeys
        /\ t # TAG_VARINT => ReadOK(r, At + 1)
    <3>1. CASE t = TAG_VARINT
      <4>1. /\ r.err \in VarintErrors \cup {"none"} /\ r.val \in Nat
            /\ Ahead(<<t>> \o r.bytes)
        BY <1>0, <1>3, <3>1, TagAndNumber
      <4>2. ZigzagDecode(r.val) \in Int
        BY <4>1 DEF ZigzagDecode
      <4>. QED
        BY <3>1, <4>1, <4>2 DEF VarintErrors, Errors, ArrayKeys
    <3>2. CASE t # TAG_VARINT
      <4>1. t \in StringTags
        BY <1>3, <3>2 DEF KeyTags, StringTags
      <4>2. ReadOK(r, At + 1) /\ Ahead(<<t>> \o r.bytes)
        BY <1>3, <3>2, <4>1, TagAndString DEF Errors
      <4>. QED
        BY <3>2, <4>2 DEF ReadOK, ArrayKeys
    <3>. QED
      BY <3>1, <3>2
  <2>2. CASE r.err # "none"
    BY <1>3, <2>1, <2>2, RaiseIInv
  <2>3. CASE r.err = "none"
    <3>1. /\ Advance(<<t>> \o r.bytes)
          /\ IF t = TAG_VARINT THEN UNCHANGED <<strs, size_used>> ELSE Intern(r)
          /\ frames' = [frames EXCEPT ![Len(frames)].keys = Append(@, key)]
          /\ UNCHANGED <<len, strdedup, outs, root, depth, owned, keytabs, err, result>>
      BY <1>3, <2>3
    <3>2. CursorOK'
      BY <2>1, <3>1, Advanced
    <3>3. TableOK'
      BY <2>1, <2>3, <3>1, InternOK DEF IInv, TableOK
    <3>4. key \in ArrayKeys
      BY <2>1, <2>3
    <3>. HIDE DEF key
    <3>. QED
      BY <3>1, <3>2, <3>3, <3>4, KeyTaken DEF TakeKey
  <2>. QED
    BY <2>1, <2>2, <2>3
<1>. QED
  BY <1>1, <1>2, <1>3 DEF TakeKey

\* One of the array tags, its counts checked or not.
LEMMA EnterIInv ==
    ASSUME IInv, WantsValue, NEW e \in Errors \cup {"none"},
           NEW kind \in {"packed", "hash", "longs", "template", "schema"},
           NEW count, NEW cols,
           e = "none" => count \in 0..MaxU32 /\ cols \in 0..MaxU32,
           NEW bytes, Ahead(bytes),
           NEW zvals, zvals = (IF kind \in {"packed", "hash", "longs"} THEN 1 ELSE 0),
           NEW tables, tables = (IF kind = "schema" THEN 1 ELSE 0),
           Enter(e, kind, count, cols, bytes, zvals, tables)
    PROVE  IInv'
<1>1. CASE ThenEnter(e) # "none"
  <2>1. ThenEnter(e) \in Errors
    BY <1>1 DEF ThenEnter, Errors
  <2>. QED
    BY <1>1, <2>1, RaiseIInv DEF Enter
<1>2. CASE ThenEnter(e) = "none"
  <2>. DEFINE f == [kind |-> kind, count |-> count, left |-> count, keys |-> <<>>, cols |-> cols]
  <2>1. e = "none" /\ ~(depth >= MaxDepth)
    BY <1>2 DEF ThenEnter
  <2>2. <<>> \in Seq(ArrayKeys) /\ Len(<<>>) = 0
    OBVIOUS
  <2>3. f \in Arrays /\ FrameOK(f)
    BY <2>1, <2>2, DecoderCAssumption DEF Arrays, Kinds, FrameOK
  <2>4. Zvals(f) = zvals /\ Tables(f) = tables /\ f.kind # "row"
    BY DEF Zvals, Tables
  <2>5. /\ Advance(bytes) /\ frames' = Append(frames, f)
        /\ outs' = Append(outs, NoOut) /\ depth' = depth + 1
        /\ owned' = owned + zvals /\ keytabs' = keytabs + tables
        /\ UNCHANGED <<len, strdedup, root, strs, size_used, err, result>>
    BY <1>2 DEF Enter
  <2>6. CursorOK' /\ TableOK'
    BY <2>5, Advanced DEF IInv, TableOK
  <2>7. depth < MaxDepth
    <3>1. depth \in Nat
      BY LenProperties DEF IInv, DepthIsNesting, StackOK
    <3>. QED
      BY <2>1, <3>1, DecoderCAssumption
  <2>8. Running /\ root = <<>> /\ (frames = <<>> \/ Waits(Top))
    BY Waiting DEF Running, Top
  <2>. HIDE DEF f
  <2>. QED
    BY <2>3, <2>4, <2>5, <2>6, <2>7, <2>8, EnteredIInv
<1>. QED
  BY <1>1, <1>2

\* The checks of the counts let nothing pass that a frame cannot hold.
LEMMA CountsChecked ==
    ASSUME NEW u, u.err \in VarintErrors \cup {"none"}, u.val \in Nat,
           NEW c, c.err \in VarintErrors \cup {"none"}, c.val \in Nat,
           NEW rest \in Int
    PROVE  /\ \A n \in Nat : /\ CountError(u, n, rest) \in Errors \cup {"none"}
                             /\ CountError(u, n, rest) = "none" => u.val \in 0..MaxU32
           /\ RepeatError(u, rest) \in Errors \cup {"none"}
           /\ RepeatError(u, rest) = "none" => u.val \in 0..MaxU32
           /\ RowsError(u, c, rest) \in Errors \cup {"none"}
           /\ RowsError(u, c, rest) = "none" =>
                 u.val \in 0..MaxU32 /\ c.val \in 0..MaxU32
<1>1. u.val \in Nat /\ c.val \in Nat /\ MaxU32 \in Nat
  BY DecoderCAssumption
<1>2. ASSUME NEW n \in Nat
      PROVE  /\ CountError(u, n, rest) \in Errors \cup {"none"}
             /\ CountError(u, n, rest) = "none" => u.val \in 0..MaxU32
  BY <1>1 DEF CountError, Errors, VarintErrors
<1>3. /\ RepeatError(u, rest) \in Errors \cup {"none"}
      /\ RepeatError(u, rest) = "none" => u.val \in 0..MaxU32
  BY <1>1 DEF RepeatError, Errors, VarintErrors
<1>4. /\ RowsError(u, c, rest) \in Errors \cup {"none"}
      /\ RowsError(u, c, rest) = "none" => u.val \in 0..MaxU32 /\ c.val \in 0..MaxU32
  BY <1>1 DEF RowsError, Errors, VarintErrors
<1>. QED
  BY <1>2, <1>3, <1>4

\* Every array tag: the count is checked, a zval is initialized, the depth goes up.
LEMMA BeginArrayIInv == IInv /\ BeginArray => IInv'
<1>. SUFFICES ASSUME IInv, BeginArray PROVE IInv'
  OBVIOUS
<1>0. WantsValue /\ CursorOK
  BY DEF BeginArray, IInv
<1>1. PICK t \in Peek(At, TagBytes) :
        \E u \in IF t \in TAG_ARRAY_PACKED..TAG_ARRAY_REPEAT THEN ReadUvarint(At + 1) ELSE {} :
         LET bytes == <<t>> \o u.bytes
             rest == len - At - 1
         IN  \/ Enter(CountError(u, 1, rest), "packed", u.val, 0, bytes, 1, 0)
             \/ Enter(CountError(u, 2, rest), "hash", u.val, 0, bytes, 1, 0)
             \/ Enter(CountError(u, 1, rest), "longs", u.val, 0, bytes, 1, 0)
             \/ Enter(RepeatError(u, rest), "template", u.val, 0, bytes, 0, 0)
             \/ \E c \in IF u.err = "none" THEN ReadUvarint(At + 2) ELSE {u} :
                     Enter(RowsError(u, c, rest - 1), "schema", u.val, c.val,
                           IF u.err = "none" THEN bytes \o c.bytes ELSE bytes, 0, 1)
  BY DEF BeginArray
<1>2. PICK u \in ReadUvarint(At + 1) :
         LET bytes == <<t>> \o u.bytes
             rest == len - At - 1
         IN  \/ Enter(CountError(u, 1, rest), "packed", u.val, 0, bytes, 1, 0)
             \/ Enter(CountError(u, 2, rest), "hash", u.val, 0, bytes, 1, 0)
             \/ Enter(CountError(u, 1, rest), "longs", u.val, 0, bytes, 1, 0)
             \/ Enter(RepeatError(u, rest), "template", u.val, 0, bytes, 0, 0)
             \/ \E c \in IF u.err = "none" THEN ReadUvarint(At + 2) ELSE {u} :
                     Enter(RowsError(u, c, rest - 1), "schema", u.val, c.val,
                           IF u.err = "none" THEN bytes \o c.bytes ELSE bytes, 0, 1)
  BY <1>1
<1>. DEFINE bytes == <<t>> \o u.bytes
            rest == len - At - 1
<1>3. /\ u.err \in VarintErrors \cup {"none"} /\ u.val \in Nat /\ Ahead(bytes)
      /\ u.err = "none" => At + 1 <= len /\ Len(bytes) = 2
  BY <1>0, TagAndNumber
<1>4. At \in Nat /\ len \in Nat /\ pos \in Nat /\ rest \in Int /\ rest - 1 \in Int
  BY <1>0 DEF CursorOK, At
<1>5. 0 \in 0..MaxU32
  BY DecoderCAssumption
<1>. HIDE DEF bytes, rest
<1>6. CASE Enter(CountError(u, 1, rest), "packed", u.val, 0, bytes, 1, 0)
  BY <1>0, <1>3, <1>4, <1>5, <1>6, CountsChecked, EnterIInv
<1>7. CASE Enter(CountError(u, 2, rest), "hash", u.val, 0, bytes, 1, 0)
  BY <1>0, <1>3, <1>4, <1>5, <1>7, CountsChecked, EnterIInv
<1>8. CASE Enter(CountError(u, 1, rest), "longs", u.val, 0, bytes, 1, 0)
  BY <1>0, <1>3, <1>4, <1>5, <1>8, CountsChecked, EnterIInv
<1>9. CASE Enter(RepeatError(u, rest), "template", u.val, 0, bytes, 0, 0)
  BY <1>0, <1>3, <1>4, <1>5, <1>9, CountsChecked, EnterIInv
<1>10. ASSUME NEW c \in IF u.err = "none" THEN ReadUvarint(At + 2) ELSE {u},
              Enter(RowsError(u, c, rest - 1), "schema", u.val, c.val,
                    IF u.err = "none" THEN bytes \o c.bytes ELSE bytes, 0, 1)
       PROVE  IInv'
  <2>1. CASE u.err # "none"
    <3>1. c = u /\ Enter(RowsError(u, u, rest - 1), "schema", u.val, u.val, bytes, 0, 1)
      BY <1>10, <2>1
    <3>. QED
      BY <1>0, <1>3, <1>4, <3>1, CountsChecked, EnterIInv
  <2>2. CASE u.err = "none"
    <3>1. c \in ReadUvarint(At + 2) /\ At + 2 \in Nat \ {0} /\ (At + 2) - 1 <= len
      BY <1>3, <1>4, <1>10, <2>2
    <3>2. /\ c.err \in VarintErrors \cup {"none"} /\ c.val \in Nat
          /\ c.bytes \in Seq(Nat) /\ Len(c.bytes) \in Nat
          /\ (At + 2) - 1 + Len(c.bytes) <= len
      BY <1>0, <3>1, UvarintRead
    <3>3. bytes \in Seq(Nat) /\ Len(bytes) = 2
      BY <1>3, <2>2 DEF Ahead
    <3>4. \A a, b \in Seq(Nat) : a \o b \in Seq(Nat) /\ Len(a \o b) = Len(a) + Len(b)
      BY ConcatProperties
    <3>5. bytes \o c.bytes \in Seq(Nat) /\ Len(bytes \o c.bytes) = 2 + Len(c.bytes)
      BY <3>2, <3>3, <3>4
    <3>6. pos + (2 + Len(c.bytes)) <= len
      <4>1. \A k \in Nat : ((pos + 1) + 2) - 1 + k = pos + (2 + k)
        BY <1>4
      <4>. QED
        BY <3>2, <4>1 DEF At
    <3>7. Ahead(bytes \o c.bytes)
      BY <3>5, <3>6 DEF Ahead
    <3>8. Enter(RowsError(u, c, rest - 1), "schema", u.val, c.val, bytes \o c.bytes, 0, 1)
      BY <1>10, <2>2
    <3>. QED
      BY <1>0, <1>3, <1>4, <3>2, <3>7, <3>8, CountsChecked, EnterIInv
  <2>. QED
    BY <2>1, <2>2
<1>. QED
  BY <1>2, <1>6, <1>7, <1>8, <1>9, <1>10 DEF bytes, rest

\* The innermost frame of a decoder that runs, and what is known of it.
LEMMA TopOK ==
    ASSUME IInv, Running, frames # <<>>
    PROVE  /\ frames \in Seq(Arrays) /\ Len(frames) \in Nat \ {0}
           /\ Top \in Arrays /\ FrameOK(Top) /\ MaxU32 \in Nat
           /\ owned \in Nat /\ Zvals(Top) \in Nat /\ root = <<>>
           /\ OutsOK(outs, Len(frames))
<1>1. frames \in Seq(Arrays)
  BY DEF IInv, StackOK
<1>2. Len(frames) \in Nat \ {0} /\ Len(frames) \in 1..Len(frames) /\ Top \in Arrays
  BY <1>1, TopAndBelow DEF Top
<1>3. FrameOK(Top)
  BY <1>2 DEF IInv, StackOK, Top
<1>4. owned \in Nat
  BY <1>1, OwnedType DEF IInv
<1>. QED
  BY <1>1, <1>2, <1>3, <1>4, DecoderCAssumption DEF IInv, Zvals

\* The key table of a rowset is complete.
LEMMA OpenRowsIInv == IInv /\ OpenRows => IInv'
<1>. SUFFICES ASSUME IInv, OpenRows PROVE IInv'
  OBVIOUS
<1>. DEFINE f == [Top EXCEPT !.kind = "rows"]
<1>1. /\ Running /\ frames # <<>> /\ Top.kind = "schema" /\ Len(Top.keys) = Top.cols
      /\ frames' = [frames EXCEPT ![Len(frames)] = f]
      /\ owned' = owned + 1 /\ UNCHANGED <<Settled, data, pos, outs, depth, keytabs>>
  BY DEF OpenRows, InTop, Top
<1>2. Top \in Arrays /\ owned \in Nat /\ OutsOK(outs, Len(frames))
  BY <1>1, TopOK
<1>3. f \in Arrays /\ f.kind = "rows" /\ f.keys = Top.keys /\ f.cols = Top.cols
  BY <1>2 DEF Arrays, Kinds
<1>4. FrameOK(f) /\ Zvals(Top) = 0 /\ Zvals(f) = 1 /\ Tables(f) = Tables(Top)
  BY <1>1, <1>3 DEF FrameOK, Zvals, Tables
<1>5. owned' = owned - Zvals(Top) + Zvals(f)
  BY <1>1, <1>2, <1>4
<1>6. CursorOK' /\ TableOK'
  BY <1>1, NothingRead DEF Settled
<1>. HIDE DEF f
<1>. QED
  BY <1>1, <1>2, <1>3, <1>4, <1>5, <1>6, GoesOnIInv DEF Settled

\* The frame of a row has its keys from the rowset.
LEMMA RowFrame ==
    ASSUME NEW t \in Arrays, NEW f,
           f = [t EXCEPT !.kind = "row", !.count = t.cols, !.left = t.cols]
    PROVE  /\ f \in Arrays /\ f.kind = "row" /\ f.keys = t.keys /\ f.left = t.cols
           /\ t.cols \in Nat
<1>1. /\ t.cols \in 0..MaxU32 /\ t.cols \in Nat
      /\ f.kind = "row" /\ f.keys = t.keys /\ f.left = t.cols
  BY DecoderCAssumption DEF Arrays
<1>. DEFINE g == [t EXCEPT !.kind = "row"]
            h == [g EXCEPT !.count = t.cols]
<1>2. g \in Arrays
  BY DEF Arrays, Kinds
<1>. HIDE DEF g
<1>3. h \in Arrays
  BY <1>1, <1>2 DEF Arrays
<1>. HIDE DEF h
<1>4. [h EXCEPT !.left = t.cols] \in Arrays
  BY <1>1, <1>3 DEF Arrays
<1>. QED
  BY <1>1, <1>4 DEF g, h

\* A row is begun, with a zval of its own.
LEMMA BeginRowIInv == IInv /\ BeginRow => IInv'
<1>. SUFFICES ASSUME IInv, BeginRow PROVE IInv'
  OBVIOUS
<1>1. Running /\ frames # <<>> /\ Top.kind = "rows" /\ Top.left > 0 /\ CursorOK
  BY DEF BeginRow, InTop, IInv
<1>2. CASE depth >= MaxDepth
  BY <1>1, <1>2, AheadBytes, RaiseIInv DEF BeginRow, Errors
<1>3. CASE ~(depth >= MaxDepth)
  <2>1. PICK f : f = [Top EXCEPT !.kind = "row", !.count = Top.cols, !.left = Top.cols]
    OBVIOUS
  <2>2. /\ frames' = Append(frames, f) /\ outs' = Append(outs, NoOut)
        /\ depth' = depth + 1 /\ owned' = owned + 1
        /\ UNCHANGED <<Settled, data, pos, keytabs>>
    BY <1>3, <2>1 DEF BeginRow
  <2>3. /\ Top \in Arrays /\ FrameOK(Top) /\ root = <<>> /\ MaxU32 \in Nat
        /\ f \in Arrays /\ f.kind = "row" /\ f.keys = Top.keys /\ f.left = Top.cols
        /\ Top.cols \in Nat
    BY <1>1, <2>1, TopOK, RowFrame
  <2>4. FrameOK(f) /\ Zvals(f) = 1 /\ Tables(f) = 0
    BY <1>1, <2>3 DEF FrameOK, Zvals, Tables
  <2>5. depth < MaxDepth /\ keytabs' = keytabs + Tables(f)
    <3>1. depth \in Nat /\ keytabs \in Nat
      BY LenProperties, OwnedType DEF IInv, DepthIsNesting, StackOK
    <3>. QED
      BY <1>3, <2>2, <2>4, <3>1, DecoderCAssumption
  <2>6. CursorOK' /\ TableOK' /\ UNCHANGED <<root, err, result>>
    BY <2>2, NothingRead DEF Settled
  <2>7. Waits(Top)
    BY <1>1 DEF Waits
  <2>. QED
    BY <1>1, <2>2, <2>3, <2>4, <2>5, <2>6, <2>7, EnteredIInv
<1>. QED
  BY <1>2, <1>3

\* A long or a copy joins the elements of the innermost array.
LEMMA AddElementIInv ==
    ASSUME IInv, InTop("longs") \/ InTop("copies"), Top.left > 0, NEW v, AddElement(v),
           CursorOK'
    PROVE  IInv'
<1>. DEFINE f == [Top EXCEPT !.left = @ - 1]
<1>1. /\ Running /\ frames # <<>> /\ Top.kind \in {"longs", "copies"}
      /\ frames' = [frames EXCEPT ![Len(frames)] = f]
      /\ outs' = [outs EXCEPT ![Len(outs)] = [outs[Len(outs)] EXCEPT !.items = Append(@, v)]]
      /\ UNCHANGED <<Settled, depth, owned, keytabs>>
  BY DEF AddElement, InTop, Top
<1>2. /\ Top \in Arrays /\ owned \in Nat /\ Zvals(Top) \in Nat
      /\ OutsOK(outs, Len(frames)) /\ Len(frames) \in Nat \ {0} /\ MaxU32 \in Nat
  BY <1>1, TopOK
<1>3. Top.left - 1 \in 0..MaxU32
  BY <1>2 DEF Arrays
<1>4. f \in Arrays /\ f.kind = Top.kind
  BY <1>2, <1>3 DEF Arrays
<1>5. FrameOK(f) /\ Zvals(f) = Zvals(Top) /\ Tables(f) = Tables(Top)
  BY <1>1, <1>4 DEF FrameOK, Zvals, Tables
<1>6. owned' = owned - Zvals(Top) + Zvals(f)
  BY <1>1, <1>2, <1>5
<1>7. OutsOK(outs', Len(frames))
  <2>1. Len(outs) = Len(frames) /\ Len(outs) \in 1..Len(outs)
    BY <1>2 DEF OutsOK
  <2>. QED
    BY <1>1, <1>2, <2>1, OutsChange
<1>8. TableOK' /\ UNCHANGED <<root, err, result>>
  BY <1>1 DEF Settled, IInv, TableOK
<1>. HIDE DEF f
<1>. QED
  BY <1>1, <1>4, <1>5, <1>6, <1>7, <1>8, GoesOnIInv

\* One more element of a run of longs.
LEMMA ReadLongIInv == IInv /\ ReadLong => IInv'
<1>. SUFFICES ASSUME IInv, ReadLong PROVE IInv'
  OBVIOUS
<1>1. PICK u \in ReadUvarint(At) :
         IF u.err # "none" THEN Raise(u.err, u.bytes)
         ELSE Advance(u.bytes) /\ AddElement(<<"int", ZigzagDecode(u.val)>>)
  BY DEF ReadLong
<1>2. /\ pos \in Nat /\ len \in Nat /\ pos <= len /\ At \in Nat \ {0} /\ CursorOK
  BY LenProperties DEF IInv, CursorOK, At
<1>3. /\ u.err \in VarintErrors \cup {"none"} /\ u.bytes \in Seq(Nat)
      /\ Len(u.bytes) \in Nat /\ At - 1 + Len(u.bytes) <= len
  <2>1. At - 1 <= len
    BY <1>2 DEF At
  <2>. QED
    BY <1>2, <2>1, UvarintRead
<1>4. Ahead(u.bytes)
  <2>1. pos + Len(u.bytes) <= len
    BY <1>2, <1>3 DEF At
  <2>. QED
    BY <1>3, <2>1 DEF Ahead
<1>5. CASE u.err # "none"
  BY <1>1, <1>3, <1>4, <1>5, RaiseIInv DEF VarintErrors, Errors
<1>6. CASE u.err = "none"
  <2>1. Advance(u.bytes) /\ AddElement(<<"int", ZigzagDecode(u.val)>>)
    BY <1>1, <1>6
  <2>2. CursorOK'
    BY <1>4, <2>1, Advanced DEF AddElement, Settled
  <2>. QED
    BY <2>1, <2>2, AddElementIInv DEF ReadLong
<1>. QED
  BY <1>5, <1>6

\* One more copy of the value of a repeat.
LEMMA CopyTemplateIInv == IInv /\ CopyTemplate => IInv'
<1>. SUFFICES ASSUME IInv, CopyTemplate PROVE IInv'
  OBVIOUS
<1>1. CursorOK'
  BY DEF CopyTemplate, AddElement, Settled, IInv, CursorOK
<1>. QED
  BY <1>1, AddElementIInv DEF CopyTemplate

\* An array is complete and goes to whoever called for it; its key table is freed.
LEMMA EndArrayIInv == IInv /\ EndArray => IInv'
<1>. SUFFICES ASSUME IInv, EndArray PROVE IInv'
  OBVIOUS
<1>. DEFINE below == DropTop(frames)
            out == <<IF Top.kind \in {"hash", "row"} THEN "hash" ELSE "list", Out.items>>
            o == IF Top.kind = "copies" THEN owned - 1 ELSE owned
<1>1. /\ Running /\ frames # <<>> /\ Top.kind \notin {"schema", "template"}
      /\ depth' = depth - 1
      /\ keytabs' = (IF Top.kind = "rows" THEN keytabs - 1 ELSE keytabs)
      /\ Store(below, DropTop(outs), out, o)
      /\ UNCHANGED <<len, data, strdedup, pos, strs, size_used, err, result>>
  BY DEF EndArray, Finished
<1>2. /\ Top \in Arrays /\ root = <<>> /\ Len(root) = 0 /\ Len(frames) \in Nat \ {0}
      /\ OutsOK(outs, Len(frames))
  BY <1>1, TopOK
<1>3. /\ StackOK(below) /\ Len(below) = Len(frames) - 1 /\ Len(below) \in Nat
      /\ below = <<>> \/ Waits(below[Len(below)])
      /\ ZvalsOf(below) \in Nat /\ ZvalsOf(frames) = ZvalsOf(below) + Zvals(Top)
      /\ TablesOf(below) \in Nat /\ TablesOf(frames) = TablesOf(below) + Tables(Top)
  BY <1>1, FrameLeft DEF IInv, Top
<1>. HIDE DEF below, out
<1>4. o = ZvalsOf(below) + 1 /\ keytabs' = TablesOf(below)
  <2>1. owned = ZvalsOf(below) + Zvals(Top) + 0 /\ keytabs = TablesOf(below) + Tables(Top)
    BY <1>2, <1>3 DEF IInv
  <2>2. Top.kind \in {"packed", "hash", "longs", "rows", "row", "copies"}
    BY <1>1, <1>2 DEF Arrays, Kinds
  <2>3. /\ Zvals(Top) = (IF Top.kind = "copies" THEN 2 ELSE 1)
        /\ Tables(Top) = (IF Top.kind = "rows" THEN 1 ELSE 0)
    BY <2>2 DEF Zvals, Tables
  <2>4. o = ZvalsOf(below) + 1
    BY <1>3, <2>1, <2>3
  <2>5. keytabs' = TablesOf(below)
    BY <1>1, <1>3, <2>1, <2>3
  <2>. QED
    BY <2>4, <2>5
<1>5. OutsOK(DropTop(outs), Len(below))
  <2>1. Len(outs) = Len(frames) /\ Len(outs) - 1 \in 0..Len(frames)
    BY <1>2 DEF OutsOK
  <2>2. OutsOK(SubSeq(outs, 1, Len(outs) - 1), Len(outs) - 1)
    BY <1>2, <2>1, OutsLeft
  <2>. QED
    BY <1>3, <2>1, <2>2 DEF DropTop
<1>. HIDE DEF o
<1>6. /\ StackOK(frames') /\ OutsOK(outs', Len(frames')) /\ Len(frames') = Len(below)
      /\ root' = <<>> \/ (frames' = <<>> /\ root' = <<out>>)
      /\ owned' = ZvalsOf(frames') + Len(root') /\ TablesOf(frames') = TablesOf(below)
  BY <1>1, <1>2, <1>3, <1>4, <1>5, StoreOK
<1>7. CursorOK' /\ TableOK' /\ result = "running"
  BY <1>1, NothingRead DEF Running
<1>8. DepthIsNesting'
  BY <1>1, <1>2, <1>3, <1>6, DecoderCAssumption DEF IInv, DepthIsNesting
<1>. QED
  BY <1>1, <1>4, <1>6, <1>7, <1>8 DEF IInv

\* An array is left, or a row and its rowset, and nothing of it is inserted.
LEMMA DropIInv ==
    ASSUME IInv, result = "running", NEW f \in Errors, err' = f,
           NEW st, frames' = st, StackOK(st), Len(st) \in 0..Len(frames),
           OutsOK(outs', Len(st)), depth' = Len(st),
           owned' = ZvalsOf(st), keytabs' = TablesOf(st), root = <<>>,
           UNCHANGED <<len, data, pos, root, strs, size_used, result>>
    PROVE  IInv'
<1>1. CursorOK' /\ TableOK'
  BY NothingRead
<1>2. ZvalsOf(st) \in Nat /\ Len(root) = 0
  BY OwnedType DEF StackOK
<1>3. Len(frames) \in Nat
  BY LenProperties DEF IInv, StackOK
<1>4. DepthIsNesting'
  BY <1>3, DecoderCAssumption DEF IInv, DepthIsNesting
<1>. QED
  BY <1>1, <1>2, <1>4 DEF IInv

\* An insertion that fails, with the value still in hand.
LEMMA InsertFailsIInv == IInv /\ InsertFails => IInv'
<1>. SUFFICES ASSUME IInv, InsertFails PROVE IInv'
  OBVIOUS
<1>1. CASE Raise("Host", <<>>)
  BY <1>1, AheadBytes, RaiseIInv DEF Errors, IInv
<1>2. CASE ~Raise("Host", <<>>)
  <2>1. /\ Running /\ frames # <<>> /\ Top.kind \notin {"schema", "template"}
        /\ frames' = DropTop(frames) /\ outs' = DropTop(outs) /\ depth' = depth - 1
        /\ keytabs' = (IF Top.kind = "rows" THEN keytabs - 1 ELSE keytabs)
        /\ owned' = (IF Top.kind = "copies" THEN owned - 2 ELSE owned - 1)
        /\ err' = "Host"
        /\ UNCHANGED <<len, data, strdedup, pos, root, strs, size_used, result>>
    BY <1>2 DEF InsertFails, Finished
  <2>. DEFINE below == DropTop(frames)
  <2>2. /\ Top \in Arrays /\ root = <<>> /\ Len(root) = 0 /\ Len(frames) \in Nat \ {0}
        /\ OutsOK(outs, Len(frames))
    BY <2>1, TopOK
  <2>3. /\ StackOK(below) /\ Len(below) = Len(frames) - 1 /\ Len(below) \in Nat
        /\ ZvalsOf(below) \in Nat /\ ZvalsOf(frames) = ZvalsOf(below) + Zvals(Top)
        /\ TablesOf(below) \in Nat /\ TablesOf(frames) = TablesOf(below) + Tables(Top)
    BY <2>1, FrameLeft DEF IInv, Top
  <2>4. OutsOK(outs', Len(below))
    <3>1. Len(outs) = Len(frames) /\ Len(outs) - 1 \in 0..Len(frames)
      BY <2>2 DEF OutsOK
    <3>2. OutsOK(SubSeq(outs, 1, Len(outs) - 1), Len(outs) - 1)
      BY <2>2, <3>1, OutsLeft
    <3>. QED
      BY <2>1, <2>3, <3>1, <3>2 DEF DropTop
  <2>. HIDE DEF below
  <2>5. owned' = ZvalsOf(below) /\ keytabs' = TablesOf(below) /\ depth' = Len(below)
    <3>1. /\ owned = ZvalsOf(below) + Zvals(Top) + 0
          /\ keytabs = TablesOf(below) + Tables(Top) /\ depth = Len(frames)
      BY <2>2, <2>3 DEF IInv, DepthIsNesting
    <3>2. /\ Top.kind = "copies" => Zvals(Top) = 2
          /\ Top.kind # "copies" => Zvals(Top) = 1
          /\ Tables(Top) = (IF Top.kind = "rows" THEN 1 ELSE 0)
      BY <2>1, <2>2 DEF Zvals, Tables, Arrays, Kinds
    <3>. QED
      BY <2>1, <2>3, <3>1, <3>2
  <2>6. Len(below) \in 0..Len(frames) /\ frames' = below /\ result = "running"
    BY <2>1, <2>2, <2>3 DEF below, Running
  <2>. QED
    BY <2>1, <2>2, <2>3, <2>4, <2>5, <2>6, DropIInv DEF Errors
<1>. QED
  BY <1>1, <1>2

\* One frame of the unwinding after an error, which destroys what the frame holds.
LEMMA UnwindIInv == IInv /\ Unwind => IInv'
<1>. SUFFICES ASSUME IInv, Unwind PROVE IInv'
  OBVIOUS
<1>1. /\ result = "running" /\ err # "none" /\ frames # <<>>
      /\ depth' = depth - Leaves(Top.kind) /\ owned' = owned - Destroys(Top.kind)
      /\ keytabs' = (IF Top.kind \in {"schema", "rows", "row"} THEN keytabs - 1 ELSE keytabs)
      /\ UNCHANGED <<len, data, strdedup, pos, root, strs, size_used, err, result>>
  BY DEF Unwind
<1>2. /\ frames \in Seq(Arrays) /\ Len(frames) \in Nat \ {0} /\ Top \in Arrays
      /\ root = <<>> /\ Len(root) = 0 /\ OutsOK(outs, Len(frames))
      /\ err \in Errors /\ Len(outs) = Len(frames)
  BY <1>1, TopAndBelow DEF IInv, StackOK, Top, OutsOK
<1>. DEFINE below == DropTop(frames)
<1>3. /\ StackOK(below) /\ Len(below) = Len(frames) - 1 /\ Len(below) \in Nat
      /\ Top.kind = "row" => below # <<>> /\ below[Len(below)].kind = "rows"
      /\ ZvalsOf(below) \in Nat /\ ZvalsOf(frames) = ZvalsOf(below) + Zvals(Top)
      /\ TablesOf(below) \in Nat /\ TablesOf(frames) = TablesOf(below) + Tables(Top)
  BY <1>1, FrameLeft DEF IInv, Top
<1>4. /\ owned = ZvalsOf(below) + Zvals(Top) + 0
      /\ keytabs = TablesOf(below) + Tables(Top) /\ depth = Len(frames)
  BY <1>2, <1>3 DEF IInv, DepthIsNesting
<1>5. CASE Top.kind # "row"
  <2>1. frames' = below /\ outs' = SubSeq(outs, 1, Len(frames) - 1)
    BY <1>2, <1>5 DEF Unwind, DropTop
  <2>. HIDE DEF below
  <2>2. /\ Destroys(Top.kind) = Zvals(Top) /\ Leaves(Top.kind) = 1
        /\ Tables(Top) = (IF Top.kind \in {"schema", "rows", "row"} THEN 1 ELSE 0)
    BY <1>2, <1>5 DEF Destroys, Leaves, Zvals, Tables, Arrays, Kinds
  <2>3. Zvals(Top) \in Nat
    BY DEF Zvals
  <2>4. owned' = ZvalsOf(below) /\ keytabs' = TablesOf(below) /\ depth' = Len(below)
    <3>1. owned' = ZvalsOf(below)
      BY <1>1, <1>3, <1>4, <2>2, <2>3
    <3>2. keytabs' = TablesOf(below)
      BY <1>1, <1>3, <1>4, <2>2
    <3>3. depth' = Len(below)
      BY <1>1, <1>2, <1>3, <1>4, <2>2
    <3>. QED
      BY <3>1, <3>2, <3>3
  <2>5. Len(below) \in 0..Len(frames) /\ OutsOK(outs', Len(below))
    <3>1. Len(frames) - 1 \in 0..Len(frames)
      BY <1>2
    <3>2. OutsOK(SubSeq(outs, 1, Len(frames) - 1), Len(frames) - 1)
      BY <1>2, <3>1, OutsLeft
    <3>. QED
      BY <1>3, <2>1, <3>1, <3>2
  <2>. QED
    BY <1>1, <1>2, <1>3, <2>1, <2>4, <2>5, DropIInv
<1>6. CASE Top.kind = "row"
  <2>. DEFINE two == DropTop(below)
              set == below[Len(below)]
  <2>1. below # <<>> /\ set.kind = "rows"
    BY <1>3, <1>6
  <2>2. /\ StackOK(two) /\ Len(two) = Len(below) - 1 /\ Len(two) \in Nat
        /\ ZvalsOf(two) \in Nat /\ ZvalsOf(below) = ZvalsOf(two) + Zvals(set)
        /\ TablesOf(two) \in Nat /\ TablesOf(below) = TablesOf(two) + Tables(set)
    <3>. HIDE DEF below
    <3>. QED
      BY <1>3, <2>1, FrameLeft
  <2>3. frames' = two /\ outs' = SubSeq(outs, 1, Len(frames) - 2)
    <3>1. Len(frames) > 1
      BY <1>2, <1>3, <2>2
    <3>2. frames' = SubSeq(frames, 1, Len(frames) - 2)
      BY <1>6 DEF Unwind
    <3>. QED
      BY <1>2, <1>6, <3>1, <3>2, DropTwo DEF Unwind
  <2>. HIDE DEF two, below, set
  <2>4. Destroys(Top.kind) = 2 /\ Leaves(Top.kind) = 2 /\ Zvals(Top) = 1 /\ Tables(Top) = 0
    BY <1>6 DEF Destroys, Leaves, Zvals, Tables
  <2>5. Zvals(set) = 1 /\ Tables(set) = 1
    BY <2>1 DEF Zvals, Tables
  <2>6. keytabs' = keytabs - 1
    BY <1>1, <1>6
  <2>7. owned' = ZvalsOf(two) /\ keytabs' = TablesOf(two) /\ depth' = Len(two)
    <3>1. owned = ZvalsOf(two) + 1 + 1 + 0 /\ owned' = owned - 2
      BY <1>1, <1>4, <2>2, <2>4, <2>5
    <3>2. keytabs = TablesOf(two) + 1 + 0
      BY <1>4, <2>2, <2>4, <2>5
    <3>3. depth' = Len(frames) - 2 /\ Len(two) = Len(frames) - 1 - 1
      BY <1>1, <1>3, <1>4, <2>2, <2>4
    <3>4. owned' = ZvalsOf(two)
      BY <2>2, <3>1
    <3>5. keytabs' = TablesOf(two)
      BY <2>2, <2>6, <3>2
    <3>6. depth' = Len(two)
      BY <1>2, <2>2, <3>3
    <3>. QED
      BY <3>4, <3>5, <3>6
  <2>8. Len(two) \in 0..Len(frames) /\ OutsOK(outs', Len(two))
    <3>1. Len(two) = Len(frames) - 2 /\ Len(frames) - 2 \in 0..Len(frames)
      BY <1>2, <1>3, <2>2
    <3>2. OutsOK(SubSeq(outs, 1, Len(frames) - 2), Len(frames) - 2)
      BY <1>2, <3>1, OutsLeft
    <3>. QED
      BY <2>3, <3>1, <3>2
  <2>. QED
    BY <1>1, <1>2, <2>2, <2>3, <2>7, <2>8, DropIInv
<1>. QED
  BY <1>5, <1>6

\* The outermost call returns.
LEMMA ReturnIInv == IInv /\ Return => IInv'
<1>. SUFFICES ASSUME IInv, Return PROVE IInv'
  OBVIOUS
<1>1. /\ result = "running" /\ frames = <<>> /\ (err # "none" \/ root # <<>>)
      /\ result' = (IF err # "none" THEN err ELSE IF pos # len THEN "Trailing" ELSE "ok")
      /\ root' = (IF result' = "ok" THEN root ELSE <<>>)
      /\ owned' = owned - (Len(root) - Len(root')) /\ strs' = <<>>
      /\ UNCHANGED <<len, data, strdedup, pos, frames, outs, depth, size_used, keytabs, err>>
  BY DEF Return, Given
<1>2. root = <<>> \/ \E v : root = <<v>>
  BY DEF IInv
<1>3. Len(root) \in Nat /\ Len(root') \in Nat
  BY <1>1, <1>2
<1>4. owned = 0 + Len(root)
  BY <1>1, OwnedByNone DEF IInv
<1>5. owned' = 0 + Len(root')
  BY <1>1, <1>3, <1>4
<1>6. CursorOK' /\ TableOK' /\ DepthIsNesting'
  BY <1>1 DEF IInv, CursorOK, TableOK, DepthIsNesting
<1>7. /\ result' \in Errors \cup {"ok"} /\ result' # "running"
      /\ result' = "ok" <=> root' # <<>>
  BY <1>1 DEF IInv, Errors
<1>8. root' = <<>> \/ \E v : root' = <<v>>
  BY <1>1, <1>2
<1>. QED
  BY <1>1, <1>5, <1>6, <1>7, <1>8, OwnedByNone DEF IInv

\* Every step keeps it.
LEMMA NextIInv == IInv /\ [Next]_vars => IInv'
<1>. SUFFICES ASSUME IInv, [Next]_vars PROVE IInv'
  OBVIOUS
<1>1. CASE UNCHANGED vars
  <2>1. CursorOK' /\ TableOK' /\ DepthIsNesting'
    BY <1>1 DEF vars, IInv, CursorOK, TableOK, DepthIsNesting
  <2>. QED
    BY <1>1, <2>1 DEF vars, IInv
<1>2. CASE Step
  BY <1>2, DecodeScalarIInv, DecodeStringIInv, TakeKeyIInv, BeginArrayIInv, OpenRowsIInv,
     BeginRowIInv, ReadLongIInv, CopyTemplateIInv, EndArrayIInv, UnwindIInv, ReturnIInv
     DEF Step
<1>3. CASE InsertFails
  BY <1>3, InsertFailsIInv
<1>. QED
  BY <1>1, <1>2, <1>3 DEF Next, Stopped

\* IInv is an invariant of the C decoder.
LEMMA DecoderInvariant == Spec => []IInv
BY InitIInv, NextIInv, PTL DEF Spec
-----------------------------------------------------------------------------
(* What follows from it.                                                     *)

\* Every variable of the C decoder has its type, for every payload and all limits; the
\* cursor never passes the end of the payload, not even in a failed read.
THEOREM CDecoderTypeOK == Spec => []TypeOK
<1>1. IInv => TypeOK
  <2>. SUFFICES ASSUME IInv PROVE TypeOK
    OBVIOUS
  <2>1. len \in Nat /\ pos \in 0..len
    BY LenProperties DEF IInv, CursorOK
  <2>2. frames \in Seq(Arrays) /\ Len(frames) \in Nat /\ MaxU32 \in Nat
    BY LenProperties, DecoderCAssumption DEF IInv, StackOK
  <2>3. \A i \in DOMAIN frames : frames[i].kind \in Kinds /\ frames[i].left \in Nat
    <3>1. \A i \in DOMAIN frames : frames[i] \in Arrays
      BY <2>2, ElementOfSeq, LenProperties
    <3>. QED
      BY <2>2, <3>1 DEF Arrays
  <2>4. Len(outs) = Len(frames) /\ depth \in Nat /\ size_used \in Nat
    BY <2>2, DecoderCAssumption DEF IInv, OutsOK, DepthIsNesting, TableOK
  <2>5. Len(root) \in Nat
    BY DEF IInv
  <2>6. owned \in Nat /\ keytabs \in Nat
    BY <2>2, <2>5, OwnedType DEF IInv
  <2>7. result # "running" => frames = <<>>
    BY DEF IInv
  <2>. QED
    BY <2>1, <2>3, <2>4, <2>6, <2>7 DEF TypeOK
<1>. QED
  BY <1>1, DecoderInvariant, PTL

\* pf_enter and pf_leave pair up on every path: depth is the number of arrays that
\* are open or still to be cleaned up, and never more than the limit.
THEOREM CDecoderDepth == Spec => []DepthIsNesting
<1>1. IInv => DepthIsNesting
  BY DEF IInv
<1>. QED
  BY <1>1, DecoderInvariant, PTL

\* Every zval and every key table belongs to one function that is still to return.
THEOREM CDecoderZvalsHeld == Spec => []EveryZvalIsHeld
<1>1. IInv => EveryZvalIsHeld
  <2>1. \A kinds : FramesIn(kinds) = Cardinality(OfKind(frames, kinds))
    BY DEF FramesIn, OfKind
  <2>2. /\ ZvalsOf(frames) = FramesIn({"packed", "hash", "longs", "rows", "row"})
                                + 2 * FramesIn({"copies"})
        /\ TablesOf(frames) = FramesIn({"schema", "rows"})
    BY <2>1 DEF ZvalsOf, TablesOf
  <2>. QED
    BY <2>2 DEF IInv, EveryZvalIsHeld
<1>. QED
  BY <1>1, DecoderInvariant, PTL

\* When pf_c_decode has returned, nothing is left of a payload that was refused, and
\* one value of one that was accepted.
THEOREM CDecoderFailureAtomic == Spec => []FailureIsAtomic
<1>1. IInv => FailureIsAtomic
  <2>. SUFFICES ASSUME IInv, result # "running"
       PROVE  /\ keytabs = 0 /\ strs = <<>>
              /\ owned = (IF result = "ok" THEN 1 ELSE 0)
              /\ Len(root) = owned
    BY DEF FailureIsAtomic
  <2>1. /\ frames = <<>> /\ strs = <<>> /\ (result = "ok" <=> root # <<>>)
        /\ root = <<>> \/ \E v : root = <<v>>
    BY DEF IInv
  <2>2. keytabs = 0 /\ owned = 0 + Len(root)
    BY <2>1, OwnedByNone DEF IInv
  <2>3. Len(root) = IF result = "ok" THEN 1 ELSE 0
    BY <2>1
  <2>. QED
    BY <2>1, <2>2, <2>3
<1>. QED
  BY <1>1, DecoderInvariant, PTL
-----------------------------------------------------------------------------
(* The C decoder builds arrays as HostCalls says.                            *)

\* An open function as HostCalls sees it, and all of them.
Elems == [needs : 0..MaxU32, template : BOOLEAN]
Elem(f) == [needs |-> f.left, template |-> f.kind = "template"]
OpenOf(st) == [i \in DOMAIN st |-> Elem(st[i])]

\* The values of open, whole and answer.
COpen == IF err # "none" THEN <<>> ELSE OpenOf(Begun)
CWhole == err = "none" /\ root # <<>>
CAnswer == IF result = "ok" THEN "value"
           ELSE IF result = "running" /\ err = "none" THEN "none" ELSE "error"

\* The steps of HostCalls in these values.
LEMMA CallsInit ==
    COpen = <<>> /\ CWhole = FALSE /\ CAnswer \in {"none", "error"} => Calls!Init
BY DEF Calls!Init, COpen, CWhole, CAnswer, OpenOf, Elem

\* A step that leaves the open arrays, the root and the answer alone is none of HostCalls.
LEMMA CallsStutter ==
    COpen' = COpen /\ CWhole' = CWhole /\ CAnswer' = CAnswer => UNCHANGED Calls!vars
BY DEF Calls!vars, COpen, CWhole, CAnswer, OpenOf, Elem

\* Receive, for the innermost of these arrays.
Wanted(arrays) ==
    IF arrays = <<>> THEN ~CWhole
    ELSE arrays[Len(arrays)].template \/ arrays[Len(arrays)].needs > 0

Received(arrays) ==
    /\ Wanted(arrays)
    /\ IF arrays = <<>> THEN COpen' = <<>> /\ CWhole' = TRUE
       ELSE /\ COpen' = [arrays EXCEPT ![Len(arrays)] = Calls!Served(@)]
            /\ CWhole' = CWhole

\* An array that wants a value receives one: a step of HostCalls.
LEMMA CallsGive ==
    ASSUME CAnswer = "none", CAnswer' = CAnswer, Received(COpen)
    PROVE  Calls!Next
BY DEF Calls!Next, Calls!Give, Calls!Receive, Calls!Wanted, Received, Wanted,
       COpen, CWhole, CAnswer, OpenOf, Elem

\* One more open array: a step of HostCalls.
LEMMA CallsBeginArray ==
    ASSUME CAnswer = "none", CAnswer' = CAnswer, CWhole' = CWhole, Wanted(COpen),
           NEW n \in 0..MaxU32, NEW template \in BOOLEAN,
           COpen' = Append(COpen, [needs |-> n, template |-> template])
    PROVE  Calls!Next
BY DEF Calls!Next, Calls!BeginArray, Calls!Wanted, Wanted, COpen, CWhole, CAnswer, OpenOf, Elem

\* A complete array received by the one around it, or the root: a step of HostCalls.
LEMMA CallsEndArray ==
    ASSUME CAnswer = "none", CAnswer' = CAnswer, COpen # <<>>,
           ~COpen[Len(COpen)].template, COpen[Len(COpen)].needs = 0,
           Received(SubSeq(COpen, 1, Len(COpen) - 1))
    PROVE  Calls!Next
<1>. DEFINE below == SubSeq(COpen, 1, Len(COpen) - 1)
<1>1. Received(below)
  OBVIOUS
<1>. HIDE DEF below
<1>2. Calls!Receive(below)
  BY <1>1 DEF Calls!Receive, Calls!Wanted, Received, Wanted, COpen, CWhole, OpenOf, Elem
<1>3. Calls!EndArray
  BY <1>2 DEF Calls!EndArray, below, COpen, CAnswer, OpenOf, Elem
<1>. QED
  BY <1>3 DEF Calls!Next

\* The answer "value" for a complete root: a step of HostCalls.
LEMMA CallsAnswerValue ==
    ASSUME CAnswer = "none", COpen = <<>>, CWhole, CAnswer' = "value",
           COpen' = COpen, CWhole' = CWhole
    PROVE  Calls!Next
BY DEF Calls!Next, Calls!AnswerValue, COpen, CWhole, CAnswer, OpenOf, Elem

\* The answer "error" at any time: a step of HostCalls.
LEMMA CallsAnswerError ==
    ASSUME CAnswer = "none", CAnswer' = "error", COpen' = <<>>, CWhole' = FALSE
    PROVE  Calls!Next
BY DEF Calls!Next, Calls!AnswerError, COpen, CWhole, CAnswer, OpenOf, Elem

\* What HostCalls sees of a frame.
LEMMA ElemType ==
    ASSUME NEW f \in Arrays
    PROVE  Elem(f) \in Elems
BY DEF Elem, Elems, Arrays

\* What was put on top of the others is what is dropped.
LEMMA DropAppended ==
    ASSUME NEW st \in Seq(Arrays), NEW f \in Arrays
    PROVE  DropTop(Append(st, f)) = st
<1>. DEFINE a == Append(st, f)
            b == DropTop(a)
<1>1. /\ a \in Seq(Arrays) /\ Len(a) = Len(st) + 1 /\ Len(st) \in Nat /\ a # <<>>
      /\ \A i \in 1..Len(st) : a[i] = st[i]
  BY AppendProperties, LenProperties
<1>. HIDE DEF a
<1>2. /\ b \in Seq(Arrays) /\ Len(b) = Len(a) - 1
      /\ \A i \in 1..(Len(a) - 1) : b[i] = a[i]
  BY <1>1, TopAndBelow
<1>. HIDE DEF b
<1>3. Len(a) - 1 = Len(st)
  BY <1>1
<1>4. b = st
  BY <1>1, <1>2, <1>3, SeqEqual
<1>. QED
  BY <1>4 DEF a, b

\* HostCalls sees one array for each frame.
LEMMA OpenOfSeq ==
    ASSUME NEW st \in Seq(Arrays)
    PROVE  /\ OpenOf(st) \in Seq(Elems) /\ Len(OpenOf(st)) = Len(st) /\ Len(st) \in Nat
           /\ \A i \in 1..Len(st) : OpenOf(st)[i] = Elem(st[i])
           /\ OpenOf(st) = <<>> <=> st = <<>>
<1>1. Len(st) \in Nat /\ DOMAIN st = 1..Len(st)
  BY LenProperties
<1>2. \A i \in 1..Len(st) : OpenOf(st)[i] = Elem(st[i])
  BY <1>1 DEF OpenOf
<1>3. \A i \in 1..Len(st) : Elem(st[i]) \in Elems
  BY <1>1, ElementOfSeq, ElemType
<1>4. OpenOf(st) \in [1..Len(st) -> Elems]
  BY <1>1, <1>3 DEF OpenOf
<1>5. OpenOf(st) \in Seq(Elems) /\ Len(OpenOf(st)) = Len(st)
  BY <1>1, <1>4, FunctionIsSeq
<1>6. OpenOf(st) = <<>> <=> st = <<>>
  BY <1>5, EmptySeq
<1>. QED
  BY <1>1, <1>2, <1>5, <1>6

\* One more frame is one more array.
LEMMA OpenOfAppend ==
    ASSUME NEW st \in Seq(Arrays), NEW f \in Arrays
    PROVE  OpenOf(Append(st, f)) = Append(OpenOf(st), Elem(f))
<1>. DEFINE a == OpenOf(Append(st, f))
            b == Append(OpenOf(st), Elem(f))
<1>1. /\ Append(st, f) \in Seq(Arrays) /\ Len(Append(st, f)) = Len(st) + 1
      /\ \A i \in 1..Len(st) : Append(st, f)[i] = st[i]
      /\ Append(st, f)[Len(st) + 1] = f
  BY AppendProperties
<1>2. /\ a \in Seq(Elems) /\ Len(a) = Len(st) + 1
      /\ \A i \in 1..(Len(st) + 1) : a[i] = Elem(Append(st, f)[i])
  BY <1>1, OpenOfSeq
<1>3. /\ OpenOf(st) \in Seq(Elems) /\ Len(OpenOf(st)) = Len(st) /\ Len(st) \in Nat
      /\ \A i \in 1..Len(st) : OpenOf(st)[i] = Elem(st[i])
  BY OpenOfSeq
<1>4. /\ b \in Seq(Elems) /\ Len(b) = Len(st) + 1
      /\ \A i \in 1..Len(st) : b[i] = OpenOf(st)[i]
      /\ b[Len(st) + 1] = Elem(f)
  <2>1. Elem(f) \in Elems
    BY ElemType
  <2>. QED
    BY <1>3, <2>1, AppendProperties
<1>. HIDE DEF a, b
<1>5. ASSUME NEW i \in 1..Len(a) PROVE a[i] = b[i]
  <2>1. CASE i \in 1..Len(st)
    <3>1. i \in 1..(Len(st) + 1)
      BY <1>2
    <3>. QED
      BY <1>1, <1>2, <1>3, <1>4, <2>1, <3>1
  <2>2. CASE i = Len(st) + 1
    <3>1. i \in 1..(Len(st) + 1)
      BY <1>2
    <3>. QED
      BY <1>1, <1>2, <1>4, <2>2, <3>1
  <2>. QED
    BY <1>2, <1>3, <2>1, <2>2
<1>6. a = b
  BY <1>2, <1>4, <1>5, SeqEqual
<1>. QED
  BY <1>6 DEF a, b

\* The innermost frame changed is the innermost array changed, and dropped dropped.
LEMMA OpenOfTop ==
    ASSUME NEW st \in Seq(Arrays), st # <<>>
    PROVE  LET n == Len(st)
               o == OpenOf(st)
           IN  /\ o # <<>> /\ Len(o) = n /\ o[n] = Elem(st[n])
               /\ \A f \in Arrays : OpenOf([st EXCEPT ![n] = f]) = [o EXCEPT ![n] = Elem(f)]
               /\ OpenOf(DropTop(st)) = SubSeq(o, 1, n - 1)
<1>. DEFINE n == Len(st)
            o == OpenOf(st)
            below == DropTop(st)
<1>1. /\ n \in Nat \ {0} /\ st[n] \in Arrays /\ n \in 1..n
      /\ below \in Seq(Arrays) /\ Len(below) = n - 1
      /\ st = Append(below, st[n])
      /\ \A i \in 1..(n - 1) : below[i] = st[i]
  BY TopAndBelow
<1>2. o \in Seq(Elems) /\ Len(o) = n /\ o # <<>> /\ \A i \in 1..n : o[i] = Elem(st[i])
  BY OpenOfSeq
<1>3. ASSUME NEW f \in Arrays
      PROVE  OpenOf([st EXCEPT ![n] = f]) = [o EXCEPT ![n] = Elem(f)]
  <2>. DEFINE s == [st EXCEPT ![n] = f]
              a == OpenOf(s)
              b == [o EXCEPT ![n] = Elem(f)]
  <2>1. /\ s \in Seq(Arrays) /\ Len(s) = n
        /\ \A j \in 1..n : s[j] = IF j = n THEN f ELSE st[j]
    BY <1>1, ExceptSeq
  <2>. HIDE DEF s
  <2>2. a \in Seq(Elems) /\ Len(a) = n /\ \A i \in 1..n : a[i] = Elem(s[i])
    BY <2>1, OpenOfSeq
  <2>3. Elem(f) \in Elems
    BY ElemType
  <2>4. /\ b \in Seq(Elems) /\ Len(b) = n
        /\ \A j \in 1..n : b[j] = IF j = n THEN Elem(f) ELSE o[j]
    BY <1>1, <1>2, <2>3, ExceptSeq
  <2>. HIDE DEF a, b, o
  <2>5. \A j \in 1..n : a[j] = b[j]
    BY <1>2, <2>1, <2>2, <2>4
  <2>6. a = b
    BY <2>2, <2>4, <2>5, SeqEqual
  <2>. QED
    BY <2>6 DEF a, b, s, o
<1>4. OpenOf(below) = SubSeq(o, 1, n - 1)
  <2>. DEFINE a == OpenOf(below)
              b == SubSeq(o, 1, n - 1)
  <2>1. a \in Seq(Elems) /\ Len(a) = n - 1 /\ \A i \in 1..(n - 1) : a[i] = Elem(below[i])
    BY <1>1, OpenOfSeq
  <2>2. /\ b \in Seq(Elems)
        /\ Len(b) = IF 1 <= n - 1 THEN (n - 1) - 1 + 1 ELSE 0
        /\ \A i \in 1..((n - 1) - 1 + 1) : b[i] = o[1 + i - 1]
    <3>1. \A i \in 1..(n - 1) : o[i] \in Elems
      BY <1>1, <1>2, ElementOfSeq
    <3>. HIDE DEF o, n
    <3>. QED
      BY <1>1, <3>1, SubSeqProperties
  <2>. HIDE DEF a, b, o, below
  <2>3. Len(b) = n - 1
    <3>1. \A m \in Nat \ {0} : m - 1 = IF 1 <= m - 1 THEN (m - 1) - 1 + 1 ELSE 0
      OBVIOUS
    <3>. QED
      BY <1>1, <2>2, <3>1
  <2>4. ASSUME NEW i \in 1..Len(b) PROVE a[i] = b[i]
    <3>1. /\ i \in 1..((n - 1) - 1 + 1) /\ 1 + i - 1 = i
          /\ i \in 1..(n - 1) /\ i \in 1..n
      BY <1>1, <2>3
    <3>. QED
      BY <1>1, <1>2, <2>1, <2>2, <3>1
  <2>5. a = b
    BY <2>1, <2>2, <2>3, <2>4, SeqEqual
  <2>. QED
    BY <2>5 DEF a, b
<1>. QED
  BY <1>1, <1>2, <1>3, <1>4

\* A decoder that runs, seen from HostCalls.
LEMMA RunningOpen ==
    ASSUME Running
    PROVE  COpen = OpenOf(Begun) /\ CWhole = (root # <<>>) /\ CAnswer = "none"
BY DEF Running, COpen, CWhole, CAnswer

\* The same, in the next state.
LEMMA RunningOpenNext ==
    ASSUME Running, UNCHANGED <<err, result>>
    PROVE  /\ COpen' = OpenOf(Begun') /\ CWhole' = (root' # <<>>)
           /\ CAnswer' = "none" /\ CAnswer' = CAnswer
BY DEF Running, COpen, CWhole, CAnswer, OpenOf, Elem

\* A frame that is in the middle of a call waits for an element or a template.
LEMMA WaitsWants ==
    ASSUME NEW f \in Arrays, FrameOK(f), Waits(f)
    PROVE  (Elem(f).template \/ Elem(f).needs > 0) /\ f.kind # "schema"
<1>1. CASE f.kind \in {"hash", "row"}
  <2>1. f.keys \in Seq(ArrayKeys) /\ f.keys # <<>> /\ Len(f.keys) <= f.left /\ f.left \in Nat
    BY <1>1, DecoderCAssumption DEF Waits, Expecting, FrameOK, Arrays
  <2>2. Len(f.keys) \in Nat \ {0}
    BY <2>1, EmptySeq
  <2>. QED
    BY <1>1, <2>1, <2>2 DEF Elem
<1>2. CASE f.kind \notin {"hash", "row"}
  BY <1>2 DEF Waits, Expecting, Elem
<1>. QED
  BY <1>1, <1>2

\* So does HostCalls' innermost array, or else the caller for the whole value.
LEMMA SomebodyWaits ==
    ASSUME NEW st, StackOK(st), st = <<>> \/ Waits(st[Len(st)])
    PROVE  /\ st \in Seq(Arrays)
           /\ st # <<>> => /\ st[Len(st)] \in Arrays /\ st[Len(st)].kind # "schema"
                           /\ FrameOK(st[Len(st)]) /\ Waits(st[Len(st)])
                           /\ OpenOf(st)[Len(OpenOf(st))] = Elem(st[Len(st)])
                           /\ Elem(st[Len(st)]).template \/ Elem(st[Len(st)]).needs > 0
<1>1. st \in Seq(Arrays)
  BY DEF StackOK
<1>2. ASSUME st # <<>>
      PROVE  /\ st[Len(st)] \in Arrays /\ FrameOK(st[Len(st)])
             /\ OpenOf(st)[Len(OpenOf(st))] = Elem(st[Len(st)])
  <2>1. st[Len(st)] \in Arrays /\ Len(st) \in 1..Len(st)
    BY <1>1, <1>2, TopAndBelow
  <2>2. FrameOK(st[Len(st)])
    BY <2>1 DEF StackOK
  <2>. QED
    BY <1>1, <1>2, <2>1, <2>2, OpenOfTop
<1>. QED
  BY <1>1, <1>2, WaitsWants

\* Storing a value in a stack of frames is receiving it.
LEMMA StoreReceives ==
    ASSUME Running, UNCHANGED <<err, result>>, root = <<>>,
           NEW fs, NEW os, NEW v, NEW o, StackOK(fs),
           fs = <<>> \/ Waits(fs[Len(fs)]), Store(fs, os, v, o)
    PROVE  Received(OpenOf(fs))
<1>1. ~CWhole /\ COpen' = OpenOf(Begun') /\ CWhole' = (root' # <<>>)
  BY RunningOpen, RunningOpenNext
<1>2. fs \in Seq(Arrays)
  BY DEF StackOK
<1>3. CASE fs = <<>>
  <2>1. frames' = <<>> /\ root' = <<v>>
    BY <1>3 DEF Store
  <2>2. Begun' = <<>> /\ OpenOf(<<>>) = <<>>
    BY <2>1 DEF Begun, OpenOf
  <2>3. COpen' = <<>> /\ CWhole' = TRUE
    BY <1>1, <2>1, <2>2
  <2>. QED
    BY <1>1, <1>3, <2>2, <2>3 DEF Received, Wanted
<1>4. CASE fs # <<>>
  <2>. DEFINE f == fs[Len(fs)]
              e == OpenOf(fs)
  <2>1. /\ f \in Arrays /\ f.kind # "schema" /\ FrameOK(f) /\ Waits(f)
        /\ e[Len(e)] = Elem(f) /\ (Elem(f).template \/ Elem(f).needs > 0)
    BY <1>4, SomebodyWaits
  <2>2. /\ frames' = [fs EXCEPT ![Len(fs)] = Filled(f)] /\ root' = root
    BY <1>2, <1>4, <2>1, StoreFills
  <2>3. Filled(f) \in Arrays
    BY <2>1, FilledOK
  <2>4. Filled(f).kind # "schema" /\ Elem(Filled(f)) = Calls!Served(Elem(f))
    BY <2>1 DEF Filled, Elem, Waits, Expecting, Arrays, Calls!Served
  <2>5. /\ e # <<>> /\ Len(e) = Len(fs)
        /\ OpenOf([fs EXCEPT ![Len(fs)] = Filled(f)]) = [e EXCEPT ![Len(fs)] = Elem(Filled(f))]
        /\ [fs EXCEPT ![Len(fs)] = Filled(f)] = Append(DropTop(fs), Filled(f))
        /\ DropTop(fs) \in Seq(Arrays)
    BY <1>2, <1>4, <2>3, OpenOfTop, TopAndBelow
  <2>6. Begun' = frames'
    <3>1. frames' # <<>> /\ frames'[Len(frames')] = Filled(f)
      BY <2>2, <2>3, <2>5, AppendProperties
    <3>. QED
      BY <2>4, <3>1 DEF Begun, Top
  <2>. HIDE DEF e, f
  <2>7. COpen' = [e EXCEPT ![Len(e)] = Calls!Served(@)]
    <3>1. COpen' = [e EXCEPT ![Len(e)] = Elem(Filled(f))]
      BY <1>1, <2>2, <2>5, <2>6
    <3>2. Elem(Filled(f)) = Calls!Served(e[Len(e)])
      BY <2>1, <2>4
    <3>. QED
      BY <3>1, <3>2
  <2>8. CWhole' = CWhole
    BY <1>1, <2>2, RunningOpen
  <2>9. Received(e)
    BY <2>1, <2>5, <2>7, <2>8 DEF Received, Wanted
  <2>. QED
    BY <2>9 DEF e
<1>. QED
  BY <1>3, <1>4

\* A scalar for whoever was waiting.
LEMMA ValueCalls ==
    ASSUME IInv, WantsValue, NEW v, Store(frames, outs, v, owned + 1), UNCHANGED <<err, result>>
    PROVE  Calls!Next
<1>1. root = <<>> /\ (frames = <<>> \/ Waits(frames[Len(frames)])) /\ Running
  BY Waiting DEF Running
<1>2. Begun = frames
  BY <1>1 DEF Begun, Top, Waits, Expecting
<1>3. Received(OpenOf(frames))
  BY <1>1, StoreReceives DEF IInv
<1>. QED
  BY <1>1, <1>2, <1>3, RunningOpen, RunningOpenNext, CallsGive

\* An error.
LEMMA ErrorCalls ==
    ASSUME Running, err' \in Errors, result' = result
    PROVE  Calls!Next
<1>1. err' # "none" /\ result' = "running"
  BY DEF Errors, Running
<1>2. CAnswer' = "error" /\ COpen' = <<>> /\ CWhole' = FALSE
  BY <1>1 DEF CAnswer, COpen, CWhole
<1>. QED
  BY <1>2, RunningOpen, CallsAnswerError

\* An array, a row or a repeat for whoever was waiting.
LEMMA BeginCalls ==
    ASSUME Running, UNCHANGED <<err, result, root>>, root = <<>>,
           NEW st, StackOK(st), st = <<>> \/ Waits(st[Len(st)]), Begun = st,
           NEW f \in Arrays, f.kind # "schema", frames' = Append(st, f)
    PROVE  Calls!Next
<1>1. /\ COpen = OpenOf(st) /\ ~CWhole /\ CAnswer = "none"
      /\ COpen' = OpenOf(Begun') /\ CWhole' = CWhole /\ CAnswer' = CAnswer
  BY RunningOpen, RunningOpenNext
<1>2. st \in Seq(Arrays)
  BY DEF StackOK
<1>3. Begun' = Append(st, f)
  <2>1. frames' # <<>> /\ frames'[Len(frames')] = f
    BY <1>2, AppendProperties
  <2>. QED
    BY <2>1 DEF Begun, Top
<1>4. COpen' = Append(COpen, [needs |-> f.left, template |-> f.kind = "template"])
  BY <1>1, <1>2, <1>3, OpenOfAppend DEF Elem
<1>5. f.left \in 0..MaxU32 /\ (f.kind = "template") \in BOOLEAN
  BY DEF Arrays
<1>6. COpen # <<>> => COpen[Len(COpen)].template \/ COpen[Len(COpen)].needs > 0
  <2>1. st = <<>> => OpenOf(st) = <<>>
    BY <1>2, OpenOfSeq
  <2>. QED
    BY <1>1, <2>1, SomebodyWaits
<1>. QED
  BY <1>1, <1>4, <1>5, <1>6, CallsBeginArray DEF Wanted

\* An array that is entered where a value was called for is one that HostCalls begins.
LEMMA EnterCalls ==
    ASSUME IInv, WantsValue, NEW e \in Errors \cup {"none"},
           NEW kind \in {"packed", "hash", "longs", "template", "schema"},
           NEW count, NEW cols,
           e = "none" => count \in 0..MaxU32 /\ cols \in 0..MaxU32,
           NEW bytes, NEW zvals, NEW tables,
           Enter(e, kind, count, cols, bytes, zvals, tables)
    PROVE  Calls!Next \/ UNCHANGED Calls!vars
<1>0. root = <<>> /\ (frames = <<>> \/ Waits(frames[Len(frames)])) /\ Running
  BY Waiting DEF Running
<1>1. CASE ThenEnter(e) # "none"
  <2>1. ThenEnter(e) \in Errors
    BY <1>1 DEF ThenEnter, Errors
  <2>. QED
    BY <1>0, <1>1, <2>1, ErrorCalls DEF Enter, Raise
<1>2. CASE ThenEnter(e) = "none"
  <2>. DEFINE f == [kind |-> kind, count |-> count, left |-> count, keys |-> <<>>, cols |-> cols]
  <2>1. e = "none" /\ frames' = Append(frames, f) /\ UNCHANGED <<root, err, result>>
    BY <1>2 DEF ThenEnter, Enter
  <2>2. f \in Arrays /\ f.kind = kind
    <3>1. <<>> \in Seq(ArrayKeys)
      OBVIOUS
    <3>. QED
      BY <2>1, <3>1 DEF Arrays, Kinds
  <2>3. Begun = frames /\ frames \in Seq(Arrays)
    BY <1>0 DEF Begun, Top, Waits, Expecting, IInv, StackOK
  <2>. HIDE DEF f
  <2>4. CASE kind # "schema"
    BY <1>0, <2>1, <2>2, <2>3, <2>4, BeginCalls DEF IInv
  <2>5. CASE kind = "schema"
    <3>1. frames' # <<>> /\ frames'[Len(frames')] = f /\ frames' \in Seq(Arrays)
      BY <2>1, <2>2, <2>3, AppendProperties
    <3>2. Begun' = DropTop(frames')
      BY <2>2, <2>5, <3>1 DEF Begun, Top
    <3>3. DropTop(frames') = frames
      BY <2>1, <2>2, <2>3, DropAppended
    <3>. QED
      BY <1>0, <2>1, <2>3, <3>2, <3>3, RunningOpen, RunningOpenNext, CallsStutter
  <2>. QED
    BY <2>4, <2>5
<1>. QED
  BY <1>1, <1>2

\* Each action is a step of HostCalls, or none.
LEMMA ScalarCalls == IInv /\ DecodeScalar => Calls!Next
<1>. SUFFICES ASSUME IInv, DecodeScalar PROVE Calls!Next
  OBVIOUS
<1>1. WantsValue /\ Running
  BY DEF DecodeScalar, WantsValue
<1>2. ASSUME NEW e \in Errors, NEW bytes, Raise(e, bytes) PROVE Calls!Next
  BY <1>1, <1>2, ErrorCalls DEF Raise
<1>3. ASSUME NEW bytes, NEW v, Scalar(bytes, v) PROVE Calls!Next
  BY <1>1, <1>3, ValueCalls DEF Scalar
<1>4. CASE Raise("Truncated", <<>>)
  BY <1>2, <1>4 DEF Errors
<1>5. ASSUME NEW t, Raise("UnknownTag", <<t>>) \/ Raise("Truncated", <<t>>) PROVE Calls!Next
  BY <1>2, <1>5 DEF Errors
<1>6. ASSUME NEW t \in Peek(At, TagBytes), NEW u \in ReadUvarint(At + 1),
             IF u.err # "none" THEN Raise(u.err, <<t>> \o u.bytes)
             ELSE Scalar(<<t>> \o u.bytes, <<"int", ZigzagDecode(u.val)>>)
      PROVE  Calls!Next
  <2>1. u.err \in VarintErrors \cup {"none"}
    BY TagAndNumber DEF IInv
  <2>. QED
    BY <1>2, <1>3, <1>6, <2>1 DEF Errors, VarintErrors
<1>. QED
  BY <1>3, <1>4, <1>5, <1>6 DEF DecodeScalar

\* A string is a value that is given, or an error.
LEMMA StringCalls == IInv /\ DecodeString => Calls!Next
<1>. SUFFICES ASSUME IInv, DecodeString PROVE Calls!Next
  OBVIOUS
<1>1. WantsValue /\ Running
  BY DEF DecodeString, WantsValue
<1>2. PICK t \in Peek(At, TagBytes) \cap StringTags :
        \E r \in StringRead(At + 1, t, "UnknownTag") :
           IF r.err # "none" THEN Raise(r.err, <<t>> \o r.bytes)
           ELSE /\ Store(frames, outs, <<"str", r.text>>, owned + 1)
                /\ UNCHANGED <<len, strdedup, depth, keytabs, err, result>>
  BY DEF DecodeString
<1>3. PICK r \in StringRead(At + 1, t, "UnknownTag") :
           IF r.err # "none" THEN Raise(r.err, <<t>> \o r.bytes)
           ELSE /\ Store(frames, outs, <<"str", r.text>>, owned + 1)
                /\ UNCHANGED <<len, strdedup, depth, keytabs, err, result>>
  BY <1>2
<1>4. r.err \in Errors \cup {"none"}
  BY <1>2, TagAndString DEF Errors, ReadOK
<1>5. CASE r.err # "none"
  BY <1>1, <1>3, <1>4, <1>5, ErrorCalls DEF Raise
<1>6. CASE r.err = "none"
  BY <1>1, <1>3, <1>6, ValueCalls
<1>. QED
  BY <1>5, <1>6

\* A key is nothing to HostCalls, but may be an error.
LEMMA TakeKeyCalls == IInv /\ TakeKey => Calls!Next \/ UNCHANGED Calls!vars
<1>. SUFFICES ASSUME IInv, TakeKey PROVE Calls!Next \/ UNCHANGED Calls!vars
  OBVIOUS
<1>1. /\ Running /\ frames # <<>> /\ Top.kind \in {"hash", "schema"}
  BY DEF TakeKey, InTop
<1>2. ASSUME NEW e \in Errors, NEW bytes, Raise(e, bytes) PROVE Calls!Next
  BY <1>1, <1>2, ErrorCalls DEF Raise
<1>3. CASE Raise("Truncated", <<>>) \/ \E t : Raise("BadKey", <<t>>)
  BY <1>2, <1>3 DEF Errors
<1>4. ASSUME NEW t \in Peek(At, TagBytes) \cap KeyTags,
             NEW r \in IF t = TAG_VARINT THEN ReadUvarint(At + 1)
                       ELSE StringRead(At + 1, t, "BadKey")
      PROVE  /\ r.err \in Errors \cup {"none"}
             /\ r.err = "none" => (IF t = TAG_VARINT THEN <<"int", ZigzagDecode(r.val)>>
                                   ELSE SymtableKey(r.text)) \in ArrayKeys
  <2>1. CASE t = TAG_VARINT
    <3>1. r.err \in VarintErrors \cup {"none"} /\ r.val \in Nat
      BY <1>4, <2>1, TagAndNumber DEF IInv
    <3>2. ZigzagDecode(r.val) \in Int
      BY <3>1 DEF ZigzagDecode
    <3>. QED
      BY <2>1, <3>1, <3>2 DEF VarintErrors, Errors, ArrayKeys
  <2>2. CASE t # TAG_VARINT
    <3>1. t \in StringTags
      BY <1>4, <2>2 DEF KeyTags, StringTags
    <3>2. ReadOK(r, At + 1)
      BY <1>4, <2>2, <3>1, TagAndString DEF Errors
    <3>. QED
      BY <2>2, <3>2 DEF ReadOK, ArrayKeys
  <2>. QED
    BY <2>1, <2>2
<1>5. ASSUME NEW key \in ArrayKeys,
             frames' = [frames EXCEPT ![Len(frames)].keys = Append(@, key)],
             UNCHANGED <<root, err, result>>
      PROVE  UNCHANGED Calls!vars
  <2>. DEFINE f == [Top EXCEPT !.keys = Append(@, key)]
  <2>1. /\ Top \in Arrays /\ frames \in Seq(Arrays) /\ DropTop(frames) \in Seq(Arrays)
        /\ frames[Len(frames)] = Top
    BY <1>1, TopOK, TopAndBelow DEF Top
  <2>2. f \in Arrays /\ f.kind = Top.kind /\ Elem(f) = Elem(Top)
    <3>1. Append(Top.keys, key) \in Seq(ArrayKeys)
      BY <2>1, AppendProperties DEF Arrays
    <3>. QED
      BY <2>1, <3>1 DEF Arrays, Elem
  <2>3. frames' = [frames EXCEPT ![Len(frames)] = f]
    BY <1>5 DEF Top
  <2>. HIDE DEF f
  <2>4. /\ frames' = Append(DropTop(frames), f)
        /\ frames = Append(DropTop(frames), Top) /\ frames' \in Seq(Arrays)
    BY <1>1, <2>1, <2>2, <2>3, TopAndBelow
  <2>5. frames' # <<>> /\ frames'[Len(frames')] = f
    BY <2>1, <2>2, <2>4, AppendProperties
  <2>6. OpenOf(Begun') = OpenOf(Begun)
    <3>1. CASE Top.kind = "schema"
      <4>1. Begun = DropTop(frames) /\ Begun' = DropTop(frames')
        BY <1>1, <2>2, <2>5, <3>1 DEF Begun, Top
      <4>2. DropTop(frames') = DropTop(frames)
        BY <2>1, <2>2, <2>4, DropAppended
      <4>. QED
        BY <4>1, <4>2
    <3>2. CASE Top.kind # "schema"
      <4>1. Begun = frames /\ Begun' = frames'
        BY <1>1, <2>2, <2>5, <3>2 DEF Begun, Top
      <4>2. OpenOf(Append(DropTop(frames), f)) = Append(OpenOf(DropTop(frames)), Elem(f))
        BY <2>1, <2>2, OpenOfAppend
      <4>3. OpenOf(Append(DropTop(frames), Top)) = Append(OpenOf(DropTop(frames)), Elem(Top))
        BY <2>1, OpenOfAppend
      <4>4. OpenOf(frames') = OpenOf(frames)
        BY <2>2, <2>4, <4>2, <4>3
      <4>. QED
        BY <4>1, <4>4
    <3>. QED
      BY <3>1, <3>2
  <2>. QED
    BY <1>1, <1>5, <2>6, RunningOpen, RunningOpenNext, CallsStutter
<1>6. ASSUME NEW t \in Peek(At, TagBytes) \cap KeyTags,
             NEW r \in IF t = TAG_VARINT THEN ReadUvarint(At + 1)
                       ELSE StringRead(At + 1, t, "BadKey"),
             IF r.err # "none" THEN Raise(r.err, <<t>> \o r.bytes)
             ELSE /\ frames' = [frames EXCEPT ![Len(frames)].keys =
                         Append(@, IF t = TAG_VARINT THEN <<"int", ZigzagDecode(r.val)>>
                                   ELSE SymtableKey(r.text))]
                  /\ UNCHANGED <<root, err, result>>
      PROVE  Calls!Next \/ UNCHANGED Calls!vars
  <2>1. CASE r.err # "none"
    BY <1>2, <1>4, <1>6, <2>1
  <2>2. CASE r.err = "none"
    <3>. DEFINE key == IF t = TAG_VARINT THEN <<"int", ZigzagDecode(r.val)>>
                       ELSE SymtableKey(r.text)
    <3>1. /\ frames' = [frames EXCEPT ![Len(frames)].keys = Append(@, key)]
          /\ UNCHANGED <<root, err, result>>
      BY <1>6, <2>2
    <3>2. key \in ArrayKeys
      BY <1>4, <2>2
    <3>. HIDE DEF key
    <3>. QED
      BY <1>5, <3>1, <3>2
  <2>. QED
    BY <2>1, <2>2
<1>. QED
  BY <1>3, <1>6 DEF TakeKey

\* An array tag: one more open array, or an error, or the key table of a rowset.
LEMMA BeginArrayCalls == IInv /\ BeginArray => Calls!Next \/ UNCHANGED Calls!vars
<1>. SUFFICES ASSUME IInv, BeginArray PROVE Calls!Next \/ UNCHANGED Calls!vars
  OBVIOUS
<1>0. WantsValue /\ CursorOK
  BY DEF BeginArray, IInv
<1>1. PICK t \in Peek(At, TagBytes) :
        \E u \in IF t \in TAG_ARRAY_PACKED..TAG_ARRAY_REPEAT THEN ReadUvarint(At + 1) ELSE {} :
         LET bytes == <<t>> \o u.bytes
             rest == len - At - 1
         IN  \/ Enter(CountError(u, 1, rest), "packed", u.val, 0, bytes, 1, 0)
             \/ Enter(CountError(u, 2, rest), "hash", u.val, 0, bytes, 1, 0)
             \/ Enter(CountError(u, 1, rest), "longs", u.val, 0, bytes, 1, 0)
             \/ Enter(RepeatError(u, rest), "template", u.val, 0, bytes, 0, 0)
             \/ \E c \in IF u.err = "none" THEN ReadUvarint(At + 2) ELSE {u} :
                     Enter(RowsError(u, c, rest - 1), "schema", u.val, c.val,
                           IF u.err = "none" THEN bytes \o c.bytes ELSE bytes, 0, 1)
  BY DEF BeginArray
<1>2. PICK u \in ReadUvarint(At + 1) :
         LET bytes == <<t>> \o u.bytes
             rest == len - At - 1
         IN  \/ Enter(CountError(u, 1, rest), "packed", u.val, 0, bytes, 1, 0)
             \/ Enter(CountError(u, 2, rest), "hash", u.val, 0, bytes, 1, 0)
             \/ Enter(CountError(u, 1, rest), "longs", u.val, 0, bytes, 1, 0)
             \/ Enter(RepeatError(u, rest), "template", u.val, 0, bytes, 0, 0)
             \/ \E c \in IF u.err = "none" THEN ReadUvarint(At + 2) ELSE {u} :
                     Enter(RowsError(u, c, rest - 1), "schema", u.val, c.val,
                           IF u.err = "none" THEN bytes \o c.bytes ELSE bytes, 0, 1)
  BY <1>1
<1>. DEFINE bytes == <<t>> \o u.bytes
            rest == len - At - 1
<1>3. u.err \in VarintErrors \cup {"none"} /\ u.val \in Nat /\ 0 \in 0..MaxU32
  <2>1. u.err \in VarintErrors \cup {"none"} /\ u.val \in Nat
    BY <1>0, TagAndNumber
  <2>. QED
    BY <2>1, DecoderCAssumption
<1>4. rest \in Int /\ rest - 1 \in Int /\ At + 2 \in Nat \ {0}
  BY <1>0 DEF CursorOK, At
<1>. HIDE DEF bytes, rest
<1>5. CASE Enter(CountError(u, 1, rest), "packed", u.val, 0, bytes, 1, 0)
  BY <1>0, <1>3, <1>4, <1>5, CountsChecked, EnterCalls
<1>6. CASE Enter(CountError(u, 2, rest), "hash", u.val, 0, bytes, 1, 0)
  BY <1>0, <1>3, <1>4, <1>6, CountsChecked, EnterCalls
<1>7. CASE Enter(CountError(u, 1, rest), "longs", u.val, 0, bytes, 1, 0)
  BY <1>0, <1>3, <1>4, <1>7, CountsChecked, EnterCalls
<1>8. CASE Enter(RepeatError(u, rest), "template", u.val, 0, bytes, 0, 0)
  BY <1>0, <1>3, <1>4, <1>8, CountsChecked, EnterCalls
<1>9. ASSUME NEW c \in IF u.err = "none" THEN ReadUvarint(At + 2) ELSE {u}, NEW b,
             Enter(RowsError(u, c, rest - 1), "schema", u.val, c.val, b, 0, 1)
      PROVE  Calls!Next \/ UNCHANGED Calls!vars
  <2>1. c.err \in VarintErrors \cup {"none"} /\ c.val \in Nat
    BY <1>0, <1>3, <1>4, <1>9, UvarintRead
  <2>. QED
    BY <1>0, <1>3, <1>4, <1>9, <2>1, CountsChecked, EnterCalls
<1>. QED
  BY <1>2, <1>5, <1>6, <1>7, <1>8, <1>9 DEF bytes, rest

\* The end of a key table is where the array of a rowset is begun.
LEMMA OpenRowsCalls == IInv /\ OpenRows => Calls!Next
<1>. SUFFICES ASSUME IInv, OpenRows PROVE Calls!Next
  OBVIOUS
<1>. DEFINE f == [Top EXCEPT !.kind = "rows"]
<1>1. /\ Running /\ frames # <<>> /\ Top.kind = "schema"
      /\ frames' = [frames EXCEPT ![Len(frames)] = f] /\ UNCHANGED <<err, result, root>>
  BY DEF OpenRows, InTop, Top, Settled
<1>2. Top \in Arrays /\ frames \in Seq(Arrays) /\ root = <<>>
  BY <1>1, TopOK
<1>3. f \in Arrays /\ f.kind # "schema"
  BY <1>2 DEF Arrays, Kinds
<1>4. frames' = Append(DropTop(frames), f)
  BY <1>1, <1>2, <1>3, TopAndBelow
<1>5. /\ StackOK(DropTop(frames))
      /\ DropTop(frames) = <<>> \/ Waits(DropTop(frames)[Len(DropTop(frames))])
      /\ Begun = DropTop(frames)
  BY <1>1, FrameLeft DEF IInv, Begun
<1>. HIDE DEF f
<1>. QED
  BY <1>1, <1>2, <1>3, <1>4, <1>5, BeginCalls

\* A row is begun by the rowset that wants it.
LEMMA BeginRowCalls == IInv /\ BeginRow => Calls!Next
<1>. SUFFICES ASSUME IInv, BeginRow PROVE Calls!Next
  OBVIOUS
<1>1. Running /\ frames # <<>> /\ Top.kind = "rows" /\ Top.left > 0
  BY DEF BeginRow, InTop
<1>2. CASE depth >= MaxDepth
  BY <1>1, <1>2, ErrorCalls DEF BeginRow, Raise, Errors
<1>3. CASE ~(depth >= MaxDepth)
  <2>1. PICK f : f = [Top EXCEPT !.kind = "row", !.count = Top.cols, !.left = Top.cols]
    OBVIOUS
  <2>2. frames' = Append(frames, f) /\ UNCHANGED <<err, result, root>>
    BY <1>3, <2>1 DEF BeginRow, Settled
  <2>3. Top \in Arrays /\ root = <<>>
    BY <1>1, TopOK
  <2>4. f \in Arrays /\ f.kind # "schema"
    BY <2>1, <2>3, RowFrame
  <2>5. Waits(frames[Len(frames)]) /\ Begun = frames
    BY <1>1 DEF Waits, Top, Begun
  <2>. QED
    BY <1>1, <2>2, <2>3, <2>4, <2>5, BeginCalls DEF IInv
<1>. QED
  BY <1>2, <1>3

\* A long, or a copy of the template.
LEMMA ElementCalls ==
    ASSUME IInv, InTop("longs") \/ InTop("copies"), Top.left > 0, NEW v, AddElement(v)
    PROVE  Calls!Next
<1>. DEFINE f == [Top EXCEPT !.left = @ - 1]
<1>1. /\ Running /\ frames # <<>> /\ Top.kind \in {"longs", "copies"}
      /\ frames' = [frames EXCEPT ![Len(frames)] = f] /\ UNCHANGED <<err, result, root>>
  BY DEF AddElement, InTop, Top, Settled
<1>2. /\ Top \in Arrays /\ frames \in Seq(Arrays) /\ root = <<>> /\ MaxU32 \in Nat
      /\ Top = frames[Len(frames)]
  BY <1>1, TopOK DEF Top
<1>3. Top.left - 1 \in 0..MaxU32
  BY <1>2 DEF Arrays
<1>4. f \in Arrays /\ f.kind = Top.kind
  BY <1>2, <1>3 DEF Arrays
<1>5. Elem(f) = Calls!Served(Elem(Top)) /\ ~Elem(Top).template /\ Elem(Top).needs > 0
  BY <1>1, <1>2 DEF Elem, Calls!Served, Arrays
<1>. HIDE DEF f
<1>6. /\ OpenOf(frames) # <<>> /\ Len(OpenOf(frames)) = Len(frames)
      /\ OpenOf(frames)[Len(frames)] = Elem(Top)
      /\ OpenOf(frames') = [OpenOf(frames) EXCEPT ![Len(frames)] = Elem(f)]
  BY <1>1, <1>2, <1>4, OpenOfTop
<1>7. frames' = Append(DropTop(frames), f) /\ DropTop(frames) \in Seq(Arrays)
  BY <1>1, <1>2, <1>4, TopAndBelow
<1>8. frames' # <<>> /\ frames'[Len(frames')] = f
  BY <1>4, <1>7, AppendProperties
<1>9. Begun = frames /\ Begun' = frames'
  BY <1>1, <1>4, <1>8 DEF Begun, Top
<1>10. /\ COpen = OpenOf(frames) /\ COpen' = OpenOf(frames') /\ CWhole' = CWhole
       /\ CAnswer = "none" /\ CAnswer' = CAnswer
  BY <1>1, <1>9, RunningOpen, RunningOpenNext
<1>11. Received(COpen)
  BY <1>5, <1>6, <1>10 DEF Received, Wanted
<1>. QED
  BY <1>10, <1>11, CallsGive

\* A complete array is handed on.
LEMMA EndArrayCalls == IInv /\ EndArray => Calls!Next
<1>. SUFFICES ASSUME IInv, EndArray PROVE Calls!Next
  OBVIOUS
<1>1. /\ Running /\ frames # <<>> /\ Top.left = 0 /\ Top.kind \notin {"schema", "template"}
      /\ UNCHANGED <<err, result>> /\ Begun = frames
      /\ \E v, o : Store(DropTop(frames), DropTop(outs), v, o)
  BY DEF EndArray, Finished, Begun
<1>2. /\ Top \in Arrays /\ frames \in Seq(Arrays) /\ root = <<>> /\ Top = frames[Len(frames)]
  BY <1>1, TopOK DEF Top
<1>3. /\ StackOK(DropTop(frames))
      /\ DropTop(frames) = <<>> \/ Waits(DropTop(frames)[Len(DropTop(frames))])
  BY <1>1, FrameLeft DEF IInv
<1>4. Received(OpenOf(DropTop(frames)))
  BY <1>1, <1>2, <1>3, StoreReceives
<1>5. /\ OpenOf(frames) # <<>> /\ Len(OpenOf(frames)) = Len(frames)
      /\ OpenOf(frames)[Len(frames)] = Elem(Top)
      /\ OpenOf(DropTop(frames)) = SubSeq(OpenOf(frames), 1, Len(frames) - 1)
  BY <1>1, <1>2, OpenOfTop
<1>6. ~Elem(Top).template /\ Elem(Top).needs = 0
  BY <1>1 DEF Elem
<1>7. COpen = OpenOf(frames) /\ CAnswer = "none" /\ CAnswer' = CAnswer
  BY <1>1, RunningOpen, RunningOpenNext
<1>. QED
  BY <1>4, <1>5, <1>6, <1>7, CallsEndArray

\* While an error is on its way out, HostCalls has nothing open.
LEMMA UnwindCalls == Unwind => UNCHANGED Calls!vars
BY CallsStutter DEF Unwind, COpen, CWhole, CAnswer

\* The decoder returns what its outermost call built, or its error.
LEMMA ReturnCalls == IInv /\ Return => Calls!Next \/ UNCHANGED Calls!vars
<1>. SUFFICES ASSUME IInv, Return PROVE Calls!Next \/ UNCHANGED Calls!vars
  OBVIOUS
<1>1. /\ result = "running" /\ frames = <<>> /\ (err # "none" \/ root # <<>>)
      /\ result' = (IF err # "none" THEN err ELSE IF pos # len THEN "Trailing" ELSE "ok")
      /\ root' = (IF result' = "ok" THEN root ELSE <<>>)
      /\ UNCHANGED <<frames, err>> /\ err \in Errors \cup {"none"}
  BY DEF Return, Given, IInv
<1>2. Begun = <<>> /\ Begun' = <<>> /\ OpenOf(<<>>) = <<>>
  BY <1>1 DEF Begun, OpenOf
<1>3. COpen = <<>> /\ COpen' = <<>>
  BY <1>2 DEF COpen, OpenOf, Elem
<1>4. CASE err # "none"
  BY <1>1, <1>3, <1>4, CallsStutter DEF CWhole, CAnswer, Errors
<1>5. CASE err = "none" /\ pos # len
  BY <1>1, <1>3, <1>5, CallsAnswerError DEF CWhole, CAnswer
<1>6. CASE err = "none" /\ ~(pos # len)
  BY <1>1, <1>3, <1>6, CallsAnswerValue DEF CWhole, CAnswer
<1>. QED
  BY <1>4, <1>5, <1>6

\* Every step of the C decoder is one of HostCalls, or none.
LEMMA NextCalls == IInv /\ [Next]_vars => [Calls!Next]_(Calls!vars)
<1>. SUFFICES ASSUME IInv, [Next]_vars PROVE Calls!Next \/ UNCHANGED Calls!vars
  OBVIOUS
<1>1. CASE UNCHANGED vars
  BY <1>1, CallsStutter DEF vars, COpen, CWhole, CAnswer, Begun, Top
<1>2. CASE Step
  <2>1. CASE ReadLong
    <3>1. PICK u \in ReadUvarint(At) :
             IF u.err # "none" THEN Raise(u.err, u.bytes)
             ELSE Advance(u.bytes) /\ AddElement(<<"int", ZigzagDecode(u.val)>>)
      BY <2>1 DEF ReadLong
    <3>2. u.err \in VarintErrors \cup {"none"}
      BY UvarintRead DEF IInv, CursorOK, At
    <3>3. CASE u.err # "none"
      BY <2>1, <3>1, <3>2, <3>3, ErrorCalls DEF ReadLong, InTop, Raise, VarintErrors, Errors
    <3>4. CASE u.err = "none"
      BY <2>1, <3>1, <3>4, ElementCalls DEF ReadLong
    <3>. QED
      BY <3>3, <3>4
  <2>2. CASE CopyTemplate
    BY <2>2, ElementCalls DEF CopyTemplate
  <2>. QED
    BY <1>2, <2>1, <2>2, ScalarCalls, StringCalls, TakeKeyCalls, BeginArrayCalls,
       OpenRowsCalls, BeginRowCalls, EndArrayCalls, UnwindCalls, ReturnCalls DEF Step
<1>3. CASE InsertFails
  <2>1. Running /\ err' = "Host" /\ result' = result
    BY <1>3 DEF InsertFails, Raise, WantsValue, InTop, Finished
  <2>. QED
    BY <2>1, ErrorCalls DEF Errors
<1>. QED
  BY <1>1, <1>2, <1>3 DEF Next, Stopped

\* The C decoder keeps the promise of HostCalls to the arrays it builds: they nest,
\* each gets exactly as many elements as it was begun with, and a payload ends in
\* one value or in an error that leaves nothing open.
THEOREM CDecoderKeepsHostCalls == Spec => KeepsHostCalls
<1>1. Start => Calls!Init
  <2>. SUFFICES ASSUME Start PROVE Calls!Init
    OBVIOUS
  <2>1. frames = <<>> /\ root = <<>> /\ err = "none" /\ result \in {"running", "MaxSize"}
    BY DEF Start, Init
  <2>2. COpen = <<>> /\ CWhole = FALSE /\ CAnswer \in {"none", "error"}
    BY <2>1 DEF COpen, CWhole, CAnswer, Begun, OpenOf
  <2>. QED
    BY <2>2, CallsInit
<1>. QED
  BY <1>1, NextCalls, DecoderInvariant, PTL DEF Spec, KeepsHostCalls, Calls!Spec
=============================================================================
