--------------------------- MODULE DocumentProofs ---------------------------
(***************************************************************************)
(* The readers of a stored document and the limits they keep, for every    *)
(* document, whatever became of it, and every pair of limits.              *)
(***************************************************************************)
EXTENDS Document, TLAPS, SequenceTheorems

\* The limits fit the types of the Rust readers.
Fits == asked.depth \in 0..(U32 - 1) /\ asked.size >= 0

\* What the extension makes of the limits it is asked to keep.
PhpAnswer == CDecode(NotNegative(asked.depth) % U32, NotNegative(asked.size))

\* What the Rust readers make of theirs; only pf_decode has pointers that may be null.
IsRustAnswer(r, a) ==
    \/ a = DecodeWith(asked.depth, asked.size)
    \/ r = "ffi" /\ a = Refused("NullArg")

\* The store is left alone once somebody has read it, so that every answer is still the
\* one a reader would give.
IInv ==
    /\ stored \in Seq(Nat)
    /\ asked.depth \in Int /\ asked.size \in Int
    /\ Readers # {} => origin # Nothing
    /\ Readers \subseteq {"rust", "ffi", "php"}
    /\ \A r \in Readers \cap {"rust", "ffi"} : Fits /\ IsRustAnswer(r, answers[r])
    /\ "php" \in Readers => answers["php"] = PhpAnswer

\* Nobody has read anything yet.
LEMMA InitIInv == Init => IInv
<1>. SUFFICES ASSUME Init PROVE IInv
  OBVIOUS
<1>1. Readers = {}
  BY DEF Init, Readers
<1>2. asked.depth \in Int /\ asked.size \in Int
  BY DocumentAssumption DEF Init
<1>3. stored \in Seq(Nat)
  BY DEF Init
<1>. QED
  BY <1>1, <1>2, <1>3 DEF IInv

\* A document that is written is a sequence of bytes.
LEMMA WrittenType ==
    ASSUME WriteRust \/ WriteC \/ WriteOther
    PROVE  stored' \in Seq(Nat)
<1>1. \A b, c \in Seq(Nat) : b \o c \in Seq(Nat)
  BY ConcatProperties
<1>2. MAGIC \in Nat /\ VERSION_V1 \in Nat
  BY DEF MAGIC, VERSION_V1
<1>3. CASE WriteRust
  <2>1. PICK flags \in Flags, payload \in Payloads : stored' = Finished(flags, payload)
    BY <1>3 DEF WriteRust, Store
  <2>2. <<MAGIC, VERSION_V1, flags>> \in Seq(Nat) /\ payload \in Seq(Nat)
    BY <1>2, DocumentAssumption DEF Flags
  <2>3. (IF HasChecksum(flags) THEN <<Hash(payload)>> ELSE <<>>) \in Seq(Nat)
    BY DocumentAssumption
  <2>. QED
    BY <1>1, <2>1, <2>2, <2>3 DEF Finished
<1>4. CASE WriteC
  <2>1. PICK flags \in Flags, payload \in Payloads :
            stored' = <<MAGIC, VERSION_V1, flags>> \o payload
    BY <1>4 DEF WriteC, Store
  <2>2. <<MAGIC, VERSION_V1, flags>> \in Seq(Nat) /\ payload \in Seq(Nat)
    BY <1>2, DocumentAssumption DEF Flags
  <2>. QED
    BY <1>1, <2>1, <2>2
<1>5. CASE WriteOther
  BY <1>5, DocumentAssumption DEF WriteOther, Store
<1>. QED
  BY <1>3, <1>4, <1>5

\* And so is what damage leaves of it.
LEMMA DamagedType ==
    ASSUME stored \in Seq(Nat), Damage
    PROVE  stored' \in Seq(Nat)
<1>1. CASE \E k \in DOMAIN stored, b \in Bytes : stored' = [stored EXCEPT ![k] = b]
  BY <1>1, DocumentAssumption, ExceptSeq, LenProperties
<1>2. CASE \E n \in 0..Len(stored) : stored' = SubSeq(stored, 1, n)
  <2>1. PICK n \in 0..Len(stored) : stored' = SubSeq(stored, 1, n)
    BY <1>2
  <2>2. \A k \in 1..n : stored[k] \in Nat
    BY ElementOfSeq, LenProperties
  <2>. QED
    BY <2>1, <2>2, SubSeqProperties
<1>3. CASE \E b \in Bytes : stored' = Append(stored, b)
  BY <1>3, DocumentAssumption, AppendProperties
<1>. QED
  BY <1>1, <1>2, <1>3 DEF Damage, Damaged, Changed, Cut, Longer

\* Only a document that nobody has read is written or damaged.
LEMMA UnreadIInv ==
    ASSUME IInv, Readers = {}, stored' \in Seq(Nat), UNCHANGED <<asked, answers>>
    PROVE  IInv'
BY DEF IInv, Readers

\* A reader answers once, and nothing that the other answers depend on changes.
LEMMA AnswerIInv ==
    ASSUME IInv, NEW reader \in {"rust", "ffi", "php"}, NEW answer, Answer(reader, answer),
           reader \in {"rust", "ffi"} => Fits /\ IsRustAnswer(reader, answer),
           reader = "php" => answer = PhpAnswer
    PROVE  IInv'
<1>1. /\ origin # Nothing /\ reader \notin Readers
      /\ Readers' = Readers \cup {reader}
      /\ \A r \in Readers' : answers'[r] = IF r = reader THEN answer ELSE answers[r]
      /\ stored' = stored /\ asked' = asked /\ origin' = origin
  BY DEF Answer, Readers
<1>2. /\ Fits' = Fits /\ PhpAnswer' = PhpAnswer
      /\ DecodeWith(asked.depth, asked.size)' = DecodeWith(asked.depth, asked.size)
      /\ \A r, a : IsRustAnswer(r, a)' = IsRustAnswer(r, a)
  BY <1>1 DEF Fits, IsRustAnswer, PhpAnswer, CDecode, DecodeWith, HeaderError, ChecksumError,
     Bounded, Behind, Refused
<1>3. ASSUME NEW r \in Readers' \cap {"rust", "ffi"}
      PROVE  Fits /\ IsRustAnswer(r, answers'[r])
  BY <1>1, <1>3 DEF IInv
<1>4. "php" \in Readers' => answers'["php"] = PhpAnswer
  BY <1>1 DEF IInv
<1>5. origin' # Nothing' /\ Readers' \subseteq {"rust", "ffi", "php"}
  BY <1>1 DEF IInv, Nothing
<1>. QED
  BY <1>1, <1>2, <1>3, <1>4, <1>5 DEF IInv

\* Every step keeps the invariant.
LEMMA NextIInv == IInv /\ [Next \/ Stopped]_vars => IInv'
<1>. SUFFICES ASSUME IInv, [Next \/ Stopped]_vars PROVE IInv'
  OBVIOUS
<1>1. CASE WriteRust \/ WriteC \/ WriteOther
  <2>1. origin = Nothing /\ UNCHANGED <<asked, answers>>
    BY <1>1 DEF WriteRust, WriteC, WriteOther, Store
  <2>. QED
    BY <1>1, <2>1, WrittenType, UnreadIInv DEF IInv
<1>2. CASE Damage
  <2>1. answers = <<>> /\ UNCHANGED <<asked, answers>>
    BY <1>2 DEF Damage, Damaged
  <2>2. Readers = {}
    BY <2>1 DEF Readers
  <2>. QED
    BY <1>2, <2>1, <2>2, DamagedType, UnreadIInv DEF IInv
<1>3. CASE ReadRust
  <2>. DEFINE a == DecodeWith(asked.depth, asked.size)
  <2>1. Fits /\ IsRustAnswer("rust", a)
    BY <1>3 DEF ReadRust, Fits, IsRustAnswer
  <2>2. Answer("rust", a)
    BY <1>3 DEF ReadRust
  <2>. HIDE DEF a
  <2>. QED
    BY <2>1, <2>2, AnswerIInv
<1>4. CASE ReadFfi
  <2>1. Fits
    BY <1>4 DEF ReadFfi, Fits
  <2>2. PICK a \in {Refused("NullArg"), DecodeWith(asked.depth, asked.size)} : Answer("ffi", a)
    BY <1>4 DEF ReadFfi
  <2>3. IsRustAnswer("ffi", a)
    BY DEF IsRustAnswer
  <2>. QED
    BY <2>1, <2>2, <2>3, AnswerIInv
<1>5. CASE ReadPhp
  BY <1>5, AnswerIInv DEF ReadPhp, PhpAnswer
<1>6. CASE UNCHANGED vars
  <2>1. HeaderError' = HeaderError /\ ChecksumError' = ChecksumError
    BY <1>6 DEF vars, HeaderError, ChecksumError, Behind
  <2>2. DecodeWith(asked.depth, asked.size)' = DecodeWith(asked.depth, asked.size)
    BY <1>6, <2>1 DEF vars, DecodeWith, Bounded, Behind
  <2>3. PhpAnswer' = PhpAnswer
    BY <1>6, <2>1 DEF vars, PhpAnswer, CDecode, Bounded, Behind
  <2>. QED
    BY <1>6, <2>2, <2>3 DEF vars, IInv, Readers, Fits, IsRustAnswer
<1>. QED
  BY <1>1, <1>2, <1>3, <1>4, <1>5, <1>6 DEF Next, Stopped

\* The answers are those of the readers, always.
LEMMA Invariant == Spec => []IInv
BY InitIInv, NextIInv, PTL DEF Spec
-----------------------------------------------------------------------------
\* What is left of a number is not more than it was, and all of it if it was small.
LEMMA CutDepth ==
    ASSUME NEW n \in Nat
    PROVE  n % U32 \in 0..(U32 - 1) /\ n % U32 <= n /\ (n < U32 => n % U32 = n)
<1>1. U32 \in Nat \ {0}
  BY DocumentAssumption
<1>. QED
  BY <1>1

\* An accepted payload is within the size, and both limits are the ones given or, for
\* 0, the defaults.
LEMMA BoundedAnswer ==
    ASSUME NEW depth \in Nat, NEW size \in Nat,
           NEW a \in {DecodeWith(depth, size), CDecode(depth, size)}, a.err = "none"
    PROVE  /\ a.depth = OrDefault(depth, DefaultDepth) /\ a.size = OrDefault(size, DefaultSize)
           /\ ~(Len(a.payload) > a.size)
<1>1. \A e : Refused(e).err = e
  BY DEF Refused
<1>2. ASSUME NEW p, a = Bounded(p, depth, size)
      PROVE  /\ a.depth = OrDefault(depth, DefaultDepth)
             /\ a.size = OrDefault(size, DefaultSize) /\ ~(Len(a.payload) > a.size)
  BY <1>1, <1>2 DEF Bounded
<1>3. \E p : a = Bounded(p, depth, size)
  BY <1>1 DEF DecodeWith, CDecode
<1>. QED
  BY <1>2, <1>3

\* What is handed on of a document is a sequence of bytes as well.
LEMMA PayloadType ==
    ASSUME stored \in Seq(Nat), NEW depth, NEW size,
           NEW a \in {DecodeWith(depth, size), CDecode(depth, size)}, a.err = "none"
    PROVE  a.payload \in Seq(Nat)
<1>1. \A e : Refused(e).err = e
  BY DEF Refused
<1>2. ASSUME NEW n \in {HEADER_BASE_LEN, HEADER_BASE_LEN + CHECKSUM_LEN}
      PROVE  Behind(n) \in Seq(Nat)
  <2>1. n + 1 \in Nat \ {0} /\ Len(stored) \in Nat
    BY LenProperties DEF HEADER_BASE_LEN, CHECKSUM_LEN
  <2>2. \A k \in (n + 1)..Len(stored) : stored[k] \in Nat
    BY <2>1, ElementOfSeq
  <2>. QED
    BY <2>1, <2>2, SubSeqProperties DEF Behind
<1>3. PICK n \in {HEADER_BASE_LEN, HEADER_BASE_LEN + CHECKSUM_LEN} :
          a = Bounded(Behind(n), depth, size)
  BY <1>1 DEF DecodeWith, CDecode
<1>4. a.payload = Behind(n)
  BY <1>1, <1>3 DEF Bounded
<1>. QED
  BY <1>2, <1>4

\* What an accepted document was accepted with, whoever did.
LEMMA AcceptedLimits ==
    ASSUME IInv, NEW r \in Readers, Accepts(r)
    PROVE  /\ answers[r].depth \in 1..(U32 - 1)
           /\ answers[r].depth <= (IF asked.depth > 0 THEN asked.depth ELSE DefaultDepth)
           /\ answers[r].size = (IF asked.size > 0 THEN asked.size ELSE DefaultSize)
           /\ Len(answers[r].payload) <= answers[r].size
<1>. DEFINE a == answers[r]
<1>0. a.err = "none" /\ asked.depth \in Int /\ asked.size \in Int /\ stored \in Seq(Nat)
  BY DEF Accepts, IInv
<1>1. U32 \in Nat \ {0} /\ DefaultDepth \in 1..(U32 - 1) /\ DefaultSize \in Nat \ {0}
  BY DocumentAssumption
<1>2. CASE r \in {"rust", "ffi"}
  <2>1. Fits /\ IsRustAnswer(r, a)
    BY <1>2 DEF IInv
  <2>2. a = DecodeWith(asked.depth, asked.size)
    BY <1>0, <2>1 DEF IsRustAnswer, Refused
  <2>3. asked.depth \in Nat /\ asked.size \in Nat /\ asked.depth <= U32 - 1
    BY <1>0, <1>1, <2>1 DEF Fits
  <2>. HIDE DEF a
  <2>4. /\ a.depth = OrDefault(asked.depth, DefaultDepth)
        /\ a.size = OrDefault(asked.size, DefaultSize) /\ ~(Len(a.payload) > a.size)
    BY <1>0, <2>2, <2>3, BoundedAnswer
  <2>5. a.payload \in Seq(Nat)
    BY <1>0, <2>2, PayloadType
  <2>6. Len(a.payload) \in Nat
    BY <2>5, LenProperties
  <2>. QED
    BY <1>1, <2>3, <2>4, <2>6 DEF OrDefault, a
<1>3. CASE r = "php"
  <2>. DEFINE d == NotNegative(asked.depth) % U32
              n == NotNegative(asked.size)
  <2>1. a = CDecode(d, n)
    BY <1>3 DEF IInv, PhpAnswer
  <2>2. /\ NotNegative(asked.depth) \in Nat /\ n \in Nat
        /\ n = IF asked.size < 0 THEN 0 ELSE asked.size
        /\ NotNegative(asked.depth) = IF asked.depth < 0 THEN 0 ELSE asked.depth
    BY <1>0 DEF NotNegative
  <2>3. /\ d \in 0..(U32 - 1) /\ d <= NotNegative(asked.depth)
        /\ NotNegative(asked.depth) < U32 => d = NotNegative(asked.depth)
    BY <2>2, CutDepth
  <2>. HIDE DEF a, d, n
  <2>4. d \in Nat
    BY <1>1, <2>3
  <2>5. /\ a.depth = OrDefault(d, DefaultDepth)
        /\ a.size = OrDefault(n, DefaultSize) /\ ~(Len(a.payload) > a.size)
    BY <1>0, <2>1, <2>2, <2>4, BoundedAnswer DEF a
  <2>6. a.payload \in Seq(Nat)
    BY <1>0, <2>1, PayloadType DEF a
  <2>7. Len(a.payload) \in Nat
    BY <2>6, LenProperties
  <2>8. a.depth \in 1..(U32 - 1)
    BY <1>1, <2>3, <2>4, <2>5 DEF OrDefault
  <2>9. a.depth <= (IF asked.depth > 0 THEN asked.depth ELSE DefaultDepth)
    BY <1>0, <1>1, <2>2, <2>3, <2>4, <2>5 DEF OrDefault
  <2>10. a.size = (IF asked.size > 0 THEN asked.size ELSE DefaultSize)
    BY <1>0, <1>1, <2>2, <2>5 DEF OrDefault
  <2>11. Len(a.payload) <= a.size
    BY <1>0, <1>1, <2>5, <2>7, <2>10
  <2>. QED
    BY <2>8, <2>9, <2>10, <2>11 DEF a
<1>. QED
  BY <1>2, <1>3 DEF IInv
-----------------------------------------------------------------------------
\* Every variable has its type, and a depth that is kept is one a u32 can hold.
THEOREM DocumentTypeCorrect == Spec => []TypeOK
<1>1. IInv => TypeOK
  BY AcceptedLimits DEF IInv, TypeOK, Readers
<1>. QED
  BY <1>1, Invariant, PTL

\* No reader keeps to larger limits than it was asked for, though the extension takes
\* them as signed numbers and cuts the depth to 32 bits (pfserialize.c:103).
THEOREM DocumentLimitsKept == Spec => []LimitsAreKept
<1>1. IInv => LimitsAreKept
  BY AcceptedLimits DEF LimitsAreKept
<1>. QED
  BY <1>1, Invariant, PTL

\* The header parsers of header.rs and decode_c.c answer every document, damaged or
\* foreign, alike, a checksum aside.
THEOREM DocumentReadersAgree == Spec => []ReadersAgree
<1>1. ASSUME IInv, NEW r \in Readers \cap {"rust", "ffi"}, "php" \in Readers,
             answers["php"].err # "Checksum", answers[r].err # "NullArg"
      PROVE  answers[r] = answers["php"]
  <2>1. \A e : Refused(e).err = e
    BY DEF Refused
  <2>2. Fits /\ answers[r] = DecodeWith(asked.depth, asked.size) /\ answers["php"] = PhpAnswer
    BY <1>1, <2>1 DEF IInv, IsRustAnswer
  <2>3. NotNegative(asked.depth) % U32 = asked.depth /\ NotNegative(asked.size) = asked.size
    <3>1. asked.depth \in Nat /\ asked.depth < U32 /\ asked.size \in Int /\ asked.size >= 0
      BY <1>1, <2>2, DocumentAssumption DEF IInv, Fits
    <3>2. NotNegative(asked.depth) = asked.depth /\ NotNegative(asked.size) = asked.size
      BY <3>1 DEF NotNegative
    <3>. QED
      BY <3>1, <3>2, CutDepth
  <2>4. answers["php"] = CDecode(asked.depth, asked.size)
    BY <2>2, <2>3 DEF PhpAnswer
  <2>. QED
    BY <1>1, <2>1, <2>2, <2>4 DEF CDecode, DecodeWith
<1>2. IInv => ReadersAgree
  BY <1>1 DEF ReadersAgree
<1>. QED
  BY <1>2, Invariant, PTL
-----------------------------------------------------------------------------
(* A document that nothing happened to.                                      *)

\* As long as it is undamaged, the store holds what was written.
Untouched ==
    /\ origin = Nothing => damage = <<>> /\ Readers = {}
    /\ damage = <<>> /\ origin # Nothing /\ origin.writer # "other" =>
          /\ origin.flags \in Flags /\ ~HasReserved(origin.flags)
          /\ origin.payload \in Payloads
          /\ stored = Finished(origin.flags, origin.payload)

\* Nothing is written yet.
LEMMA InitUntouched == Init => Untouched
BY DEF Init, Untouched, Readers

\* What the C encoder stores has the form of a document without a checksum.
LEMMA CForm ==
    ASSUME NEW flags \in Flags, ~HasChecksum(flags), NEW payload \in Seq(Nat)
    PROVE  Finished(flags, payload) = <<MAGIC, VERSION_V1, flags>> \o payload
<1>1. <<MAGIC, VERSION_V1, flags>> \in Seq(Nat)
  BY DEF MAGIC, VERSION_V1, Flags
<1>2. <<MAGIC, VERSION_V1, flags>> \o <<>> = <<MAGIC, VERSION_V1, flags>>
  BY <1>1, ConcatEmptySeq
<1>. QED
  BY <1>2 DEF Finished

\* A document is written once; after damage nothing is said of it.
LEMMA NextUntouched == Untouched /\ [Next \/ Stopped]_vars => Untouched'
<1>. SUFFICES ASSUME Untouched, [Next \/ Stopped]_vars PROVE Untouched'
  OBVIOUS
<1>1. CASE \E who \in {"rust", "c", "other"}, flags \in Flags : \E payload, bytes :
               /\ Store(who, flags, payload, bytes)
               /\ who # "other" => /\ ~HasReserved(flags) /\ payload \in Payloads
                                   /\ bytes = Finished(flags, payload)
  <2>1. PICK who \in {"rust", "c", "other"}, flags \in Flags :
            \E payload, bytes :
               /\ Store(who, flags, payload, bytes)
               /\ who # "other" => /\ ~HasReserved(flags) /\ payload \in Payloads
                                   /\ bytes = Finished(flags, payload)
    BY <1>1
  <2>2. PICK payload, bytes :
               /\ Store(who, flags, payload, bytes)
               /\ who # "other" => /\ ~HasReserved(flags) /\ payload \in Payloads
                                   /\ bytes = Finished(flags, payload)
    BY <2>1
  <2>3. origin' = [writer |-> who, flags |-> flags, payload |-> payload] /\ stored' = bytes
    BY <2>2 DEF Store
  <2>4. origin'.writer = who /\ origin'.flags = flags /\ origin'.payload = payload
    BY <2>3
  <2>5. origin' # Nothing
    BY <2>4 DEF Nothing
  <2>. QED
    BY <2>2, <2>3, <2>4, <2>5 DEF Untouched, Nothing, Finished
<1>2. CASE WriteRust
  BY <1>1, <1>2 DEF WriteRust
<1>3. CASE WriteC
  <2>1. PICK flags \in Flags, payload \in Payloads :
            /\ ~HasReserved(flags) /\ ~HasChecksum(flags)
            /\ Store("c", flags, payload, <<MAGIC, VERSION_V1, flags>> \o payload)
    BY <1>3 DEF WriteC
  <2>2. <<MAGIC, VERSION_V1, flags>> \o payload = Finished(flags, payload)
    BY <2>1, CForm, DocumentAssumption
  <2>. QED
    BY <1>1, <2>1, <2>2
<1>4. CASE WriteOther
  BY <1>1, <1>4, 0 \in Flags DEF WriteOther, Flags
<1>5. CASE Damage
  <2>1. PICK kind : origin # Nothing /\ damage' = Append(damage, kind) /\ origin' = origin
    BY <1>5 DEF Damage, Damaged
  <2>2. damage' # <<>>
    BY <2>1
  <2>. QED
    BY <2>1, <2>2 DEF Untouched, Nothing
<1>6. CASE ReadRust \/ ReadFfi \/ ReadPhp
  <2>1. origin # Nothing /\ UNCHANGED <<stored, origin, damage>>
    BY <1>6 DEF ReadRust, ReadFfi, ReadPhp, Answer
  <2>. QED
    BY <2>1 DEF Untouched, Nothing, Finished
<1>7. CASE UNCHANGED vars
  BY <1>7 DEF vars, Untouched, Nothing, Finished, Readers
<1>. QED
  BY <1>2, <1>3, <1>4, <1>5, <1>6, <1>7 DEF Next, Stopped

\* The parts of a document are where its readers look for them.
LEMMA Parts ==
    ASSUME NEW flags \in Flags, NEW payload \in Seq(Nat), Hash(payload) \in Nat,
           stored = Finished(flags, payload)
    PROVE  /\ Len(stored) >= HEADER_BASE_LEN
           /\ stored[1] = MAGIC /\ stored[2] = VERSION_V1 /\ stored[3] = flags
           /\ ~HasChecksum(flags) => Behind(HEADER_BASE_LEN) = payload
           /\ HasChecksum(flags) =>
                 /\ Len(stored) >= HEADER_BASE_LEN + CHECKSUM_LEN
                 /\ stored[4] = Hash(payload)
                 /\ Behind(HEADER_BASE_LEN + CHECKSUM_LEN) = payload
<1>. DEFINE head == <<MAGIC, VERSION_V1, flags>>
<1>1. head \in Seq(Nat) /\ Len(head) = 3
      /\ head[1] = MAGIC /\ head[2] = VERSION_V1 /\ head[3] = flags
  BY DEF MAGIC, VERSION_V1, Flags
<1>. HIDE DEF head
<1>2. ASSUME NEW front \in Seq(Nat), stored = front \o payload
      PROVE  /\ Len(stored) >= Len(front) /\ Behind(Len(front)) = payload
             /\ \A k \in 1..Len(front) : stored[k] = front[k]
  <2>1. /\ stored \in Seq(Nat) /\ Len(stored) = Len(front) + Len(payload)
        /\ \A k \in 1..(Len(front) + Len(payload)) :
              stored[k] = IF k <= Len(front) THEN front[k] ELSE payload[k - Len(front)]
    BY <1>2, ConcatProperties
  <2>2. Len(front) \in Nat /\ Len(payload) \in Nat
    BY LenProperties
  <2>3. \A k \in 1..Len(front) : stored[k] = front[k]
    BY <2>1, <2>2
  <2>4. Behind(Len(front)) = payload
    <3>1. ASSUME NEW k \in (Len(front) + 1)..Len(stored) PROVE stored[k] \in Nat
      <4>1. k \in 1..Len(stored)
        BY <2>1, <2>2
      <4>. QED
        BY <2>1, <4>1, ElementOfSeq
    <3>2. Len(front) + 1 \in Int /\ Len(stored) \in Int
      BY <2>1, <2>2
    <3>. DEFINE b == Behind(Len(front))
    <3>3. /\ b \in Seq(Nat)
          /\ Len(b) = IF Len(front) + 1 <= Len(stored)
                      THEN Len(stored) - (Len(front) + 1) + 1 ELSE 0
          /\ \A k \in 1..(Len(stored) - (Len(front) + 1) + 1) :
                b[k] = stored[(Len(front) + 1) + k - 1]
      BY <3>1, <3>2, SubSeqProperties DEF Behind
    <3>. HIDE DEF b
    <3>4. Len(b) = Len(payload)
      BY <2>1, <2>2, <3>3
    <3>5. ASSUME NEW k \in 1..Len(b) PROVE b[k] = payload[k]
      <4>1. Len(stored) - (Len(front) + 1) + 1 = Len(payload)
        BY <2>1, <2>2
      <4>2. /\ k \in Nat \ {0} /\ k <= Len(payload)
            /\ (Len(front) + 1) + k - 1 = Len(front) + k
            /\ Len(front) + k \in 1..(Len(front) + Len(payload))
            /\ ~(Len(front) + k <= Len(front)) /\ Len(front) + k - Len(front) = k
        BY <2>2, <3>4, <3>5
      <4>3. b[k] = stored[Len(front) + k]
        <5>1. k \in 1..(Len(stored) - (Len(front) + 1) + 1)
          BY <2>2, <4>1, <4>2
        <5>2. b[k] = stored[(Len(front) + 1) + k - 1]
          BY <3>3, <5>1
        <5>. QED
          BY <4>2, <5>2
      <4>4. stored[Len(front) + k] = payload[Len(front) + k - Len(front)]
        <5>1. PICK j \in 1..(Len(front) + Len(payload)) : j = Len(front) + k
          BY <4>2
        <5>2. stored[j] = payload[j - Len(front)]
          BY <2>1, <4>2, <5>1
        <5>. QED
          BY <5>1, <5>2
      <4>. QED
        BY <4>2, <4>3, <4>4
    <3>. QED
      BY <3>3, <3>4, <3>5, SeqEqual DEF b
  <2>. QED
    BY <2>1, <2>2, <2>3, <2>4
<1>3. CASE ~HasChecksum(flags)
  <2>1. stored = head \o payload
    BY <1>3, CForm DEF head
  <2>2. Len(stored) >= 3 /\ Behind(3) = payload /\ \A k \in 1..3 : stored[k] = head[k]
    <3>1. Len(stored) >= Len(head) /\ Behind(Len(head)) = payload
          /\ \A k \in 1..Len(head) : stored[k] = head[k]
      BY <1>1, <1>2, <2>1
    <3>. QED
      BY <1>1, <3>1
  <2>. QED
    BY <1>1, <1>3, <2>2 DEF HEADER_BASE_LEN
<1>4. CASE HasChecksum(flags)
  <2>. DEFINE front == head \o <<Hash(payload)>>
  <2>1. stored = front \o payload
    BY <1>4 DEF Finished, head
  <2>2. <<Hash(payload)>> \in Seq(Nat) /\ Len(<<Hash(payload)>>) = 1
        /\ <<Hash(payload)>>[1] = Hash(payload)
    OBVIOUS
  <2>3. /\ front \in Seq(Nat) /\ Len(front) = 4
        /\ front[1] = MAGIC /\ front[2] = VERSION_V1 /\ front[3] = flags
        /\ front[4] = Hash(payload)
    <3>1. /\ head \o <<Hash(payload)>> \in Seq(Nat)
          /\ Len(head \o <<Hash(payload)>>) = Len(head) + Len(<<Hash(payload)>>)
          /\ \A k \in 1..(Len(head) + Len(<<Hash(payload)>>)) :
                (head \o <<Hash(payload)>>)[k] =
                    IF k <= Len(head) THEN head[k] ELSE <<Hash(payload)>>[k - Len(head)]
      BY <1>1, <2>2, ConcatProperties
    <3>. QED
      BY <1>1, <2>2, <3>1
  <2>. HIDE DEF front
  <2>4. Len(stored) >= 4 /\ Behind(4) = payload /\ \A k \in 1..4 : stored[k] = front[k]
    BY <1>2, <2>1, <2>3
  <2>. QED
    BY <1>4, <2>3, <2>4 DEF HEADER_BASE_LEN, CHECKSUM_LEN
<1>. QED
  BY <1>3, <1>4

\* What a reader hands on of a payload, within the limit or not.
LEMMA BoundedPayload ==
    ASSUME NEW p, NEW depth, NEW size, NEW flags, stored[3] = flags
    PROVE  LET a == Bounded(p, depth, size)
           IN  \/ a.err = "none" /\ a.payload = p /\ a.strdedup = HasStrdedup(flags)
               \/ a.err = "MaxSize" /\ Len(p) > OrDefault(size, DefaultSize)
BY DEF Bounded, Refused

\* An undamaged document is handed on as it was written, by whoever wrote it to whoever
\* reads it: the two encoders' headers are what the two parsers look for.
THEOREM DocumentDelivered == Spec => []Delivered
<1>1. Spec => []Untouched
  BY InitUntouched, NextUntouched, PTL DEF Spec
<1>2. ASSUME IInv, Untouched, damage = <<>>, origin.writer # "other", NEW r \in Readers
      PROVE  \/ /\ Accepts(r) /\ ~(r = "php" /\ HasChecksum(origin.flags))
                /\ answers[r].payload = origin.payload
                /\ answers[r].strdedup = HasStrdedup(origin.flags)
             \/ /\ answers[r].err = "MaxSize"
                /\ Len(origin.payload) > OrDefault(asked.size, DefaultSize)
             \/ answers[r].err = "Checksum" /\ r = "php" /\ HasChecksum(origin.flags)
             \/ answers[r].err = "NullArg" /\ r = "ffi"
  <2>. DEFINE p == origin.payload
              flags == origin.flags
  <2>1. flags \in Flags /\ ~HasReserved(flags) /\ p \in Payloads /\ stored = Finished(flags, p)
    BY <1>2 DEF IInv, Untouched
  <2>2. p \in Seq(Nat) /\ Hash(p) \in Nat /\ Len(p) \in Nat
    BY <2>1, DocumentAssumption, LenProperties
  <2>. HIDE DEF p, flags
  <2>3. /\ Len(stored) >= HEADER_BASE_LEN
        /\ stored[1] = MAGIC /\ stored[2] = VERSION_V1 /\ stored[3] = flags
        /\ ~HasChecksum(flags) => Behind(HEADER_BASE_LEN) = p
        /\ HasChecksum(flags) =>
              /\ Len(stored) >= HEADER_BASE_LEN + CHECKSUM_LEN
              /\ stored[4] = Hash(p)
              /\ Behind(HEADER_BASE_LEN + CHECKSUM_LEN) = p
    BY <2>1, <2>2, Parts
  <2>4. HeaderError = "none" /\ (HasChecksum(flags) => ChecksumError = "none")
    <3>1. stored \in Seq(Nat) /\ Len(stored) \in Nat
      BY <1>2, LenProperties DEF IInv
    <3>. QED
      BY <2>1, <2>3, <3>1 DEF HeaderError, ChecksumError, HEADER_BASE_LEN, CHECKSUM_LEN
  <2>5. \A depth, size : DecodeWith(depth, size) = Bounded(p, depth, size)
    BY <2>3, <2>4 DEF DecodeWith
  <2>6. CASE r \in {"rust", "ffi"}
    <3>1. CASE answers[r] = DecodeWith(asked.depth, asked.size)
      BY <2>3, <2>5, <2>6, <3>1, BoundedPayload DEF Accepts, p, flags
    <3>2. CASE r = "ffi" /\ answers[r] = Refused("NullArg")
      BY <3>2 DEF Refused
    <3>. QED
      BY <1>2, <2>6, <3>1, <3>2 DEF IInv, IsRustAnswer
  <2>7. CASE r = "php"
    <3>1. answers[r] = PhpAnswer
      BY <1>2, <2>7 DEF IInv
    <3>2. CASE HasChecksum(flags)
      <4>1. answers[r] = Refused("Checksum")
        BY <2>3, <2>4, <3>1, <3>2 DEF PhpAnswer, CDecode
      <4>. QED
        BY <2>7, <3>2, <4>1 DEF Refused, flags
    <3>3. CASE ~HasChecksum(flags)
      <4>. DEFINE size == NotNegative(asked.size)
      <4>1. answers[r] = Bounded(p, NotNegative(asked.depth) % U32, size)
        BY <2>3, <2>4, <3>1, <3>3 DEF PhpAnswer, CDecode
      <4>2. asked.size \in Int /\ DefaultSize \in Nat
        BY <1>2, DocumentAssumption DEF IInv
      <4>3. Len(p) > OrDefault(size, DefaultSize) => Len(p) > OrDefault(asked.size, DefaultSize)
        BY <2>2, <4>2 DEF OrDefault, NotNegative
      <4>. HIDE DEF size
      <4>4. \/ /\ answers[r].err = "none" /\ answers[r].payload = p
               /\ answers[r].strdedup = HasStrdedup(flags)
            \/ answers[r].err = "MaxSize" /\ Len(p) > OrDefault(size, DefaultSize)
        BY <2>3, <4>1, BoundedPayload
      <4>. QED
        BY <2>7, <3>3, <4>3, <4>4 DEF Accepts, p, flags
    <3>. QED
      BY <3>2, <3>3
  <2>. QED
    BY <1>2, <2>6, <2>7 DEF IInv
<1>3. IInv /\ Untouched => Delivered
  BY <1>2 DEF Delivered
<1>. QED
  BY <1>1, <1>3, Invariant, PTL
-----------------------------------------------------------------------------
(* A document that is damaged in one place.                                  *)

\* A finished document is a sequence of bytes.
LEMMA FinishedType ==
    ASSUME NEW flags \in Flags, NEW p \in Seq(Nat), Hash(p) \in Nat
    PROVE  Finished(flags, p) \in Seq(Nat)
<1>1. \A b, c \in Seq(Nat) : b \o c \in Seq(Nat)
  BY ConcatProperties
<1>2. <<MAGIC, VERSION_V1, flags>> \in Seq(Nat)
  BY DEF MAGIC, VERSION_V1, Flags
<1>3. (IF HasChecksum(flags) THEN <<Hash(p)>> ELSE <<>>) \in Seq(Nat)
  OBVIOUS
<1>. QED
  BY <1>1, <1>2, <1>3 DEF Finished

\* The first bytes of some.
LEMMA PrefixOf ==
    ASSUME NEW s \in Seq(Nat), NEW n \in 0..Len(s)
    PROVE  /\ SubSeq(s, 1, n) \in Seq(Nat) /\ Len(SubSeq(s, 1, n)) = n
           /\ \A k \in 1..n : SubSeq(s, 1, n)[k] = s[k]
<1>1. n \in Nat /\ \A k \in 1..n : s[k] \in Nat
  <2>1. n \in Nat /\ \A k \in 1..n : k \in 1..Len(s)
    BY LenProperties
  <2>. QED
    BY <2>1, ElementOfSeq
<1>2. /\ SubSeq(s, 1, n) \in Seq(Nat)
      /\ Len(SubSeq(s, 1, n)) = IF 1 <= n THEN n - 1 + 1 ELSE 0
      /\ \A k \in 1..(n - 1 + 1) : SubSeq(s, 1, n)[k] = s[1 + k - 1]
  BY <1>1, SubSeqProperties
<1>3. (IF 1 <= n THEN n - 1 + 1 ELSE 0) = n /\ n - 1 + 1 = n
  BY <1>1
<1>4. \A k \in 1..n : 1 + k - 1 = k
  BY <1>1
<1>. QED
  BY <1>2, <1>3, <1>4

\* What is behind the checksum of some bytes.
LEMMA BehindChecksum ==
    ASSUME NEW s \in Seq(Nat), Len(s) >= 4
    PROVE  /\ SubSeq(s, 5, Len(s)) \in Seq(Nat) /\ Len(SubSeq(s, 5, Len(s))) = Len(s) - 4
           /\ \A k \in 1..(Len(s) - 4) : SubSeq(s, 5, Len(s))[k] = s[k + 4]
<1>1. Len(s) \in Nat /\ \A k \in 5..Len(s) : s[k] \in Nat
  <2>1. Len(s) \in Nat
    BY LenProperties
  <2>2. \A k \in 5..Len(s) : k \in 1..Len(s)
    BY <2>1
  <2>. QED
    BY <2>1, <2>2, ElementOfSeq
<1>2. /\ SubSeq(s, 5, Len(s)) \in Seq(Nat)
      /\ Len(SubSeq(s, 5, Len(s))) = IF 5 <= Len(s) THEN Len(s) - 5 + 1 ELSE 0
      /\ \A k \in 1..(Len(s) - 5 + 1) : SubSeq(s, 5, Len(s))[k] = s[5 + k - 1]
  BY <1>1, SubSeqProperties
<1>3. \A m \in Nat : m >= 4 => /\ (IF 5 <= m THEN m - 5 + 1 ELSE 0) = m - 4
                              /\ m - 5 + 1 = m - 4
  OBVIOUS
<1>4. \A k \in 1..(Len(s) - 4) : 5 + k - 1 = k + 4
  BY <1>1
<1>. QED
  BY <1>1, <1>2, <1>3, <1>4

\* The hash of what one damage makes of a payload is another.
LEMMA HashTells ==
    ASSUME NEW p \in Payloads, NEW q, q # p,
           q \in Cut(p) \/ q \in Longer(p) \/ \E i \in DOMAIN p : q \in Changed(p, i)
    PROVE  Hash(q) # Hash(p)
<1>1. \A d \in Cut(p) \cup Longer(p) \cup UNION {Changed(p, i) : i \in DOMAIN p} :
          Hash(d) = Hash(p) => d = p
  BY DocumentAssumption
<1>2. q \in Cut(p) \cup Longer(p) \cup UNION {Changed(p, i) : i \in DOMAIN p}
  <2>1. CASE \E i \in DOMAIN p : q \in Changed(p, i)
    <3>1. PICK i \in DOMAIN p : q \in Changed(p, i)
      BY <2>1
    <3>2. q \in UNION {Changed(p, j) : j \in DOMAIN p}
      BY <3>1
    <3>. QED
      BY <3>2
  <2>2. CASE q \in Cut(p) \/ q \in Longer(p)
    BY <2>2
  <2>. QED
    BY <2>1, <2>2
<1>. QED
  BY <1>1, <1>2

\* The checks of both readers fail on such bytes.
Unreadable(flags) ==
    HeaderError # "none" \/ (stored[3] = flags /\ ChecksumError # "none")

\* A byte is changed.
LEMMA ChangedUnreadable ==
    ASSUME NEW flags \in Flags, HasChecksum(flags), NEW p \in Payloads,
           stored = Finished(flags, p), NEW i \in DOMAIN stored, i # HEADER_BASE_LEN,
           NEW b \in Bytes, stored' = [stored EXCEPT ![i] = b], stored' # stored
    PROVE  Unreadable(flags)'
<1>1. p \in Seq(Nat) /\ Hash(p) \in Nat /\ b \in Nat
  BY DocumentAssumption
<1>2. /\ Len(stored) >= 4 /\ stored[1] = MAGIC /\ stored[2] = VERSION_V1 /\ stored[3] = flags
      /\ stored[4] = Hash(p) /\ SubSeq(stored, 5, Len(stored)) = p
  BY <1>1, Parts DEF HEADER_BASE_LEN, CHECKSUM_LEN, Behind
<1>3. stored \in Seq(Nat) /\ Len(stored) \in Nat /\ DOMAIN stored = 1..Len(stored)
  BY <1>1, FinishedType, LenProperties
<1>4. /\ stored' \in Seq(Nat) /\ Len(stored') = Len(stored)
      /\ \A k \in 1..Len(stored) : stored'[k] = IF k = i THEN b ELSE stored[k]
  BY <1>1, <1>3, ExceptSeq
<1>5. stored[i] # b
  <2>. SUFFICES ASSUME stored[i] = b PROVE FALSE
    OBVIOUS
  <2>1. \A k \in 1..Len(stored) : stored'[k] = stored[k]
    BY <1>3, <1>4
  <2>. QED
    BY <1>3, <1>4, <2>1, SeqEqual
<1>6. CASE i = 1
  <2>1. stored'[1] # MAGIC
    BY <1>2, <1>3, <1>4, <1>5, <1>6
  <2>2. HeaderError' # "none"
    BY <2>1 DEF HeaderError
  <2>. QED
    BY <2>2 DEF Unreadable
<1>7. CASE i = 2
  <2>1. stored'[2] # VERSION_V1
    BY <1>2, <1>3, <1>4, <1>5, <1>7
  <2>2. HeaderError' # "none"
    BY <2>1 DEF HeaderError
  <2>. QED
    BY <2>2 DEF Unreadable
<1>8. CASE i > 3
  <2>. DEFINE q == SubSeq(stored', 5, Len(stored'))
  <2>1. stored'[3] = flags
    BY <1>2, <1>3, <1>4, <1>8
  <2>2. /\ p \in Seq(Nat) /\ Len(p) = Len(stored) - 4
        /\ \A k \in 1..(Len(stored) - 4) : p[k] = stored[k + 4]
    <3>1. Len(stored) >= 4 /\ SubSeq(stored, 5, Len(stored)) = p
      BY <1>2
    <3>2. /\ Len(SubSeq(stored, 5, Len(stored))) = Len(stored) - 4
          /\ \A k \in 1..(Len(stored) - 4) : SubSeq(stored, 5, Len(stored))[k] = stored[k + 4]
      BY <1>3, <3>1, BehindChecksum
    <3>. QED
      BY <1>1, <3>1, <3>2
  <2>3. /\ q \in Seq(Nat) /\ Len(q) = Len(stored') - 4
        /\ \A k \in 1..(Len(stored') - 4) : q[k] = stored'[k + 4]
    BY <1>2, <1>4, BehindChecksum
  <2>. HIDE DEF q
  <2>4. \A k \in 1..(Len(stored) - 4) : k + 4 \in 1..Len(stored)
    BY <1>3
  <2>5. stored'[4] # Hash(q)
    <3>1. CASE i = 4
      <4>1. \A k \in 1..Len(p) : q[k] = p[k]
        <5>. SUFFICES ASSUME NEW k \in 1..Len(p) PROVE q[k] = p[k]
          OBVIOUS
        <5>1. k \in 1..(Len(stored) - 4)
          BY <2>2
        <5>2. k + 4 \in 1..Len(stored) /\ k + 4 # 4
          BY <1>3, <2>4, <5>1
        <5>. QED
          BY <1>4, <2>2, <2>3, <3>1, <5>1, <5>2
      <4>2. q = p
        BY <1>4, <2>2, <2>3, <4>1, SeqEqual
      <4>3. 4 \in 1..Len(stored)
        BY <1>2, <1>3
      <4>. QED
        BY <1>2, <1>4, <1>5, <3>1, <4>2, <4>3
    <3>2. CASE i > 4
      <4>. DEFINE j == i - 4
      <4>1. j \in 1..Len(p) /\ j \in DOMAIN p /\ j + 4 = i
        <5>1. i \in 1..Len(stored) /\ DOMAIN p = 1..Len(p)
          BY <1>3, <2>2, LenProperties
        <5>2. i \in Int /\ i <= Len(stored) /\ Len(p) \in Int /\ Len(stored) = Len(p) + 4
          BY <1>3, <2>2, <5>1
        <5>3. j \in 1..Len(p) /\ j + 4 = i
          BY <3>2, <5>2
        <5>. QED
          BY <5>1, <5>3
      <4>. HIDE DEF j
      <4>2. /\ [p EXCEPT ![j] = b] \in Seq(Nat) /\ Len([p EXCEPT ![j] = b]) = Len(p)
            /\ \A k \in 1..Len(p) : [p EXCEPT ![j] = b][k] = IF k = j THEN b ELSE p[k]
        BY <1>1, <4>1, ExceptSeq
      <4>3. ASSUME NEW k \in 1..Len(p) PROVE q[k] = [p EXCEPT ![j] = b][k]
        <5>1. k \in 1..(Len(stored) - 4) /\ k + 4 \in 1..Len(stored) /\ k \in Int
          BY <1>3, <2>2, <2>4
        <5>2. q[k] = IF k + 4 = i THEN b ELSE stored[k + 4]
          BY <1>4, <2>3, <5>1
        <5>3. k + 4 = i <=> k = j
          <6>1. j \in Int
            BY <4>1
          <6>. QED
            BY <4>1, <5>1, <6>1
        <5>4. p[k] = stored[k + 4]
          BY <2>2, <5>1
        <5>. QED
          BY <4>2, <5>2, <5>3, <5>4
      <4>4. q = [p EXCEPT ![j] = b]
        BY <1>4, <2>2, <2>3, <4>2, <4>3, SeqEqual
      <4>5. q # p
        BY <1>2, <1>5, <2>2, <4>1, <4>2, <4>4
      <4>6. Hash(q) # Hash(p)
        <5>1. q \in Changed(p, j)
          BY <4>4 DEF Changed
        <5>. QED
          BY <4>1, <4>5, <5>1, HashTells
      <4>7. stored'[4] = Hash(p)
        BY <1>2, <1>3, <1>4, <3>2
      <4>. QED
        BY <4>6, <4>7
    <3>3. i \in Nat
      BY <1>3
    <3>. QED
      BY <1>8, <3>1, <3>2, <3>3
  <2>6. ChecksumError' # "none"
    BY <2>5 DEF q, ChecksumError, Behind, HEADER_BASE_LEN, CHECKSUM_LEN
  <2>. QED
    BY <2>1, <2>6 DEF Unreadable
<1>9. i \in Nat /\ i # 0 /\ i # 3
  BY <1>3 DEF HEADER_BASE_LEN
<1>. QED
  BY <1>6, <1>7, <1>8, <1>9

\* The end is lost.
LEMMA CutUnreadable ==
    ASSUME NEW flags \in Flags, HasChecksum(flags), NEW p \in Payloads,
           stored = Finished(flags, p), NEW n \in 0..Len(stored),
           stored' = SubSeq(stored, 1, n), stored' # stored
    PROVE  Unreadable(flags)'
<1>1. p \in Seq(Nat) /\ Hash(p) \in Nat
  BY DocumentAssumption
<1>2. /\ Len(stored) >= 4 /\ stored[3] = flags
      /\ stored[4] = Hash(p) /\ SubSeq(stored, 5, Len(stored)) = p
  BY <1>1, Parts DEF HEADER_BASE_LEN, CHECKSUM_LEN, Behind
<1>3. stored \in Seq(Nat) /\ Len(stored) \in Nat
  BY <1>1, FinishedType, LenProperties
<1>4. /\ stored' \in Seq(Nat) /\ Len(stored') = n
      /\ \A k \in 1..n : stored'[k] = stored[k]
  BY <1>3, PrefixOf
<1>5. n < Len(stored)
  <2>1. n = Len(stored) => stored' = stored
    BY <1>3, <1>4, SeqEqual
  <2>. QED
    BY <1>3, <2>1
<1>6. CASE n < 3
  <2>1. Len(stored') < HEADER_BASE_LEN
    BY <1>4, <1>6 DEF HEADER_BASE_LEN
  <2>2. HeaderError' # "none"
    BY <2>1 DEF HeaderError
  <2>. QED
    BY <2>2 DEF Unreadable
<1>7. CASE n = 3
  BY <1>2, <1>4, <1>7 DEF Unreadable, ChecksumError, HEADER_BASE_LEN, CHECKSUM_LEN
<1>8. CASE n >= 4
  <2>. DEFINE q == SubSeq(stored', 5, Len(stored'))
  <2>1. stored'[3] = flags /\ stored'[4] = Hash(p)
    <3>1. 3 \in 1..n /\ 4 \in 1..n
      BY <1>8
    <3>. QED
      BY <1>2, <1>4, <3>1
  <2>2. /\ Len(p) = Len(stored) - 4
        /\ \A k \in 1..(Len(stored) - 4) : p[k] = stored[k + 4]
    BY <1>2, <1>3, BehindChecksum
  <2>3. /\ q \in Seq(Nat) /\ Len(q) = Len(stored') - 4
        /\ \A k \in 1..(Len(stored') - 4) : q[k] = stored'[k + 4]
    BY <1>4, <1>8, BehindChecksum
  <2>. HIDE DEF q
  <2>4. n - 4 \in 0..Len(p)
    BY <1>3, <1>5, <1>8, <2>2
  <2>5. /\ SubSeq(p, 1, n - 4) \in Seq(Nat) /\ Len(SubSeq(p, 1, n - 4)) = n - 4
        /\ \A k \in 1..(n - 4) : SubSeq(p, 1, n - 4)[k] = p[k]
    BY <1>1, <2>4, PrefixOf
  <2>6. ASSUME NEW k \in 1..(n - 4) PROVE q[k] = SubSeq(p, 1, n - 4)[k]
    <3>1. k \in 1..(Len(stored) - 4) /\ k + 4 \in 1..n
      BY <1>3, <1>5
    <3>. QED
      BY <1>4, <2>2, <2>3, <2>5, <3>1
  <2>7. q = SubSeq(p, 1, n - 4)
    BY <1>4, <2>3, <2>5, <2>6, SeqEqual
  <2>8. q # p
    BY <1>3, <1>4, <1>5, <2>2, <2>3
  <2>9. Hash(q) # Hash(p)
    <3>1. q \in Cut(p)
      BY <2>4, <2>7 DEF Cut
    <3>. QED
      BY <2>8, <3>1, HashTells
  <2>10. ChecksumError' # "none"
    BY <2>1, <2>9 DEF q, ChecksumError, Behind, HEADER_BASE_LEN, CHECKSUM_LEN
  <2>. QED
    BY <2>1, <2>10 DEF Unreadable
<1>. QED
  BY <1>6, <1>7, <1>8

\* Something is appended.
LEMMA LongerUnreadable ==
    ASSUME NEW flags \in Flags, HasChecksum(flags), NEW p \in Payloads,
           stored = Finished(flags, p), NEW b \in Bytes, stored' = Append(stored, b)
    PROVE  Unreadable(flags)'
<1>1. p \in Seq(Nat) /\ Hash(p) \in Nat /\ b \in Nat /\ Len(p) \in Nat
  BY DocumentAssumption, LenProperties
<1>2. /\ Len(stored) >= 4 /\ stored[3] = flags
      /\ stored[4] = Hash(p) /\ SubSeq(stored, 5, Len(stored)) = p
  BY <1>1, Parts DEF HEADER_BASE_LEN, CHECKSUM_LEN, Behind
<1>3. stored \in Seq(Nat) /\ Len(stored) \in Nat
  BY <1>1, FinishedType, LenProperties
<1>4. /\ stored' \in Seq(Nat) /\ Len(stored') = Len(stored) + 1
      /\ \A k \in 1..Len(stored) : stored'[k] = stored[k]
      /\ stored'[Len(stored) + 1] = b
  BY <1>1, <1>3, AppendProperties
<1>. DEFINE q == SubSeq(stored', 5, Len(stored'))
<1>5. stored'[3] = flags /\ stored'[4] = Hash(p)
  <2>1. 3 \in 1..Len(stored) /\ 4 \in 1..Len(stored)
    BY <1>2, <1>3
  <2>. QED
    BY <1>2, <1>4, <2>1
<1>6. /\ Len(p) = Len(stored) - 4
      /\ \A k \in 1..(Len(stored) - 4) : p[k] = stored[k + 4]
  BY <1>2, <1>3, BehindChecksum
<1>7. /\ q \in Seq(Nat) /\ Len(q) = Len(stored') - 4
      /\ \A k \in 1..(Len(stored') - 4) : q[k] = stored'[k + 4]
  <2>1. Len(stored') >= 4
    BY <1>2, <1>3, <1>4
  <2>. QED
    BY <1>4, <2>1, BehindChecksum
<1>. HIDE DEF q
<1>8. /\ Append(p, b) \in Seq(Nat) /\ Len(Append(p, b)) = Len(p) + 1
      /\ \A k \in 1..Len(p) : Append(p, b)[k] = p[k]
      /\ Append(p, b)[Len(p) + 1] = b
  BY <1>1, AppendProperties
<1>9. Len(q) = Len(p) + 1
  BY <1>3, <1>4, <1>6, <1>7
<1>10. ASSUME NEW k \in 1..Len(q) PROVE q[k] = Append(p, b)[k]
  <2>1. k \in 1..(Len(stored') - 4)
    BY <1>7
  <2>2. CASE k \in 1..Len(p)
    <3>1. k \in 1..(Len(stored) - 4) /\ k + 4 \in 1..Len(stored)
      BY <1>3, <1>6, <2>2
    <3>. QED
      BY <1>4, <1>6, <1>7, <1>8, <2>1, <2>2, <3>1
  <2>3. CASE k = Len(p) + 1
    <3>1. k + 4 = Len(stored) + 1
      BY <1>3, <1>6, <2>3
    <3>. QED
      BY <1>4, <1>7, <1>8, <2>1, <2>3, <3>1
  <2>4. k \in Nat /\ k <= Len(p) + 1 /\ k >= 1
    BY <1>1, <1>9
  <2>. QED
    BY <1>1, <2>2, <2>3, <2>4
<1>11. q = Append(p, b)
  BY <1>7, <1>8, <1>9, <1>10, SeqEqual
<1>12. q # p
  BY <1>1, <1>9
<1>13. Hash(q) # Hash(p)
  <2>1. q \in Longer(p)
    BY <1>11 DEF Longer
  <2>. QED
    BY <1>12, <2>1, HashTells
<1>14. ChecksumError' # "none"
  BY <1>5, <1>13 DEF q, ChecksumError, Behind, HEADER_BASE_LEN, CHECKSUM_LEN
<1>. QED
  BY <1>5, <1>14 DEF Unreadable

Kinds == {"flags", "byte", "cut", "longer"}

\* After the first damage, unless it is to the flags, the readers find something wrong.
Noticed ==
    /\ damage \in Seq(Kinds)
    /\ origin.writer = "other" => origin.flags = 0
    /\ Len(damage) = 1 /\ damage[1] # "flags" /\ HasChecksum(origin.flags) =>
          Unreadable(origin.flags)

\* Nothing is written yet.
LEMMA InitNoticed == Init => Noticed
<1>. SUFFICES ASSUME Init PROVE Noticed
  OBVIOUS
<1>1. damage = <<>> /\ origin = Nothing /\ damage \in Seq(Kinds) /\ Len(damage) = 0
  BY DEF Init
<1>. QED
  BY <1>1 DEF Noticed, Nothing

\* The first damage is noticed; of a second one nothing is said.
LEMMA DamageNoticed ==
    ASSUME Untouched, Noticed, Damage
    PROVE  Noticed'
<1>1. PICK kind \in Kinds :
          /\ origin # Nothing /\ stored' # stored /\ damage' = Append(damage, kind)
          /\ origin' = origin
          /\ kind # "flags" =>
                \/ \E i \in DOMAIN stored, b \in Bytes :
                      i # HEADER_BASE_LEN /\ stored' = [stored EXCEPT ![i] = b]
                \/ \E n \in 0..Len(stored) : stored' = SubSeq(stored, 1, n)
                \/ \E b \in Bytes : stored' = Append(stored, b)
  BY DEF Damage, Damaged, Changed, Cut, Longer, Kinds
<1>2. damage \in Seq(Kinds) /\ Len(damage) \in Nat
  BY LenProperties DEF Noticed
<1>3. /\ Append(damage, kind) \in Seq(Kinds)
      /\ Len(Append(damage, kind)) = Len(damage) + 1
      /\ Append(damage, kind)[Len(damage) + 1] = kind
  BY <1>2, AppendProperties
<1>4. ASSUME Len(damage') = 1, damage'[1] # "flags", HasChecksum(origin.flags)
      PROVE  Unreadable(origin.flags)'
  <2>. DEFINE flags == origin.flags
              p == origin.payload
  <2>1. damage = <<>> /\ kind # "flags"
    <3>1. Len(damage) = 0
      BY <1>1, <1>2, <1>3, <1>4
    <3>. QED
      BY <1>1, <1>2, <1>3, <1>4, <3>1, EmptySeq
  <2>2. origin.writer # "other"
    BY <1>4 DEF Noticed, HasChecksum
  <2>3. flags \in Flags /\ p \in Payloads /\ stored = Finished(flags, p)
    BY <1>1, <2>1, <2>2 DEF Untouched
  <2>4. flags' = flags
    BY <1>1
  <2>. HIDE DEF p
  <2>5. CASE \E i \in DOMAIN stored, b \in Bytes :
                 i # HEADER_BASE_LEN /\ stored' = [stored EXCEPT ![i] = b]
    BY <1>1, <1>4, <2>3, <2>5, ChangedUnreadable
  <2>6. CASE \E n \in 0..Len(stored) : stored' = SubSeq(stored, 1, n)
    BY <1>1, <1>4, <2>3, <2>6, CutUnreadable
  <2>7. CASE \E b \in Bytes : stored' = Append(stored, b)
    BY <1>1, <1>4, <2>3, <2>7, LongerUnreadable
  <2>. QED
    BY <1>1, <2>1, <2>5, <2>6, <2>7
<1>. QED
  BY <1>1, <1>3, <1>4 DEF Noticed

\* So it stays.
LEMMA NextNoticed == Untouched /\ Noticed /\ [Next \/ Stopped]_vars => Noticed'
<1>. SUFFICES ASSUME Untouched, Noticed, [Next \/ Stopped]_vars PROVE Noticed'
  OBVIOUS
<1>1. ASSUME NEW who, NEW flags, NEW payload, NEW bytes, Store(who, flags, payload, bytes),
             who = "other" => flags = 0
      PROVE  Noticed'
  <2>1. damage = <<>> /\ damage' = damage
    BY <1>1 DEF Untouched, Store
  <2>2. origin'.writer = who /\ origin'.flags = flags
    BY <1>1 DEF Store
  <2>3. Len(damage') = 0 /\ damage' \in Seq(Kinds)
    BY <2>1
  <2>. QED
    BY <1>1, <2>2, <2>3 DEF Noticed
<1>2. CASE WriteRust \/ WriteC \/ WriteOther
  <2>1. CASE WriteRust
    BY <1>1, <2>1 DEF WriteRust
  <2>2. CASE WriteC
    BY <1>1, <2>2 DEF WriteC
  <2>3. CASE WriteOther
    BY <1>1, <2>3 DEF WriteOther
  <2>. QED
    BY <1>2, <2>1, <2>2, <2>3
<1>3. CASE Damage
  BY <1>3, DamageNoticed
<1>4. CASE UNCHANGED <<stored, origin, damage>>
  BY <1>4 DEF Noticed, Unreadable, HeaderError, ChecksumError, Behind
<1>. QED
  BY <1>2, <1>3, <1>4 DEF Next, Stopped, ReadRust, ReadFfi, ReadPhp, Answer, vars

\* A document with a checksum that is damaged in one place, its flags byte aside, is
\* accepted by no reader, whatever its payload is and whenever it is read: with a hash
\* that one damage changes, the checks of parse_header (header.rs:91) leave no gap.
THEOREM DocumentDamageNoticed == Spec => []DamageIsNoticed
<1>1. Spec => [](Untouched /\ Noticed)
  <2>1. Init => Untouched /\ Noticed
    BY InitUntouched, InitNoticed
  <2>2. (Untouched /\ Noticed) /\ [Next \/ Stopped]_vars => (Untouched /\ Noticed)'
    BY NextUntouched, NextNoticed
  <2>. QED
    BY <2>1, <2>2, PTL DEF Spec
<1>2. ASSUME IInv, Noticed, Len(damage) = 1, damage[1] # "flags", HasChecksum(origin.flags),
             NEW r \in Readers
      PROVE  ~Accepts(r)
  <2>1. \A e : Refused(e).err = e
    BY DEF Refused
  <2>2. Unreadable(origin.flags)
    BY <1>2 DEF Noticed
  <2>3. ChecksumError # "none" /\ stored[3] = origin.flags => HasChecksum(stored[3])
    BY <1>2
  <2>4. \A depth, size : DecodeWith(depth, size).err # "none"
    BY <2>1, <2>2, <2>3 DEF DecodeWith, Unreadable
  <2>5. \A depth, size : CDecode(depth, size).err # "none"
    BY <2>1, <2>2, <2>3 DEF CDecode, Unreadable
  <2>6. CASE r \in {"rust", "ffi"}
    BY <1>2, <2>1, <2>4, <2>6 DEF IInv, IsRustAnswer, Accepts
  <2>7. CASE r = "php"
    BY <1>2, <2>5, <2>7 DEF IInv, PhpAnswer, Accepts
  <2>. QED
    BY <1>2, <2>6, <2>7 DEF IInv
<1>3. IInv /\ Noticed => DamageIsNoticed
  BY <1>2 DEF DamageIsNoticed
<1>. QED
  BY <1>1, <1>3, Invariant, PTL
=============================================================================
