------------------------- MODULE StringTableProofs -------------------------
(***************************************************************************)
(* Proofs about StringTable, for every set of strings, every size limit and*)
(* every number of mentions up to the size of the id space.                *)
(*                                                                         *)
(* The invariant is built from what the encoder's map says about the       *)
(* definitions written so far (MapIsExact), what each token of the document*)
(* says about the definitions in front of it (WireIsExplained) and where   *)
(* the decoder stands in that document (DecoderIsThere).                   *)
(***************************************************************************)
EXTENDS StringTable, FiniteSetTheorems, SequenceTheorems, TLAPS

\* The encoder's map is the inverse of the sequence of definitions.
MapIsExact ==
    /\ IsFiniteSet(DOMAIN ids)
    /\ strdedup => Cardinality(DOMAIN ids) = Len(Current)
    /\ strdedup => \A s \in DOMAIN ids :
                       ids[s] < Len(Current) /\ Current[ids[s] + 1] = s

\* What token k says, given the definitions in front of it, and what it does
\* to the definitions in front of token k + 1.
Explained(k) ==
    /\ wire[k].tag \in {"STR_EMPTY", "STR_VARINT", "STR_REF"}
    /\ wire[k].place = written[k].place
    /\ wire[k].tag = "STR_EMPTY" =>
           written[k].bytes = Empty /\ defs[k + 1] = defs[k]
    /\ wire[k].tag = "STR_VARINT" =>
           /\ wire[k].bytes = written[k].bytes
           /\ wire[k].bytes \in Strings
           /\ defs[k + 1] = Append(defs[k], wire[k].bytes)
    /\ wire[k].tag = "STR_REF" =>
           /\ strdedup
           /\ wire[k].id \in 0..(Len(defs[k]) - 1)
           /\ defs[k][wire[k].id + 1] = written[k].bytes
           /\ defs[k + 1] = defs[k]

WireIsExplained ==
    /\ defs[1] = <<>>
    /\ \A k \in 1..Len(wire) : Explained(k)
    /\ \A k \in 1..Len(defs) : Len(defs[k]) < k

DecoderIsThere ==
    /\ hostTable = strings
    /\ strings = defs[Len(received) + 1]
    /\ \A k \in 1..Len(received) : received[k] = written[k]
    /\ phase = "write" => received = <<>>
    /\ phase = "done" => Len(received) = Len(wire)
    /\ error \in {"none", "MaxSize", "Host"}

IInv == TypeOK /\ MapIsExact /\ WireIsExplained /\ DecoderIsThere

-----------------------------------------------------------------------------
LEMMA InitIInv == Init => IInv
<1> SUFFICES ASSUME Init PROVE IInv
  OBVIOUS
<1> USE DEF Init
<1>1. TypeOK
  <2>1. DOMAIN ids = {}
    OBVIOUS
  <2> QED BY <2>1, IdSpaceAssumption DEF TypeOK
<1>2. MapIsExact
  <2>1. DOMAIN ids = {} /\ Current = <<>>
    BY DEF Current
  <2> QED BY <2>1, FS_EmptySet DEF MapIsExact
<1>3. WireIsExplained
  BY DEF WireIsExplained, Explained
<1>4. DecoderIsThere
  BY DEF DecoderIsThere
<1> QED BY <1>1, <1>2, <1>3, <1>4 DEF IInv

\* An id below the id space is its own remainder.
LEMMA IdFits == ASSUME NEW n \in Nat, n < IdSpace PROVE n % IdSpace = n
BY IdSpaceAssumption

\* One more token: whoever emits an explained token, with definitions that are
\* no longer than the document, keeps the wire explained.
LEMMA EmitExplained ==
    ASSUME IInv,
           NEW place \in Places, NEW s \in Strings \cup {Empty},
           NEW token \in Tokens, NEW d \in Seq(Strings),
           Emit(place, s, token, d),
           token.place = place,
           token.tag = "STR_EMPTY" => s = Empty /\ d = Current,
           token.tag = "STR_VARINT" => token.bytes = s /\ d = Append(Current, s),
           token.tag = "STR_REF" =>
               strdedup /\ token.id < Len(Current) /\ Current[token.id + 1] = s /\ d = Current
    PROVE  /\ written' \in Seq(Items) /\ wire' \in Seq(Tokens)
           /\ defs' \in Seq(Seq(Strings))
           /\ Len(wire') = Len(written') /\ Len(wire') <= MaxMentions
           /\ Len(defs') = Len(wire') + 1
           /\ Current' = d
           /\ WireIsExplained' /\ DecoderIsThere'
<1> USE DEF IInv, TypeOK, Emit
<1>1. /\ Len(wire') = Len(wire) + 1 /\ Len(written') = Len(written) + 1
      /\ Len(defs') = Len(defs) + 1
      /\ defs'[Len(defs')] = d
      /\ \A k \in 1..Len(defs) : defs'[k] = defs[k]
      /\ \A k \in 1..Len(wire) : wire'[k] = wire[k] /\ written'[k] = written[k]
      /\ wire'[Len(wire')] = token
      /\ written'[Len(wire')] = [place |-> place, bytes |-> s]
  OBVIOUS
<1>2. /\ written' \in Seq(Items) /\ wire' \in Seq(Tokens)
      /\ defs' \in Seq(Seq(Strings))
  BY DEF Items
<1>3. Current' = d
  BY <1>1 DEF Current
<1>4. Current \in Seq(Strings) /\ Len(Current) < Len(defs)
  <2>1. Len(defs) \in 1..Len(defs)
    OBVIOUS
  <2>2. \A k \in 1..Len(defs) : Len(defs[k]) < k
    BY DEF WireIsExplained
  <2>3. Len(defs[Len(defs)]) < Len(defs)
    BY <2>1, <2>2
  <2>4. defs[Len(defs)] \in Seq(Strings)
    BY <2>1, ElementOfSeq
  <2> HIDE DEF IInv, TypeOK, Emit
  <2> QED BY <2>3, <2>4 DEF Current
<1>5. token.tag \in {"STR_EMPTY", "STR_VARINT", "STR_REF"}
  BY DEF Tokens
<1>6. token.tag = "STR_VARINT" => token.bytes \in Strings
  BY DEF Tokens
<1>7. token.tag = "STR_REF" => token.id \in Nat
  BY DEF Tokens
<1>8. Len(d) <= Len(Current) + 1
  BY <1>4, <1>5
<1>9. WireIsExplained'
  <2>1. defs'[1] = <<>>
    BY <1>1 DEF WireIsExplained
  <2>2. ASSUME NEW k \in 1..Len(wire') PROVE Explained(k)'
    <3>1. CASE k \in 1..Len(wire)
      <4>1. Explained(k)
        BY <3>1 DEF WireIsExplained
      <4>2. k \in 1..Len(defs) /\ k + 1 \in 1..Len(defs)
        <5>1. Len(wire) \in Nat /\ Len(defs) = Len(wire) + 1
          BY LenProperties DEF TypeOK
        <5> HIDE DEF IInv, TypeOK, Emit
        <5> QED BY <3>1, <5>1
      <4>3. wire'[k] = wire[k] /\ written'[k] = written[k] /\ strdedup' = strdedup
        BY <3>1, <1>1
      <4>4. defs'[k] = defs[k] /\ defs'[k + 1] = defs[k + 1]
        BY <4>2, <1>1
      <4> HIDE DEF IInv, TypeOK, Emit
      <4> QED BY <4>1, <4>3, <4>4 DEF Explained
    <3>2. CASE k = Len(wire')
      <4>1. k = Len(defs) /\ k + 1 = Len(defs')
        BY <3>2, <1>1
      <4>2. defs'[k] = Current /\ defs'[k + 1] = d /\ strdedup' = strdedup
        BY <4>1, <1>1 DEF Current
      <4>3. wire'[k] = token /\ written'[k].place = place /\ written'[k].bytes = s
        BY <3>2, <1>1
      <4>4. token.tag = "STR_VARINT" => d = Append(Current, token.bytes)
        OBVIOUS
      <4>5. token.tag = "STR_REF" => token.id \in 0..(Len(Current) - 1)
        <5>1. token.tag = "STR_REF" => token.id \in Nat /\ token.id < Len(Current)
          BY <1>7
        <5>2. Len(Current) \in Nat
          BY <1>4, LenProperties
        <5> HIDE DEF IInv, TypeOK, Emit
        <5> QED BY <5>1, <5>2
      <4> HIDE DEF IInv, TypeOK, Emit
      <4> QED BY <4>2, <4>3, <4>4, <4>5, <1>5, <1>6 DEF Explained
    <3> QED BY <3>1, <3>2, <1>1
  <2>3. ASSUME NEW k \in 1..Len(defs') PROVE Len(defs'[k]) < k
    <3>1. Len(d) < Len(defs')
      BY <1>1, <1>4, <1>8
    <3>2. \A j \in 1..Len(defs) : Len(defs[j]) < j
      BY DEF WireIsExplained
    <3> HIDE DEF IInv, TypeOK, Emit
    <3>3. CASE k \in 1..Len(defs)
      BY <3>2, <3>3, <1>1
    <3>4. CASE k = Len(defs')
      BY <3>1, <3>4, <1>1
    <3>5. Len(defs) \in Nat
      BY DEF IInv, TypeOK
    <3> QED BY <2>3, <3>3, <3>4, <3>5, <1>1
  <2> QED BY <2>1, <2>2, <2>3 DEF WireIsExplained
<1>10. DecoderIsThere'
  <2>1. received = <<>> /\ received' = <<>> /\ strings' = strings /\ hostTable' = hostTable
    BY DEF DecoderIsThere, decoder
  <2>2. defs'[1] = defs[1]
    BY <1>1
  <2> QED BY <2>1, <2>2 DEF DecoderIsThere
<1>11. Len(wire') <= MaxMentions /\ Len(defs') = Len(wire') + 1
  BY <1>1, IdSpaceAssumption
<1>12. Len(wire') = Len(written')
  BY <1>1
<1> HIDE DEF IInv, TypeOK, Emit
<1> QED BY <1>2, <1>3, <1>9, <1>10, <1>11, <1>12

-----------------------------------------------------------------------------
\* The actions of the encoder.
LEMMA CurrentType ==
    ASSUME IInv
    PROVE  Current \in Seq(Strings) /\ Len(Current) < Len(defs)
<1>1. Len(defs) \in 1..Len(defs)
  BY DEF IInv, TypeOK
<1>2. \A k \in 1..Len(defs) : Len(defs[k]) < k
  BY DEF IInv, WireIsExplained
<1> QED BY <1>1, <1>2, ElementOfSeq DEF Current, IInv, TypeOK

LEMMA WriteEmptyStep ==
    ASSUME IInv, NEW place \in Places, WriteEmpty(place)
    PROVE  IInv'
<1> DEFINE token == [tag |-> "STR_EMPTY", place |-> place]
<1>1. Current \in Seq(Strings)
  BY CurrentType
<1>2. token \in Tokens
  BY DEF Tokens
<1>3. Emit(place, Empty, token, Current)
  BY DEF WriteEmpty
<1>4. /\ written' \in Seq(Items) /\ wire' \in Seq(Tokens)
      /\ defs' \in Seq(Seq(Strings))
      /\ Len(wire') = Len(written') /\ Len(wire') <= MaxMentions
      /\ Len(defs') = Len(wire') + 1
      /\ Current' = Current
      /\ WireIsExplained' /\ DecoderIsThere'
  BY <1>1, <1>2, <1>3, EmitExplained
<1>5. ids' = ids /\ strdedup' = strdedup
  BY DEF WriteEmpty, Emit
<1>6. MapIsExact'
  BY <1>4, <1>5 DEF MapIsExact, IInv
<1>7. TypeOK'
  BY <1>3, <1>4, <1>5 DEF IInv, TypeOK, Emit, decoder
<1> QED BY <1>4, <1>6, <1>7 DEF IInv

LEMMA WriteRefStep ==
    ASSUME IInv, NEW place \in Places, NEW s \in Strings, WriteRef(place, s)
    PROVE  IInv'
<1> DEFINE token == [tag |-> "STR_REF", place |-> place, id |-> ids[s]]
<1>1. Current \in Seq(Strings)
  BY CurrentType
<1>2. strdedup /\ s \in DOMAIN ids
  BY DEF WriteRef
<1>3. ids[s] \in Nat /\ ids[s] < Len(Current) /\ Current[ids[s] + 1] = s
  BY <1>2 DEF IInv, TypeOK, MapIsExact
<1>4. token \in Tokens
  BY <1>3 DEF Tokens
<1>5. Emit(place, s, token, Current)
  BY DEF WriteRef
<1>6. /\ written' \in Seq(Items) /\ wire' \in Seq(Tokens)
      /\ defs' \in Seq(Seq(Strings))
      /\ Len(wire') = Len(written') /\ Len(wire') <= MaxMentions
      /\ Len(defs') = Len(wire') + 1
      /\ Current' = Current
      /\ WireIsExplained' /\ DecoderIsThere'
  BY <1>1, <1>2, <1>3, <1>4, <1>5, EmitExplained
<1>7. ids' = ids /\ strdedup' = strdedup
  BY DEF WriteRef, Emit
<1>8. MapIsExact'
  BY <1>6, <1>7 DEF MapIsExact, IInv
<1>9. TypeOK'
  BY <1>5, <1>6, <1>7 DEF IInv, TypeOK, Emit, decoder
<1> QED BY <1>6, <1>8, <1>9 DEF IInv

LEMMA WriteDefinitionStep ==
    ASSUME IInv, NEW place \in Places, NEW s \in Strings, WriteDefinition(place, s)
    PROVE  IInv'
<1> DEFINE token == [tag |-> "STR_VARINT", place |-> place, bytes |-> s]
           d == Append(Current, s)
<1>1. Current \in Seq(Strings) /\ Len(Current) < Len(defs)
  BY CurrentType
<1>2. token \in Tokens
  BY DEF Tokens
<1>3. Emit(place, s, token, d)
  BY DEF WriteDefinition
<1>4. d \in Seq(Strings)
  BY <1>1
<1>5. /\ written' \in Seq(Items) /\ wire' \in Seq(Tokens)
      /\ defs' \in Seq(Seq(Strings))
      /\ Len(wire') = Len(written') /\ Len(wire') <= MaxMentions
      /\ Len(defs') = Len(wire') + 1
      /\ Current' = d
      /\ WireIsExplained' /\ DecoderIsThere'
  BY <1>2, <1>3, <1>4, EmitExplained
<1>6. strdedup' = strdedup
  BY <1>3 DEF Emit
<1>7. DOMAIN ids' \subseteq Strings /\ ids' \in [DOMAIN ids' -> Nat] /\ MapIsExact'
  <2>1. CASE ~strdedup
    <3>1. ids' = ids
      BY <2>1 DEF WriteDefinition
    <3> QED BY <2>1, <3>1, <1>6 DEF MapIsExact, IInv, TypeOK
  <2>2. CASE strdedup
    <3>1. s \notin DOMAIN ids /\ InternNew(s)
      BY <2>2 DEF WriteDefinition
    <3>2. DOMAIN ids' = DOMAIN ids \cup {s}
      BY <3>1 DEF InternNew
    <3>3. IsFiniteSet(DOMAIN ids) /\ Cardinality(DOMAIN ids) = Len(Current)
      BY <2>2 DEF IInv, MapIsExact
    <3>4. IsFiniteSet(DOMAIN ids') /\ Cardinality(DOMAIN ids') = Len(Current) + 1
      BY <3>1, <3>2, <3>3, FS_AddElement
    <3>5. Len(Current) < IdSpace /\ Len(Current) \in Nat
      <4>1. Len(Current) \in Nat /\ Len(Current) < Len(defs)
        BY <1>1, LenProperties
      <4>2. /\ Len(wire) \in Nat /\ Len(defs) = Len(wire) + 1
            /\ Len(wire) < MaxMentions
        BY <1>3, LenProperties DEF IInv, TypeOK, Emit
      <4> QED BY <4>1, <4>2, IdSpaceAssumption
    <3>6. FreshId = Len(Current)
      BY <3>3, <3>5, IdFits DEF FreshId
    <3>7. \A x \in DOMAIN ids' :
              ids'[x] = IF x = s THEN Len(Current) ELSE ids[x]
      BY <3>1, <3>2, <3>6 DEF InternNew
    <3>8. \A x \in DOMAIN ids : /\ ids[x] \in Nat /\ ids[x] < Len(Current)
                                /\ Current[ids[x] + 1] = x
      BY <2>2 DEF IInv, MapIsExact, TypeOK
    <3>9. \A x \in DOMAIN ids' : ids'[x] \in Nat /\ ids'[x] < Len(d) /\ d[ids'[x] + 1] = x
      <4> SUFFICES ASSUME NEW x \in DOMAIN ids'
                   PROVE  ids'[x] \in Nat /\ ids'[x] < Len(d) /\ d[ids'[x] + 1] = x
        OBVIOUS
      <4>1. CASE x = s
        BY <4>1, <3>7, <1>1
      <4>2. CASE x # s
        <5>1. x \in DOMAIN ids /\ ids'[x] = ids[x]
          BY <4>2, <3>2, <3>7
        <5> QED BY <5>1, <3>8, <1>1
      <4> QED BY <4>1, <4>2
    <3>10. Len(d) = Len(Current) + 1
      BY <1>1
    <3>11. MapIsExact'
      BY <1>5, <3>4, <3>9, <3>10 DEF MapIsExact
    <3>12. DOMAIN ids' \subseteq Strings
      BY <3>2 DEF IInv, TypeOK
    <3>13. ids' = [x \in DOMAIN ids' |-> ids'[x]]
      BY <3>1 DEF InternNew
    <3>14. ids' \in [DOMAIN ids' -> Nat]
      BY <3>9, <3>13
    <3> QED BY <3>11, <3>12, <3>14
  <2> QED BY <2>1, <2>2
<1>8. TypeOK'
  BY <1>3, <1>5, <1>6, <1>7 DEF IInv, TypeOK, Emit, decoder
<1> QED BY <1>5, <1>7, <1>8 DEF IInv

-----------------------------------------------------------------------------
\* The actions of the decoder.

\* A step that leaves both tables, the document and the position alone.
LEMMA NothingReadStep ==
    ASSUME IInv, UNCHANGED <<strdedup, encoder, decoder>>,
           phase' \in {"read", "done", "failed"},
           phase' = "done" => Len(received) = Len(wire),
           error' \in {"none", "MaxSize", "Host"}
    PROVE  IInv'
<1> USE DEF encoder, decoder
<1>1. TypeOK'
  BY DEF IInv, TypeOK
<1>2. MapIsExact'
  BY DEF IInv, MapIsExact, Current
<1>3. WireIsExplained'
  BY DEF IInv, WireIsExplained, Explained
<1>4. DecoderIsThere'
  BY DEF IInv, DecoderIsThere
<1> QED BY <1>1, <1>2, <1>3, <1>4 DEF IInv

\* Where the decoder is, and what the token in front of it says.
LEMMA TokenExplained ==
    ASSUME IInv, Reading
    PROVE  /\ Len(received) + 1 \in 1..Len(wire)
           /\ Explained(Len(received) + 1)
           /\ strings = defs[Len(received) + 1] /\ hostTable = strings
           /\ strings \in Seq(Strings) /\ Len(strings) <= Len(received)
           /\ Token.place \in Places
           /\ written[Len(received) + 1]
                  = [place |-> Token.place, bytes |-> written[Len(received) + 1].bytes]
           /\ written[Len(received) + 1] \in Items
<1> DEFINE k == Len(received) + 1
<1>1. k \in 1..Len(wire) /\ k \in 1..Len(defs) /\ k \in 1..Len(written)
  BY DEF IInv, TypeOK, Reading
<1>2. Explained(k)
  BY <1>1 DEF IInv, WireIsExplained
<1>3. strings = defs[k] /\ hostTable = strings
  BY DEF IInv, DecoderIsThere
<1>4. Len(defs[k]) < k
  BY <1>1 DEF IInv, WireIsExplained
<1>5. strings \in Seq(Strings)
  BY DEF IInv, TypeOK
<1>6. written[k] \in Items
  BY <1>1, ElementOfSeq DEF IInv, TypeOK
<1>7. wire[k].place = written[k].place
  BY <1>2 DEF Explained
<1>8. Len(strings) <= Len(received)
  BY <1>3, <1>4, <1>5 DEF IInv, TypeOK
<1>9. written[k].place \in Places /\ written[k] = [place |-> written[k].place, bytes |-> written[k].bytes]
  BY <1>6 DEF Items
<1> QED BY <1>1, <1>2, <1>3, <1>5, <1>6, <1>7, <1>8, <1>9 DEF Token

\* Handing over the string that was written at this position, and moving the
\* tables to the definitions in front of the next one, keeps the invariant.
LEMMA ReceiveStep ==
    ASSUME IInv, Reading,
           UNCHANGED <<strdedup, phase, error, encoder>>,
           Receive(written[Len(received) + 1].bytes),
           strings' = defs[Len(received) + 2], hostTable' = strings',
           strings' \in Seq(Strings),
           size_used' \in Nat
    PROVE  IInv' /\ received' = Append(received, written[Len(received) + 1])
<1> USE DEF encoder
<1>1. received' = Append(received, written[Len(received) + 1])
  BY TokenExplained DEF Receive
<1>2. received' \in Seq(Items) /\ Len(received') = Len(received) + 1
  BY <1>1, TokenExplained DEF IInv, TypeOK
<1>3. TypeOK'
  <2>1. Len(received') <= Len(wire)
    BY <1>2, TokenExplained DEF IInv, TypeOK
  <2> QED BY <1>2, <2>1 DEF IInv, TypeOK
<1>4. MapIsExact'
  BY DEF IInv, MapIsExact, Current
<1>5. WireIsExplained'
  BY DEF IInv, WireIsExplained, Explained
<1>6. DecoderIsThere'
  <2>1. strings' = defs'[Len(received') + 1]
    BY <1>2 DEF IInv, TypeOK
  <2>2. \A k \in 1..Len(received') : received'[k] = written'[k]
    <3>1. \A k \in 1..Len(received) : received[k] = written[k]
      BY DEF IInv, DecoderIsThere
    <3>2. \A k \in 1..Len(received) : received'[k] = received[k]
      BY <1>1 DEF IInv, TypeOK
    <3>3. received'[Len(received) + 1] = written[Len(received) + 1]
      BY <1>1 DEF IInv, TypeOK
    <3>4. Len(received) \in Nat
      BY DEF IInv, TypeOK
    <3> QED BY <3>1, <3>2, <3>3, <3>4, <1>2
  <2>3. phase' = "read"
    BY DEF Reading
  <2> QED BY <2>1, <2>2, <2>3 DEF IInv, DecoderIsThere
<1> QED BY <1>1, <1>3, <1>4, <1>5, <1>6 DEF IInv

\* What a step of the decoder may do to the strings received: nothing, or hand
\* over the next one that was written.
Advances ==
    \/ UNCHANGED received
    \/ /\ Len(received) < Len(written) /\ phase = "read" /\ UNCHANGED <<phase, written>>
       /\ received' = Append(received, written[Len(received) + 1])

LEMMA ReadEmptyStep ==
    ASSUME IInv, ReadEmpty
    PROVE  IInv' /\ Advances
<1> DEFINE k == Len(received) + 1
<1>1. Reading /\ wire[k].tag = "STR_EMPTY"
  BY DEF ReadEmpty, Token
<1>2. written[k].bytes = Empty /\ defs[k + 1] = defs[k]
  BY <1>1, TokenExplained DEF Explained
<1>3. Receive(written[k].bytes)
  BY <1>2 DEF ReadEmpty
<1>4. strings' = defs[Len(received) + 2] /\ hostTable' = strings'
  BY <1>1, <1>2, TokenExplained DEF ReadEmpty, IInv, TypeOK
<1>5. strings' \in Seq(Strings) /\ size_used' \in Nat
  BY DEF ReadEmpty, IInv, TypeOK
<1>6. UNCHANGED <<strdedup, phase, error, encoder>>
  BY DEF ReadEmpty
<1>7. IInv' /\ received' = Append(received, written[k])
  BY <1>1, <1>3, <1>4, <1>5, <1>6, ReceiveStep
<1> QED BY <1>1, <1>6, <1>7 DEF Advances, Reading, encoder, IInv, TypeOK

LEMMA FailStep ==
    ASSUME IInv, NEW e \in {"MaxSize", "Host"}, Fail(e)
    PROVE  IInv' /\ Advances
BY NothingReadStep DEF Fail, Advances, decoder

LEMMA ReadDefinitionStep ==
    ASSUME IInv, ReadDefinition
    PROVE  IInv' /\ Advances
<1> DEFINE k == Len(received) + 1
           s == Token.bytes
<1>1. Reading /\ wire[k].tag = "STR_VARINT"
  BY DEF ReadDefinition, Token
<1>2. s \in Strings /\ s = written[k].bytes /\ defs[k + 1] = Append(defs[k], s)
  BY <1>1, TokenExplained DEF Explained, Token
<1>3. CASE ~Fits(Size(s))
  BY <1>3, FailStep DEF ReadDefinition
<1>4. CASE Fits(Size(s))
  <2>1. DefineString(s)
    BY <1>4 DEF ReadDefinition
  <2>2. /\ hostTable = strings /\ strings = defs[k]
        /\ strings \in Seq(Strings) /\ Len(strings) <= Len(received)
    BY <1>1, TokenExplained
  <2>3. Len(strings) \in Nat /\ Len(strings) < IdSpace
    BY <1>1, <2>2, IdSpaceAssumption DEF Reading, IInv, TypeOK
  <2>4. Len(strings) % IdSpace = Len(strings)
    BY <2>3, IdFits
  <2>5. /\ hostTable' = Append(hostTable, s) /\ strings' = Append(strings, s)
        /\ size_used' = size_used + Size(s)
        /\ Receive(hostTable'[Len(strings) + 1])
        /\ UNCHANGED <<strdedup, phase, error, encoder>>
    BY <2>1, <2>2, <2>4 DEF DefineString
  <2>6. Receive(written[k].bytes)
    <3>1. hostTable'[Len(strings) + 1] = s
      BY <2>2, <2>5
    <3> QED BY <2>5, <3>1, <1>2
  <2>7. strings' = defs[Len(received) + 2] /\ hostTable' = strings' /\ strings' \in Seq(Strings)
    <3>1. strings' = defs[k + 1] /\ hostTable' = strings'
      BY <1>2, <2>2, <2>5
    <3>2. Append(strings, s) \in Seq(Strings)
      BY <1>2, <2>2
    <3>3. k + 1 = Len(received) + 2
      BY DEF IInv, TypeOK
    <3> QED BY <2>5, <3>1, <3>2, <3>3
  <2>8. size_used' \in Nat
    <3>1. Size(s) \in Nat
      BY <1>2, SizeAssumption
    <3>2. size_used \in Nat
      BY DEF IInv, TypeOK
    <3> QED BY <2>5, <3>1, <3>2
  <2>9. IInv' /\ received' = Append(received, written[k])
    BY <1>1, <2>5, <2>6, <2>7, <2>8, ReceiveStep
  <2> QED BY <1>1, <2>5, <2>9 DEF Advances, Reading, encoder, IInv, TypeOK
<1> QED BY <1>3, <1>4

LEMMA ReadRefStep ==
    ASSUME IInv, ReadRef
    PROVE  IInv' /\ Advances
<1> DEFINE k == Len(received) + 1
           id == Token.id
<1>1. Reading /\ wire[k].tag = "STR_REF"
  BY DEF ReadRef, Token
<1>2. /\ hostTable = strings /\ strings = defs[k] /\ strings \in Seq(Strings)
  BY <1>1, TokenExplained
<1>3. /\ strdedup /\ id \in 0..(Len(strings) - 1)
      /\ strings[id + 1] = written[k].bytes /\ defs[k + 1] = defs[k]
  BY <1>1, <1>2, TokenExplained DEF Explained, Token
<1>4. ~(id >= Len(strings))
  BY <1>2, <1>3
<1>5. CASE ~Fits(Size(strings[id + 1]))
  BY <1>3, <1>4, <1>5, FailStep DEF ReadRef
<1>6. CASE Fits(Size(strings[id + 1]))
  <2>1. Resolve(id)
    BY <1>3, <1>4, <1>6 DEF ReadRef
  <2>2. Receive(written[k].bytes)
    BY <2>1, <1>2, <1>3 DEF Resolve
  <2>3. strings' = defs[Len(received) + 2] /\ hostTable' = strings' /\ strings' \in Seq(Strings)
    BY <2>1, <1>2, <1>3 DEF Resolve, IInv, TypeOK
  <2>4. strings[id + 1] \in Strings
    BY <1>2, <1>3
  <2>5. size_used' \in Nat
    <3>1. Size(strings[id + 1]) \in Nat
      BY <2>4, SizeAssumption
    <3>2. size_used \in Nat
      BY DEF IInv, TypeOK
    <3> QED BY <2>1, <3>1, <3>2 DEF Resolve
  <2>6. UNCHANGED <<strdedup, phase, error, encoder>>
    BY <2>1 DEF Resolve
  <2>7. IInv' /\ received' = Append(received, written[k])
    BY <1>1, <2>2, <2>3, <2>5, <2>6, ReceiveStep
  <2> QED BY <1>1, <2>6, <2>7 DEF Advances, Reading, encoder, IInv, TypeOK
<1> QED BY <1>5, <1>6

-----------------------------------------------------------------------------
\* The whole next-state relation, with what it means for the channel.

LEMMA NextStep ==
    ASSUME IInv, Next
    PROVE  IInv'
<1>1. ASSUME NEW place \in Places, WriteEmpty(place) PROVE IInv'
  BY <1>1, WriteEmptyStep
<1>2. ASSUME NEW place \in Places, NEW s \in Strings, WriteRef(place, s) PROVE IInv'
  BY <1>2, WriteRefStep
<1>3. ASSUME NEW place \in Places, NEW s \in Strings, WriteDefinition(place, s) PROVE IInv'
  BY <1>3, WriteDefinitionStep
<1>4. CASE Finish
  BY <1>4, NothingReadStep DEF Finish, IInv, DecoderIsThere
<1>5. CASE ReadEmpty
  BY <1>5, ReadEmptyStep
<1>6. CASE ReadDefinition
  BY <1>6, ReadDefinitionStep
<1>7. CASE ReadRef
  BY <1>7, ReadRefStep
<1>8. CASE HostRefuses
  BY <1>8, FailStep DEF HostRefuses
<1>9. CASE Return
  BY <1>9, NothingReadStep DEF Return, IInv, DecoderIsThere
<1>10. CASE Stopped
  BY <1>10, NothingReadStep DEF Stopped, vars, IInv, DecoderIsThere
<1> QED
  BY <1>1, <1>2, <1>3, <1>4, <1>5, <1>6, <1>7, <1>8, <1>9, <1>10 DEF Next, Write, Read

LEMMA StutterStep ==
    ASSUME IInv, UNCHANGED vars
    PROVE  IInv'
<1> USE DEF vars, encoder, decoder
<1>1. TypeOK'
  BY DEF IInv, TypeOK
<1>2. MapIsExact'
  BY DEF IInv, MapIsExact, Current
<1>3. WireIsExplained'
  BY DEF IInv, WireIsExplained, Explained
<1>4. DecoderIsThere'
  BY DEF IInv, DecoderIsThere
<1> QED BY <1>1, <1>2, <1>3, <1>4 DEF IInv

\* The inductive invariant: the map inverts the definitions, every token is
\* explained by the definitions in front of it, and the decoder's table is the
\* sequence of definitions in front of its position.
THEOREM InvariantHolds == Spec => []IInv
<1>1. Init => IInv
  BY InitIInv
<1>2. IInv /\ [Next]_vars => IInv'
  BY NextStep, StutterStep
<1> QED BY <1>1, <1>2, PTL DEF Spec

\* Type correctness of the model of both string tables.
THEOREM TypeCorrect == Spec => []TypeOK
<1>1. IInv => TypeOK
  BY DEF IInv
<1> QED BY <1>1, InvariantHolds, PTL

\* Whatever the document mentions, as a key or as a value, the reader is handed
\* that very string: decode_string_tag and read_key_owned undo
\* write_string_bytes.
THEOREM StringsArrive == Spec => []ReceivedIsWritten
<1>1. IInv => ReceivedIsWritten
  <2> SUFFICES ASSUME IInv PROVE ReceivedIsWritten
    OBVIOUS
  <2>1. \A k \in 1..Len(received) : received[k] = written[k]
    BY DEF IInv, DecoderIsThere
  <2>2. ASSUME phase = "done" PROVE received = written
    <3>1. Len(received) = Len(written)
      BY <2>2 DEF IInv, DecoderIsThere, TypeOK
    <3>2. received \in Seq(Items) /\ written \in Seq(Items)
      BY DEF IInv, TypeOK
    <3> QED BY <2>1, <3>1, <3>2, SeqEqual
  <2> QED BY <2>1, <2>2 DEF ReceivedIsWritten
<1> QED BY <1>1, InvariantHolds, PTL

\* A document an encoder wrote never meets BadStrRef, BadKey, UnknownTag or the
\* host's Internal.
THEOREM NeverMalformed == Spec => []OnlyLimitsRefuse
<1>1. IInv => OnlyLimitsRefuse
  BY DEF IInv, DecoderIsThere, OnlyLimitsRefuse
<1> QED BY <1>1, InvariantHolds, PTL

\* Host and decoder hold the same table, and it is the one the encoder had at
\* the same place of the document.
THEOREM TablesInLockstep == Spec => []Lockstep
<1>1. IInv => Lockstep
  BY DEF IInv, DecoderIsThere, Lockstep
<1> QED BY <1>1, InvariantHolds, PTL

-----------------------------------------------------------------------------
\* The refinement: every step of the tables is a step of the channel.

LEMMA ReadIsChannelStep ==
    ASSUME IInv, Advances, phase = "read", UNCHANGED written,
           \/ phase' = "read"
           \/ phase' = "failed" /\ UNCHANGED received
    PROVE  [Channel!Next]_(Channel!vars)
<1> USE DEF ChannelStatus, Channel!vars, Channel!Next
<1>1. CASE phase' = "failed"
  BY <1>1 DEF Channel!Refuse
<1>2. CASE phase' = "read" /\ UNCHANGED received
  BY <1>2
<1>3. CASE phase' = "read" /\ received' # received
  <2>1. /\ Len(received) < Len(written)
        /\ received' = Append(received, written[Len(received) + 1])
    BY <1>3 DEF Advances
  <2> QED BY <1>3, <2>1 DEF Channel!Deliver
<1> QED BY <1>1, <1>2, <1>3

LEMMA WriteIsChannelStep ==
    ASSUME NEW place \in Places, NEW s \in Strings \cup {Empty}, NEW token, NEW d,
           Emit(place, s, token, d)
    PROVE  Channel!Next
<1>1. [place |-> place, bytes |-> s] \in Items
  BY DEF Items
<1>2. ChannelStatus = "open" /\ ChannelStatus' = "open"
  BY DEF Emit, ChannelStatus
<1>3. Channel!Send([place |-> place, bytes |-> s])
  BY <1>2 DEF Channel!Send, Emit, decoder
<1> QED BY <1>1, <1>3 DEF Channel!Next

LEMMA NextIsChannelStep ==
    ASSUME IInv, [Next]_vars
    PROVE  [Channel!Next]_(Channel!vars)
<1> USE DEF encoder, decoder
<1>1. ASSUME NEW place \in Places, WriteEmpty(place) PROVE Channel!Next
  BY <1>1, WriteIsChannelStep DEF WriteEmpty
<1>2. ASSUME NEW place \in Places, NEW s \in Strings, WriteRef(place, s) PROVE Channel!Next
  BY <1>2, WriteIsChannelStep DEF WriteRef
<1>3. ASSUME NEW place \in Places, NEW s \in Strings, WriteDefinition(place, s)
      PROVE  Channel!Next
  BY <1>3, WriteIsChannelStep DEF WriteDefinition
<1>4. CASE Finish
  BY <1>4 DEF Finish, ChannelStatus, Channel!Close, Channel!Next
<1>5. ASSUME ReadEmpty \/ ReadDefinition \/ ReadRef \/ HostRefuses
      PROVE  [Channel!Next]_(Channel!vars)
  <2>1. Advances
    BY <1>5, ReadEmptyStep, ReadDefinitionStep, ReadRefStep, FailStep DEF HostRefuses
  <2>2. phase = "read" /\ UNCHANGED written
    BY <1>5 DEF ReadEmpty, ReadDefinition, DefineString, ReadRef, Resolve, HostRefuses,
                Reading, Fail
  <2>3. \/ phase' = "read"
        \/ phase' = "failed" /\ UNCHANGED received
    BY <1>5 DEF ReadEmpty, ReadDefinition, DefineString, ReadRef, Resolve, HostRefuses,
                Reading, Fail
  <2> QED BY <2>1, <2>2, <2>3, ReadIsChannelStep
<1>6. CASE Return
  <2>1. phase' = "done" /\ IInv'
    BY <1>6, NextStep DEF Return, Next, Read
  <2>2. ReceivedIsWritten'
    <3>1. \A k \in 1..Len(received') : received'[k] = written'[k]
      BY <2>1 DEF IInv, DecoderIsThere
    <3>2. Len(received') = Len(written')
      BY <2>1 DEF IInv, DecoderIsThere, TypeOK
    <3>3. received' \in Seq(Items) /\ written' \in Seq(Items)
      BY <2>1 DEF IInv, TypeOK
    <3>4. received' = written'
      BY <3>1, <3>2, <3>3, SeqEqual
    <3> QED BY <3>1, <3>4 DEF ReceivedIsWritten
  <2> QED
    BY <1>6, <2>1, <2>2
    DEF Return, ReceivedIsWritten, ChannelStatus, Channel!Complete, Channel!Next
<1>7. CASE Stopped \/ UNCHANGED vars
  BY <1>7 DEF Stopped, vars, Channel!vars, ChannelStatus
<1> QED BY <1>1, <1>2, <1>3, <1>4, <1>5, <1>6, <1>7 DEF Next, Write, Read

\* The tables, tokens and identifiers of the two sides implement a channel that
\* carries the strings themselves.
THEOREM Refinement == Spec => ImplementsChannel
<1>1. Init => Channel!Init
  BY DEF Init, ChannelStatus, Channel!Init
<1>2. IInv /\ [Next]_vars => [Channel!Next]_(Channel!vars)
  BY NextIsChannelStep
<1> QED
  BY <1>1, <1>2, InvariantHolds, PTL DEF Spec, ImplementsChannel, Channel!Spec
=============================================================================
