------------------------------ MODULE FfiProofs ------------------------------
(***************************************************************************)
(* Who owns what at the two ends of the C interface (pf-ffi).  The handles *)
(* of a C program that pf_decode builds a value with, for every set of     *)
(* tables, whatever the document; and which tables make the vtable host go *)
(* wrong.  The handle and the buffer of the C API of the encoder, whatever *)
(* the caller writes and however many calls it makes.                      *)
(***************************************************************************)
EXTENDS CHost, EncodeApi, TLAPS, SequenceTheorems, FiniteSetTheorems

\* The table has a function that may be given a string by its id.
TakesIds == hooks \cap (IdFunctions \cup ScalarFunctions) # {}

\* A table that keeps strings can also be given a key by the id of its string.
StringsInOnePlace == \A H \in HookSets : "intern_string" \in H => "insert_string_key_id" \in H

-----------------------------------------------------------------------------
(* Counting the handles of frames.                                           *)

OfKind(frames, kinds) == {k \in DOMAIN frames : frames[k].kind \in kinds}

\* The handles of one frame.
Weight(f) == IF f.kind \in {"packed", "hash"} THEN 1 ELSE IF f.kind = "copies" THEN 2 ELSE 0

\* One more frame is one more of its kind.
LEMMA OneMoreOfKind ==
    ASSUME NEW s \in Seq(Arrays), NEW f \in Arrays, NEW kinds
    PROVE  /\ Cardinality(OfKind(s, kinds)) \in Nat
           /\ Cardinality(OfKind(Append(s, f), kinds)) =
                 Cardinality(OfKind(s, kinds)) + (IF f.kind \in kinds THEN 1 ELSE 0)
<1>1. Len(s) \in Nat /\ DOMAIN s = 1..Len(s)
  BY LenProperties
<1>2. /\ DOMAIN Append(s, f) = 1..(Len(s) + 1)
      /\ \A k \in 1..Len(s) : Append(s, f)[k] = s[k]
      /\ Append(s, f)[Len(s) + 1] = f
  BY <1>1, AppendProperties, LenProperties
<1>3. IsFiniteSet(OfKind(s, kinds))
  <2>1. IsFiniteSet(1..Len(s))
    BY <1>1, FS_Interval
  <2>2. OfKind(s, kinds) \in SUBSET (1..Len(s))
    BY <1>1 DEF OfKind
  <2>. QED
    BY <2>1, <2>2, FS_Subset
<1>4. Len(s) + 1 \notin OfKind(s, kinds)
  BY <1>1 DEF OfKind
<1>5. CASE f.kind \in kinds
  <2>1. OfKind(Append(s, f), kinds) = OfKind(s, kinds) \cup {Len(s) + 1}
    BY <1>1, <1>2, <1>5 DEF OfKind
  <2>. QED
    BY <1>3, <1>4, <1>5, <2>1, FS_AddElement, FS_CardinalityType
<1>6. CASE f.kind \notin kinds
  <2>1. OfKind(Append(s, f), kinds) = OfKind(s, kinds)
    BY <1>1, <1>2, <1>6 DEF OfKind
  <2>. QED
    BY <1>3, <1>6, <2>1, FS_CardinalityType
<1>. QED
  BY <1>5, <1>6

\* One more frame brings its handles.
LEMMA OwnedByAppend ==
    ASSUME NEW s \in Seq(Arrays), NEW f \in Arrays
    PROVE  OwnedBy(s) \in Nat /\ OwnedBy(Append(s, f)) = OwnedBy(s) + Weight(f)
<1>1. \A r : OwnedBy(r) = Cardinality(OfKind(r, {"packed", "hash", "copies"}))
                              + Cardinality(OfKind(r, {"copies"}))
  BY DEF OwnedBy, ArraysOf, TemplatesOf, OfKind
<1>2. /\ Cardinality(OfKind(s, {"packed", "hash", "copies"})) \in Nat
      /\ Cardinality(OfKind(s, {"copies"})) \in Nat
      /\ Cardinality(OfKind(Append(s, f), {"packed", "hash", "copies"})) =
            Cardinality(OfKind(s, {"packed", "hash", "copies"}))
                + (IF f.kind \in {"packed", "hash", "copies"} THEN 1 ELSE 0)
      /\ Cardinality(OfKind(Append(s, f), {"copies"})) =
            Cardinality(OfKind(s, {"copies"})) + (IF f.kind \in {"copies"} THEN 1 ELSE 0)
  BY OneMoreOfKind
<1>. QED
  BY <1>1, <1>2 DEF Weight

\* No frame, no handle.
LEMMA OwnedByNone == OwnedBy(<<>>) = 0
<1>1. {k \in DOMAIN <<>> : <<>>[k].kind \in {"packed", "hash", "copies"}} = {}
      /\ {k \in DOMAIN <<>> : <<>>[k].kind = "copies"} = {}
  OBVIOUS
<1>. QED
  BY <1>1, FS_EmptySet DEF OwnedBy, ArraysOf, TemplatesOf

\* Arrays and templates of frames are numbers; there are as many arrays as frames
\* of the kinds that have one.
LEMMA PartsOfFrames ==
    ASSUME NEW s \in Seq(Arrays)
    PROVE  ArraysOf(s) \in Nat /\ TemplatesOf(s) \in Nat
<1>1. ArraysOf(s) = Cardinality(OfKind(s, {"packed", "hash", "copies"}))
  BY DEF ArraysOf, OfKind
<1>2. TemplatesOf(s) = Cardinality(OfKind(s, {"copies"}))
  BY DEF TemplatesOf, OfKind
<1>3. CASE s = <<>>
  <2>1. {k \in DOMAIN <<>> : <<>>[k].kind \in {"packed", "hash", "copies"}} = {}
        /\ {k \in DOMAIN <<>> : <<>>[k].kind = "copies"} = {}
    OBVIOUS
  <2>. QED
    BY <1>3, <2>1, FS_EmptySet DEF ArraysOf, TemplatesOf
<1>4. CASE s # <<>>
  <2>1. s[Len(s)] \in Arrays
    BY <1>4, EmptySeq, ElementOfSeq, LenProperties
  <2>. QED
    BY <1>1, <1>2, <2>1, OneMoreOfKind
<1>. QED
  BY <1>3, <1>4

\* A frame that is ended has one array, and a template if it made copies.
LEMMA PartsOfOne ==
    ASSUME NEW f \in Arrays, f.kind \in {"packed", "hash", "copies"}
    PROVE  TemplatesOf(<<f>>) \in {0, 1} /\ OwnedBy(<<f>>) = 1 + TemplatesOf(<<f>>)
<1>1. <<f>> = Append(<<>>, f) /\ <<>> \in Seq(Arrays)
  OBVIOUS
<1>2. /\ OwnedBy(<<>>) = 0
      /\ OwnedBy(Append(<<>>, f)) = OwnedBy(<<>>) + Weight(f)
  BY <1>1, OwnedByAppend, OwnedByNone
<1>3. OwnedBy(<<f>>) = Weight(f) /\ Weight(f) \in Nat
  BY <1>1, <1>2 DEF Weight
<1>4. Cardinality(OfKind(Append(<<>>, f), {"copies"})) =
          Cardinality(OfKind(<<>>, {"copies"})) + (IF f.kind \in {"copies"} THEN 1 ELSE 0)
  BY <1>1, OneMoreOfKind
<1>5. Cardinality(OfKind(<<>>, {"copies"})) = 0
  <2>1. OfKind(<<>>, {"copies"}) = {}
    BY DEF OfKind
  <2>. QED
    BY <2>1, FS_EmptySet
<1>6. TemplatesOf(<<f>>) = IF f.kind \in {"copies"} THEN 1 ELSE 0
  <2>1. TemplatesOf(<<f>>) = Cardinality(OfKind(Append(<<>>, f), {"copies"}))
    BY <1>1 DEF TemplatesOf, OfKind
  <2>. QED
    BY <1>4, <1>5, <2>1
<1>. QED
  BY <1>3, <1>6 DEF Weight

\* The frames are the innermost one on top of the others, which may be replaced.
LEMMA TopAndBelow ==
    ASSUME arrays \in Seq(Arrays), arrays # <<>>
    PROVE  /\ Top \in Arrays /\ Below \in Seq(Arrays) /\ Len(Below) = Len(arrays) - 1
           /\ arrays = Append(Below, Top)
           /\ \A f \in Arrays : [arrays EXCEPT ![Len(arrays)] = f] = Append(Below, f)
<1>1. Len(arrays) \in Nat \ {0} /\ DOMAIN arrays = 1..Len(arrays)
  BY EmptySeq, LenProperties
<1>2. Top \in Arrays
  BY <1>1, ElementOfSeq DEF Top
<1>3. \A i \in 1..(Len(arrays) - 1) : arrays[i] \in Arrays
  BY <1>1, ElementOfSeq
<1>4. /\ Below \in Seq(Arrays)
      /\ Len(Below) = Len(arrays) - 1
      /\ \A i \in 1..Len(Below) : Below[i] = arrays[i]
  <2>1. /\ Below \in Seq(Arrays)
        /\ Len(Below) = IF 1 <= Len(arrays) - 1 THEN (Len(arrays) - 1) - 1 + 1 ELSE 0
        /\ \A i \in 1..((Len(arrays) - 1) - 1 + 1) : Below[i] = arrays[1 + i - 1]
    BY <1>1, <1>3, SubSeqProperties DEF Below
  <2>2. \A m \in Nat \ {0} : m - 1 = IF 1 <= m - 1 THEN (m - 1) - 1 + 1 ELSE 0
    OBVIOUS
  <2>3. Len(Below) = Len(arrays) - 1
    BY <1>1, <2>1, <2>2
  <2>4. ASSUME NEW i \in 1..Len(Below) PROVE Below[i] = arrays[i]
    <3>1. i \in 1..((Len(arrays) - 1) - 1 + 1) /\ 1 + i - 1 = i
      BY <1>1, <2>3
    <3>. QED
      BY <2>1, <3>1
  <2>. QED
    BY <2>1, <2>3, <2>4
<1>5. ASSUME NEW f \in Arrays PROVE [arrays EXCEPT ![Len(arrays)] = f] = Append(Below, f)
  <2>. DEFINE a == [arrays EXCEPT ![Len(arrays)] = f]
              b == Append(Below, f)
  <2>1. /\ a \in Seq(Arrays) /\ Len(a) = Len(arrays)
        /\ \A j \in 1..Len(arrays) : a[j] = IF j = Len(arrays) THEN f ELSE arrays[j]
    BY <1>1, ExceptSeq
  <2>2. /\ b \in Seq(Arrays) /\ Len(b) = Len(Below) + 1
        /\ \A j \in 1..Len(Below) : b[j] = Below[j]
        /\ b[Len(Below) + 1] = f
    BY <1>4, AppendProperties
  <2>. HIDE DEF a, b
  <2>3. Len(b) = Len(a) /\ Len(Below) + 1 = Len(arrays)
    <3>1. Len(Below) = Len(arrays) - 1 /\ Len(arrays) \in Nat
      BY <1>1, <1>4
    <3>2. Len(Below) + 1 = Len(arrays)
      BY <3>1
    <3>. QED
      BY <2>1, <2>2, <3>2
  <2>4. ASSUME NEW j \in 1..Len(a) PROVE a[j] = b[j]
    <3>1. CASE j = Len(arrays)
      BY <2>1, <2>2, <2>3, <2>4, <3>1
    <3>2. CASE j # Len(arrays)
      <4>1. j \in 1..Len(Below) /\ j \in 1..Len(arrays)
        <5>1. Len(arrays) \in Nat /\ Len(Below) = Len(arrays) - 1 /\ Len(a) = Len(arrays)
          BY <1>1, <1>4, <2>1
        <5>. QED
          BY <2>4, <3>2, <5>1
      <4>. QED
        BY <1>4, <2>1, <2>2, <3>2, <4>1
    <3>. QED
      BY <3>1, <3>2
  <2>5. a = b
    BY <2>1, <2>2, <2>3, <2>4, SeqEqual
  <2>. QED
    BY <2>5 DEF a, b
<1>6. arrays = Append(Below, Top)
  <2>1. [arrays EXCEPT ![Len(arrays)] = Top] = arrays
    BY DEF Top
  <2>. QED
    BY <1>2, <1>5, <2>1
<1>. QED
  BY <1>2, <1>4, <1>5, <1>6
-----------------------------------------------------------------------------
(* The inductive invariant.                                                  *)

\* A frame that has called for a value has room for it.
Waits(f) == f.kind = "template" \/ f.n < MaxElements

FramesOK ==
    /\ arrays \in Seq(Arrays) /\ Len(arrays) <= MaxArrays
    /\ \A i \in 1..(Len(arrays) - 1) : Waits(arrays[i])

\* Whoever keeps the strings has kept all of them.
StringsOK ==
    /\ fallback \in 0..strings /\ cached \in 0..strings /\ strings \in 0..MaxStrings
    /\ IF Has("intern_string") THEN cached = strings ELSE fallback = strings

\* A handle is lost, or an error comes from what a table lacks, only with a table that
\* interns strings without a function for their ids, has one for ids without interning
\* strings, or lacks duplicate_value.
IInv ==
    /\ hooks \in HookSets /\ StringsOK /\ FramesOK
    /\ held \in {0, 1} /\ (held = 1 => arrays = <<>> \/ Waits(Top))
    /\ live \in Nat /\ undropped \in Nat
    /\ Has("drop_value") /\ Has("drop_array") => undropped = 0
    /\ result \in {"running", "ok", "Host", "Malformed", "BadStrRef", "Internal", "UnknownId"}
    /\ Running => live = Owned + undropped
    /\ result = "ok" => live = 1 + undropped
    /\ result \notin {"running", "ok"} =>
          \/ live = undropped
          \/ live = undropped + 1 /\ Has("intern_string") /\ ~Has("insert_string_key_id")
    /\ result = "BadStrRef" => Has("intern_string") /\ ~(IdFunctions \subseteq hooks)
    /\ result = "Internal" => ~Has("duplicate_value")
    /\ result = "UnknownId" =>
          ~Has("intern_string") /\ TakesIds

\* Nothing is open and nothing is given out.
LEMMA InitIInv == Init => IInv
<1>. SUFFICES ASSUME Init PROVE IInv
  OBVIOUS
<1>1. arrays = <<>> /\ <<>> \in Seq(Arrays) /\ Len(<<>>) = 0
  BY DEF Init
<1>2. FramesOK
  BY <1>1, CHostAssumption DEF FramesOK
<1>3. Owned = 0
  BY OwnedByNone DEF Init, Owned
<1>4. StringsOK
  BY CHostAssumption DEF Init, StringsOK
<1>. QED
  BY <1>1, <1>2, <1>3, <1>4 DEF Init, IInv, Running

\* The handles of frames are a number of them.
LEMMA OwnedByType ==
    ASSUME NEW s \in Seq(Arrays)
    PROVE  OwnedBy(s) \in Nat
<1>1. CASE s = <<>>
  BY <1>1, OwnedByNone
<1>2. CASE s # <<>>
  <2>1. s[Len(s)] \in Arrays
    BY <1>2, EmptySeq, ElementOfSeq, LenProperties
  <2>. QED
    BY <2>1, OwnedByAppend
<1>. QED
  BY <1>1, <1>2

\* And so are all that the Rust side owns.
LEMMA OwnedType ==
    ASSUME FramesOK, held \in {0, 1}
    PROVE  Owned \in Nat
BY OwnedByType DEF FramesOK, Owned

\* An array is opened.
LEMMA FramePushed ==
    ASSUME FramesOK, arrays # <<>> => Waits(Top), Len(arrays) < MaxArrays,
           NEW f \in Arrays, arrays' = Append(arrays, f)
    PROVE  FramesOK' /\ OwnedBy(arrays') = OwnedBy(arrays) + Weight(f)
<1>1. arrays \in Seq(Arrays) /\ Len(arrays) \in Nat
  BY LenProperties DEF FramesOK
<1>2. /\ arrays' \in Seq(Arrays) /\ Len(arrays') = Len(arrays) + 1
      /\ \A i \in 1..Len(arrays) : arrays'[i] = arrays[i]
  BY <1>1, AppendProperties
<1>3. ASSUME NEW i \in 1..(Len(arrays') - 1) PROVE Waits(arrays'[i])
  <2>1. i \in 1..Len(arrays) /\ arrays'[i] = arrays[i]
    BY <1>1, <1>2, <1>3
  <2>2. CASE i = Len(arrays)
    BY <1>1, <2>1, <2>2, EmptySeq DEF Top
  <2>3. CASE i # Len(arrays)
    BY <1>1, <2>1, <2>3 DEF FramesOK
  <2>. QED
    BY <2>2, <2>3
<1>4. FramesOK'
  BY <1>1, <1>2, <1>3, CHostAssumption DEF FramesOK
<1>. QED
  BY <1>1, <1>4, OwnedByAppend

\* The innermost frame has gone on.
LEMMA FrameReplaced ==
    ASSUME FramesOK, arrays # <<>>, NEW f \in Arrays,
           arrays' = [arrays EXCEPT ![Len(arrays)] = f]
    PROVE  /\ FramesOK' /\ Top' = f
           /\ OwnedBy(arrays') = OwnedBy(arrays) - Weight(Top) + Weight(f)
<1>1. arrays \in Seq(Arrays) /\ Len(arrays) \in Nat \ {0}
  BY EmptySeq, LenProperties DEF FramesOK
<1>2. /\ arrays' \in Seq(Arrays) /\ Len(arrays') = Len(arrays)
      /\ \A j \in 1..Len(arrays) : arrays'[j] = IF j = Len(arrays) THEN f ELSE arrays[j]
  BY <1>1, ExceptSeq
<1>3. FramesOK'
  <2>1. ASSUME NEW i \in 1..(Len(arrays') - 1) PROVE Waits(arrays'[i])
    <3>1. Len(arrays) \in Nat /\ Len(arrays') = Len(arrays)
      BY <1>1, <1>2
    <3>2. i \in 1..(Len(arrays) - 1) /\ i \in 1..Len(arrays) /\ i # Len(arrays)
      <4>1. \A m \in Nat : \A j \in 1..(m - 1) : j \in 1..m /\ j # m
        OBVIOUS
      <4>2. Len(arrays') - 1 = Len(arrays) - 1
        BY <3>1
      <4>3. i \in 1..(Len(arrays) - 1)
        BY <2>1, <4>2
      <4>. QED
        BY <3>1, <4>1, <4>3
    <3>. QED
      BY <1>2, <3>2 DEF FramesOK
  <2>. QED
    BY <1>2, <2>1 DEF FramesOK
<1>4. Top' = f
  BY <1>1, <1>2 DEF Top
<1>5. /\ Top \in Arrays /\ Below \in Seq(Arrays)
      /\ arrays = Append(Below, Top) /\ arrays' = Append(Below, f)
  BY <1>1, TopAndBelow
<1>6. /\ OwnedBy(Below) \in Nat
      /\ OwnedBy(arrays) = OwnedBy(Below) + Weight(Top)
      /\ OwnedBy(arrays') = OwnedBy(Below) + Weight(f)
  BY <1>5, OwnedByAppend
<1>7. Weight(Top) \in Nat /\ Weight(f) \in Nat
  BY DEF Weight
<1>. QED
  BY <1>3, <1>4, <1>6, <1>7

\* The innermost array is complete.
LEMMA FramePopped ==
    ASSUME FramesOK, arrays # <<>>, arrays' = Below
    PROVE  /\ FramesOK' /\ (arrays' # <<>> => Waits(Top'))
           /\ OwnedBy(arrays') = OwnedBy(arrays) - OwnedBy(<<Top>>)
           /\ OwnedBy(<<Top>>) \in Nat
<1>1. arrays \in Seq(Arrays) /\ Len(arrays) \in Nat \ {0}
  BY EmptySeq, LenProperties DEF FramesOK
<1>2. /\ Top \in Arrays /\ Below \in Seq(Arrays) /\ Len(Below) = Len(arrays) - 1
      /\ arrays = Append(Below, Top)
  BY <1>1, TopAndBelow
<1>3. \A i \in 1..Len(Below) : Below[i] = arrays[i] /\ Waits(Below[i])
  <2>1. \A i \in 1..Len(Below) : Append(Below, Top)[i] = Below[i]
    BY <1>2, AppendProperties
  <2>. QED
    BY <1>1, <1>2, <2>1 DEF FramesOK
<1>4. Len(Below) \in Nat
  BY <1>2, LenProperties
<1>5. FramesOK'
  BY <1>1, <1>2, <1>3, <1>4, CHostAssumption DEF FramesOK
<1>6. ASSUME arrays' # <<>> PROVE Waits(Top')
  <2>1. Len(Below) \in 1..Len(Below)
    BY <1>2, <1>4, <1>6, EmptySeq
  <2>. QED
    BY <1>3, <2>1 DEF Top
<1>7. OwnedBy(arrays) = OwnedBy(Below) + Weight(Top) /\ OwnedBy(Below) \in Nat
  BY <1>2, OwnedByAppend
<1>8. OwnedBy(<<Top>>) = Weight(Top)
  <2>1. <<Top>> = Append(<<>>, Top) /\ <<>> \in Seq(Arrays)
    OBVIOUS
  <2>2. OwnedBy(Append(<<>>, Top)) = OwnedBy(<<>>) + Weight(Top)
    BY <1>2, <2>1, OwnedByAppend
  <2>3. Weight(Top) \in Nat
    BY DEF Weight
  <2>. QED
    BY <2>1, <2>2, <2>3, OwnedByNone
<1>9. Weight(Top) \in Nat
  BY DEF Weight
<1>. QED
  BY <1>5, <1>6, <1>7, <1>8, <1>9

\* The decode goes on, with as many handles as are owned and were not dropped.
LEMMA GoesOnIInv ==
    ASSUME IInv, Running, UNCHANGED <<hooks, undropped, result>>, StringsOK', FramesOK',
           held' \in {0, 1}, held' = 1 => arrays' = <<>> \/ Waits(Top'),
           live' = held' + OwnedBy(arrays') + undropped
    PROVE  IInv'
<1>1. OwnedBy(arrays') \in Nat /\ Owned' = held' + OwnedBy(arrays')
  BY OwnedByType DEF FramesOK, Owned
<1>2. live' \in Nat /\ undropped' \in Nat /\ result' = "running" /\ hooks' = hooks
  <2>1. undropped \in Nat /\ result = "running"
    BY DEF IInv, Running
  <2>2. undropped' = undropped /\ result' = result /\ hooks' = hooks
    OBVIOUS
  <2>3. undropped' \in Nat /\ result' = "running"
    BY <2>1, <2>2
  <2>4. live' \in Nat
    BY <1>1, <2>2, <2>3
  <2>. QED
    BY <2>2, <2>3, <2>4
<1>3. (held = 1 => arrays = <<>> \/ Waits(Top))'
  OBVIOUS
<1>4. (Has("drop_value") /\ Has("drop_array") => undropped = 0)'
  BY DEF IInv, Has
<1>5. live' = Owned' + undropped'
  BY <1>1
<1>. QED
  BY <1>2, <1>3, <1>4, <1>5 DEF IInv, Running

\* What a table can drop is dropped.
LEMMA UntoldType ==
    ASSUME NEW m \in Nat, NEW n \in Nat
    PROVE  /\ Untold(m, n) \in Nat
           /\ Has("drop_value") /\ Has("drop_array") => Untold(m, n) = 0
BY DEF Untold

\* Errors: what is owned is dropped or left, what is lost is not.
LEMMA FailAfterIInv ==
    ASSUME IInv, Running, NEW e \in {"Host", "Malformed", "BadStrRef", "Internal", "UnknownId"},
           NEW lost \in {0, 1}, NEW given \in {0, 1}, FailAfter(e, lost, given),
           lost <= held, given <= ArraysOf(arrays),
           lost # 0 => Has("intern_string") /\ ~Has("insert_string_key_id"),
           e = "BadStrRef" => Has("intern_string") /\ ~(IdFunctions \subseteq hooks),
           e = "Internal" => ~Has("duplicate_value"),
           e = "UnknownId" =>
               ~Has("intern_string") /\ TakesIds
    PROVE  IInv'
<1>. DEFINE m == held + TemplatesOf(arrays) - lost
            n == ArraysOf(arrays) - given
            untold == Untold(m, n)
<1>1. live = Owned + undropped /\ undropped \in Nat /\ Owned \in Nat
  BY OwnedType DEF IInv
<1>2. m \in Nat /\ n \in Nat
  <2>1. ArraysOf(arrays) \in Nat /\ TemplatesOf(arrays) \in Nat /\ held \in {0, 1}
    BY PartsOfFrames DEF IInv, FramesOK
  <2>. QED
    BY <2>1
<1>3. untold \in Nat /\ (Has("drop_value") /\ Has("drop_array") => untold = 0)
  BY <1>2, UntoldType
<1>4. live' = live - (Owned - lost - untold) /\ undropped' = undropped + untold
  BY DEF FailAfter
<1>. HIDE DEF untold
<1>5. live' = undropped' + lost /\ undropped' \in Nat /\ live' \in Nat
  BY <1>1, <1>3, <1>4
<1>6. arrays' = <<>> /\ <<>> \in Seq(Arrays) /\ Len(<<>>) = 0
  BY DEF FailAfter
<1>7. FramesOK'
  BY <1>6, CHostAssumption DEF FramesOK
<1>8. StringsOK' /\ hooks' = hooks /\ held' = 0 /\ result' = e
  BY DEF IInv, FailAfter, StringsOK, Has
<1>9. e \notin {"running", "ok"}
  OBVIOUS
<1>10. Has("drop_value") /\ Has("drop_array") => undropped' = 0
  BY <1>3, <1>4 DEF IInv
<1>11. \/ live' = undropped'
       \/ live' = undropped' + 1 /\ Has("intern_string")' /\ ~Has("insert_string_key_id")'
  <2>1. CASE lost = 0
    <3>1. live' = undropped'
      <4>1. \A k \in Nat : k + 0 = k
        OBVIOUS
      <4>2. live' = undropped' + 0
        BY <1>5, <2>1, Zenon
      <4>. QED
        BY <1>5, <4>1, <4>2, Zenon
    <3>. QED
      BY <3>1
  <2>2. CASE lost = 1
    <3>1. Has("intern_string")' /\ ~Has("insert_string_key_id")'
      BY <1>8, <2>2 DEF Has
    <3>. QED
      BY <1>5, <2>2, <3>1
  <2>. QED
    BY <2>1, <2>2
<1>12. /\ e = "BadStrRef" => (Has("intern_string") /\ ~(IdFunctions \subseteq hooks))'
       /\ e = "Internal" => ~Has("duplicate_value")'
       /\ e = "UnknownId" => (~Has("intern_string") /\ TakesIds)'
  BY <1>8 DEF Has, TakesIds
<1>13. (Has("drop_value") /\ Has("drop_array") => undropped = 0)'
  BY <1>8, <1>10 DEF Has
<1>. QED
  <2>1. (held = 1 => arrays = <<>> \/ Waits(Top))' /\ (held \in {0, 1})'
    BY <1>8
  <2>2. (Running => live = Owned + undropped)' /\ (result = "ok" => live = 1 + undropped)'
    BY <1>8, <1>9 DEF Running
  <2>3. (hooks \in HookSets)' /\ StringsOK' /\ FramesOK'
    BY <1>7, <1>8 DEF IInv
  <2>. QED
    BY <1>5, <1>8, <1>11, <1>12, <1>13, <2>1, <2>2, <2>3 DEF IInv

\* An error that takes nothing away before.
LEMMA FailIInv ==
    ASSUME IInv, Running, NEW e \in {"Host", "Malformed", "BadStrRef", "Internal", "UnknownId"},
           Fail(e),
           e = "BadStrRef" => Has("intern_string") /\ ~(IdFunctions \subseteq hooks),
           e = "Internal" => ~Has("duplicate_value"),
           e = "UnknownId" =>
               ~Has("intern_string") /\ TakesIds
    PROVE  IInv'
<1>1. ArraysOf(arrays) \in Nat /\ held \in {0, 1}
  BY PartsOfFrames DEF IInv, FramesOK
<1>2. 0 <= held /\ 0 <= ArraysOf(arrays) /\ FailAfter(e, 0, 0)
  BY <1>1 DEF Fail
<1>. QED
  BY <1>2, FailAfterIInv

\* The strings stay where they are.
LEMMA SameStrings ==
    ASSUME StringsOK, UNCHANGED Strings
    PROVE  StringsOK'
BY DEF StringsOK, Strings, Has

\* A call of the C program that fails, or succeeds.
LEMMA HostFailsIInv ==
    ASSUME IInv, Running, Fail("Host")
    PROVE  IInv'
BY FailIInv

\* A function is given a string by an id that the C program does not know.
LEMMA UnknownIdIInv ==
    ASSUME IInv, Running, TakesIds, ~KnowsIds, Fail("UnknownId")
    PROVE  IInv'
<1>1. ~Has("intern_string")
  BY DEF KnowsIds, IInv, StringsOK
<1>. QED
  BY <1>1, FailIInv

\* What the innermost frame is if it wants an element.
LEMMA ElementWanted ==
    ASSUME IInv, NEW kind \in Kinds, WantsElement(kind)
    PROVE  /\ Running /\ held = 0 /\ arrays # <<>> /\ Top \in Arrays /\ Top.kind = kind
           /\ Top.n < MaxElements /\ Waits(Top)
<1>1. kind # "root"
  BY DEF Kinds
<1>2. Running /\ held = 0 /\ TopKind = kind /\ Top.n < MaxElements
  BY DEF WantsElement
<1>3. arrays # <<>> /\ Top.kind = kind
  BY <1>1, <1>2 DEF TopKind
<1>4. Top \in Arrays
  BY <1>3, TopAndBelow DEF IInv, FramesOK
<1>. QED
  BY <1>2, <1>3, <1>4 DEF Waits

\* A value is wanted by nobody's frame or by one that waits.
LEMMA ValueWanted ==
    ASSUME IInv, WantsValue
    PROVE  Running /\ held = 0 /\ (arrays = <<>> \/ Waits(Top))
<1>1. Running /\ held = 0 /\ TopKind \in {"root", "template"}
  BY DEF WantsValue
<1>2. ASSUME arrays # <<>> PROVE Waits(Top)
  <2>1. Top.kind \in Kinds
    BY <1>2, TopAndBelow DEF IInv, FramesOK, Arrays
  <2>2. Top.kind = "template"
    BY <1>1, <1>2, <2>1 DEF TopKind, Kinds
  <2>. QED
    BY <2>2 DEF Waits
<1>. QED
  BY <1>1, <1>2

\* An element counted is no handle more or less.
LEMMA CountedOK ==
    ASSUME IInv, arrays # <<>>, Top.n < MaxElements, arrays' = Counted
    PROVE  FramesOK' /\ OwnedBy(arrays') = OwnedBy(arrays)
<1>. DEFINE f == [Top EXCEPT !.n = @ + 1, !.key = "none"]
<1>1. arrays \in Seq(Arrays) /\ Len(arrays) \in DOMAIN arrays
  BY EmptySeq, LenProperties DEF IInv, FramesOK
<1>2. Top \in Arrays
  BY <1>1, TopAndBelow
<1>3. Top.n + 1 \in 0..MaxElements
  BY <1>2, CHostAssumption DEF Arrays
<1>4. f \in Arrays /\ f.kind = Top.kind
  BY <1>2, <1>3 DEF Arrays, KeyKinds
<1>5. arrays' = [arrays EXCEPT ![Len(arrays)] = f]
  BY <1>1 DEF Counted, Top
<1>. HIDE DEF f
<1>6. FramesOK' /\ OwnedBy(arrays') = OwnedBy(arrays) - Weight(Top) + Weight(f)
  BY <1>4, <1>5, FrameReplaced DEF IInv
<1>7. Weight(f) = Weight(Top) /\ Weight(Top) \in Nat
  BY <1>4 DEF Weight
<1>8. OwnedBy(arrays) \in Nat
  BY <1>1, OwnedByType
<1>. QED
  BY <1>6, <1>7, <1>8

\* A scalar is stored without a CValue.
LEMMA StoredIInv ==
    ASSUME IInv, Running, held = 0, arrays # <<>>, Top.n < MaxElements, Stored
    PROVE  IInv'
<1>1. FramesOK' /\ OwnedBy(arrays') = OwnedBy(arrays)
  BY CountedOK DEF Stored
<1>2. UNCHANGED <<hooks, undropped, result>> /\ held' = 0 /\ StringsOK'
  BY SameStrings DEF Stored, Strings, IInv
<1>3. live' = held' + OwnedBy(arrays') + undropped
  BY <1>1, <1>2 DEF Stored, IInv, Owned
<1>. QED
  BY <1>1, <1>2, <1>3, GoesOnIInv

\* A new CValue for a frame that waits, or an error that a table with all the
\* functions for ids does not meet.
LEMMA MakeIInv ==
    ASSUME IInv, Running, held = 0, arrays = <<>> \/ Waits(Top), NEW withId \in BOOLEAN,
           Make(withId)
    PROVE  IInv'
<1>. DEFINE made == /\ held' = 1 /\ live' = live + 1
                   /\ UNCHANGED <<Strings, arrays, undropped, result>>
<1>1. \/ made \/ Fail("Host")
      \/ Fail("UnknownId") /\ ~KnowsIds /\ Has("make_string_id")
      \/ Fail("BadStrRef") /\ ~Has("make_string_id") /\ ~HasBytes
  BY DEF Make, CallWith, Call
<1>2. CASE made
  <2>1. FramesOK' /\ OwnedBy(arrays') = OwnedBy(arrays) /\ Top' = Top
    BY <1>2 DEF IInv, FramesOK, OwnedBy, ArraysOf, TemplatesOf, Top
  <2>2. UNCHANGED <<hooks, undropped, result>> /\ held' = 1 /\ StringsOK'
    BY <1>2, SameStrings DEF Strings, IInv
  <2>3. live' = held' + OwnedBy(arrays') + undropped
    <3>1. OwnedBy(arrays) \in Nat /\ live = held + OwnedBy(arrays) + undropped
      BY OwnedByType DEF IInv, Owned, FramesOK
    <3>2. undropped \in Nat
      BY DEF IInv
    <3>. QED
      BY <1>2, <2>1, <2>2, <3>1, <3>2
  <2>4. arrays' = <<>> \/ Waits(Top')
    BY <1>2, <2>1
  <2>. QED
    BY <2>1, <2>2, <2>3, <2>4, GoesOnIInv
<1>3. CASE Fail("Host")
  BY <1>3, HostFailsIInv
<1>4. CASE Fail("UnknownId") /\ ~KnowsIds /\ Has("make_string_id")
  <2>1. TakesIds
    BY <1>4 DEF Has, IdFunctions, TakesIds
  <2>. QED
    BY <1>4, <2>1, UnknownIdIInv
<1>5. CASE Fail("BadStrRef") /\ ~Has("make_string_id") /\ ~HasBytes
  <2>1. Has("intern_string")
    BY <1>5 DEF IInv, StringsOK, HasBytes
  <2>2. ~(IdFunctions \subseteq hooks)
    BY <1>5 DEF IdFunctions, Has
  <2>. QED
    BY <1>5, <2>1, <2>2, FailIInv
<1>. QED
  BY <1>1, <1>2, <1>3, <1>4, <1>5

\* The value that is held goes into the array that waits for it.
LEMMA TakenIInv ==
    ASSUME IInv, Running, held = 1, arrays # <<>>, Top.n < MaxElements, Taken
    PROVE  IInv'
<1>1. FramesOK' /\ OwnedBy(arrays') = OwnedBy(arrays)
  BY CountedOK DEF Taken
<1>2. UNCHANGED <<hooks, undropped, result>> /\ held' = 0 /\ StringsOK'
  BY SameStrings DEF Taken, Strings, IInv
<1>3. live' = held' + OwnedBy(arrays') + undropped
  <2>1. OwnedBy(arrays) \in Nat /\ live = 1 + OwnedBy(arrays) + undropped
    BY OwnedByType DEF IInv, Owned, FramesOK
  <2>2. undropped \in Nat
    BY DEF IInv
  <2>. QED
    BY <1>1, <1>2, <2>1, <2>2 DEF Taken
<1>. QED
  BY <1>1, <1>2, <1>3, GoesOnIInv
-----------------------------------------------------------------------------
(* The actions.                                                              *)

\* A string is kept by the C program or by the fallback, by one of them always.
LEMMA InternIInv ==
    ASSUME IInv, InternString
    PROVE  IInv'
<1>. DEFINE same == UNCHANGED <<hooks, arrays, held, live, undropped, result>>
<1>0. Running /\ strings < MaxStrings
  BY DEF InternString
<1>1. CASE same /\ StringsOK'
  <2>1. FramesOK' /\ OwnedBy(arrays') = OwnedBy(arrays) /\ Top' = Top
    BY <1>1 DEF IInv, FramesOK, OwnedBy, ArraysOf, TemplatesOf, Top
  <2>2. live' = held' + OwnedBy(arrays') + undropped
    BY <1>0, <1>1, <2>1 DEF IInv, Owned
  <2>3. held' \in {0, 1} /\ (held' = 1 => arrays' = <<>> \/ Waits(Top'))
    BY <1>1, <2>1 DEF IInv
  <2>. QED
    BY <1>0, <1>1, <2>1, <2>2, <2>3, GoesOnIInv
<1>2. CASE Has("intern_string")
  <2>1. CASE Fail("Host")
    BY <1>0, <2>1, HostFailsIInv
  <2>2. CASE cached' = cached + 1 /\ strings' = strings + 1 /\ fallback' = fallback /\ same
    <3>1. StringsOK'
      BY <1>0, <1>2, <2>2, CHostAssumption DEF IInv, StringsOK, Has
    <3>. QED
      BY <1>1, <2>2, <3>1
  <2>. QED
    BY <1>2, <2>1, <2>2 DEF InternString, Call
<1>3. CASE ~Has("intern_string")
  <2>1. strings = fallback
    BY <1>3 DEF IInv, StringsOK
  <2>2. fallback' = fallback + 1 /\ strings' = strings + 1 /\ cached' = cached /\ same
    BY <1>3, <2>1 DEF InternString
  <2>3. /\ fallback' = strings' /\ strings' \in 0..MaxStrings
        /\ fallback' \in 0..strings' /\ cached' \in 0..strings'
    BY <1>0, <2>1, <2>2, CHostAssumption DEF IInv, StringsOK
  <2>4. StringsOK'
    BY <1>3, <2>2, <2>3 DEF StringsOK, Has
  <2>. QED
    BY <1>1, <2>2, <2>4
<1>. QED
  BY <1>2, <1>3

\* A key is a mark on the frame it is for.
LEMMA KeyIInv ==
    ASSUME IInv, ReadKey
    PROVE  IInv'
<1>1. Running /\ held = 0 /\ TopKind = "hash" /\ UNCHANGED <<Strings, held, live, undropped, result>>
  BY DEF ReadKey
<1>2. PICK key \in {"int", "empty", "id"} : arrays' = [arrays EXCEPT ![Len(arrays)].key = key]
  BY DEF ReadKey
<1>3. arrays # <<>>
  BY <1>1 DEF TopKind
<1>4. Top \in Arrays
  BY <1>3, TopAndBelow DEF IInv, FramesOK
<1>. DEFINE f == [Top EXCEPT !.key = key]
<1>5. f \in Arrays /\ f.kind = Top.kind
  BY <1>4 DEF Arrays, KeyKinds
<1>6. arrays' = [arrays EXCEPT ![Len(arrays)] = f]
  BY <1>2 DEF Top
<1>. HIDE DEF f
<1>7. FramesOK' /\ OwnedBy(arrays') = OwnedBy(arrays) - Weight(Top) + Weight(f)
  BY <1>3, <1>5, <1>6, FrameReplaced DEF IInv
<1>8. Weight(f) = Weight(Top) /\ Weight(Top) \in Nat
  BY <1>5 DEF Weight
<1>9. OwnedBy(arrays) \in Nat /\ live = OwnedBy(arrays) + undropped /\ undropped \in Nat
  BY <1>1, OwnedByType DEF IInv, Owned, FramesOK
<1>10. live' = held' + OwnedBy(arrays') + undropped
  BY <1>1, <1>7, <1>8, <1>9
<1>11. UNCHANGED <<hooks, undropped, result>> /\ held' = 0 /\ StringsOK'
  BY <1>1, SameStrings DEF Strings, IInv
<1>. QED
  BY <1>1, <1>7, <1>10, <1>11, GoesOnIInv

\* Scalars, by the function for them or as a CValue.
LEMMA ScalarIInv ==
    ASSUME IInv, MakeValue \/ PushScalar \/ InsertScalar
    PROVE  IInv'
<1>0. \A withId \in Ids : withId \in BOOLEAN
  BY DEF Ids
<1>1. CASE MakeValue
  <2>1. PICK withId \in Ids : WantsValue /\ Make(withId)
    BY <1>1 DEF MakeValue
  <2>. QED
    BY <1>0, <2>1, ValueWanted, MakeIInv
<1>2. CASE PushScalar
  <2>1. PICK withId \in Ids :
            IF Has("push_scalar") THEN CallWith(withId, Stored) ELSE Make(withId)
    BY <1>2 DEF PushScalar
  <2>2. /\ Running /\ held = 0 /\ arrays # <<>> /\ Top.n < MaxElements /\ Waits(Top)
    BY <1>2, ElementWanted DEF PushScalar, Kinds
  <2>3. CASE Fail("UnknownId") /\ ~KnowsIds /\ Has("push_scalar")
    <3>1. TakesIds
      BY <2>3 DEF Has, ScalarFunctions, TakesIds
    <3>. QED
      BY <2>2, <2>3, <3>1, UnknownIdIInv
  <2>4. CASE Stored \/ Fail("Host") \/ Make(withId)
    BY <1>0, <2>2, <2>4, StoredIInv, HostFailsIInv, MakeIInv
  <2>5. \/ Stored \/ Fail("Host") \/ Make(withId)
        \/ Fail("UnknownId") /\ ~KnowsIds /\ Has("push_scalar")
    BY <2>1 DEF CallWith, Call
  <2>. QED
    BY <2>3, <2>4, <2>5
<1>3. CASE InsertScalar
  <2>. DEFINE byKind == Has(IF Top.key = "int" THEN "insert_scalar_i64_key"
                            ELSE "insert_scalar_string_key")
  <2>1. PICK withId \in Ids :
            \/ Stored \/ Fail("Host") \/ Make(withId)
            \/ Fail("BadStrRef") /\ ~Has("insert_scalar_string_key_id") /\ ~HasBytes
            \/ Fail("UnknownId") /\ ~KnowsIds /\ (Has("insert_scalar_string_key_id") \/ byKind)
    BY <1>3 DEF InsertScalar, CallWith, Call
  <2>2. /\ Running /\ held = 0 /\ arrays # <<>> /\ Top.n < MaxElements /\ Waits(Top)
    BY <1>3, ElementWanted DEF InsertScalar, Kinds
  <2>3. CASE Fail("BadStrRef") /\ ~Has("insert_scalar_string_key_id") /\ ~HasBytes
    <3>1. Has("intern_string")
      BY <2>3 DEF IInv, StringsOK, HasBytes
    <3>2. ~(IdFunctions \subseteq hooks)
      BY <2>3 DEF IdFunctions, Has
    <3>. QED
      BY <2>2, <2>3, <3>1, <3>2, FailIInv
  <2>4. CASE Fail("UnknownId") /\ ~KnowsIds /\ (Has("insert_scalar_string_key_id") \/ byKind)
    <3>1. TakesIds
      BY <2>4 DEF Has, IdFunctions, ScalarFunctions, TakesIds
    <3>. QED
      BY <2>2, <2>4, <3>1, UnknownIdIInv
  <2>. QED
    BY <1>0, <2>1, <2>2, <2>3, <2>4, StoredIInv, HostFailsIInv, MakeIInv
<1>. QED
  BY <1>1, <1>2, <1>3

\* A whole run of longs fills its array.
LEMMA RunIInv ==
    ASSUME IInv, PushRun
    PROVE  IInv'
<1>1. Running /\ held = 0 /\ arrays # <<>> /\ Top \in Arrays
  BY ElementWanted DEF PushRun, Kinds
<1>2. CASE Fail("Host")
  BY <1>1, <1>2, HostFailsIInv
<1>3. CASE /\ arrays' = [arrays EXCEPT ![Len(arrays)].n = MaxElements]
           /\ UNCHANGED <<Strings, held, live, undropped, result>>
  <2>. DEFINE f == [Top EXCEPT !.n = MaxElements]
  <2>1. MaxElements \in 0..MaxElements
    BY CHostAssumption
  <2>2. f \in Arrays /\ f.kind = Top.kind
    BY <1>1, <2>1 DEF Arrays
  <2>3. arrays' = [arrays EXCEPT ![Len(arrays)] = f]
    BY <1>3 DEF Top
  <2>. HIDE DEF f
  <2>4. FramesOK' /\ OwnedBy(arrays') = OwnedBy(arrays) - Weight(Top) + Weight(f)
    BY <1>1, <2>2, <2>3, FrameReplaced DEF IInv
  <2>5. Weight(f) = Weight(Top) /\ Weight(Top) \in Nat
    BY <2>2 DEF Weight
  <2>6. OwnedBy(arrays) \in Nat /\ live = OwnedBy(arrays) + undropped /\ undropped \in Nat
    BY <1>1, OwnedByType DEF IInv, Owned, FramesOK
  <2>7. held' = 0 /\ live' = live
    BY <1>1, <1>3
  <2>8. live' = held' + OwnedBy(arrays') + undropped
    BY <2>4, <2>5, <2>6, <2>7
  <2>9. UNCHANGED <<hooks, undropped, result>> /\ StringsOK'
    BY <1>3, SameStrings DEF Strings, IInv
  <2>. QED
    BY <1>1, <2>4, <2>7, <2>8, <2>9, GoesOnIInv
<1>. QED
  BY <1>2, <1>3 DEF PushRun, Call

\* An array is opened for one that waits for it, with a handle or, by a repeat, without.
LEMMA OpenIInv ==
    ASSUME IInv, WantsArray, NEW kind \in {"packed", "hash", "template"}, arrays' = Open(kind),
           live' = live + (IF kind = "template" THEN 0 ELSE 1),
           UNCHANGED <<Strings, held, undropped, result>>
    PROVE  IInv'
<1>. DEFINE f == [kind |-> kind, n |-> 0, key |-> "none"]
<1>1. Running /\ held = 0 /\ (arrays # <<>> => Waits(Top)) /\ Len(arrays) < MaxArrays
  BY ValueWanted, ElementWanted DEF WantsArray, Kinds
<1>2. 0 \in 0..MaxElements
  BY CHostAssumption
<1>3. f \in Arrays /\ f.kind = kind
  BY <1>2 DEF Arrays, Kinds, KeyKinds
<1>4. arrays' = Append(arrays, f)
  BY DEF Open
<1>. HIDE DEF f
<1>5. FramesOK' /\ OwnedBy(arrays') = OwnedBy(arrays) + Weight(f)
  BY <1>1, <1>3, <1>4, FramePushed DEF IInv
<1>6. Weight(f) = IF kind = "template" THEN 0 ELSE 1
  BY <1>3 DEF Weight
<1>7. OwnedBy(arrays) \in Nat /\ live = OwnedBy(arrays) + undropped /\ undropped \in Nat
  BY <1>1, OwnedByType DEF IInv, Owned, FramesOK
<1>8. held' = 0
  BY <1>1
<1>9. live' = held' + OwnedBy(arrays') + undropped
  BY <1>5, <1>6, <1>7, <1>8
<1>10. UNCHANGED <<hooks, undropped, result>> /\ StringsOK'
  BY SameStrings DEF Strings, IInv
<1>. QED
  BY <1>1, <1>5, <1>8, <1>9, <1>10, GoesOnIInv

\* begin_array, and a repeat before its own.
LEMMA BeginIInv ==
    ASSUME IInv, BeginArray \/ BeginTemplate
    PROVE  IInv'
<1>1. CASE BeginArray
  <2>1. WantsArray /\ Running
    BY <1>1, ValueWanted, ElementWanted DEF BeginArray, WantsArray, Kinds
  <2>2. CASE Fail("Host")
    BY <2>1, <2>2, HostFailsIInv
  <2>3. CASE \E kind \in {"packed", "hash"} :
                 /\ arrays' = Open(kind) /\ live' = live + 1
                 /\ UNCHANGED <<Strings, held, undropped, result>>
    BY <2>1, <2>3, OpenIInv
  <2>. QED
    BY <1>1, <2>2, <2>3 DEF BeginArray, Call
<1>2. CASE BeginTemplate
  <2>1. live \in Nat
    BY DEF IInv
  <2>2. live' = live + 0
    BY <1>2, <2>1 DEF BeginTemplate
  <2>. QED
    BY <1>2, <2>2, OpenIInv DEF BeginTemplate
<1>. QED
  BY <1>1, <1>2

\* The template is kept with the array of its copies: two handles in one frame.
LEMMA CopiesIInv ==
    ASSUME IInv, BeginCopies
    PROVE  IInv'
<1>1. Running /\ held = 1 /\ TopKind = "template"
  BY DEF BeginCopies
<1>2. CASE Fail("Host")
  BY <1>1, <1>2, HostFailsIInv
<1>3. CASE /\ arrays' = [arrays EXCEPT ![Len(arrays)].kind = "copies"]
           /\ held' = 0 /\ live' = live + 1
           /\ UNCHANGED <<Strings, undropped, result>>
  <2>1. arrays # <<>> /\ Top.kind = "template"
    BY <1>1 DEF TopKind
  <2>2. Top \in Arrays
    BY <2>1, TopAndBelow DEF IInv, FramesOK
  <2>. DEFINE f == [Top EXCEPT !.kind = "copies"]
  <2>3. f \in Arrays /\ f.kind = "copies"
    BY <2>2 DEF Arrays, Kinds
  <2>4. arrays' = [arrays EXCEPT ![Len(arrays)] = f]
    BY <1>3 DEF Top
  <2>. HIDE DEF f
  <2>5. FramesOK' /\ OwnedBy(arrays') = OwnedBy(arrays) - Weight(Top) + Weight(f)
    BY <2>1, <2>3, <2>4, FrameReplaced DEF IInv
  <2>6. Weight(f) = 2 /\ Weight(Top) = 0
    BY <2>1, <2>3 DEF Weight
  <2>7. OwnedBy(arrays) \in Nat /\ live = 1 + OwnedBy(arrays) + undropped /\ undropped \in Nat
    BY <1>1, OwnedByType DEF IInv, Owned, FramesOK
  <2>8. live' = held' + OwnedBy(arrays') + undropped
    BY <1>3, <2>5, <2>6, <2>7
  <2>9. UNCHANGED <<hooks, undropped, result>> /\ StringsOK'
    BY <1>3, SameStrings DEF Strings, IInv
  <2>. QED
    BY <1>1, <1>3, <2>5, <2>8, <2>9, GoesOnIInv
<1>. QED
  BY <1>2, <1>3 DEF BeginCopies, Call

\* A copy, which only a table with duplicate_value makes.
LEMMA DuplicateIInv ==
    ASSUME IInv, Duplicate
    PROVE  IInv'
<1>1. Running /\ held = 0 /\ arrays # <<>> /\ Waits(Top)
  BY ElementWanted DEF Duplicate, Kinds
<1>2. CASE Has("duplicate_value")
  <2>1. CASE Fail("Host")
    BY <1>1, <2>1, HostFailsIInv
  <2>2. CASE held' = 1 /\ live' = live + 1 /\ UNCHANGED <<Strings, arrays, undropped, result>>
    <3>1. FramesOK' /\ OwnedBy(arrays') = OwnedBy(arrays) /\ Top' = Top
      BY <2>2 DEF IInv, FramesOK, OwnedBy, ArraysOf, TemplatesOf, Top
    <3>2. OwnedBy(arrays) \in Nat /\ live = OwnedBy(arrays) + undropped /\ undropped \in Nat
      BY <1>1, OwnedByType DEF IInv, Owned, FramesOK
    <3>3. live' = held' + OwnedBy(arrays') + undropped
      BY <2>2, <3>1, <3>2
    <3>4. UNCHANGED <<hooks, undropped, result>> /\ StringsOK'
      BY <2>2, SameStrings DEF Strings, IInv
    <3>5. held' = 1 /\ Waits(Top')
      BY <1>1, <2>2, <3>1
    <3>. QED
      BY <1>1, <3>1, <3>3, <3>4, <3>5, GoesOnIInv
  <2>. QED
    BY <1>2, <2>1, <2>2 DEF Duplicate, Call
<1>3. CASE ~Has("duplicate_value")
  <2>1. Fail("Internal")
    BY <1>3 DEF Duplicate
  <2>. QED
    BY <1>1, <1>3, <2>1, FailIInv
<1>. QED
  BY <1>2, <1>3

\* push_packed and insert_key: the C program takes the value, or it is dropped; it
\* is lost only with a table that keeps strings and takes no key by id.
LEMMA TakesIInv ==
    ASSUME IInv, PushPacked \/ InsertKey
    PROVE  IInv'
<1>1. Running /\ held = 1 /\ TopKind \in {"packed", "copies", "hash"}
  BY DEF PushPacked, InsertKey
<1>2. arrays # <<>> /\ Top.kind # "template"
  BY <1>1 DEF TopKind
<1>3. Top.n < MaxElements
  BY <1>1, <1>2 DEF IInv, Waits
<1>4. CASE Taken
  BY <1>1, <1>2, <1>3, <1>4, TakenIInv
<1>5. CASE Fail("Host")
  BY <1>1, <1>5, HostFailsIInv
<1>6. CASE FailAfter("BadStrRef", 1, 0) /\ ~Has("insert_string_key_id") /\ ~HasBytes
  <2>1. Has("intern_string")
    BY <1>6 DEF IInv, StringsOK, HasBytes
  <2>2. ~(IdFunctions \subseteq hooks)
    BY <1>6 DEF IdFunctions, Has
  <2>3. 1 <= held /\ 0 <= ArraysOf(arrays)
    BY <1>1, PartsOfFrames DEF IInv, FramesOK
  <2>. QED
    BY <1>1, <1>6, <2>1, <2>2, <2>3, FailAfterIInv
<1>7. CASE Fail("UnknownId") /\ ~KnowsIds /\ Has("insert_string_key_id")
  <2>1. TakesIds
    BY <1>7 DEF Has, IdFunctions, TakesIds
  <2>. QED
    BY <1>1, <1>7, <2>1, UnknownIdIInv
<1>8. \/ Taken \/ Fail("Host")
      \/ FailAfter("BadStrRef", 1, 0) /\ ~Has("insert_string_key_id") /\ ~HasBytes
      \/ Fail("UnknownId") /\ ~KnowsIds /\ Has("insert_string_key_id")
  BY DEF PushPacked, InsertKey, CallWith, Call
<1>. QED
  BY <1>4, <1>5, <1>6, <1>7, <1>8

\* end_array: the handles of the frame for one value.
LEMMA EndIInv ==
    ASSUME IInv, EndArray
    PROVE  IInv'
<1>1. Running /\ held = 0 /\ TopKind \in {"packed", "hash", "copies"}
  BY DEF EndArray
<1>2. arrays # <<>>
  BY <1>1 DEF TopKind
<1>3. Top \in Arrays /\ Top.kind \in {"packed", "hash", "copies"}
  BY <1>1, <1>2, TopAndBelow DEF TopKind, IInv, FramesOK
<1>4. CASE FailAfter("Host", 0, 1)
  <2>1. 1 <= ArraysOf(arrays)
    <3>1. ArraysOf(arrays) = Cardinality(OfKind(arrays, {"packed", "hash", "copies"}))
      BY DEF ArraysOf, OfKind
    <3>2. Below \in Seq(Arrays) /\ arrays = Append(Below, Top)
      BY <1>2, TopAndBelow DEF IInv, FramesOK
    <3>3. /\ Cardinality(OfKind(Below, {"packed", "hash", "copies"})) \in Nat
          /\ Cardinality(OfKind(Append(Below, Top), {"packed", "hash", "copies"})) =
                Cardinality(OfKind(Below, {"packed", "hash", "copies"})) + 1
      BY <1>3, <3>2, OneMoreOfKind
    <3>. QED
      BY <3>1, <3>2, <3>3
  <2>2. 0 <= held
    BY <1>1
  <2>. QED
    BY <1>1, <1>4, <2>1, <2>2, FailAfterIInv
<1>5. CASE Ended
  <2>. DEFINE templates == TemplatesOf(<<Top>>)
              untold == Untold(templates, 0)
  <2>1. templates \in {0, 1} /\ OwnedBy(<<Top>>) = 1 + templates
    BY <1>3, PartsOfOne
  <2>2. untold \in Nat /\ (Has("drop_value") /\ Has("drop_array") => untold = 0)
    <3>1. templates \in Nat /\ 0 \in Nat
      <4>. HIDE DEF templates
      <4>. QED
        BY <2>1
    <3>. HIDE DEF templates
    <3>. QED
      BY <3>1, UntoldType
  <2>3. /\ arrays' = Below /\ held' = 1 /\ UNCHANGED <<Strings, result>>
        /\ live' = live - templates + untold /\ undropped' = undropped + untold
    BY <1>5 DEF Ended
  <2>. HIDE DEF templates, untold
  <2>4. /\ FramesOK' /\ (arrays' # <<>> => Waits(Top'))
        /\ OwnedBy(arrays') = OwnedBy(arrays) - OwnedBy(<<Top>>)
    BY <1>2, <2>3, FramePopped DEF IInv
  <2>5. OwnedBy(arrays) \in Nat /\ live = OwnedBy(arrays) + undropped /\ undropped \in Nat
    BY <1>1, OwnedByType DEF IInv, Owned, FramesOK
  <2>6. OwnedBy(arrays') \in Nat
    BY <2>4, OwnedByType DEF FramesOK
  <2>7. live' = Owned' + undropped' /\ live' \in Nat /\ undropped' \in Nat
    <3>1. undropped' = undropped + untold /\ undropped' \in Nat
      BY <2>2, <2>3, <2>5
    <3>2. Owned' = 1 + OwnedBy(arrays')
      BY <2>3 DEF Owned
    <3>3. OwnedBy(arrays') = OwnedBy(arrays) - (1 + templates)
      BY <2>1, <2>4
    <3>4. live' = OwnedBy(arrays) + undropped - templates + untold
      BY <2>1, <2>2, <2>3, <2>5
    <3>. QED
      BY <2>1, <2>2, <2>5, <2>6, <3>1, <3>2, <3>3, <3>4
  <2>8. StringsOK' /\ hooks' = hooks /\ result' = result
    BY <2>3, SameStrings DEF Strings, IInv
  <2>9. Has("drop_value") /\ Has("drop_array") => undropped' = 0
    BY <2>2, <2>3 DEF IInv
  <2>. QED
    BY <1>1, <2>3, <2>4, <2>7, <2>8, <2>9 DEF IInv, Running, Has
<1>. QED
  BY <1>4, <1>5 DEF EndArray

\* The document is bad, or the one value goes to the caller.
LEMMA LastIInv ==
    ASSUME IInv, BadDocument \/ Return
    PROVE  IInv'
<1>1. CASE BadDocument
  BY <1>1, FailIInv DEF BadDocument
<1>2. CASE Return
  <2>1. live = 1 + undropped
    BY <1>2, OwnedByNone DEF Return, IInv, Owned
  <2>2. UNCHANGED <<hooks, arrays, live, undropped>> /\ StringsOK' /\ held' = 0 /\ result' = "ok"
    BY <1>2, SameStrings DEF Return, Strings, IInv
  <2>3. FramesOK'
    BY <2>2 DEF IInv, FramesOK
  <2>. QED
    BY <2>1, <2>2, <2>3 DEF IInv, Running, Has
<1>. QED
  BY <1>1, <1>2

\* Every call of the decoder and every answer of the C program keeps the invariant.
LEMMA NextIInv == IInv /\ [Next]_vars => IInv'
<1>. SUFFICES ASSUME IInv, [Next]_vars PROVE IInv'
  OBVIOUS
<1>1. CASE InternString
  BY <1>1, InternIInv
<1>2. CASE ReadKey
  BY <1>2, KeyIInv
<1>3. CASE MakeValue \/ PushScalar \/ InsertScalar
  BY <1>3, ScalarIInv
<1>4. CASE PushRun
  BY <1>4, RunIInv
<1>5. CASE BeginArray \/ BeginTemplate
  BY <1>5, BeginIInv
<1>6. CASE BeginCopies
  BY <1>6, CopiesIInv
<1>7. CASE Duplicate
  BY <1>7, DuplicateIInv
<1>8. CASE PushPacked \/ InsertKey
  BY <1>8, TakesIInv
<1>9. CASE EndArray
  BY <1>9, EndIInv
<1>10. CASE BadDocument \/ Return
  BY <1>10, LastIInv
<1>11. CASE UNCHANGED vars
  BY <1>11 DEF vars, IInv, TakesIds, StringsOK, FramesOK, Waits, Top, Owned, OwnedBy, ArraysOf, TemplatesOf,
       Running, Has
<1>. QED
  BY <1>1, <1>2, <1>3, <1>4, <1>5, <1>6, <1>7, <1>8, <1>9, <1>10, <1>11 DEF Next, Stopped

\* It is an invariant, for every set of tables.
LEMMA Invariant == Spec => []IInv
BY InitIInv, NextIInv, PTL DEF Spec

\* Every variable has its type, and no array gets more elements than it wants.
THEOREM CHostTypeCorrect == Spec => []TypeOK
<1>1. IInv => TypeOK
  BY DEF IInv, StringsOK, FramesOK, TypeOK
<1>. QED
  BY <1>1, Invariant, PTL

\* With tables that keep strings in one place, no handle of the C program is lost or
\* dropped twice, whatever the document and whichever call fails (c_host.rs takes the
\* pointer out of a CValue before each call and puts it back after a failure).
THEOREM CHostHandlesOwned == StringsInOnePlace => (Spec => []EveryHandleIsOwned)
<1>. SUFFICES ASSUME StringsInOnePlace PROVE Spec => []EveryHandleIsOwned
  OBVIOUS
<1>1. IInv => EveryHandleIsOwned
  BY DEF StringsInOnePlace, IInv, EveryHandleIsOwned, Running, Has
<1>. QED
  BY <1>1, Invariant, PTL

\* Whichever optional functions a table lacks: if it suffices, no decode fails for that
\* (c_host.rs does the work of what is missing with what is there).
THEOREM CHostMissingReplaced == Spec => []MissingIsReplaced
<1>1. IInv => MissingIsReplaced
  BY DEF Suffices, TakesIds, IInv, MissingIsReplaced, Has
<1>. QED
  BY <1>1, Invariant, PTL
-----------------------------------------------------------------------------
(* The C API of the encoder: its handle.                                     *)

\* The life of an encoder: a null handle is given out only before there is one,
\* nothing is left of a handle after it, and a buffer only comes out of it.
ApiIInv ==
    /\ handle \in {"none", "null", "enc"}
    /\ encoder \in {"absent", "live", "freed"} /\ out \in {"absent", "live", "freed"}
    /\ encoder = "live" <=> handle = "enc"
    /\ encoder = "freed" => handle = "none"
    /\ encoder = "freed" /\ err = "Ok" <=> out # "absent"

\* Nothing is allocated yet.
LEMMA ApiInitIInv == ApiInit => ApiIInv
BY DEF ApiInit, ApiIInv

\* A call that writes changes nothing of the heap; whether it is Ok matters only
\* behind the end of the handle, where there is no such call.
LEMMA WriteIInv ==
    ASSUME ApiIInv, UNCHANGED heap, handle # "none"
    PROVE ApiIInv'
BY DEF ApiIInv, heap

\* Each way out of a handle keeps encoder, handle and buffer together.
LEMMA ApiNextIInv == ApiIInv /\ [ApiNext \/ ApiStopped]_apiVars => ApiIInv'
<1>. SUFFICES ASSUME ApiIInv, [ApiNext \/ ApiStopped]_apiVars PROVE ApiIInv'
  OBVIOUS
<1>1. CASE New
  BY <1>1 DEF New, ApiIInv
<1>2. CASE Write
  <2>1. UNCHANGED heap /\ handle # "none"
    BY <1>2 DEF Write, Scalar, NullBytes, Begin, LongItem, Tagged, WithEnc
  <2>. QED
    BY <2>1, WriteIInv
<1>3. CASE FinishRefused
  BY <1>3 DEF FinishRefused, Consume, ApiIInv
<1>4. CASE Finish
  BY <1>4 DEF Finish, Consume, ApiIInv
<1>5. CASE Free
  BY <1>5 DEF Free, Consume, ApiIInv
<1>6. CASE FreeOut
  BY <1>6 DEF FreeOut, ApiIInv
<1>7. CASE ApiStopped \/ UNCHANGED apiVars
  BY <1>7 DEF ApiStopped, apiVars, heap, ApiIInv
<1>. QED
  BY <1>1, <1>2, <1>3, <1>4, <1>5, <1>6, <1>7 DEF ApiNext

\* The inductive invariant holds in every state.
LEMMA ApiInvariant == ApiSpec => []ApiIInv
BY ApiInitIInv, ApiNextIInv, PTL DEF ApiSpec

\* pf_encoder_finish and pf_encoder_free consume the handle on every path, so that
\* a caller who keeps to the header frees each encoder exactly once.
THEOREM ApiHandleOwned == ApiSpec => []HandleIsOwned
<1>. ApiIInv => HandleIsOwned
  BY DEF ApiIInv, HandleIsOwned
<1>. QED
  BY ApiInvariant, PTL

\* There is a buffer to free exactly if pf_encoder_finish returned Ok.
THEOREM ApiOutOwned == ApiSpec => []OutIsOwned
<1>. ApiIInv => OutIsOwned
  BY DEF ApiIInv, OutIsOwned
<1>. QED
  BY ApiInvariant, PTL
-----------------------------------------------------------------------------
(* What is written.                                                          *)

\* The bytes that are written are bytes because every id in the string table is a
\* number, and it is because there are finitely many strings in the table.
WriterInv ==
    /\ strdedup \in BOOLEAN /\ buf \in Seq(Nat)
    /\ IsFiniteSet(DOMAIN strtab) /\ \A s \in DOMAIN strtab : strtab[s] \in Nat

\* A new encoder has written nothing; so has one that is gone.
LEMMA InitWriterInv ==
    /\ WriterInit => WriterInv
    /\ strdedup \in BOOLEAN /\ UNCHANGED strdedup /\ buf' \in Seq(Nat) /\ strtab' = <<>>
           => WriterInv'
<1>1. DOMAIN <<>> = {} /\ IsFiniteSet({})
  BY FS_EmptySet
<1>2. IsFiniteSet(DOMAIN <<>>)
  BY <1>1
<1>3. <<>> \in Seq(Nat) /\ \A s \in DOMAIN <<>> : <<>>[s] \in Nat
  BY <1>1
<1>4. WriterInit => WriterInv
  BY <1>2, <1>3 DEF WriterInit, WriterInv
<1>5. ASSUME strdedup \in BOOLEAN, UNCHANGED strdedup, buf' \in Seq(Nat), strtab' = <<>>
      PROVE  WriterInv'
  BY <1>2, <1>3, <1>5 DEF WriterInv
<1>. QED
  BY <1>4, <1>5

\* Bytes behind bytes.
LEMMA PutBytes ==
    ASSUME WriterInv, NEW bytes \in Seq(Nat), Put(bytes)
    PROVE  WriterInv'
<1>1. buf \o bytes \in Seq(Nat)
  BY ConcatProperties DEF WriterInv
<1>. QED
  BY <1>1 DEF Put, WriterInv

\* A number has no sign any more when it is written.
LEMMA ZigzagNat == ASSUME NEW n \in Int PROVE ZigzagEncode(n) \in Nat
BY DEF ZigzagEncode

\* A string is in the table, is put there, or is none of it.
LEMMA StringBytes ==
    ASSUME WriterInv, NEW s \in Seq(Nat), WriteStringBytes(s)
    PROVE  WriterInv'
<1>1. CASE s = <<>>
  <2>1. <<TAG_STR_EMPTY>> \in Seq(Nat)
    BY DEF TAG_STR_EMPTY
  <2>. QED
    BY <1>1, <2>1, PutBytes DEF WriteStringBytes
<1>2. CASE s # <<>> /\ strdedup /\ s \in DOMAIN strtab
  <2>1. <<TAG_STR_REF, strtab[s]>> \in Seq(Nat)
    BY <1>2 DEF TAG_STR_REF, WriterInv
  <2>. QED
    BY <1>2, <2>1, PutBytes DEF WriteStringBytes
<1>3. CASE s # <<>> /\ ~(strdedup /\ s \in DOMAIN strtab)
  <2>1. /\ buf' = buf \o <<TAG_STR_VARINT, Len(s)>> \o s /\ UNCHANGED strdedup
        /\ strtab' = IF ~strdedup THEN strtab
                     ELSE [x \in DOMAIN strtab \cup {s} |->
                              IF x = s THEN NextId ELSE strtab[x]]
    BY <1>3 DEF WriteStringBytes
  <2>2. buf' \in Seq(Nat)
    <3>1. <<TAG_STR_VARINT, Len(s)>> \in Seq(Nat)
      BY LenProperties DEF TAG_STR_VARINT
    <3>2. \A b, c \in Seq(Nat) : b \o c \in Seq(Nat)
      BY ConcatProperties
    <3>. QED
      BY <2>1, <3>1, <3>2 DEF WriterInv
  <2>3. NextId \in Nat /\ IsFiniteSet(DOMAIN strtab \cup {s})
    <3>1. IsFiniteSet(DOMAIN strtab)
      BY DEF WriterInv
    <3>2. IsFiniteSet(DOMAIN strtab \cup {s})
      BY <3>1, FS_AddElement
    <3>3. Cardinality(DOMAIN strtab) \in Nat
      BY <3>1, FS_CardinalityType
    <3>. QED
      BY <3>2, <3>3 DEF NextId
  <2>4. IsFiniteSet(DOMAIN strtab') /\ \A x \in DOMAIN strtab' : strtab'[x] \in Nat
    <3>1. CASE ~strdedup
      BY <2>1, <3>1 DEF WriterInv
    <3>2. CASE strdedup
      BY <2>1, <2>3, <3>2 DEF WriterInv
    <3>. QED
      BY <3>1, <3>2
  <2>. QED
    BY <2>1, <2>2, <2>4 DEF WriterInv
<1>. QED
  BY <1>1, <1>2, <1>3

\* Every call that writes writes bytes.
LEMMA WriteBytes ==
    ASSUME WriterInv, Write
    PROVE  WriterInv'
<1>. USE DEF TAG_NULL, TAG_FALSE, TAG_TRUE, TAG_VARINT, TAG_DOUBLE, TAG_ARRAY_PACKED,
             TAG_ARRAY_HASH, TAG_PACKED_LONGS, TAG_ARRAY_REPEAT, TAG_ARRAY_ROWS
<1>1. UNCHANGED written => WriterInv'
  BY DEF written, WriterInv
<1>2. CASE Scalar
  <2>1. PICK v \in Scalars :
            \/ UNCHANGED written
            \/ v[1] = "null" /\ WriteNull
            \/ v[1] = "bool" /\ WriteBool(v[2])
            \/ v[1] = "int" /\ WriteInt(v[2])
            \/ v[1] = "double" /\ WriteDouble(v[2])
            \/ v[1] = "str" /\ WriteStringBytes(v[2])
    BY <1>2 DEF Scalar, Tagged, WithEnc
  <2>2. CASE WriteNull
    BY <2>2, <<TAG_NULL>> \in Seq(Nat), PutBytes DEF WriteNull
  <2>3. CASE WriteBool(v[2])
    BY <2>3, <<IF v[2] THEN TAG_TRUE ELSE TAG_FALSE>> \in Seq(Nat), PutBytes DEF WriteBool
  <2>4. CASE v[1] = "int" /\ WriteInt(v[2])
    <3>1. <<TAG_VARINT, ZigzagEncode(v[2])>> \in Seq(Nat)
      <4>1. v[2] \in Int
        BY <2>4, EncodeApiAssumption
      <4>2. ZigzagEncode(v[2]) \in Nat /\ TAG_VARINT \in Nat
        BY <4>1, ZigzagNat DEF TAG_VARINT
      <4>. QED
        BY <4>2
    <3>. QED
      BY <2>4, <3>1, PutBytes DEF WriteInt
  <2>5. CASE v[1] = "double" /\ WriteDouble(v[2])
    <3>1. v[2] \in Seq(Nat) /\ <<TAG_DOUBLE>> \in Seq(Nat)
      BY <2>5, EncodeApiAssumption
    <3>2. <<TAG_DOUBLE>> \o v[2] \in Seq(Nat)
      BY <3>1, ConcatProperties
    <3>. QED
      BY <2>5, <3>2, PutBytes DEF WriteDouble
  <2>6. CASE v[1] = "str" /\ WriteStringBytes(v[2])
    BY <2>6, StringBytes, EncodeApiAssumption
  <2>. QED
    BY <1>1, <2>1, <2>2, <2>3, <2>4, <2>5, <2>6
<1>3. CASE NullBytes
  BY <1>1, <1>3 DEF NullBytes
<1>4. CASE Begin
  <2>1. PICK b \in Begins :
            \/ UNCHANGED written
            \/ BeginPacked(b[2]) \/ BeginLongs(b[2]) \/ BeginHash(b[2]) \/ BeginRepeat(b[2])
            \/ b[1] = "rows" /\ BeginRows(b[2], b[3])
    BY <1>4 DEF Begin, Tagged, WithEnc
  <2>2. ASSUME NEW tag \in Nat, Put(<<tag, b[2]>>) PROVE WriterInv'
    <3>1. b[2] \in Nat
      BY EncodeApiAssumption
    <3>2. <<tag, b[2]>> \in Seq(Nat)
      BY <3>1
    <3>. QED
      BY <2>2, <3>2, PutBytes
  <2>3. CASE b[1] = "rows" /\ BeginRows(b[2], b[3])
    <3>1. <<TAG_ARRAY_ROWS, b[2], b[3]>> \in Seq(Nat)
      BY <2>3, EncodeApiAssumption
    <3>. QED
      BY <2>3, <3>1, PutBytes DEF BeginRows
  <2>. QED
    BY <1>1, <2>1, <2>2, <2>3 DEF BeginPacked, BeginLongs, BeginHash, BeginRepeat
<1>5. CASE LongItem
  <2>1. PICK n \in Items : UNCHANGED written \/ WriteLongItem(n)
    BY <1>5 DEF LongItem, WithEnc
  <2>2. <<ZigzagEncode(n)>> \in Seq(Nat)
    BY ZigzagNat, EncodeApiAssumption
  <2>. QED
    BY <1>1, <2>1, <2>2, PutBytes DEF WriteLongItem
<1>. QED
  BY <1>2, <1>3, <1>4, <1>5 DEF Write

\* What every step keeps of it.
LEMMA NextWriterInv == WriterInv /\ [ApiNext \/ ApiStopped]_apiVars => WriterInv'
<1>. SUFFICES ASSUME WriterInv, [ApiNext \/ ApiStopped]_apiVars PROVE WriterInv'
  OBVIOUS
<1>1. CASE Write
  BY <1>1, WriteBytes
<1>2. CASE FinishRefused \/ Finish \/ Free
  <2>1. Consume /\ (Discard \/ buf' = buf)
    BY <1>2 DEF FinishRefused, Finish, Free
  <2>2. strdedup' = strdedup /\ strtab' = <<>> /\ (buf' = <<>> \/ buf' = buf)
    <3>1. strdedup' = strdedup /\ strtab' = <<>>
      BY <2>1 DEF Consume
    <3>2. buf' = <<>> \/ buf' = buf
      BY <2>1 DEF Discard
    <3>. QED
      BY <3>1, <3>2
  <2>3. buf' \in Seq(Nat) /\ strdedup \in BOOLEAN
    <3>1. buf \in Seq(Nat) /\ strdedup \in BOOLEAN
      BY DEF WriterInv
    <3>2. CASE buf' = <<>>
      <4>1. <<>> \in Seq(Nat)
        OBVIOUS
      <4>. QED
        BY <3>1, <3>2, <4>1
    <3>3. CASE buf' = buf
      BY <3>1, <3>3
    <3>. QED
      BY <2>2, <3>2, <3>3
  <2>. QED
    BY <2>2, <2>3, InitWriterInv
<1>3. CASE UNCHANGED written
  BY <1>3 DEF written, WriterInv
<1>. QED
  BY <1>1, <1>2, <1>3 DEF ApiNext, New, FreeOut, ApiStopped, apiVars

\* What a call may return.
LEMMA NextErr ==
    /\ err \in {"Ok", "NullArg", "Internal", "none"} /\ [ApiNext \/ ApiStopped]_apiVars
    => err' \in {"Ok", "NullArg", "Internal", "none"}
BY DEF ApiNext, ApiStopped, apiVars, New, Write, Scalar, NullBytes, Begin, LongItem, Tagged, WithEnc,
       FinishRefused, Finish, Free, FreeOut

\* Whatever is written in whatever order, the buffer holds bytes and every id in it is
\* a number: write_string_bytes looks up no string that was not interned (encoder.rs:123).
THEOREM ApiTypeCorrect == ApiSpec => []ApiTypeOK
<1>. DEFINE Returned == err \in {"Ok", "NullArg", "Internal", "none"}
<1>1. ApiInit => WriterInv /\ Returned
  BY InitWriterInv DEF ApiInit
<1>2. (WriterInv /\ Returned) /\ [ApiNext \/ ApiStopped]_apiVars => (WriterInv /\ Returned)'
  BY NextWriterInv, NextErr
<1>3. ApiIInv /\ WriterInv /\ Returned => ApiTypeOK
  BY DEF ApiIInv, WriterInv, ApiTypeOK
<1>. QED
  BY <1>1, <1>2, <1>3, ApiInvariant, PTL DEF ApiSpec
==============================================================================
