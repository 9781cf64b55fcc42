-------------------------- MODULE RoundTripProofs ---------------------------
(***************************************************************************)
(* What encode_with writes, decode_with reads back: for values of any size *)
(* and depth, all limits, and every Host that may have been lent before.   *)
(***************************************************************************)
EXTENDS EncoderRunProofs

-----------------------------------------------------------------------------
(* What the decoder has of a value, against what the encoder has still to write.*)

\* How many of the parts of its array a frame has behind it, the one that is being
\* decoded by the next frame not counted.
Consumed(f) ==
    IF f.kind = "hash" THEN 2 * (f.count - f.left) + Len(f.keys)
    ELSE IF f.kind = "schema" THEN Len(f.keys)
    ELSE IF f.kind = "rows" THEN f.cols + (f.count - f.left)
    ELSE IF f.kind = "template" THEN 0
    ELSE IF f.kind = "copies" THEN 1
    ELSE f.count - f.left

\* Which value of its array a frame has called for.
Slot(f, w) ==
    IF f.kind = "template" THEN w[2][1]
    ELSE IF f.kind \in {"hash", "row"} THEN w[2][f.count - f.left + 1][2]
    ELSE w[2][f.count - f.left + 1]

FormOfFrame(f) ==
    IF f.kind \in {"template", "copies"} THEN "repeat"
    ELSE IF f.kind \in {"schema", "rows"} THEN "rows"
    ELSE f.kind

KeyIn(k, table) ==
    IF k.kind = "int" THEN <<"int", k.n>>
    ELSE IF k.kind = "empty" THEN <<"str", <<>>>>
    ELSE <<"str", table[k.n + 1]>>

KeysAre(keys, from, pairs, table) ==
    \A j \in 1..Len(keys) : KeyIn(keys[j], table) = pairs[from + j][1]

\* The keys and values that were inserted, and the keys that wait for a value.
HashMatches(f, h, w, d, table) ==
    /\ w[1] = "hash" /\ Len(f.keys) <= f.left
    /\ KeysAre(f.keys, f.count - f.left, w[2], table)
    /\ \A i \in 1..(f.count - f.left) :
          /\ h.items[i] = <<w[2][i][1], h.items[i][2]>>
          /\ <<h.items[i][2], w[2][i][2]>> \in V!Equal[d]
    /\ IF f.kind = "row" THEN Len(f.keys) = f.left ELSE Len(f.keys) <= 1

\* The values that were pushed, the template and the key table.
ListMatches(f, h, w, d, table) ==
    /\ w[1] = "list" /\ Enc!Form(w[2]) = FormOfFrame(f)
    /\ \A i \in 1..(f.count - f.left) : <<h.items[i], w[2][i]>> \in V!Equal[d]
    /\ f.kind \in {"template", "schema"} => f.left = f.count
    /\ f.kind = "copies" => <<h.template[1], w[2][1]>> \in V!Equal[d]
    /\ f.kind \in {"schema", "rows"} =>
          /\ f.cols = Len(w[2][1][2]) /\ Len(f.keys) <= f.cols
          /\ KeysAre(f.keys, 0, w[2][1][2], table)
    /\ f.kind = "rows" => Len(f.keys) = f.cols

\* A loop that has this sequence without the first c elements to write.
LoopIs(loop, s, c) ==
    /\ loop \in Seq(Tasks) /\ c \in Nat /\ Len(loop) = Len(s) - c /\ c <= Len(s)
    /\ \A j \in 1..Len(loop) : loop[j] = s[c + j]

\* A frame with its array, decoding w, and the loop that writes w; b is 1 if the value it
\* called for has been taken from the loop.
Level(f, h, w, loop, d, b, table) ==
    /\ f \in Frames /\ w \in U /\ f.count = Len(w[2]) /\ f.left <= f.count
    /\ IsArray(h) /\ Len(h.items) = f.count - f.left
    /\ IF f.kind \in {"hash", "row"} THEN HashMatches(f, h, w, d, table)
                                     ELSE ListMatches(f, h, w, d, table)
    /\ LoopIs(loop, PartsOf(FormOfFrame(f), w), Consumed(f) + b)

\* The value that is decoded next, or that the innermost frame is to get.
HoleOf(v, st, ws) == IF st = <<>> THEN v ELSE Slot(st[Len(st)], ws[Len(ws)])

\* Frame by frame.
Match(v, st, hs, ws, todo_, b, table) ==
    /\ st \in Seq(Frames) /\ IsSeq(hs) /\ ws \in Seq(U) /\ todo_ \in Seq(Seq(Tasks))
    /\ Len(hs) = Len(st) /\ Len(ws) = Len(st) /\ Len(todo_) = Len(st) + 1
    /\ LoopIs(todo_[1], <<ValueTask(v)>>, IF st = <<>> THEN b ELSE 1)
    /\ \A i \in 1..Len(st) :
          /\ Level(st[i], hs[i], ws[i], todo_[i + 1], MaxDepth - i,
                   IF i < Len(st) THEN 1 ELSE b, table)
          /\ ws[i] = IF i = 1 THEN v ELSE Slot(st[i - 1], ws[i - 1])
          /\ \A N \in Nat : v \in V!Nested[N] => i <= N /\ ws[i] \in V!Nested[N + 1 - i]

\* The decoder's table against the encoder's.
TabAgrees(dedup, tab, strs) ==
    /\ dedup => /\ Cardinality(DOMAIN tab) = Len(strs)
                /\ \A s \in DOMAIN tab : tab[s] < Len(strs) /\ strs[tab[s] + 1] = s
                /\ \A j \in DOMAIN strs : strs[j] \in DOMAIN tab /\ tab[strs[j]] = j - 1
    /\ ~dedup => DOMAIN tab = {}

\* What is left of a loop: its first element, the rest, and nothing at its end.
LEMMA LoopTail ==
    ASSUME NEW loop, NEW s, NEW c, LoopIs(loop, s, c), Len(s) \in Nat, c + 1 <= Len(s)
    PROVE  loop # <<>> /\ loop[1] = s[c + 1] /\ LoopIs(Tail(loop), s, c + 1)
<1>1. loop \in Seq(Tasks) /\ c \in Nat /\ Len(loop) = Len(s) - c
      /\ \A j \in 1..Len(loop) : loop[j] = s[c + j]
  BY DEF LoopIs
<1>2. Len(loop) \in Nat /\ Len(loop) > 0
  BY <1>1
<1>3. loop # <<>> /\ 1 \in 1..Len(loop)
  BY <1>1, <1>2, EmptySeq
<1>4. /\ Tail(loop) \in Seq(Tasks) /\ Len(Tail(loop)) = Len(loop) - 1
      /\ \A j \in 1..Len(Tail(loop)) : Tail(loop)[j] = loop[j + 1]
  BY <1>1, <1>3, HeadTailProperties
<1>5. ASSUME NEW j \in 1..Len(Tail(loop)) PROVE Tail(loop)[j] = s[(c + 1) + j]
  <2>0. c \in Nat /\ Len(loop) \in Nat /\ Len(Tail(loop)) = Len(loop) - 1
    BY <1>1, <1>2, <1>4
  <2>1. j + 1 \in 1..Len(loop) /\ c + (j + 1) = (c + 1) + j
    BY <2>0
  <2>. QED
    BY <1>1, <1>4, <2>1
<1>6. c + 1 \in Nat /\ Len(Tail(loop)) = Len(s) - (c + 1)
  BY <1>1, <1>2, <1>4
<1>. QED
  BY <1>1, <1>3, <1>4, <1>5, <1>6 DEF LoopIs

\* A loop that has everything to write yet.
LEMMA LoopAll ==
    ASSUME NEW s \in Seq(Tasks)
    PROVE  LoopIs(s, s, 0)
<1>1. Len(s) \in Nat
  BY LenProperties
<1>. QED
  BY <1>1 DEF LoopIs

\* A loop that has nothing to write any more.
LEMMA LoopEnd ==
    ASSUME NEW loop, NEW s, NEW c, LoopIs(loop, s, c), Len(s) = c
    PROVE  loop = <<>>
<1>1. loop \in Seq(Tasks) /\ c \in Nat /\ Len(loop) = c - c
  BY DEF LoopIs
<1>2. Len(loop) = 0
  BY <1>1
<1>. QED
  BY <1>1, <1>2, EmptySeq

\* What a level says about the numbers of its frame.
LEMMA LevelNumbers ==
    ASSUME NEW f, NEW h, NEW w, NEW loop, NEW d, NEW b, NEW table,
           Level(f, h, w, loop, d, b, table)
    PROVE  /\ f \in Frames /\ w \in U /\ V!IsArray(w) /\ f.count = Len(w[2])
           /\ f.count \in Nat /\ f.left \in Nat /\ f.left <= f.count /\ f.count - f.left \in Nat
           /\ f.kind \in Kinds /\ Len(f.keys) \in Nat /\ f.keys \in Seq(Keys) /\ f.cols \in Nat
           /\ IF f.kind \in {"hash", "row"} THEN w[1] = "hash"
              ELSE w[1] = "list" /\ Enc!Form(w[2]) = FormOfFrame(f)
<1>1. f \in Frames /\ w \in U /\ f.count = Len(w[2]) /\ f.left <= f.count
      /\ IF f.kind \in {"hash", "row"} THEN w[1] = "hash"
         ELSE w[1] = "list" /\ Enc!Form(w[2]) = FormOfFrame(f)
  BY DEF Level, HashMatches, ListMatches
<1>2. f.count \in Nat /\ f.left \in Nat /\ f.kind \in Kinds /\ f.keys \in Seq(Keys)
      /\ f.cols \in Nat
  BY <1>1 DEF Frames
<1>3. Len(f.keys) \in Nat
  BY <1>2, LenProperties
<1>4. f.count - f.left \in Nat
  BY <1>1, <1>2
<1>. QED
  BY <1>1, <1>2, <1>3, <1>4 DEF V!IsArray

\* The value that a frame has called for is in its array, which is the deeper one.
LEMMA SlotIn ==
    ASSUME NEW f, NEW h, NEW w, NEW loop, NEW d, NEW b, NEW table,
           Level(f, h, w, loop, d, b, table), Expecting(f)
    PROVE  /\ Slot(f, w) \in U
           /\ \A N \in Nat : w \in V!Nested[N] => N - 1 \in Nat /\ Slot(f, w) \in V!Nested[N - 1]
<1>1. /\ w \in U /\ V!IsArray(w) /\ f.count = Len(w[2])
      /\ f.count \in Nat /\ f.left \in Nat /\ f.left <= f.count
      /\ IF f.kind \in {"hash", "row"} THEN w[1] = "hash"
         ELSE w[1] = "list" /\ Enc!Form(w[2]) = FormOfFrame(f)
  BY LevelNumbers
<1>2. PICK i \in 1..Len(w[2]) :
          Slot(f, w) = IF f.kind \in {"hash", "row"} THEN w[2][i][2] ELSE w[2][i]
  <2>1. CASE f.kind = "template"
    <3>1. Len(w[2]) >= 2
      BY <1>1, <2>1, FormFacts DEF FormOfFrame
    <3>2. 1 \in 1..Len(w[2])
      BY <1>1, <3>1
    <3>3. Slot(f, w) = w[2][1]
      BY <2>1 DEF Slot
    <3>. QED
      BY <2>1, <3>2, <3>3
  <2>2. CASE f.kind # "template"
    <3>1. f.left > 0
      BY <2>2 DEF Expecting
    <3>2. f.count - f.left + 1 \in 1..Len(w[2])
      BY <1>1, <3>1
    <3>. QED
      BY <2>2, <3>2 DEF Slot
  <2>. QED
    BY <2>1, <2>2
<1>3. ASSUME NEW N \in Nat, w \in V!Nested[N]
      PROVE  N - 1 \in Nat /\ Slot(f, w) \in V!Nested[N - 1]
  <2>1. /\ N - 1 \in Nat
        /\ w[1] = "list" => w[2] \in Seq(V!Nested[N - 1])
        /\ w[1] = "hash" => w[2] \in Seq(V!Keys \X V!Nested[N - 1])
    BY <1>1, <1>3, ArrayParts
  <2>2. CASE f.kind \in {"hash", "row"}
    <3>1. w[2][i] \in V!Keys \X V!Nested[N - 1]
      BY <1>1, <2>1, <2>2, ElementOfSeq
    <3>2. w[2][i][2] \in V!Nested[N - 1]
      BY <3>1, PairOf
    <3>. QED
      BY <1>2, <2>1, <2>2, <3>2
  <2>3. CASE f.kind \notin {"hash", "row"}
    <3>1. w[2][i] \in V!Nested[N - 1]
      BY <1>1, <2>1, <2>3, ElementOfSeq
    <3>. QED
      BY <1>2, <2>1, <2>3, <3>1
  <2>. QED
    BY <2>2, <2>3
<1>4. Slot(f, w) \in U
  <2>1. Levels \in Nat /\ w \in V!Nested[Levels]
    BY <1>1, RoundTripAssumption DEF U
  <2>2. Levels - 1 \in Nat /\ Slot(f, w) \in V!Nested[Levels - 1]
    BY <1>3, <2>1
  <2>3. Levels - 1 <= Levels
    BY <2>1
  <2>. QED
    BY <2>1, <2>2, <2>3, NestedMore DEF U
<1>. QED
  BY <1>3, <1>4

\* The next part of the array is this value.
LEMMA NextPart ==
    ASSUME NEW f, NEW h, NEW w, NEW loop, NEW d, NEW b, NEW table,
           Level(f, h, w, loop, d, b, table), Expecting(f), f.kind # "rows"
    PROVE  LET s == PartsOf(FormOfFrame(f), w) IN
           /\ Len(s) \in Nat /\ Consumed(f) \in Nat /\ Consumed(f) + 1 <= Len(s)
           /\ s[Consumed(f) + 1] = ValueTask(Slot(f, w))
<1>1. /\ w \in U /\ f.count = Len(w[2]) /\ Len(f.keys) \in Nat /\ f.keys \in Seq(Keys)
      /\ f.count \in Nat /\ f.left \in Nat /\ f.left <= f.count
      /\ IF f.kind \in {"hash", "row"} THEN w[1] = "hash"
         ELSE w[1] = "list" /\ Enc!Form(w[2]) = FormOfFrame(f)
  BY LevelNumbers
<1>2. CASE f.kind = "template"
  <2>1. /\ FormOfFrame(f) = "repeat" /\ Consumed(f) = 0 /\ Slot(f, w) = w[2][1]
    BY <1>2 DEF FormOfFrame, Consumed, Slot
  <2>2. Len(PartsOf("repeat", w)) = 1 /\ PartsOf("repeat", w)[1] = ValueTask(w[2][1])
    BY <1>1, <1>2, <2>1, RepeatParts
  <2>. QED
    BY <2>1, <2>2
<1>3. CASE f.kind = "packed"
  <2>1. /\ FormOfFrame(f) = "packed" /\ Consumed(f) = f.count - f.left
        /\ Slot(f, w) = w[2][f.count - f.left + 1] /\ f.left > 0
    BY <1>3 DEF FormOfFrame, Consumed, Slot, Expecting
  <2>2. f.count - f.left + 1 \in 1..Len(w[2])
    BY <1>1, <2>1
  <2>3. /\ Len(PartsOf("packed", w)) = Len(w[2])
        /\ \A i \in 1..Len(w[2]) : PartsOf("packed", w)[i] = ValueTask(w[2][i])
    BY <1>1, <1>3, PackedParts
  <2>. QED
    BY <1>1, <2>1, <2>2, <2>3
<1>4. CASE f.kind = "row"
  <2>1. /\ FormOfFrame(f) = "row" /\ Consumed(f) = f.count - f.left
        /\ Slot(f, w) = w[2][f.count - f.left + 1][2] /\ f.left > 0
    BY <1>4 DEF FormOfFrame, Consumed, Slot, Expecting
  <2>2. f.count - f.left + 1 \in 1..Len(w[2])
    BY <1>1, <2>1
  <2>3. /\ Len(PartsOf("row", w)) = Len(w[2])
        /\ \A i \in 1..Len(w[2]) : PartsOf("row", w)[i] = ValueTask(w[2][i][2])
    BY <1>1, <1>4, CellParts
  <2>. QED
    BY <1>1, <2>1, <2>2, <2>3
<1>5. CASE f.kind = "hash"
  <2>1. /\ FormOfFrame(f) = "hash" /\ Consumed(f) = 2 * (f.count - f.left) + Len(f.keys)
        /\ Slot(f, w) = w[2][f.count - f.left + 1][2] /\ f.left > 0 /\ f.keys # <<>>
    BY <1>5 DEF FormOfFrame, Consumed, Slot, Expecting
  <2>2. Len(f.keys) <= 1
    BY <1>5 DEF Level, HashMatches
  <2>3. Len(f.keys) = 1
    <3>1. Len(f.keys) # 0
      BY <1>1, <2>1, EmptySeq
    <3>2. \A m \in Nat : m # 0 /\ m <= 1 => m = 1
      OBVIOUS
    <3>3. Len(f.keys) \in Nat
      BY <1>1
    <3>. QED
      BY <2>2, <3>1, <3>2, <3>3
  <2>. DEFINE i == f.count - f.left + 1
  <2>4. i \in 1..Len(w[2]) /\ Consumed(f) + 1 = 2 * i
    BY <1>1, <2>1, <2>3
  <2>5. /\ Len(PartsOf("hash", w)) = 2 * Len(w[2])
        /\ \A j \in 1..Len(w[2]) : PartsOf("hash", w)[2 * j] = ValueTask(w[2][j][2])
    BY <1>1, <1>5, EntryParts
  <2>6. Consumed(f) \in Nat
    BY <1>1, <2>1
  <2>. HIDE DEF i
  <2>7. PartsOf("hash", w)[2 * i] = ValueTask(w[2][i][2]) /\ 2 * i <= 2 * Len(w[2])
        /\ 2 * Len(w[2]) \in Nat
    BY <1>1, <2>4, <2>5
  <2>. QED
    BY <2>1, <2>4, <2>5, <2>6, <2>7 DEF i
<1>. QED
  BY <1>2, <1>3, <1>4, <1>5 DEF Expecting

\* The value that a frame has called for is what its loop writes next.
LEMMA LevelTake ==
    ASSUME NEW f, NEW h, NEW w, NEW loop, NEW d, NEW table,
           Level(f, h, w, loop, d, 0, table), Expecting(f), f.kind # "rows"
    PROVE  /\ loop # <<>> /\ loop[1] = ValueTask(Slot(f, w))
           /\ Level(f, h, w, Tail(loop), d, 1, table)
<1>. DEFINE s == PartsOf(FormOfFrame(f), w)
<1>1. /\ Len(s) \in Nat /\ Consumed(f) \in Nat /\ Consumed(f) + 1 <= Len(s)
      /\ s[Consumed(f) + 1] = ValueTask(Slot(f, w))
  BY NextPart
<1>. HIDE DEF s
<1>2. LoopIs(loop, s, Consumed(f)) /\ Consumed(f) + 0 = Consumed(f)
  <2>1. LoopIs(loop, s, Consumed(f) + 0) /\ Consumed(f) + 0 = Consumed(f)
    BY <1>1 DEF Level, s
  <2>. QED
    BY <2>1
<1>3. loop # <<>> /\ loop[1] = s[Consumed(f) + 1] /\ LoopIs(Tail(loop), s, Consumed(f) + 1)
  BY <1>1, <1>2, LoopTail
<1>. QED
  BY <1>1, <1>3 DEF Level, s

\* What the Host keeps of an array, with one more element, and with a template.
LEMMA ItemsGrow ==
    ASSUME NEW h, IsArray(h), NEW x, NEW c, c = [h EXCEPT !.items = Append(@, x)]
    PROVE  /\ IsArray(c) /\ Len(h.items) \in Nat /\ Len(c.items) = Len(h.items) + 1
           /\ \A i \in 1..Len(h.items) : c.items[i] = h.items[i]
           /\ c.items[Len(h.items) + 1] = x /\ c.template = h.template
<1>1. PICK S : h \in [items : Seq(S), template : Seq(S)]
  BY DEF IsArray
<1>2. IsArray(c)
  BY ArrayGrows
<1>3. h.items \in Seq(S)
  BY <1>1
<1>4. c.items = Plus(h.items, x) /\ c.template = h.template
  BY <1>1 DEF Plus
<1>5. IsSeq(h.items)
  BY <1>3 DEF IsSeq
<1>6. /\ Len(Plus(h.items, x)) = Len(h.items) + 1
      /\ \A i \in 1..Len(h.items) : Plus(h.items, x)[i] = h.items[i]
      /\ Plus(h.items, x)[Len(h.items) + 1] = x
  BY <1>5, AnySeqPlus
<1>7. Len(h.items) \in Nat
  BY <1>3, LenProperties
<1>. QED
  BY <1>2, <1>4, <1>6, <1>7

\* The Host keeps the template of a repeat.
LEMMA TemplateSet ==
    ASSUME NEW h, IsArray(h), NEW v, NEW c, c = [h EXCEPT !.template = <<v>>]
    PROVE  IsArray(c) /\ c.items = h.items /\ c.template[1] = v
<1>1. PICK S : h \in [items : Seq(S), template : Seq(S)]
  BY DEF IsArray
<1>2. c.template = <<v>>
  BY <1>1
<1>3. c.template[1] = v
  BY <1>2
<1>. QED
  BY <1>3, ArrayGrows

\* A frame that has got the value it called for.
LEMMA FilledFields ==
    ASSUME NEW f \in Frames, Expecting(f)
    PROVE  /\ Filled(f) \in Frames /\ Filled(f).count = f.count /\ Filled(f).cols = f.cols
           /\ f.kind = "template" => Filled(f).kind = "copies" /\ Filled(f).left = f.left
           /\ f.kind # "template" => Filled(f).kind = f.kind /\ Filled(f).left = f.left - 1
                                     /\ f.left >= 1
           /\ Filled(f).keys = IF f.kind \in {"hash", "row"} THEN Tail(f.keys) ELSE f.keys
<1>1. CASE f.kind = "template"
  BY <1>1 DEF Filled, Frames, Kinds
<1>2. CASE f.kind \in {"hash", "row"}
  <2>1. f.left \in Nat /\ f.left > 0 /\ f.keys \in Seq(Keys) /\ f.keys # <<>>
    BY <1>2 DEF Expecting, Frames
  <2>2. Tail(f.keys) \in Seq(Keys) /\ f.left - 1 \in Nat /\ f.left >= 1
    BY <2>1, HeadTailProperties
  <2>3. Filled(f) = [f EXCEPT !.left = @ - 1, !.keys = Tail(@)]
    BY <1>2 DEF Filled
  <2>. QED
    BY <1>2, <2>2, <2>3 DEF Frames
<1>3. CASE f.kind \in {"packed", "rows"}
  <2>1. f.left \in Nat /\ f.left > 0
    BY <1>3 DEF Expecting, Frames
  <2>2. f.left - 1 \in Nat /\ f.left >= 1
    BY <2>1
  <2>3. Filled(f) = [f EXCEPT !.left = @ - 1]
    BY <1>3 DEF Filled
  <2>. QED
    BY <1>3, <2>2, <2>3 DEF Frames
<1>. QED
  BY <1>1, <1>2, <1>3 DEF Expecting

\* A key of the Host.
LEMMA HostKeyIn ==
    ASSUME NEW k \in Keys
    PROVE  HostKey(k) = KeyIn(k, hostTable)
<1>1. k.kind \in {"int", "empty", "id"}
  BY DEF Keys
<1>. QED
  BY <1>1 DEF HostKey, KeyIn

\* One part more is behind a frame that has got its value.
LEMMA FilledConsumed ==
    ASSUME NEW f, NEW h, NEW w, NEW loop, NEW d, NEW b, NEW table,
           Level(f, h, w, loop, d, b, table), Expecting(f)
    PROVE  Consumed(Filled(f)) = Consumed(f) + 1 /\ FormOfFrame(Filled(f)) = FormOfFrame(f)
<1>1. /\ f \in Frames /\ Len(f.keys) \in Nat /\ f.keys \in Seq(Keys)
      /\ f.count \in Nat /\ f.left \in Nat /\ f.cols \in Nat
  BY LevelNumbers
<1>2. /\ Filled(f).count = f.count /\ Filled(f).cols = f.cols
      /\ f.kind = "template" => Filled(f).kind = "copies" /\ Filled(f).left = f.left
      /\ f.kind # "template" => Filled(f).kind = f.kind /\ Filled(f).left = f.left - 1
      /\ Filled(f).keys = IF f.kind \in {"hash", "row"} THEN Tail(f.keys) ELSE f.keys
  BY <1>1, FilledFields
<1>3. CASE f.kind = "template"
  BY <1>2, <1>3 DEF Consumed, FormOfFrame
<1>4. CASE f.kind \in {"packed", "row"}
  <2>1. Consumed(f) = f.count - f.left /\ Consumed(Filled(f)) = f.count - (f.left - 1)
    BY <1>2, <1>4 DEF Consumed
  <2>. QED
    BY <1>1, <1>2, <1>4, <2>1 DEF FormOfFrame
<1>5. CASE f.kind = "rows"
  <2>1. /\ Consumed(f) = f.cols + (f.count - f.left)
        /\ Consumed(Filled(f)) = f.cols + (f.count - (f.left - 1))
    BY <1>2, <1>5 DEF Consumed
  <2>. QED
    BY <1>1, <1>2, <1>5, <2>1 DEF FormOfFrame
<1>6. CASE f.kind = "hash"
  <2>1. /\ Consumed(f) = 2 * (f.count - f.left) + Len(f.keys)
        /\ Consumed(Filled(f)) = 2 * (f.count - (f.left - 1)) + Len(Tail(f.keys))
    BY <1>2, <1>6 DEF Consumed
  <2>2. f.keys # <<>> /\ Len(f.keys) <= 1
    BY <1>6 DEF Level, HashMatches, Expecting
  <2>3. Len(Tail(f.keys)) = Len(f.keys) - 1
    BY <1>1, <2>2, HeadTailProperties
  <2>4. Len(f.keys) # 0
    BY <1>1, <2>2, EmptySeq
  <2>5. \A c, l, m \in Nat : m # 0 /\ m <= 1 =>
            2 * (c - (l - 1)) + (m - 1) = (2 * (c - l) + m) + 1
    OBVIOUS
  <2>6. 2 * (f.count - (f.left - 1)) + (Len(f.keys) - 1)
            = (2 * (f.count - f.left) + Len(f.keys)) + 1
    BY <1>1, <2>2, <2>4, <2>5
  <2>. QED
    BY <1>2, <1>6, <2>1, <2>3, <2>6 DEF FormOfFrame
<1>. QED
  BY <1>3, <1>4, <1>5, <1>6 DEF Expecting

\* An array whose frame got a value equal to the one it called for.
LEMMA LevelFill ==
    ASSUME NEW f, NEW h, NEW w, NEW loop, NEW d,
           Level(f, h, w, loop, d, 1, hostTable), Expecting(f), Holds(f, h),
           NEW v, <<v, Slot(f, w)>> \in V!Equal[d]
    PROVE  Level(Filled(f), Stored(f, h, v), w, loop, d, 0, hostTable)
<1>. DEFINE a == Stored(f, h, v)
            e == Filled(f)
            m == f.count - f.left
<1>1. /\ f \in Frames /\ w \in U /\ f.count = Len(w[2])
      /\ f.count \in Nat /\ f.left \in Nat /\ f.left <= f.count /\ m \in Nat
      /\ Len(f.keys) \in Nat /\ f.keys \in Seq(Keys) /\ f.cols \in Nat
  BY LevelNumbers
<1>2. /\ e \in Frames /\ e.count = f.count /\ e.cols = f.cols
      /\ f.kind = "template" => e.kind = "copies" /\ e.left = f.left
      /\ f.kind # "template" => e.kind = f.kind /\ e.left = f.left - 1 /\ f.left >= 1
      /\ e.keys = IF f.kind \in {"hash", "row"} THEN Tail(f.keys) ELSE f.keys
  BY <1>1, FilledFields
<1>3. IsArray(a) /\ Len(a.items) = e.count - e.left
  BY <1>1, StoredHolds DEF Holds
<1>4. Consumed(e) = Consumed(f) + 1 /\ FormOfFrame(e) = FormOfFrame(f)
  BY FilledConsumed
<1>5. IsArray(h) /\ Len(h.items) = m
  BY DEF Level
<1>. HIDE DEF a, e
<1>6. f.kind # "template" => e.count - e.left = m + 1
  BY <1>1, <1>2
<1>7. LoopIs(loop, PartsOf(FormOfFrame(e), w), Consumed(e) + 0)
  <2>1. LoopIs(loop, PartsOf(FormOfFrame(f), w), Consumed(f) + 1)
    BY DEF Level
  <2>2. Consumed(e) \in Nat
    BY <2>1, <1>4 DEF LoopIs
  <2>. QED
    BY <1>4, <2>1, <2>2
<1>8. e.left <= e.count
  BY <1>1, <1>2
<1>9. IF e.kind \in {"hash", "row"} THEN HashMatches(e, a, w, d, hostTable)
      ELSE ListMatches(e, a, w, d, hostTable)
  <2>1. CASE f.kind \in {"hash", "row"}
    <3>0. /\ w[1] = "hash" /\ Len(f.keys) <= f.left
          /\ KeysAre(f.keys, m, w[2], hostTable)
          /\ \A i \in 1..m : /\ h.items[i] = <<w[2][i][1], h.items[i][2]>>
                             /\ <<h.items[i][2], w[2][i][2]>> \in V!Equal[d]
          /\ IF f.kind = "row" THEN Len(f.keys) = f.left ELSE Len(f.keys) <= 1
      BY <2>1 DEF Level, HashMatches
    <3>1. f.keys # <<>>
      BY <2>1 DEF Expecting
    <3>2. /\ Tail(f.keys) \in Seq(Keys) /\ Len(Tail(f.keys)) = Len(f.keys) - 1
          /\ \A k \in 1..Len(Tail(f.keys)) : Tail(f.keys)[k] = f.keys[k + 1]
          /\ Head(f.keys) = f.keys[1] /\ Head(f.keys) \in Keys
      BY <1>1, <3>1, HeadTailProperties
    <3>3. Len(f.keys) # 0
      BY <1>1, <3>1, EmptySeq
    <3>4. HostKey(Head(f.keys)) = w[2][m + 1][1]
      <4>1. HostKey(Head(f.keys)) = KeyIn(f.keys[1], hostTable)
        BY <3>2, HostKeyIn
      <4>2. 1 \in 1..Len(f.keys)
        BY <1>1, <3>3
      <4>. QED
        BY <3>0, <4>1, <4>2 DEF KeysAre
    <3>. DEFINE x == <<HostKey(Head(f.keys)), v>>
    <3>5. a = [h EXCEPT !.items = Append(@, x)]
      BY <2>1 DEF a, Stored
    <3>. HIDE DEF x
    <3>6. /\ \A i \in 1..m : a.items[i] = h.items[i]
          /\ a.items[m + 1] = x
      BY <1>5, <3>5, ItemsGrow
    <3>7. Slot(f, w) = w[2][m + 1][2]
      BY <2>1 DEF Slot
    <3>8. \A i \in 1..(m + 1) : /\ a.items[i] = <<w[2][i][1], a.items[i][2]>>
                                /\ <<a.items[i][2], w[2][i][2]>> \in V!Equal[d]
      <4>. TAKE i \in 1..(m + 1)
      <4>1. CASE i \in 1..m
        BY <3>0, <3>6, <4>1
      <4>2. CASE i = m + 1
        BY <3>4, <3>6, <3>7, <4>2 DEF x
      <4>. QED
        BY <1>1, <4>1, <4>2
    <3>9. KeysAre(e.keys, e.count - e.left, w[2], hostTable)
      <4>. SUFFICES ASSUME NEW j \in 1..Len(Tail(f.keys))
                    PROVE  KeyIn(Tail(f.keys)[j], hostTable) = w[2][(m + 1) + j][1]
        BY <1>2, <1>6, <2>1 DEF KeysAre
      <4>1. j + 1 \in 1..Len(f.keys) /\ m + (j + 1) = (m + 1) + j
        <5>1. Len(Tail(f.keys)) = Len(f.keys) - 1 /\ Len(f.keys) \in Nat /\ m \in Nat
          BY <1>1, <3>2
        <5>. QED
          BY <5>1
      <4>2. KeyIn(f.keys[j + 1], hostTable) = w[2][m + (j + 1)][1]
        BY <3>0, <4>1 DEF KeysAre
      <4>. QED
        BY <3>2, <4>1, <4>2
    <3>10. Len(e.keys) = Len(f.keys) - 1 /\ e.left = f.left - 1 /\ e.kind = f.kind
      BY <1>2, <2>1, <3>2
    <3>11. Len(e.keys) <= e.left
           /\ (IF e.kind = "row" THEN Len(e.keys) = e.left ELSE Len(e.keys) <= 1)
      BY <1>1, <3>0, <3>10
    <3>12. e.count - e.left = m + 1
      BY <1>6, <2>1
    <3>. QED
      BY <2>1, <3>0, <3>8, <3>9, <3>10, <3>11, <3>12 DEF HashMatches
  <2>2. CASE f.kind = "template"
    <3>0. /\ w[1] = "list" /\ Enc!Form(w[2]) = FormOfFrame(f)
          /\ \A i \in 1..m : <<h.items[i], w[2][i]>> \in V!Equal[d]
      BY <2>2 DEF Level, ListMatches
    <3>1. a = [h EXCEPT !.template = <<v>>]
      BY <2>2 DEF a, Stored
    <3>2. a.items = h.items /\ a.template[1] = v
      BY <1>5, <3>1, TemplateSet
    <3>3. Slot(f, w) = w[2][1]
      BY <2>2 DEF Slot
    <3>4. e.kind = "copies" /\ e.count - e.left = m
      BY <1>2, <2>2
    <3>. QED
      BY <1>4, <3>0, <3>2, <3>3, <3>4 DEF ListMatches
  <2>3. CASE f.kind \in {"packed", "rows"}
    <3>0. /\ w[1] = "list" /\ Enc!Form(w[2]) = FormOfFrame(f)
          /\ \A i \in 1..m : <<h.items[i], w[2][i]>> \in V!Equal[d]
          /\ f.kind = "rows" =>
                /\ f.cols = Len(w[2][1][2]) /\ Len(f.keys) = f.cols
                /\ KeysAre(f.keys, 0, w[2][1][2], hostTable)
      BY <2>3 DEF Level, ListMatches
    <3>1. a = [h EXCEPT !.items = Append(@, v)]
      BY <2>3 DEF a, Stored
    <3>2. /\ \A i \in 1..m : a.items[i] = h.items[i]
          /\ a.items[m + 1] = v
      BY <1>5, <3>1, ItemsGrow
    <3>3. Slot(f, w) = w[2][m + 1]
      BY <2>3 DEF Slot
    <3>4. \A i \in 1..(m + 1) : <<a.items[i], w[2][i]>> \in V!Equal[d]
      <4>. TAKE i \in 1..(m + 1)
      <4>1. CASE i \in 1..m
        BY <3>0, <3>2, <4>1
      <4>2. CASE i = m + 1
        BY <3>2, <3>3, <4>2
      <4>. QED
        BY <1>1, <4>1, <4>2
    <3>5. e.kind = f.kind /\ e.count - e.left = m + 1 /\ e.keys = f.keys /\ e.cols = f.cols
      BY <1>2, <1>6, <2>3
    <3>6. f.kind = "rows" => Len(e.keys) <= e.cols
      BY <1>1, <3>0, <3>5
    <3>. QED
      BY <1>4, <2>3, <3>0, <3>4, <3>5, <3>6 DEF ListMatches
  <2>4. e.kind \in {"hash", "row"} <=> f.kind \in {"hash", "row"}
    BY <1>2
  <2>. QED
    BY <2>1, <2>2, <2>3, <2>4 DEF Expecting, HashMatches, ListMatches
<1>. QED
  BY <1>1, <1>2, <1>3, <1>7, <1>8, <1>9 DEF Level, a, e

\* How many parts an array has, by the frame that decodes it.
LEMMA PartsCount ==
    ASSUME NEW f, NEW h, NEW w, NEW loop, NEW d, NEW b, NEW table,
           Level(f, h, w, loop, d, b, table)
    PROVE  LET s == PartsOf(FormOfFrame(f), w) IN
           /\ s \in Seq(Tasks)
           /\ f.kind \in {"packed", "longs", "row"} => Len(s) = f.count
           /\ f.kind = "hash" => Len(s) = 2 * f.count
           /\ f.kind \in {"template", "copies"} => Len(s) = 1
           /\ f.kind \in {"schema", "rows"} => Len(s) = f.cols + f.count
<1>1. /\ w \in U /\ f.count = Len(w[2]) /\ f.kind \in Kinds
      /\ IF f.kind \in {"hash", "row"} THEN w[1] = "hash"
         ELSE w[1] = "list" /\ Enc!Form(w[2]) = FormOfFrame(f)
  BY LevelNumbers
<1>2. CASE f.kind = "packed"
  BY <1>1, <1>2, PackedParts DEF FormOfFrame
<1>3. CASE f.kind = "longs"
  BY <1>1, <1>3, LongsParts DEF FormOfFrame
<1>4. CASE f.kind = "row"
  BY <1>1, <1>4, CellParts DEF FormOfFrame
<1>5. CASE f.kind = "hash"
  BY <1>1, <1>5, EntryParts DEF FormOfFrame
<1>6. CASE f.kind \in {"template", "copies"}
  <2>1. FormOfFrame(f) = "repeat" /\ w[1] = "list" /\ Enc!Form(w[2]) = "repeat"
    BY <1>1, <1>6 DEF FormOfFrame
  <2>. QED
    BY <1>1, <1>6, <2>1, RepeatParts
<1>7. CASE f.kind \in {"schema", "rows"}
  <2>1. FormOfFrame(f) = "rows" /\ w[1] = "list" /\ Enc!Form(w[2]) = "rows"
    BY <1>1, <1>7 DEF FormOfFrame
  <2>2. f.cols = Len(w[2][1][2])
    BY <1>7 DEF Level, ListMatches
  <2>. QED
    BY <1>1, <1>7, <2>1, <2>2, RowsParts
<1>. QED
  BY <1>1, <1>2, <1>3, <1>4, <1>5, <1>6, <1>7 DEF Kinds

\* An array that is complete is the one that was written.
LEMMA LevelEnd ==
    ASSUME NEW f, NEW h, NEW w, NEW loop, NEW d \in Nat, NEW table,
           Level(f, h, w, loop, d, 0, table), f.left = 0, f.kind \notin {"schema", "template"}
    PROVE  /\ loop = <<>>
           /\ <<<<IF f.kind \in {"hash", "row"} THEN "hash" ELSE "list", h.items>>, w>>
                \in V!Equal[d + 1]
<1>1. /\ w \in U /\ V!IsArray(w) /\ f.count = Len(w[2]) /\ f.count \in Nat
      /\ f.count - f.left = f.count
      /\ Len(f.keys) \in Nat /\ f.cols \in Nat /\ f.kind \in Kinds
      /\ IF f.kind \in {"hash", "row"} THEN w[1] = "hash"
         ELSE w[1] = "list" /\ Enc!Form(w[2]) = FormOfFrame(f)
  <2>1. /\ w \in U /\ V!IsArray(w) /\ f.count = Len(w[2]) /\ f.count \in Nat
      /\ Len(f.keys) \in Nat /\ f.cols \in Nat /\ f.kind \in Kinds
      /\ IF f.kind \in {"hash", "row"} THEN w[1] = "hash"
         ELSE w[1] = "list" /\ Enc!Form(w[2]) = FormOfFrame(f)
    BY LevelNumbers
  <2>2. f.count - f.left = f.count
    BY <2>1
  <2>. QED
    BY <2>1, <2>2
<1>2. loop = <<>>
  <2>. DEFINE s == PartsOf(FormOfFrame(f), w)
  <2>1. /\ s \in Seq(Tasks)
        /\ f.kind \in {"packed", "longs", "row"} => Len(s) = f.count
        /\ f.kind = "hash" => Len(s) = 2 * f.count
        /\ f.kind \in {"template", "copies"} => Len(s) = 1
        /\ f.kind \in {"schema", "rows"} => Len(s) = f.cols + f.count
    BY PartsCount
  <2>2. LoopIs(loop, s, Consumed(f) + 0)
    BY DEF Level
  <2>. HIDE DEF s
  <2>3. f.kind = "hash" => Len(f.keys) = 0
    <3>1. f.kind = "hash" => Len(f.keys) <= 0
      BY DEF Level, HashMatches
    <3>. QED
      BY <1>1, <3>1
  <2>4. Consumed(f) + 0 = Len(s)
    <3>1. CASE f.kind \in {"packed", "longs", "row"}
      <4>1. Consumed(f) = f.count
        BY <1>1, <3>1 DEF Consumed
      <4>. QED
        BY <1>1, <2>1, <3>1, <4>1
    <3>2. CASE f.kind = "hash"
      <4>1. Consumed(f) = 2 * f.count + Len(f.keys)
        BY <1>1, <3>2 DEF Consumed
      <4>2. Len(f.keys) = 0
        BY <2>3, <3>2
      <4>3. Len(s) = 2 * f.count
        BY <2>1, <3>2
      <4>4. Consumed(f) = 2 * f.count
        BY <1>1, <4>1, <4>2
      <4>. QED
        BY <1>1, <4>2, <4>3, <4>4

    <3>3. CASE f.kind = "copies"
      BY <1>1, <2>1, <3>3 DEF Consumed
    <3>4. CASE f.kind = "rows"
      BY <1>1, <2>1, <3>4 DEF Consumed
    <3>. QED
      BY <1>1, <3>1, <3>2, <3>3, <3>4 DEF Kinds
  <2>. QED
    BY <2>2, <2>4, LoopEnd
<1>3. /\ w = <<w[1], w[2]>> /\ Len(w[2]) <= MaxU32
      /\ w[1] = "list" => w[2] \in Seq(U)
      /\ w[1] = "hash" => w[2] \in Seq(V!Keys \X U)
  BY <1>1, ArrayInU
<1>4. PICK S : h.items \in Seq(S) /\ Len(h.items) = f.count
  <2>1. IsArray(h) /\ Len(h.items) = f.count
    BY <1>1 DEF Level
  <2>. QED
    BY <2>1 DEF IsArray
<1>5. CASE f.kind \in {"hash", "row"}
  <2>1. /\ w[1] = "hash"
        /\ \A i \in 1..f.count : /\ h.items[i] = <<w[2][i][1], h.items[i][2]>>
                                 /\ <<h.items[i][2], w[2][i][2]>> \in V!Equal[d]
    BY <1>1, <1>5 DEF Level, HashMatches
  <2>2. ASSUME NEW i \in 1..Len(h.items)
        PROVE  /\ h.items[i] = <<h.items[i][1], h.items[i][2]>>
               /\ w[2][i] = <<w[2][i][1], w[2][i][2]>>
               /\ h.items[i][1] \in V!Keys /\ h.items[i][1] = w[2][i][1]
               /\ <<h.items[i][2], w[2][i][2]>> \in V!Equal[d]
    <3>1. w[2][i] \in V!Keys \X U
      BY <1>1, <1>3, <1>4, <2>1, ElementOfSeq
    <3>2. w[2][i] = <<w[2][i][1], w[2][i][2]>> /\ w[2][i][1] \in V!Keys
      BY <3>1, PairOf
    <3>3. h.items[i] = <<w[2][i][1], h.items[i][2]>> /\ <<h.items[i][2], w[2][i][2]>> \in V!Equal[d]
      BY <1>4, <2>1
    <3>4. h.items[i][1] = w[2][i][1]
      BY <3>3
    <3>. QED
      BY <3>2, <3>3, <3>4
  <2>3. <<<<"hash", h.items>>, <<"hash", w[2]>>>> \in V!Equal[d + 1]
    <3>1. w[2] \in Seq(V!Keys \X U) /\ Len(h.items) = Len(w[2]) /\ Len(h.items) <= MaxU32
      BY <1>1, <1>3, <1>4, <2>1
    <3>. QED
      BY <1>4, <2>2, <3>1, HashesEqual
  <2>. QED
    BY <1>2, <1>3, <1>5, <2>1, <2>3
<1>6. CASE f.kind \notin {"hash", "row"}
  <2>1. /\ w[1] = "list"
        /\ \A i \in 1..f.count : <<h.items[i], w[2][i]>> \in V!Equal[d]
    BY <1>1, <1>6 DEF Level, ListMatches
  <2>3. <<<<"list", h.items>>, <<"list", w[2]>>>> \in V!Equal[d + 1]
    BY <1>1, <1>3, <1>4, <2>1, ListsEqual
  <2>. QED
    BY <1>2, <1>3, <1>6, <2>1, <2>3
<1>. QED
  BY <1>5, <1>6

\* Keys that the table has keep their strings when it grows.
LEMMA KeysMore ==
    ASSUME NEW keys \in Seq(Keys), NEW from, NEW pairs, NEW table, NEW n \in Nat,
           KeysAre(keys, from, pairs, table),
           \A k \in 1..Len(keys) : keys[k].kind = "id" => keys[k].n \in 0..(n - 1),
           NEW more, \A i \in 1..n : more[i] = table[i]
    PROVE  KeysAre(keys, from, pairs, more)
<1>. SUFFICES ASSUME NEW j \in 1..Len(keys)
              PROVE  KeyIn(keys[j], more) = KeyIn(keys[j], table)
  BY DEF KeysAre
<1>1. keys[j].kind \in {"int", "empty", "id"}
  <2>1. keys[j] \in Keys
    BY ElementOfSeq
  <2>. QED
    BY <2>1 DEF Keys
<1>2. CASE keys[j].kind = "id"
  <2>1. keys[j].n + 1 \in 1..n
    BY <1>2
  <2>. QED
    BY <1>2, <2>1 DEF KeyIn
<1>. QED
  BY <1>1, <1>2 DEF KeyIn

\* A level stays matched when the table grows.
LEMMA LevelMore ==
    ASSUME NEW f, NEW h, NEW w, NEW loop, NEW d, NEW b, NEW table,
           Level(f, h, w, loop, d, b, table),
           NEW n \in Nat, NEW l, FrameOK(f, n, l),
           NEW more, \A i \in 1..n : more[i] = table[i]
    PROVE  Level(f, h, w, loop, d, b, more)
<1>1. f.keys \in Seq(Keys)
  BY LevelNumbers
<1>2. \A k \in 1..Len(f.keys) : f.keys[k].kind = "id" => f.keys[k].n \in 0..(n - 1)
  BY DEF FrameOK
<1>3. \A from, pairs : KeysAre(f.keys, from, pairs, table) => KeysAre(f.keys, from, pairs, more)
  BY <1>1, <1>2, KeysMore
<1>4. HashMatches(f, h, w, d, table) => HashMatches(f, h, w, d, more)
  BY <1>3 DEF HashMatches
<1>5. ListMatches(f, h, w, d, table) => ListMatches(f, h, w, d, more)
  BY <1>3 DEF ListMatches
<1>. QED
  BY <1>4, <1>5 DEF Level

\* The key that a frame waits for.
KeyTo(f, w) ==
    IF f.kind = "hash" THEN w[2][f.count - f.left + 1][1] ELSE w[2][1][2][Len(f.keys) + 1][1]

KeyWanted(f) ==
    \/ f.kind = "hash" /\ f.left > 0 /\ f.keys = <<>>
    \/ f.kind = "schema" /\ Len(f.keys) < f.cols

\* The key that a frame calls for is the next part of its array.
LEMMA KeyNext ==
    ASSUME NEW f, NEW h, NEW w, NEW loop, NEW d, NEW table,
           Level(f, h, w, loop, d, 0, table), KeyWanted(f)
    PROVE  LET s == PartsOf(FormOfFrame(f), w) IN
           /\ Len(s) \in Nat /\ Consumed(f) \in Nat /\ Consumed(f) + 1 <= Len(s)
           /\ s[Consumed(f) + 1] = KeyTask(KeyTo(f, w)) /\ KeyTo(f, w) \in V!Keys
<1>1. /\ w \in U /\ f.count = Len(w[2]) /\ Len(f.keys) \in Nat /\ f.keys \in Seq(Keys)
      /\ f.count \in Nat /\ f.left \in Nat /\ f.left <= f.count /\ f.cols \in Nat
      /\ IF f.kind \in {"hash", "row"} THEN w[1] = "hash"
         ELSE w[1] = "list" /\ Enc!Form(w[2]) = FormOfFrame(f)
  BY LevelNumbers
<1>2. CASE f.kind = "hash"
  <2>1. /\ FormOfFrame(f) = "hash" /\ Consumed(f) = 2 * (f.count - f.left) + Len(f.keys)
        /\ KeyTo(f, w) = w[2][f.count - f.left + 1][1] /\ f.left > 0 /\ f.keys = <<>>
    BY <1>2 DEF FormOfFrame, Consumed, KeyTo, KeyWanted
  <2>2. Len(f.keys) = 0
    BY <2>1
  <2>. DEFINE i == f.count - f.left + 1
  <2>3. i \in 1..Len(w[2]) /\ Consumed(f) + 1 = 2 * i - 1 /\ Consumed(f) \in Nat
    <3>1. Consumed(f) = 2 * (f.count - f.left)
      BY <1>1, <2>1, <2>2
    <3>2. \A c, l \in Nat : l > 0 /\ l <= c =>
              /\ c - l + 1 \in 1..c /\ 2 * (c - l) + 1 = 2 * (c - l + 1) - 1
              /\ 2 * (c - l) \in Nat
      OBVIOUS
    <3>3. /\ f.count - f.left + 1 \in 1..f.count /\ 2 * (f.count - f.left) \in Nat
          /\ 2 * (f.count - f.left) + 1 = 2 * (f.count - f.left + 1) - 1
      BY <1>1, <2>1, <3>2
    <3>. QED
      BY <1>1, <3>1, <3>3
  <2>4. /\ Len(PartsOf("hash", w)) = 2 * Len(w[2])
        /\ \A j \in 1..Len(w[2]) : PartsOf("hash", w)[2 * j - 1] = KeyTask(w[2][j][1])
    BY <1>1, <1>2, EntryParts
  <2>5. w[2] \in Seq(V!Keys \X U)
    BY <1>1, <1>2, ArrayInU DEF V!IsArray
  <2>6. w[2][i] \in V!Keys \X U
    BY <2>3, <2>5, ElementOfSeq
  <2>7. w[2][i][1] \in V!Keys
    BY <2>6, PairOf
  <2>. HIDE DEF i
  <2>8. PartsOf("hash", w)[2 * i - 1] = KeyTask(w[2][i][1]) /\ 2 * i - 1 <= 2 * Len(w[2])
        /\ 2 * Len(w[2]) \in Nat
    BY <1>1, <2>3, <2>4
  <2>. QED
    BY <2>1, <2>3, <2>4, <2>7, <2>8 DEF i
<1>3. CASE f.kind = "schema"
  <2>1. /\ FormOfFrame(f) = "rows" /\ Consumed(f) = Len(f.keys)
        /\ KeyTo(f, w) = w[2][1][2][Len(f.keys) + 1][1] /\ Len(f.keys) < f.cols
    BY <1>3 DEF FormOfFrame, Consumed, KeyTo, KeyWanted
  <2>2. f.cols = Len(w[2][1][2]) /\ w[1] = "list" /\ Enc!Form(w[2]) = "rows"
    BY <1>1, <1>3, <2>1 DEF Level, ListMatches
  <2>3. /\ Len(PartsOf("rows", w)) = f.cols + f.count
        /\ \A j \in 1..f.cols : PartsOf("rows", w)[j] = KeyTask(w[2][1][2][j][1])
    BY <1>1, <2>2, RowsParts
  <2>4. Len(f.keys) + 1 \in 1..f.cols /\ Len(f.keys) + 1 <= f.cols + f.count
        /\ f.cols + f.count \in Nat
    BY <1>1, <2>1
  <2>5. w[2][1] \in U /\ w[2][1][1] = "hash"
    <3>1. w[2] \in Seq(U) /\ Len(w[2]) >= 2 /\ \A i \in 1..Len(w[2]) : w[2][i][1] = "hash"
      BY <1>1, <2>2, ArrayInU, FormFacts DEF V!IsArray
    <3>2. 1 \in 1..Len(w[2])
      BY <1>1, <3>1
    <3>. QED
      BY <3>1, <3>2, ElementOfSeq
  <2>6. w[2][1][2] \in Seq(V!Keys \X U)
    BY <2>5, ArrayInU DEF V!IsArray
  <2>7. w[2][1][2][Len(f.keys) + 1] \in V!Keys \X U
    BY <2>2, <2>4, <2>6, ElementOfSeq
  <2>8. w[2][1][2][Len(f.keys) + 1][1] \in V!Keys
    BY <2>7, PairOf
  <2>. QED
    BY <1>1, <2>1, <2>3, <2>4, <2>8
<1>. QED
  BY <1>2, <1>3 DEF KeyWanted

\* A key is read that the table gives the encoder's key for.
LEMMA LevelKey ==
    ASSUME NEW f, NEW h, NEW w, NEW loop, NEW d, NEW table,
           Level(f, h, w, loop, d, 0, table), KeyWanted(f)
    PROVE  /\ loop # <<>> /\ loop[1] = KeyTask(KeyTo(f, w)) /\ KeyTo(f, w) \in V!Keys
           /\ \A k \in Keys : KeyIn(k, table) = KeyTo(f, w) =>
                 Level([f EXCEPT !.keys = Append(@, k)], h, w, Tail(loop), d, 0, table)
<1>. DEFINE s == PartsOf(FormOfFrame(f), w)
<1>1. /\ Len(s) \in Nat /\ Consumed(f) \in Nat /\ Consumed(f) + 1 <= Len(s)
      /\ s[Consumed(f) + 1] = KeyTask(KeyTo(f, w)) /\ KeyTo(f, w) \in V!Keys
  BY KeyNext
<1>. HIDE DEF s
<1>2. LoopIs(loop, s, Consumed(f))
  <2>1. LoopIs(loop, s, Consumed(f) + 0) /\ Consumed(f) + 0 = Consumed(f)
    BY <1>1 DEF Level, s
  <2>. QED
    BY <2>1
<1>3. loop # <<>> /\ loop[1] = s[Consumed(f) + 1] /\ LoopIs(Tail(loop), s, Consumed(f) + 1)
  BY <1>1, <1>2, LoopTail
<1>4. ASSUME NEW k \in Keys, KeyIn(k, table) = KeyTo(f, w)
      PROVE  Level([f EXCEPT !.keys = Append(@, k)], h, w, Tail(loop), d, 0, table)
  <2>. DEFINE e == [f EXCEPT !.keys = Append(@, k)]
              m == f.count - f.left
  <2>1. /\ f \in Frames /\ w \in U /\ f.count = Len(w[2]) /\ f.left <= f.count
        /\ f.keys \in Seq(Keys) /\ Len(f.keys) \in Nat /\ m \in Nat /\ f.left \in Nat
        /\ f.count \in Nat /\ f.cols \in Nat
    BY LevelNumbers
  <2>2. /\ Append(f.keys, k) \in Seq(Keys) /\ Len(Append(f.keys, k)) = Len(f.keys) + 1
        /\ \A j \in 1..Len(f.keys) : Append(f.keys, k)[j] = f.keys[j]
        /\ Append(f.keys, k)[Len(f.keys) + 1] = k
    BY <2>1, AppendProperties
  <2>3. /\ e \in Frames /\ e.kind = f.kind /\ e.count = f.count /\ e.left = f.left
        /\ e.cols = f.cols /\ e.keys = Append(f.keys, k)
    BY <2>1, <2>2 DEF Frames
  <2>. HIDE DEF e
  <2>4. ASSUME NEW from, NEW pairs, KeysAre(f.keys, from, pairs, table),
               KeyTo(f, w) = pairs[from + (Len(f.keys) + 1)][1]
        PROVE  KeysAre(e.keys, from, pairs, table)
    <3>. SUFFICES ASSUME NEW j \in 1..(Len(f.keys) + 1)
                  PROVE  KeyIn(Append(f.keys, k)[j], table) = pairs[from + j][1]
      BY <2>2, <2>3 DEF KeysAre
    <3>1. CASE j \in 1..Len(f.keys)
      BY <2>2, <2>4, <3>1 DEF KeysAre
    <3>2. CASE j = Len(f.keys) + 1
      BY <1>4, <2>2, <2>4, <3>2
    <3>. QED
      BY <2>1, <3>1, <3>2
  <2>5. Consumed(e) + 0 = Consumed(f) + 1 /\ FormOfFrame(e) = FormOfFrame(f)
    <3>1. CASE f.kind = "hash"
      <4>1. Consumed(f) = 2 * m + Len(f.keys) /\ Consumed(e) = 2 * m + (Len(f.keys) + 1)
        BY <2>2, <2>3, <3>1 DEF Consumed
      <4>. QED
        BY <2>1, <2>3, <4>1 DEF FormOfFrame
    <3>2. CASE f.kind = "schema"
      <4>1. Consumed(f) = Len(f.keys) /\ Consumed(e) = Len(f.keys) + 1
        BY <2>2, <2>3, <3>2 DEF Consumed
      <4>. QED
        BY <2>1, <2>3, <4>1 DEF FormOfFrame
    <3>. QED
      BY <3>1, <3>2 DEF KeyWanted
  <2>6. LoopIs(Tail(loop), PartsOf(FormOfFrame(e), w), Consumed(e) + 0)
    BY <1>3, <2>5 DEF s
  <2>9. /\ IsArray(h) /\ Len(h.items) = e.count - e.left
        /\ e.count = Len(w[2]) /\ e.left <= e.count
    BY <2>1, <2>3 DEF Level
  <2>7. ASSUME f.kind = "hash" PROVE Level(e, h, w, Tail(loop), d, 0, table)
    <3>1. KeysAre(f.keys, m, w[2], table) /\ f.keys = <<>> /\ f.left > 0
      BY <2>7 DEF Level, HashMatches, KeyWanted
    <3>2. Len(f.keys) = 0
      BY <3>1
    <3>3. KeyTo(f, w) = w[2][m + (Len(f.keys) + 1)][1]
      <4>1. KeyTo(f, w) = w[2][m + 1][1]
        BY <2>7 DEF KeyTo
      <4>2. Len(f.keys) + 1 = 1
        BY <3>2
      <4>. QED
        BY <4>1, <4>2
    <3>4. KeysAre(e.keys, m, w[2], table)
      BY <2>4, <3>1, <3>3
    <3>5. Len(e.keys) = 1
      BY <2>2, <2>3, <3>2
    <3>6. 1 <= f.left
      BY <2>1, <3>1
    <3>7. HashMatches(e, h, w, d, table)
      <4>1. HashMatches(f, h, w, d, table)
        BY <2>7 DEF Level
      <4>2. e.count - e.left = m /\ Len(e.keys) <= e.left /\ Len(e.keys) <= 1 /\ e.kind = "hash"
        BY <2>3, <2>7, <3>5, <3>6
      <4>. QED
        BY <3>4, <4>1, <4>2 DEF HashMatches
    <3>. QED
      BY <2>1, <2>3, <2>6, <2>9, <2>7, <3>7 DEF Level
  <2>8. ASSUME f.kind = "schema" PROVE Level(e, h, w, Tail(loop), d, 0, table)
    <3>1. /\ KeysAre(f.keys, 0, w[2][1][2], table) /\ Len(f.keys) < f.cols
          /\ f.cols = Len(w[2][1][2])
      BY <2>8 DEF Level, ListMatches, KeyWanted
    <3>2. KeyTo(f, w) = w[2][1][2][0 + (Len(f.keys) + 1)][1]
      <4>1. KeyTo(f, w) = w[2][1][2][Len(f.keys) + 1][1]
        BY <2>8 DEF KeyTo
      <4>2. 0 + (Len(f.keys) + 1) = Len(f.keys) + 1
        BY <2>1
      <4>. QED
        BY <4>1, <4>2
    <3>3. KeysAre(e.keys, 0, w[2][1][2], table)
      BY <2>4, <3>1, <3>2
    <3>4. Len(e.keys) <= e.cols
      <4>1. Len(e.keys) = Len(f.keys) + 1 /\ e.cols = f.cols
        BY <2>2, <2>3
      <4>. QED
        BY <2>1, <3>1, <4>1
    <3>5. ListMatches(e, h, w, d, table)
      <4>1. ListMatches(f, h, w, d, table)
        BY <2>8 DEF Level
      <4>2. e.count - e.left = m /\ e.kind = "schema"
        BY <2>3, <2>8
      <4>. QED
        BY <2>3, <2>5, <3>1, <3>3, <3>4, <4>1, <4>2 DEF ListMatches
    <3>. QED
      BY <2>1, <2>3, <2>6, <2>9, <2>8, <3>5 DEF Level
  <2>. QED
    BY <2>7, <2>8 DEF KeyWanted, e
<1>. QED
  BY <1>1, <1>3, <1>4

\* One more element without a tag of its own: an integer or a copy.
LEMMA LevelElement ==
    ASSUME NEW f, NEW h, NEW w, NEW loop, NEW d, NEW table,
           Level(f, h, w, loop, d, 0, table), f.kind \in {"longs", "copies"}, f.left > 0,
           NEW v, <<v, w[2][f.count - f.left + 1]>> \in V!Equal[d],
           NEW rest, LoopIs(rest, PartsOf(FormOfFrame(f), w),
                            IF f.kind = "longs" THEN Consumed(f) + 1 ELSE Consumed(f))
    PROVE  Level([f EXCEPT !.left = @ - 1], [h EXCEPT !.items = Append(@, v)], w, rest, d, 0, table)
<1>. DEFINE a == [h EXCEPT !.items = Append(@, v)]
            e == [f EXCEPT !.left = @ - 1]
            m == f.count - f.left
<1>1. /\ f \in Frames /\ w \in U /\ f.count = Len(w[2])
      /\ f.count \in Nat /\ f.left \in Nat /\ f.left <= f.count /\ m \in Nat
      /\ Len(f.keys) \in Nat /\ f.keys \in Seq(Keys) /\ f.cols \in Nat
  BY LevelNumbers
<1>2. f.left - 1 \in Nat /\ f.left - 1 <= f.count /\ f.count - (f.left - 1) = m + 1 /\ 1 <= f.left
  BY <1>1
<1>3. /\ e \in Frames /\ e.count = f.count /\ e.cols = f.cols /\ e.kind = f.kind
      /\ e.left = f.left - 1 /\ e.keys = f.keys
  BY <1>1, <1>2 DEF Frames
<1>4. IsArray(h) /\ Len(h.items) = m
  BY DEF Level
<1>5. /\ IsArray(a) /\ Len(a.items) = m + 1
      /\ \A i \in 1..m : a.items[i] = h.items[i]
      /\ a.items[m + 1] = v /\ a.template = h.template
  BY <1>4, ItemsGrow
<1>. HIDE DEF a, e
<1>6. /\ FormOfFrame(e) = FormOfFrame(f)
      /\ Consumed(e) + 0 = IF f.kind = "longs" THEN Consumed(f) + 1 ELSE Consumed(f)
  <2>1. CASE f.kind = "longs"
    <3>1. Consumed(f) = m /\ Consumed(e) = m + 1
      BY <1>2, <1>3, <2>1 DEF Consumed
    <3>. QED
      BY <1>1, <1>3, <2>1, <3>1 DEF FormOfFrame
  <2>2. CASE f.kind = "copies"
    BY <1>3, <2>2 DEF FormOfFrame, Consumed
  <2>. QED
    BY <2>1, <2>2
<1>7. /\ w[1] = "list" /\ Enc!Form(w[2]) = FormOfFrame(f)
      /\ \A i \in 1..m : <<h.items[i], w[2][i]>> \in V!Equal[d]
      /\ f.kind = "copies" => <<h.template[1], w[2][1]>> \in V!Equal[d]
  BY DEF Level, ListMatches
<1>8. \A i \in 1..(m + 1) : <<a.items[i], w[2][i]>> \in V!Equal[d]
  <2>. TAKE i \in 1..(m + 1)
  <2>1. CASE i \in 1..m
    BY <1>5, <1>7, <2>1
  <2>2. CASE i = m + 1
    BY <1>5, <2>2
  <2>. QED
    BY <1>1, <2>1, <2>2
<1>9. ListMatches(e, a, w, d, table)
  <2>1. e.count - e.left = m + 1 /\ e.kind \in {"longs", "copies"}
    BY <1>2, <1>3
  <2>. QED
    BY <1>3, <1>5, <1>6, <1>7, <1>8, <2>1 DEF ListMatches
<1>10. Level(e, a, w, rest, d, 0, table)
  <2>1. LoopIs(rest, PartsOf(FormOfFrame(e), w), Consumed(e) + 0)
    BY <1>6
  <2>2. e.count - e.left = m + 1 /\ e.left <= e.count /\ e.kind \notin {"hash", "row"}
    BY <1>2, <1>3
  <2>. QED
    BY <1>1, <1>3, <1>5, <1>9, <2>1, <2>2 DEF Level
<1>. QED
  BY <1>10 DEF a, e

\* The next integer of a run of them.
LEMMA LevelLong ==
    ASSUME NEW f, NEW h, NEW w, NEW loop, NEW d \in Nat, NEW table,
           Level(f, h, w, loop, d, 0, table), f.kind = "longs", f.left > 0
    PROVE  LET x == w[2][f.count - f.left + 1] IN
           /\ loop # <<>> /\ loop[1] = LongTask(x) /\ x \in {"int"} \X Int
           /\ Level([f EXCEPT !.left = @ - 1], [h EXCEPT !.items = Append(@, x)], w,
                    Tail(loop), d, 0, table)
<1>. DEFINE m == f.count - f.left
            s == PartsOf("longs", w)
            x == w[2][m + 1]
<1>1. /\ w \in U /\ f.count = Len(w[2]) /\ m \in Nat
      /\ f.count \in Nat /\ f.left \in Nat /\ f.left <= f.count
      /\ w[1] = "list" /\ Enc!Form(w[2]) = "longs" /\ FormOfFrame(f) = "longs"
  BY LevelNumbers DEF FormOfFrame
<1>2. /\ Len(s) = Len(w[2])
      /\ \A i \in 1..Len(w[2]) : s[i] = LongTask(w[2][i])
  BY <1>1, LongsParts
<1>3. m + 1 \in 1..Len(w[2]) /\ m + 1 <= Len(w[2]) /\ Len(w[2]) \in Nat
  BY <1>1
<1>4. Consumed(f) = m
  BY DEF Consumed
<1>5. LoopIs(loop, s, m)
  <2>1. LoopIs(loop, PartsOf(FormOfFrame(f), w), Consumed(f) + 0)
    BY DEF Level
  <2>2. Consumed(f) + 0 = m
    BY <1>1, <1>4
  <2>. QED
    BY <1>1, <2>1, <2>2
<1>6. x \in {"int"} \X Int
  BY <1>1, <1>3, FormFacts
<1>7. <<x, x>> \in V!Equal[d]
  <2>1. x \in V!Scalars
    BY <1>6 DEF V!Scalars
  <2>. QED
    BY <2>1, ScalarNested
<1>. HIDE DEF s
<1>8. loop # <<>> /\ loop[1] = s[m + 1] /\ LoopIs(Tail(loop), s, m + 1)
  BY <1>2, <1>3, <1>5, LoopTail
<1>9. LoopIs(Tail(loop), PartsOf(FormOfFrame(f), w),
             IF f.kind = "longs" THEN Consumed(f) + 1 ELSE Consumed(f))
  BY <1>1, <1>4, <1>8 DEF s
<1>10. Level([f EXCEPT !.left = @ - 1], [h EXCEPT !.items = Append(@, x)], w, Tail(loop), d, 0, table)
  BY <1>7, <1>9, LevelElement
<1>11. loop[1] = LongTask(x)
  BY <1>2, <1>3, <1>8
<1>. QED
  BY <1>6, <1>8, <1>10, <1>11

\* One more copy of the template.
LEMMA LevelCopy ==
    ASSUME NEW f, NEW h, NEW w, NEW loop, NEW d \in Nat, NEW table,
           Level(f, h, w, loop, d, 0, table), f.kind = "copies", f.left > 0
    PROVE  Level([f EXCEPT !.left = @ - 1], [h EXCEPT !.items = Append(@, h.template[1])], w,
                 loop, d, 0, table)
<1>. DEFINE m == f.count - f.left
            x == w[2][m + 1]
            y == h.template[1]
<1>1. /\ w \in U /\ f.count = Len(w[2]) /\ m \in Nat
      /\ f.count \in Nat /\ f.left \in Nat /\ f.left <= f.count
      /\ w[1] = "list" /\ Enc!Form(w[2]) = "repeat" /\ FormOfFrame(f) = "repeat"
  BY LevelNumbers DEF FormOfFrame
<1>2. <<y, w[2][1]>> \in V!Equal[d]
  BY DEF Level, ListMatches
<1>3. w[2][1] \in V!Nested[d]
  BY <1>2, EqualCases
<1>4. <<x, w[2][1]>> \in V!Equal[Levels]
  <2>1. m + 1 \in 1..Len(w[2])
    BY <1>1
  <2>2. SameValue(x, w[2][1])
    BY <1>1, <2>1, FormFacts
  <2>. QED
    BY <2>2 DEF SameValue, V!SameValue
<1>5. Levels \in Nat
  BY RoundTripAssumption
<1>6. <<w[2][1], x>> \in V!Equal[d]
  BY <1>3, <1>4, <1>5, EqualBack, EqualAtLevel
<1>7. <<y, x>> \in V!Equal[d]
  BY <1>2, <1>6, EqualOn
<1>8. LoopIs(loop, PartsOf(FormOfFrame(f), w),
             IF f.kind = "longs" THEN Consumed(f) + 1 ELSE Consumed(f))
  <2>1. LoopIs(loop, PartsOf(FormOfFrame(f), w), Consumed(f) + 0)
    BY DEF Level
  <2>2. Consumed(f) + 0 = Consumed(f)
    BY DEF Consumed
  <2>. QED
    BY <2>1, <2>2
<1>. QED
  BY <1>7, <1>8, LevelElement

\* The key table is complete.
LEMMA LevelOpenRows ==
    ASSUME NEW f, NEW h, NEW w, NEW loop, NEW d, NEW table,
           Level(f, h, w, loop, d, 0, table), f.kind = "schema", Len(f.keys) = f.cols
    PROVE  Level([f EXCEPT !.kind = "rows"], h, w, loop, d, 0, table)
<1>. DEFINE e == [f EXCEPT !.kind = "rows"]
<1>1. /\ f \in Frames /\ w \in U /\ f.count = Len(w[2])
      /\ f.count \in Nat /\ f.left \in Nat /\ f.left <= f.count /\ f.cols \in Nat
  BY LevelNumbers
<1>2. /\ e \in Frames /\ e.kind = "rows" /\ e.count = f.count /\ e.left = f.left
      /\ e.keys = f.keys /\ e.cols = f.cols
  BY <1>1 DEF Frames, Kinds
<1>. HIDE DEF e
<1>3. ListMatches(f, h, w, d, table) /\ f.left = f.count
  BY DEF Level, ListMatches
<1>4. FormOfFrame(e) = FormOfFrame(f) /\ Consumed(e) = Consumed(f)
  <2>1. Consumed(f) = f.cols
    BY DEF Consumed
  <2>2. Consumed(e) = f.cols + (f.count - f.count)
    BY <1>2, <1>3 DEF Consumed
  <2>3. f.cols + (f.count - f.count) = f.cols
    BY <1>1
  <2>. QED
    BY <1>2, <2>1, <2>2, <2>3 DEF FormOfFrame
<1>5. ListMatches(e, h, w, d, table)
  BY <1>2, <1>3, <1>4 DEF ListMatches
<1>6. Level(e, h, w, loop, d, 0, table)
  BY <1>1, <1>2, <1>4, <1>5 DEF Level
<1>. QED
  BY <1>6 DEF e

\* The next row: a hash with the keys of the key table, of which nothing is decoded.
LEMMA LevelRow ==
    ASSUME NEW f, NEW h, NEW w, NEW loop, NEW d, NEW table,
           Level(f, h, w, loop, d, 0, table), f.kind = "rows", f.left > 0
    PROVE  /\ loop # <<>> /\ loop[1] = RowTask(Slot(f, w))
           /\ Slot(f, w) \in U /\ Slot(f, w)[1] = "hash"
           /\ Level(f, h, w, Tail(loop), d, 1, table)
           /\ \A d2 : Level(Frame("row", f.cols, f.keys, f.cols), EmptyArray, Slot(f, w),
                            PartsOf("row", Slot(f, w)), d2, 0, table)
<1>. DEFINE m == f.count - f.left
            s == PartsOf("rows", w)
            x == w[2][m + 1]
            first == w[2][1]
<1>1. /\ w \in U /\ f.count = Len(w[2]) /\ m \in Nat /\ f.keys \in Seq(Keys) /\ f.cols \in Nat
      /\ f.count \in Nat /\ f.left \in Nat /\ f.left <= f.count
      /\ w[1] = "list" /\ Enc!Form(w[2]) = "rows" /\ FormOfFrame(f) = "rows"
  BY LevelNumbers DEF FormOfFrame
<1>2. /\ f.cols = Len(first[2]) /\ Len(f.keys) = f.cols /\ KeysAre(f.keys, 0, first[2], table)
  BY DEF Level, ListMatches
<1>3. m + 1 \in 1..Len(w[2]) /\ 1 \in 1..Len(w[2])
  BY <1>1
<1>4. w[2] \in Seq(U)
  BY <1>1, ArrayInU DEF V!IsArray
<1>5. /\ x \in U /\ x[1] = "hash" /\ first \in U /\ first[1] = "hash"
      /\ Enc!KeysOf(x) = Enc!KeysOf(first)
  BY <1>1, <1>3, <1>4, FormFacts, ElementOfSeq
<1>6. Slot(f, w) = x
  BY DEF Slot
<1>7. /\ Len(s) = f.cols + Len(w[2]) /\ Len(s) \in Nat
      /\ \A i \in 1..Len(w[2]) : s[f.cols + i] = RowTask(w[2][i])
  <2>1. /\ Len(s) = f.cols + Len(w[2])
        /\ \A i \in 1..Len(w[2]) : s[f.cols + i] = RowTask(w[2][i])
    BY <1>1, <1>2, RowsParts
  <2>. QED
    BY <1>1, <2>1
<1>8. Consumed(f) = f.cols + m
  BY DEF Consumed
<1>9. LoopIs(loop, s, f.cols + m)
  <2>1. LoopIs(loop, PartsOf(FormOfFrame(f), w), Consumed(f) + 0)
    BY DEF Level
  <2>2. Consumed(f) + 0 = f.cols + m
    BY <1>1, <1>8
  <2>. QED
    BY <1>1, <2>1, <2>2
<1>. HIDE DEF s
<1>10. (f.cols + m) + 1 <= Len(s) /\ (f.cols + m) + 1 = f.cols + (m + 1)
  BY <1>1, <1>3, <1>7
<1>11. loop # <<>> /\ loop[1] = s[(f.cols + m) + 1] /\ LoopIs(Tail(loop), s, (f.cols + m) + 1)
  BY <1>7, <1>9, <1>10, LoopTail
<1>12. loop[1] = RowTask(x)
  BY <1>3, <1>7, <1>10, <1>11
<1>13. Level(f, h, w, Tail(loop), d, 1, table)
  BY <1>1, <1>8, <1>11 DEF Level, s
<1>14. ASSUME NEW d2
       PROVE  Level(Frame("row", f.cols, f.keys, f.cols), EmptyArray, x, PartsOf("row", x),
                    d2, 0, table)
  <2>. DEFINE e == Frame("row", f.cols, f.keys, f.cols)
  <2>1. /\ e \in Frames /\ e.kind = "row" /\ e.count = f.cols /\ e.left = f.cols
        /\ e.keys = f.keys
    BY <1>1 DEF Frame, Frames, Kinds
  <2>. HIDE DEF e
  <2>2. /\ Len(x[2]) = f.cols
        /\ \A j \in 1..f.cols : x[2][j][1] = first[2][j][1]
    <3>1. /\ Len(Enc!KeysOf(x)) = Len(x[2]) /\ \A j \in 1..Len(x[2]) : Enc!KeysOf(x)[j] = x[2][j][1]
      BY <1>5, RowParts
    <3>2. /\ Len(Enc!KeysOf(first)) = Len(first[2])
          /\ \A j \in 1..Len(first[2]) : Enc!KeysOf(first)[j] = first[2][j][1]
      BY <1>5, RowParts
    <3>. QED
      BY <1>2, <1>5, <3>1, <3>2
  <2>3. KeysAre(e.keys, e.count - e.left, x[2], table)
    <3>1. e.count - e.left = 0
      BY <1>1, <2>1
    <3>2. \A j \in 1..f.cols : 0 + j = j
      BY <1>1
    <3>. QED
      BY <1>2, <2>1, <2>2, <3>1, <3>2 DEF KeysAre
  <2>4. HashMatches(e, EmptyArray, x, d2, table)
    <3>1. e.count - e.left = 0 /\ Len(e.keys) = e.left /\ Len(e.keys) <= e.left
      BY <1>1, <1>2, <2>1
    <3>. QED
      BY <1>5, <2>1, <2>3, <3>1 DEF HashMatches
  <2>5. IsArray(EmptyArray) /\ Len(EmptyArray.items) = e.count - e.left
    <3>1. e.count - e.left = 0
      BY <1>1, <2>1
    <3>2. IsArray(EmptyArray) /\ EmptyArray.items = <<>>
      BY DEF IsArray, EmptyArray
    <3>. QED
      BY <3>1, <3>2
  <2>6. LoopIs(PartsOf("row", x), PartsOf(FormOfFrame(e), x), Consumed(e) + 0)
    <3>1. PartsOf("row", x) \in Seq(Tasks)
      BY <1>5, CellParts
    <3>2. Consumed(e) + 0 = 0
      BY <1>1, <2>1 DEF Consumed
    <3>. QED
      BY <2>1, <3>1, <3>2, LoopAll DEF FormOfFrame
  <2>7. Level(e, EmptyArray, x, PartsOf("row", x), d2, 0, table)
    BY <1>1, <1>5, <2>1, <2>2, <2>4, <2>5, <2>6 DEF Level
  <2>. QED
    BY <2>7 DEF e
<1>. QED
  BY <1>5, <1>6, <1>11, <1>12, <1>13, <1>14

\* An array of which nothing is decoded.
LEMMA LevelNew ==
    ASSUME NEW w \in U, V!IsArray(w), NEW f \in Frames,
           f.kind \in {"packed", "hash", "longs", "template", "schema"},
           FormOfFrame(f) = FormOf(w), f.count = Len(w[2]), f.left = f.count, f.keys = <<>>,
           f.kind = "schema" => f.cols = Len(w[2][1][2]), NEW d, NEW table
    PROVE  Level(f, EmptyArray, w, PartsOf(FormOf(w), w), d, 0, table)
<1>1. /\ f.count \in Nat /\ Len(w[2]) \in Nat /\ f.count - f.left = 0 /\ f.cols \in Nat
      /\ f.left <= f.count
  BY ArrayInU DEF Frames
<1>2. w[1] = "list" \/ w[1] = "hash"
  BY DEF V!IsArray
<1>3. f.kind = "hash" => w[1] = "hash"
  BY <1>2, FormFacts DEF FormOfFrame
<1>4. f.kind # "hash" => w[1] = "list" /\ Enc!Form(w[2]) = FormOf(w)
  BY <1>2, FormFacts DEF FormOfFrame, FormOf
<1>5. IsArray(EmptyArray) /\ Len(EmptyArray.items) = 0
  BY DEF IsArray, EmptyArray
<1>6. IF f.kind \in {"hash", "row"} THEN HashMatches(f, EmptyArray, w, d, table)
                                    ELSE ListMatches(f, EmptyArray, w, d, table)
  <2>1. Len(f.keys) = 0 /\ Len(f.keys) <= f.left /\ Len(f.keys) <= f.cols
    BY <1>1
  <2>2. \A from, pairs : KeysAre(f.keys, from, pairs, table)
    BY <2>1 DEF KeysAre
  <2>. QED
    BY <1>1, <1>3, <1>4, <2>1, <2>2 DEF HashMatches, ListMatches
<1>7. LoopIs(PartsOf(FormOf(w), w), PartsOf(FormOfFrame(f), w), Consumed(f) + 0)
  <2>1. PartsOf(FormOf(w), w) \in Seq(Tasks)
    <3>1. CASE w[1] = "hash"
      BY <3>1, EntryParts DEF FormOf
    <3>2. CASE w[1] = "list"
      BY <3>2, FormFacts, PackedParts, LongsParts, RepeatParts, RowsParts
    <3>. QED
      BY <1>2, <3>1, <3>2
  <2>2. Consumed(f) + 0 = 0
    <3>1. Len(f.keys) = 0 /\ 2 * (f.count - f.left) + 0 = 0
      BY <1>1
    <3>. QED
      BY <1>1, <3>1 DEF Consumed
  <2>. QED
    BY <2>1, <2>2, LoopAll
<1>. QED
  BY <1>1, <1>5, <1>6, <1>7 DEF Level
-----------------------------------------------------------------------------
(* Array by array, outermost first.                                        *)

\* The innermost level, and those around it, each of which has called for a value.
LEMMA MatchTop ==
    ASSUME NEW v, NEW st, NEW hs, NEW ws, NEW td, NEW b, NEW table,
           Match(v, st, hs, ws, td, b, table), st # <<>>
    PROVE  /\ Len(st) \in Nat \ {0} /\ Len(hs) = Len(st) /\ Len(ws) = Len(st)
           /\ Len(td) = Len(st) + 1 /\ td # <<>> /\ hs # <<>>
           /\ ws[Len(st)] \in U /\ ws[Len(st)] = HoleOf(v, Lower(st), Lower(ws))
           /\ Level(st[Len(st)], hs[Len(st)], ws[Len(st)], td[Len(td)], MaxDepth - Len(st), b, table)
           /\ Match(v, Lower(st), Lower(hs), Lower(ws), Lower(td), 1, table)
<1>. DEFINE n == Len(st)
<1>1. /\ st \in Seq(Frames) /\ IsSeq(hs) /\ ws \in Seq(U) /\ td \in Seq(Seq(Tasks))
      /\ Len(hs) = Len(st) /\ Len(ws) = Len(st) /\ Len(td) = Len(st) + 1
      /\ LoopIs(td[1], <<ValueTask(v)>>, 1)
      /\ \A i \in 1..Len(st) :
          /\ Level(st[i], hs[i], ws[i], td[i + 1], MaxDepth - i,
                   IF i < Len(st) THEN 1 ELSE b, table)
          /\ ws[i] = IF i = 1 THEN v ELSE Slot(st[i - 1], ws[i - 1])
          /\ \A N \in Nat : v \in V!Nested[N] => i <= N /\ ws[i] \in V!Nested[N + 1 - i]
  BY DEF Match
<1>2. /\ n \in Nat \ {0} /\ n \in 1..Len(st)
      /\ Lower(st) \in Seq(Frames) /\ Len(Lower(st)) = n - 1
      /\ \A i \in 1..(n - 1) : Lower(st)[i] = st[i]
  BY <1>1, SeqTop
<1>3. PICK S : hs \in Seq(S)
  BY <1>1 DEF IsSeq
<1>4. hs # <<>> /\ ws # <<>> /\ td # <<>>
  <2>1. Len(hs) # 0 /\ Len(ws) # 0 /\ Len(td) # 0
    BY <1>1, <1>2
  <2>. QED
    BY <2>1
<1>5. /\ Lower(hs) \in Seq(S) /\ Len(Lower(hs)) = n - 1
      /\ \A i \in 1..(n - 1) : Lower(hs)[i] = hs[i]
  BY <1>1, <1>3, <1>4, SeqTop
<1>6. /\ Lower(ws) \in Seq(U) /\ Len(Lower(ws)) = n - 1 /\ ws[n] \in U
      /\ \A i \in 1..(n - 1) : Lower(ws)[i] = ws[i]
  BY <1>1, <1>4, SeqTop
<1>7. /\ Lower(td) \in Seq(Seq(Tasks)) /\ Len(Lower(td)) = n
      /\ \A i \in 1..n : Lower(td)[i] = td[i]
  <2>1. Len(td) - 1 = n
    BY <1>1, <1>2
  <2>. QED
    BY <1>1, <1>4, <2>1, SeqTop
<1>8. Level(st[n], hs[n], ws[n], td[Len(td)], MaxDepth - n, b, table)
  BY <1>1, <1>2
<1>9. ws[n] = HoleOf(v, Lower(st), Lower(ws))
  <2>1. CASE n = 1
    <3>1. Lower(st) = <<>>
      BY <1>2, <2>1
    <3>. QED
      BY <1>1, <1>2, <2>1, <3>1 DEF HoleOf
  <2>2. CASE n # 1
    <3>1. Lower(st) # <<>> /\ n - 1 \in 1..(n - 1)
      BY <1>2, <2>2
    <3>2. HoleOf(v, Lower(st), Lower(ws)) = Slot(st[n - 1], ws[n - 1])
      BY <1>2, <1>6, <3>1 DEF HoleOf
    <3>. QED
      BY <1>1, <1>2, <2>2, <3>2
  <2>. QED
    BY <2>1, <2>2
<1>10. Match(v, Lower(st), Lower(hs), Lower(ws), Lower(td), 1, table)
  <2>1. LoopIs(Lower(td)[1], <<ValueTask(v)>>, IF Lower(st) = <<>> THEN 1 ELSE 1)
    BY <1>1, <1>2, <1>7
  <2>2. ASSUME NEW i \in 1..(n - 1)
        PROVE  /\ Level(Lower(st)[i], Lower(hs)[i], Lower(ws)[i], Lower(td)[i + 1], MaxDepth - i,
                        IF i < n - 1 THEN 1 ELSE 1, table)
               /\ Lower(ws)[i] = IF i = 1 THEN v ELSE Slot(Lower(st)[i - 1], Lower(ws)[i - 1])
               /\ \A N \in Nat : v \in V!Nested[N] => i <= N /\ Lower(ws)[i] \in V!Nested[N + 1 - i]
    <3>1. i \in 1..n /\ i < n /\ i + 1 \in 1..n /\ (i # 1 => i - 1 \in 1..(n - 1))
      BY <1>2
    <3>2. /\ Lower(st)[i] = st[i] /\ Lower(hs)[i] = hs[i] /\ Lower(ws)[i] = ws[i]
          /\ Lower(td)[i + 1] = td[i + 1]
          /\ i # 1 => Lower(st)[i - 1] = st[i - 1] /\ Lower(ws)[i - 1] = ws[i - 1]
      BY <1>2, <1>5, <1>6, <1>7, <3>1
    <3>. QED
      BY <1>1, <3>1, <3>2
  <2>3. IsSeq(Lower(hs)) /\ Len(Lower(td)) = (n - 1) + 1
    BY <1>2, <1>5, <1>7 DEF IsSeq
  <2>. QED
    BY <1>2, <1>5, <1>6, <1>7, <2>1, <2>2, <2>3 DEF Match
<1>. QED
  BY <1>1, <1>2, <1>4, <1>6, <1>8, <1>9, <1>10

\* One more level, of the array that is decoded next.
LEMMA MatchPlus ==
    ASSUME NEW v, NEW st, NEW hs, NEW ws, NEW td, NEW table,
           Match(v, st, hs, ws, td, 1, table), st # <<>> => Expecting(st[Len(st)]),
           NEW f, NEW h, NEW loop, NEW b, NEW w, w = HoleOf(v, st, ws),
           Level(f, h, w, loop, MaxDepth - (Len(st) + 1), b, table)
    PROVE  Match(v, Plus(st, f), Plus(hs, h), Plus(ws, w), Plus(td, loop), b, table)
<1>. DEFINE n == Len(st)
<1>1. /\ st \in Seq(Frames) /\ IsSeq(hs) /\ ws \in Seq(U) /\ td \in Seq(Seq(Tasks))
      /\ Len(hs) = n /\ Len(ws) = n /\ Len(td) = n + 1
      /\ LoopIs(td[1], <<ValueTask(v)>>, 1)
      /\ \A i \in 1..n :
          /\ Level(st[i], hs[i], ws[i], td[i + 1], MaxDepth - i, 1, table)
          /\ ws[i] = IF i = 1 THEN v ELSE Slot(st[i - 1], ws[i - 1])
          /\ \A N \in Nat : v \in V!Nested[N] => i <= N /\ ws[i] \in V!Nested[N + 1 - i]
  BY DEF Match
<1>2. f \in Frames /\ w \in U /\ V!IsArray(w) /\ loop \in Seq(Tasks)
  <2>1. f \in Frames /\ w \in U /\ V!IsArray(w)
    BY LevelNumbers
  <2>. QED
    BY <2>1 DEF Level, LoopIs
<1>0. st \in Seq(Frames) /\ IsSeq(hs) /\ ws \in Seq(U) /\ td \in Seq(Seq(Tasks))
      /\ Len(td) = n + 1 /\ Len(hs) = n /\ Len(ws) = n
  BY <1>1
<1>21. f \in Frames /\ w \in U /\ loop \in Seq(Tasks)
  BY <1>2
<1>3. n \in Nat
  BY <1>1, LenProperties
<1>31. st \in Seq(Frames) /\ f \in Frames
  BY <1>0, <1>21
<1>32. ws \in Seq(U) /\ w \in U
  BY <1>0, <1>21
<1>33. td \in Seq(Seq(Tasks)) /\ loop \in Seq(Tasks)
  BY <1>0, <1>21
<1>4. /\ Plus(st, f) \in Seq(Frames) /\ Len(Plus(st, f)) = n + 1
      /\ Plus(st, f)[n + 1] = f /\ \A i \in 1..n : Plus(st, f)[i] = st[i]
  BY <1>31, SeqPlus
<1>5. /\ IsSeq(Plus(hs, h)) /\ Len(Plus(hs, h)) = n + 1
      /\ Plus(hs, h)[n + 1] = h /\ \A i \in 1..n : Plus(hs, h)[i] = hs[i]
  BY <1>0, AnySeqPlus
<1>6. /\ Plus(ws, w) \in Seq(U) /\ Len(Plus(ws, w)) = n + 1
      /\ Plus(ws, w)[n + 1] = w /\ \A i \in 1..n : Plus(ws, w)[i] = ws[i]
  <2>1. /\ Plus(ws, w) \in Seq(U) /\ Len(Plus(ws, w)) = Len(ws) + 1
        /\ Plus(ws, w)[Len(ws) + 1] = w /\ \A i \in 1..Len(ws) : Plus(ws, w)[i] = ws[i]
    BY ONLY <1>32, SeqPlus
  <2>. QED
    BY <1>0, <2>1
<1>7. /\ Plus(td, loop) \in Seq(Seq(Tasks)) /\ Len(Plus(td, loop)) = n + 2
      /\ Plus(td, loop)[n + 2] = loop /\ \A i \in 1..(n + 1) : Plus(td, loop)[i] = td[i]
  <2>1. (n + 1) + 1 = n + 2
    BY <1>3
  <2>2. /\ Plus(td, loop) \in Seq(Seq(Tasks)) /\ Len(Plus(td, loop)) = Len(td) + 1
        /\ Plus(td, loop)[Len(td) + 1] = loop /\ \A i \in 1..Len(td) : Plus(td, loop)[i] = td[i]
    BY <1>33, SeqPlus
  <2>. QED
    BY <1>0, <2>1, <2>2
<1>8. /\ w = IF n + 1 = 1 THEN v ELSE Slot(st[n], ws[n])
      /\ \A N \in Nat : v \in V!Nested[N] => n + 1 <= N /\ w \in V!Nested[N + 1 - (n + 1)]
  <2>1. CASE st = <<>>
    <3>1. n = 0 /\ w = v
      BY <2>1 DEF HoleOf
    <3>2. ASSUME NEW N \in Nat, v \in V!Nested[N]
          PROVE  1 <= N /\ w \in V!Nested[N]
      <4>1. w \in V!Nested[N] /\ V!IsArray(w)
        BY <1>2, <3>1, <3>2
      <4>2. N > 0
        BY <4>1, ArrayParts
      <4>. QED
        BY <4>1, <4>2
    <3>3. \A N \in Nat : N + 1 - (n + 1) = N
      BY <3>1
    <3>. QED
      BY <3>1, <3>2, <3>3
  <2>2. CASE st # <<>>
    <3>1. n \in 1..n /\ n + 1 # 1 /\ n # 0
      <4>1. n # 0
        BY <1>1, <2>2, EmptySeq
      <4>. QED
        BY <1>3, <4>1
    <3>2. w = Slot(st[n], ws[n])
      BY <1>1, <2>2 DEF HoleOf
    <3>3. ASSUME NEW N \in Nat, v \in V!Nested[N]
          PROVE  n + 1 <= N /\ w \in V!Nested[N + 1 - (n + 1)]
      <4>. DEFINE k == N + 1 - n
      <4>0. n <= N /\ ws[n] \in V!Nested[N + 1 - n]
        BY <1>1, <3>1, <3>3
      <4>1. n <= N /\ ws[n] \in V!Nested[k] /\ k \in Nat
        BY <1>3, <4>0
      <4>2. Level(st[n], hs[n], ws[n], td[n + 1], MaxDepth - n, 1, table) /\ Expecting(st[n])
        BY <1>1, <2>2, <3>1
      <4>3. k - 1 \in Nat /\ w \in V!Nested[k - 1]
        BY <3>2, <4>1, <4>2, SlotIn
      <4>4. k - 1 > 0
        BY <1>2, <4>3, ArrayParts
      <4>5. N + 1 - (n + 1) = k - 1 /\ n + 1 <= N
        BY <1>3, <4>4
      <4>. QED
        BY <4>3, <4>5
    <3>. QED
      BY <3>1, <3>2, <3>3
  <2>. QED
    BY <2>1, <2>2
<1>9. ASSUME NEW i \in 1..(n + 1)
      PROVE  /\ Level(Plus(st, f)[i], Plus(hs, h)[i], Plus(ws, w)[i], Plus(td, loop)[i + 1],
                      MaxDepth - i, IF i < n + 1 THEN 1 ELSE b, table)
             /\ Plus(ws, w)[i] = IF i = 1 THEN v ELSE Slot(Plus(st, f)[i - 1], Plus(ws, w)[i - 1])
             /\ \A N \in Nat : v \in V!Nested[N] => i <= N /\ Plus(ws, w)[i] \in V!Nested[N + 1 - i]
  <2>1. CASE i \in 1..n
    <3>1. i < n + 1 /\ i + 1 \in 1..(n + 1) /\ (i # 1 => i - 1 \in 1..n)
      BY <1>3, <2>1
    <3>2. /\ Plus(st, f)[i] = st[i] /\ Plus(hs, h)[i] = hs[i] /\ Plus(ws, w)[i] = ws[i]
          /\ Plus(td, loop)[i + 1] = td[i + 1]
          /\ i # 1 => Plus(st, f)[i - 1] = st[i - 1] /\ Plus(ws, w)[i - 1] = ws[i - 1]
      BY <1>4, <1>5, <1>6, <1>7, <2>1, <3>1
    <3>. QED
      BY <1>1, <2>1, <3>1, <3>2
  <2>2. CASE i = n + 1
    <3>1. ~(i < n + 1) /\ i + 1 = n + 2 /\ i - 1 = n /\ (i # 1 => n \in 1..n)
      BY <1>3, <2>2
    <3>2. /\ Plus(st, f)[i] = f /\ Plus(hs, h)[i] = h /\ Plus(ws, w)[i] = w
          /\ Plus(td, loop)[i + 1] = loop
          /\ i # 1 => Plus(st, f)[i - 1] = st[n] /\ Plus(ws, w)[i - 1] = ws[n]
      BY <1>4, <1>5, <1>6, <1>7, <2>2, <3>1
    <3>3. Level(f, h, w, loop, MaxDepth - i, b, table)
      BY <2>2
    <3>. QED
      BY <1>8, <2>2, <3>1, <3>2, <3>3
  <2>. QED
    BY <1>3, <2>1, <2>2
<1>10. LoopIs(Plus(td, loop)[1], <<ValueTask(v)>>, IF Plus(st, f) = <<>> THEN b ELSE 1)
  <2>1. Plus(st, f) # <<>>
    <3>1. Len(Plus(st, f)) # 0
      BY <1>3, <1>4
    <3>. QED
      BY <3>1
  <2>2. 1 \in 1..(n + 1)
    BY <1>3
  <2>. QED
    BY <1>1, <1>7, <2>1, <2>2
<1>11. Len(Plus(td, loop)) = (n + 1) + 1
  BY <1>3, <1>7
<1>. QED
  BY <1>4, <1>5, <1>6, <1>7, <1>9, <1>10, <1>11 DEF Match

\* Nothing is decoded and nothing is written.
LEMMA MatchNothing ==
    ASSUME NEW v \in U, NEW table
    PROVE  Match(v, <<>>, <<>>, <<>>, <<<<ValueTask(v)>>>>, 0, table)
<1>1. ValueTask(v) \in Tasks
  BY DEF ValueTask, Enc!Task, Tasks
<1>2. <<ValueTask(v)>> \in Seq(Tasks)
  BY <1>1
<1>. DEFINE t == ValueTask(v)
<1>. HIDE DEF t
<1>3. LoopIs(<<t>>, <<t>>, 0)
  BY <1>2, LoopAll DEF t
<1>4. /\ <<>> \in Seq(Frames) /\ IsSeq(<<>>) /\ <<>> \in Seq(U) /\ <<<<t>>>> \in Seq(Seq(Tasks))
      /\ Len(<<>>) = 0 /\ Len(<<<<t>>>>) = 0 + 1 /\ <<<<t>>>>[1] = <<t>>
  BY <1>2 DEF IsSeq, t
<1>. QED
  BY <1>3, <1>4 DEF Match, t

\* The innermost level goes on.
LEMMA MatchOn ==
    ASSUME NEW v, NEW st, NEW hs, NEW ws, NEW td, NEW b, NEW table,
           Match(v, st, hs, ws, td, b, table), st # <<>>,
           NEW f, NEW h, NEW loop, NEW c,
           Level(f, h, ws[Len(st)], loop, MaxDepth - Len(st), c, table)
    PROVE  Match(v, Change(st, f), Change(hs, h), ws, Change(td, loop), c, table)
<1>. DEFINE n == Len(st)
<1>1. /\ st \in Seq(Frames) /\ IsSeq(hs) /\ ws \in Seq(U) /\ td \in Seq(Seq(Tasks))
      /\ Len(hs) = n /\ Len(ws) = n /\ Len(td) = n + 1
      /\ LoopIs(td[1], <<ValueTask(v)>>, 1)
      /\ \A i \in 1..n :
          /\ Level(st[i], hs[i], ws[i], td[i + 1], MaxDepth - i,
                   IF i < n THEN 1 ELSE b, table)
          /\ ws[i] = IF i = 1 THEN v ELSE Slot(st[i - 1], ws[i - 1])
          /\ \A N \in Nat : v \in V!Nested[N] => i <= N /\ ws[i] \in V!Nested[N + 1 - i]
  BY DEF Match
<1>2. n \in Nat \ {0} /\ hs # <<>> /\ td # <<>>
  BY MatchTop
<1>3. f \in Frames /\ loop \in Seq(Tasks)
  <2>1. f \in Frames
    BY LevelNumbers
  <2>. QED
    BY <2>1 DEF Level, LoopIs
<1>4. /\ Change(st, f) \in Seq(Frames) /\ Len(Change(st, f)) = n
      /\ \A i \in 1..n : Change(st, f)[i] = IF i = n THEN f ELSE st[i]
  <2>1. st \in Seq(Frames) /\ f \in Frames
    BY <1>1, <1>3
  <2>. QED
    BY <2>1, FramesChange
<1>5. /\ IsSeq(Change(hs, h)) /\ Len(Change(hs, h)) = n
      /\ \A i \in 1..n : Change(hs, h)[i] = IF i = n THEN h ELSE hs[i]
  BY <1>1, <1>2, AnySeqChange
<1>6. /\ Change(td, loop) \in Seq(Seq(Tasks)) /\ Len(Change(td, loop)) = n + 1
      /\ \A i \in 1..(n + 1) : Change(td, loop)[i] = IF i = n + 1 THEN loop ELSE td[i]
  <2>1. td \in Seq(Seq(Tasks)) /\ td # <<>> /\ loop \in Seq(Tasks)
    BY <1>1, <1>2, <1>3
  <2>2. /\ Change(td, loop) \in Seq(Seq(Tasks)) /\ Len(Change(td, loop)) = Len(td)
        /\ \A i \in 1..Len(td) : Change(td, loop)[i] = IF i = Len(td) THEN loop ELSE td[i]
    BY <2>1, SeqChange
  <2>. QED
    BY <1>1, <2>2
<1>7. ASSUME NEW i \in 1..n
      PROVE  /\ Level(Change(st, f)[i], Change(hs, h)[i], ws[i], Change(td, loop)[i + 1],
                      MaxDepth - i, IF i < n THEN 1 ELSE c, table)
             /\ ws[i] = IF i = 1 THEN v ELSE Slot(Change(st, f)[i - 1], ws[i - 1])
  <2>1. CASE i < n
    <3>1. i + 1 \in 1..(n + 1) /\ i # n /\ i + 1 # n + 1 /\ (i # 1 => i - 1 \in 1..n /\ i - 1 # n)
      BY <1>2, <2>1
    <3>2. /\ Change(st, f)[i] = st[i] /\ Change(hs, h)[i] = hs[i]
          /\ Change(td, loop)[i + 1] = td[i + 1]
          /\ i # 1 => Change(st, f)[i - 1] = st[i - 1]
      BY <1>4, <1>5, <1>6, <3>1
    <3>. QED
      BY <1>1, <2>1, <3>2
  <2>2. CASE i = n
    <3>1. ~(i < n) /\ i + 1 \in 1..(n + 1) /\ i + 1 = n + 1
          /\ (i # 1 => i - 1 \in 1..n /\ i - 1 # n)
      BY <1>2, <2>2
    <3>2. /\ Change(st, f)[i] = f /\ Change(hs, h)[i] = h
          /\ Change(td, loop)[i + 1] = loop
          /\ i # 1 => Change(st, f)[i - 1] = st[i - 1]
      BY <1>4, <1>5, <1>6, <2>2, <3>1
    <3>. QED
      BY <1>1, <2>2, <3>1, <3>2
  <2>. QED
    BY <1>2, <2>1, <2>2
<1>8. LoopIs(Change(td, loop)[1], <<ValueTask(v)>>, IF Change(st, f) = <<>> THEN c ELSE 1)
  <2>1. Change(st, f) # <<>>
    <3>1. Len(Change(st, f)) # 0
      BY <1>2, <1>4
    <3>. QED
      BY <3>1
  <2>2. 1 \in 1..(n + 1) /\ 1 # n + 1
    BY <1>2
  <2>. QED
    BY <1>1, <1>6, <2>1, <2>2
<1>. QED
  BY <1>1, <1>4, <1>5, <1>6, <1>7, <1>8 DEF Match

\* The same with the tables of strings grown.
LEMMA MatchMore ==
    ASSUME NEW v, NEW st, NEW hs, NEW ws, NEW td, NEW b, NEW table,
           Match(v, st, hs, ws, td, b, table), NEW n \in Nat, NEW l, StackOK(st, n, l),
           NEW more, \A i \in 1..n : more[i] = table[i]
    PROVE  Match(v, st, hs, ws, td, b, more)
<1>1. ASSUME NEW i \in 1..Len(st)
      PROVE  Level(st[i], hs[i], ws[i], td[i + 1], MaxDepth - i, IF i < Len(st) THEN 1 ELSE b, more)
  <2>1. FrameOK(st[i], n, l)
    BY DEF StackOK
  <2>2. Level(st[i], hs[i], ws[i], td[i + 1], MaxDepth - i, IF i < Len(st) THEN 1 ELSE b, table)
    BY DEF Match
  <2>. QED
    BY <2>1, <2>2, LevelMore
<1>. QED
  BY <1>1 DEF Match

\* Where a value is called for the encoder writes the one that belongs there.
LEMMA MatchTake ==
    ASSUME NEW v \in U, NEW st, NEW hs, NEW ws, NEW td, NEW table,
           Match(v, st, hs, ws, td, 0, table),
           st # <<>> => Expecting(st[Len(st)]) /\ st[Len(st)].kind # "rows"
    PROVE  LET loop == td[Len(td)] x == HoleOf(v, st, ws) IN
           /\ td \in Seq(Seq(Tasks)) /\ td # <<>> /\ loop # <<>> /\ loop[1] = ValueTask(x)
           /\ x \in U
           /\ Match(v, st, hs, ws, Change(td, Tail(loop)), 1, table)
<1>. DEFINE loop == td[Len(td)]
            x == HoleOf(v, st, ws)
            n == Len(st)
<1>0. /\ st \in Seq(Frames) /\ IsSeq(hs) /\ ws \in Seq(U) /\ td \in Seq(Seq(Tasks))
      /\ Len(hs) = n /\ Len(ws) = n /\ Len(td) = n + 1
      /\ LoopIs(td[1], <<ValueTask(v)>>, IF st = <<>> THEN 0 ELSE 1)
  BY DEF Match
<1>1. CASE st = <<>>
  <2>. DEFINE t == ValueTask(v)
              s == <<t>>
  <2>1. n = 0 /\ x = v /\ Len(td) = 1 /\ loop = td[1]
    BY <1>0, <1>1 DEF HoleOf
  <2>. HIDE DEF t
  <2>2. Len(s) \in Nat /\ 0 + 1 <= Len(s) /\ s[0 + 1] = t
    OBVIOUS
  <2>. HIDE DEF s
  <2>3. LoopIs(loop, s, 0)
    BY <1>0, <1>1, <2>1 DEF s, t
  <2>4. loop # <<>> /\ loop[1] = t /\ LoopIs(Tail(loop), s, 0 + 1)
    BY <2>2, <2>3, LoopTail
  <2>5. td # <<>> /\ Tail(loop) \in Seq(Tasks)
    <3>1. Len(td) # 0
      BY <2>1
    <3>2. td # <<>>
      BY <3>1
    <3>3. Tail(loop) \in Seq(Tasks)
      BY <2>4 DEF LoopIs
    <3>. QED
      BY <3>2, <3>3
  <2>6. /\ Change(td, Tail(loop)) \in Seq(Seq(Tasks)) /\ Len(Change(td, Tail(loop))) = 1
        /\ Change(td, Tail(loop))[1] = Tail(loop)
    <3>1. td \in Seq(Seq(Tasks)) /\ td # <<>> /\ Tail(loop) \in Seq(Tasks)
      BY <1>0, <2>5
    <3>2. /\ Change(td, Tail(loop)) \in Seq(Seq(Tasks)) /\ Len(Change(td, Tail(loop))) = Len(td)
          /\ \A i \in 1..Len(td) : Change(td, Tail(loop))[i] = IF i = Len(td) THEN Tail(loop) ELSE td[i]
      <4>. DEFINE r == Tail(loop)
      <4>. HIDE DEF r
      <4>1. td \in Seq(Seq(Tasks)) /\ td # <<>> /\ r \in Seq(Tasks)
        BY <3>1 DEF r
      <4>2. /\ Change(td, r) \in Seq(Seq(Tasks)) /\ Len(Change(td, r)) = Len(td)
            /\ \A i \in 1..Len(td) : Change(td, r)[i] = IF i = Len(td) THEN r ELSE td[i]
        BY ONLY <4>1, SeqChange
      <4>. QED
        BY <4>2 DEF r
    <3>. QED
      BY <2>1, <3>2
  <2>7. Match(v, st, hs, ws, Change(td, Tail(loop)), 1, table)
    <3>1. \A i \in 1..Len(st) : FALSE
      BY <2>1
    <3>2. LoopIs(Change(td, Tail(loop))[1], <<ValueTask(v)>>, IF st = <<>> THEN 1 ELSE 1)
      BY <2>4, <2>6 DEF s, t
    <3>. QED
      BY <1>0, <2>1, <2>6, <3>1, <3>2 DEF Match
  <2>. QED
    BY <1>0, <2>1, <2>4, <2>5, <2>7 DEF t
<1>2. CASE st # <<>>
  <2>1. /\ n \in Nat \ {0} /\ Len(ws) = n /\ td # <<>> /\ ws[n] \in U
        /\ Level(st[n], hs[n], ws[n], loop, MaxDepth - n, 0, table)
    BY <1>2, MatchTop
  <2>2. x = Slot(st[n], ws[n])
    BY <1>2, <2>1 DEF HoleOf
  <2>3. /\ loop # <<>> /\ loop[1] = ValueTask(x)
        /\ Level(st[n], hs[n], ws[n], Tail(loop), MaxDepth - n, 1, table)
    BY <1>2, <2>1, <2>2, LevelTake
  <2>4. x \in U
    BY <1>2, <2>1, <2>2, SlotIn
  <2>5. Match(v, Change(st, st[n]), Change(hs, hs[n]), ws, Change(td, Tail(loop)), 1, table)
    BY <1>2, <2>3, MatchOn
  <2>6. Change(st, st[n]) = st
    BY <1>0, <1>2, ChangeNothing
  <2>7. Change(hs, hs[n]) = hs
    <3>1. PICK S : hs \in Seq(S)
      BY <1>0 DEF IsSeq
    <3>2. hs # <<>>
      BY <1>2, MatchTop
    <3>3. Change(hs, hs[Len(hs)]) = hs
      BY <3>1, <3>2, ChangeNothing
    <3>. QED
      BY <1>0, <3>3
  <2>. QED
    BY <1>0, <2>1, <2>3, <2>4, <2>5, <2>6, <2>7
<1>. QED
  BY <1>1, <1>2

\* A value arrives that is equal to the one that was called for.
LEMMA MatchDeliver ==
    ASSUME NEW v, NEW st, NEW hs, NEW ws, NEW td, Match(v, st, hs, ws, td, 1, hostTable),
           st # <<>> => Expecting(st[Len(st)]), Given(st, hs), root = <<>>,
           NEW x, <<x, HoleOf(v, st, ws)>> \in V!Equal[MaxDepth - Len(st)], Deliver(st, hs, x)
    PROVE  /\ Match(v, stack', arrs', ws, td, IF root' = <<>> THEN 0 ELSE 1, hostTable)
           /\ root' # <<>> => <<root'[1], v>> \in V!Equal[MaxDepth]
<1>1. CASE st = <<>>
  <2>1. stack' = <<>> /\ arrs' = <<>> /\ root' = <<x>>
    BY <1>1 DEF Deliver
  <2>2. root' # <<>> /\ root'[1] = x
    BY <2>1
  <2>3. MaxDepth - Len(st) = MaxDepth /\ HoleOf(v, st, ws) = v
    BY <1>1, DecoderAssumption DEF HoleOf
  <2>4. IsSeq(<<>>) /\ Len(<<>>) = Len(st)
    BY <1>1 DEF IsSeq
  <2>5. Match(v, stack', arrs', ws, td, 1, hostTable)
    BY <1>1, <2>1, <2>4 DEF Match
  <2>. QED
    BY <2>2, <2>3, <2>5
<1>2. CASE st # <<>>
  <2>. DEFINE n == Len(st)
              f == st[n]
              h == hs[n]
              w == ws[n]
  <2>1. /\ n \in Nat \ {0} /\ Len(hs) = n /\ Len(ws) = n
        /\ Level(f, h, w, td[Len(td)], MaxDepth - n, 1, hostTable)
    BY <1>2, MatchTop
  <2>2. HoleOf(v, st, ws) = Slot(f, w)
    BY <1>2, <2>1 DEF HoleOf
  <2>3. Holds(f, h)
    BY <1>2, <2>1, GivenTop
  <2>4. Level(Filled(f), Stored(f, h, x), w, td[Len(td)], MaxDepth - n, 0, hostTable)
    BY <1>2, <2>1, <2>2, <2>3, LevelFill
  <2>5. Match(v, Change(st, Filled(f)), Change(hs, Stored(f, h, x)), ws,
              Change(td, td[Len(td)]), 0, hostTable)
    BY <1>2, <2>4, MatchOn
  <2>6. Change(td, td[Len(td)]) = td
    <3>1. td \in Seq(Seq(Tasks)) /\ td # <<>>
      BY <1>2, MatchTop DEF Match
    <3>. QED
      BY <3>1, ChangeNothing
  <2>7. /\ stack' = Change(st, Filled(f)) /\ arrs' = Change(hs, Stored(f, h, x))
        /\ root' = root
    BY <1>2, <2>1 DEF Deliver, Change
  <2>. QED
    BY <2>5, <2>6, <2>7
<1>. QED
  BY <1>1, <1>2

\* An array is complete, and arrives.
LEMMA MatchLeave ==
    ASSUME NEW v, NEW st, NEW hs, NEW ws, NEW td, Match(v, st, hs, ws, td, 0, hostTable),
           st # <<>>, Len(st) <= MaxDepth, st[Len(st)].left = 0,
           st[Len(st)].kind \notin {"schema", "template"},
           Lower(st) # <<>> => Expecting(Lower(st)[Len(Lower(st))]), Given(st, hs), root = <<>>,
           Deliver(Lower(st), Lower(hs),
                   <<IF st[Len(st)].kind \in {"hash", "row"} THEN "hash" ELSE "list",
                     hs[Len(hs)].items>>)
    PROVE  /\ td \in Seq(Seq(Tasks)) /\ td # <<>> /\ td[Len(td)] = <<>>
           /\ Match(v, stack', arrs', Lower(ws), Lower(td), IF root' = <<>> THEN 0 ELSE 1, hostTable)
           /\ root' # <<>> => <<root'[1], v>> \in V!Equal[MaxDepth]
<1>. DEFINE n == Len(st)
            x == <<IF st[n].kind \in {"hash", "row"} THEN "hash" ELSE "list", hs[n].items>>
<1>1. /\ n \in Nat \ {0} /\ Len(hs) = n /\ td # <<>>
      /\ ws[n] = HoleOf(v, Lower(st), Lower(ws))
      /\ Level(st[n], hs[n], ws[n], td[Len(td)], MaxDepth - n, 0, hostTable)
      /\ Match(v, Lower(st), Lower(hs), Lower(ws), Lower(td), 1, hostTable)
  BY MatchTop
<1>2. MaxDepth - n \in Nat /\ (MaxDepth - n) + 1 = MaxDepth - (n - 1)
  BY <1>1, DecoderAssumption
<1>3. td[Len(td)] = <<>> /\ <<x, ws[n]>> \in V!Equal[(MaxDepth - n) + 1]
  BY <1>1, <1>2, LevelEnd
<1>4. Given(Lower(st), Lower(hs))
  BY GivenTop
<1>5. Len(Lower(st)) = n - 1
  <2>1. st \in Seq(Frames)
    BY DEF Match
  <2>. QED
    BY <2>1, SeqTop
<1>6. <<x, HoleOf(v, Lower(st), Lower(ws))>> \in V!Equal[MaxDepth - Len(Lower(st))]
  BY <1>1, <1>2, <1>3, <1>5
<1>7. Deliver(Lower(st), Lower(hs), x)
  BY <1>1
<1>. HIDE DEF x
<1>8. /\ Match(v, stack', arrs', Lower(ws), Lower(td), IF root' = <<>> THEN 0 ELSE 1, hostTable)
      /\ root' # <<>> => <<root'[1], v>> \in V!Equal[MaxDepth]
  BY <1>1, <1>4, <1>6, <1>7, MatchDeliver
<1>9. td \in Seq(Seq(Tasks))
  BY DEF Match
<1>. QED
  BY <1>1, <1>3, <1>8, <1>9

\* An array is entered where one was called for.
LEMMA MatchEnter ==
    ASSUME NEW v, NEW st, NEW hs, NEW ws, NEW td, NEW table, Match(v, st, hs, ws, td, 1, table),
           st # <<>> => Expecting(st[Len(st)]),
           NEW w, w = HoleOf(v, st, ws), w \in U, V!IsArray(w), NEW f \in Frames,
           f.kind \in {"packed", "hash", "longs", "template", "schema"},
           FormOfFrame(f) = FormOf(w), f.count = Len(w[2]), f.left = f.count, f.keys = <<>>,
           f.kind = "schema" => f.cols = Len(w[2][1][2])
    PROVE  Match(v, Plus(st, f), Plus(hs, EmptyArray), Plus(ws, w),
                 Plus(td, PartsOf(FormOf(w), w)), 0, table)
<1>1. Level(f, EmptyArray, w, PartsOf(FormOf(w), w), MaxDepth - (Len(st) + 1), 0, table)
  BY LevelNew
<1>. QED
  BY <1>1, MatchPlus

\* A row is entered.
LEMMA MatchRow ==
    ASSUME NEW v, NEW st, NEW hs, NEW ws, NEW td, NEW table, Match(v, st, hs, ws, td, 0, table),
           st # <<>>, st[Len(st)].kind = "rows", st[Len(st)].left > 0
    PROVE  LET f == st[Len(st)] w == Slot(f, ws[Len(st)]) loop == td[Len(td)] IN
           /\ td \in Seq(Seq(Tasks)) /\ td # <<>> /\ loop # <<>> /\ loop[1] = RowTask(w)
           /\ w \in U /\ w[1] = "hash" /\ w = HoleOf(v, st, ws)
           /\ Match(v, Plus(st, Frame("row", f.cols, f.keys, f.cols)), Plus(hs, EmptyArray),
                    Plus(ws, w), Plus(Change(td, Tail(loop)), PartsOf("row", w)), 0, table)
<1>. DEFINE n == Len(st)
            f == st[n]
            w == Slot(f, ws[n])
            loop == td[Len(td)]
            e == Frame("row", f.cols, f.keys, f.cols)
<1>1. /\ n \in Nat \ {0} /\ Len(ws) = n /\ td # <<>> /\ hs # <<>> /\ Len(hs) = n
      /\ Level(f, hs[n], ws[n], loop, MaxDepth - n, 0, table)
  BY MatchTop
<1>2. /\ loop # <<>> /\ loop[1] = RowTask(w) /\ w \in U /\ w[1] = "hash"
      /\ Level(f, hs[n], ws[n], Tail(loop), MaxDepth - n, 1, table)
      /\ Level(e, EmptyArray, w, PartsOf("row", w), MaxDepth - (n + 1), 0, table)
  <2>1. f.kind = "rows" /\ f.left > 0
    OBVIOUS
  <2>. HIDE DEF f, w, loop
  <2>2. /\ loop # <<>> /\ loop[1] = RowTask(Slot(f, ws[n])) /\ Slot(f, ws[n]) \in U
        /\ Slot(f, ws[n])[1] = "hash"
        /\ Level(f, hs[n], ws[n], Tail(loop), MaxDepth - n, 1, table)
        /\ \A d2 : Level(Frame("row", f.cols, f.keys, f.cols), EmptyArray, Slot(f, ws[n]),
                          PartsOf("row", Slot(f, ws[n])), d2, 0, table)
    BY <1>1, <2>1, LevelRow
  <2>. QED
    BY <2>2 DEF w
<1>3. w = HoleOf(v, st, ws)
  BY <1>1 DEF HoleOf
<1>4. st \in Seq(Frames) /\ IsSeq(hs) /\ td \in Seq(Seq(Tasks))
  BY DEF Match
<1>5. Change(st, f) = st /\ Change(hs, hs[n]) = hs
  <2>1. PICK S : hs \in Seq(S)
    BY <1>4 DEF IsSeq
  <2>2. Change(hs, hs[Len(hs)]) = hs
    BY <1>1, <2>1, ChangeNothing
  <2>. QED
    BY <1>1, <1>4, <2>2, ChangeNothing
<1>6. Match(v, st, hs, ws, Change(td, Tail(loop)), 1, table)
  <2>1. Match(v, Change(st, f), Change(hs, hs[n]), ws, Change(td, Tail(loop)), 1, table)
    BY <1>2, MatchOn
  <2>. QED
    BY <1>5, <2>1
<1>7. Expecting(f)
  BY DEF Expecting
<1>8. Match(v, Plus(st, e), Plus(hs, EmptyArray), Plus(ws, w),
            Plus(Change(td, Tail(loop)), PartsOf("row", w)), 0, table)
  BY <1>2, <1>3, <1>6, <1>7, MatchPlus
<1>. QED
  BY <1>1, <1>2, <1>3, <1>4, <1>8

\* A key is read, that of the table is the one that was written.
LEMMA MatchKey ==
    ASSUME NEW v, NEW st, NEW hs, NEW ws, NEW td, NEW table, Match(v, st, hs, ws, td, 0, table),
           st # <<>>, KeyWanted(st[Len(st)])
    PROVE  LET f == st[Len(st)] x == KeyTo(f, ws[Len(st)]) loop == td[Len(td)] IN
           /\ td \in Seq(Seq(Tasks)) /\ td # <<>> /\ loop # <<>> /\ loop[1] = KeyTask(x)
           /\ x \in V!Keys
           /\ \A k \in Keys : KeyIn(k, table) = x =>
                 Match(v, Change(st, [f EXCEPT !.keys = Append(@, k)]), hs, ws,
                       Change(td, Tail(loop)), 0, table)
<1>. DEFINE n == Len(st)
            f == st[n]
            x == KeyTo(f, ws[n])
            loop == td[Len(td)]
<1>1. /\ n \in Nat \ {0} /\ Len(ws) = n /\ td # <<>> /\ hs # <<>> /\ Len(hs) = n
      /\ Level(f, hs[n], ws[n], loop, MaxDepth - n, 0, table)
  BY MatchTop
<1>2. /\ loop # <<>> /\ loop[1] = KeyTask(x) /\ x \in V!Keys
      /\ \A k \in Keys : KeyIn(k, table) = x =>
             Level([f EXCEPT !.keys = Append(@, k)], hs[n], ws[n], Tail(loop), MaxDepth - n, 0, table)
  BY <1>1, LevelKey
<1>4. IsSeq(hs) /\ td \in Seq(Seq(Tasks))
  BY DEF Match
<1>5. Change(hs, hs[n]) = hs
  <2>1. PICK S : hs \in Seq(S)
    BY <1>4 DEF IsSeq
  <2>2. Change(hs, hs[Len(hs)]) = hs
    BY <1>1, <2>1, ChangeNothing
  <2>. QED
    BY <1>1, <2>2
<1>6. ASSUME NEW k \in Keys, KeyIn(k, table) = x
      PROVE  Match(v, Change(st, [f EXCEPT !.keys = Append(@, k)]), hs, ws,
                   Change(td, Tail(loop)), 0, table)
  <2>. DEFINE e == [f EXCEPT !.keys = Append(@, k)]
  <2>. HIDE DEF e
  <2>1. Level(e, hs[n], ws[n], Tail(loop), MaxDepth - n, 0, table)
    BY <1>2, <1>6 DEF e
  <2>2. Match(v, Change(st, e), Change(hs, hs[n]), ws, Change(td, Tail(loop)), 0, table)
    BY <2>1, MatchOn
  <2>. QED
    BY <1>5, <2>2 DEF e
<1>. QED
  BY <1>1, <1>2, <1>4, <1>6

\* The key table is complete.
LEMMA MatchOpenRows ==
    ASSUME NEW v, NEW st, NEW hs, NEW ws, NEW td, NEW table, Match(v, st, hs, ws, td, 0, table),
           st # <<>>, st[Len(st)].kind = "schema", Len(st[Len(st)].keys) = st[Len(st)].cols
    PROVE  Match(v, Change(st, [st[Len(st)] EXCEPT !.kind = "rows"]), hs, ws, td, 0, table)
<1>. DEFINE n == Len(st)
            e == [st[n] EXCEPT !.kind = "rows"]
<1>1. /\ Len(hs) = n /\ td # <<>> /\ hs # <<>>
      /\ Level(st[n], hs[n], ws[n], td[Len(td)], MaxDepth - n, 0, table)
  BY MatchTop
<1>2. IsSeq(hs) /\ td \in Seq(Seq(Tasks))
  BY DEF Match
<1>3. Change(hs, hs[n]) = hs /\ Change(td, td[Len(td)]) = td
  <2>1. PICK S : hs \in Seq(S)
    BY <1>2 DEF IsSeq
  <2>2. Change(hs, hs[Len(hs)]) = hs
    BY <1>1, <2>1, ChangeNothing
  <2>3. Change(td, td[Len(td)]) = td
    BY <1>1, <1>2, ChangeNothing
  <2>. QED
    BY <1>1, <2>2, <2>3
<1>4. Level(e, hs[n], ws[n], td[Len(td)], MaxDepth - n, 0, table)
  BY <1>1, LevelOpenRows
<1>. HIDE DEF e
<1>5. Match(v, Change(st, e), Change(hs, hs[n]), ws, Change(td, td[Len(td)]), 0, table)
  BY <1>4, MatchOn
<1>. QED
  BY <1>3, <1>5 DEF e

\* The next integer of a run of them.
LEMMA MatchLong ==
    ASSUME NEW v, NEW st, NEW hs, NEW ws, NEW td, NEW table, Match(v, st, hs, ws, td, 0, table),
           st # <<>>, st[Len(st)].kind = "longs", st[Len(st)].left > 0, Len(st) <= MaxDepth
    PROVE  LET f == st[Len(st)] h == hs[Len(st)] loop == td[Len(td)] IN
           /\ td \in Seq(Seq(Tasks)) /\ td # <<>> /\ loop # <<>>
           /\ \E x \in {"int"} \X Int :
                 /\ loop[1] = LongTask(x)
                 /\ Match(v, Change(st, [f EXCEPT !.left = @ - 1]),
                          Change(hs, [h EXCEPT !.items = Append(@, x)]), ws,
                          Change(td, Tail(loop)), 0, table)
<1>. DEFINE n == Len(st)
            f == st[n]
            h == hs[n]
            loop == td[Len(td)]
            x == ws[n][2][f.count - f.left + 1]
            e == [f EXCEPT !.left = @ - 1]
            a == [h EXCEPT !.items = Append(@, x)]
<1>1. /\ n \in Nat \ {0} /\ td # <<>>
      /\ Level(f, h, ws[n], loop, MaxDepth - n, 0, table)
  BY MatchTop
<1>2. MaxDepth - n \in Nat
  BY <1>1, DecoderAssumption
<1>3. /\ loop # <<>> /\ loop[1] = LongTask(x) /\ x \in {"int"} \X Int
      /\ Level(e, a, ws[n], Tail(loop), MaxDepth - n, 0, table)
  BY <1>1, <1>2, LevelLong
<1>. HIDE DEF e, a
<1>4. Match(v, Change(st, e), Change(hs, a), ws, Change(td, Tail(loop)), 0, table)
  BY <1>3, MatchOn
<1>5. td \in Seq(Seq(Tasks))
  BY DEF Match
<1>. QED
  BY <1>1, <1>3, <1>4, <1>5 DEF e, a

\* One more copy of the template.
LEMMA MatchCopy ==
    ASSUME NEW v, NEW st, NEW hs, NEW ws, NEW td, NEW table, Match(v, st, hs, ws, td, 0, table),
           st # <<>>, st[Len(st)].kind = "copies", st[Len(st)].left > 0, Len(st) <= MaxDepth
    PROVE  LET f == st[Len(st)] h == hs[Len(st)] IN
           Match(v, Change(st, [f EXCEPT !.left = @ - 1]),
                 Change(hs, [h EXCEPT !.items = Append(@, h.template[1])]), ws, td, 0, table)
<1>. DEFINE n == Len(st)
            f == st[n]
            h == hs[n]
            loop == td[Len(td)]
            e == [f EXCEPT !.left = @ - 1]
            a == [h EXCEPT !.items = Append(@, h.template[1])]
<1>1. /\ n \in Nat \ {0} /\ td # <<>>
      /\ Level(f, h, ws[n], loop, MaxDepth - n, 0, table)
  BY MatchTop
<1>2. MaxDepth - n \in Nat
  BY <1>1, DecoderAssumption
<1>3. Level(e, a, ws[n], loop, MaxDepth - n, 0, table)
  BY <1>1, <1>2, LevelCopy
<1>. HIDE DEF e, a
<1>4. Match(v, Change(st, e), Change(hs, a), ws, Change(td, loop), 0, table)
  BY <1>3, MatchOn
<1>5. Change(td, loop) = td
  <2>1. td \in Seq(Seq(Tasks))
    BY DEF Match
  <2>. QED
    BY <1>1, <2>1, ChangeNothing
<1>. QED
  BY <1>4, <1>5 DEF e, a
-----------------------------------------------------------------------------
(* Reading what was written.                                               *)

\* A payload that is known to its end.
Known == CursorOK /\ Len(data) = len

\* A decoder that has the whole payload reads the byte that is there.
LEMMA KnownByte ==
    ASSUME Known, NEW at \in Nat \ {0}, at <= len, NEW choices
    PROVE  /\ Peek(at, choices) = {data[at]} /\ data[at] \in Nat
           /\ ReadUvarint(at) = {[err |-> "none", val |-> data[at], bytes |-> <<data[at]>>]}
<1>1. at <= Len(data)
  BY DEF Known
<1>2. data[at] \in Nat
  BY <1>1, ElementOfSeq DEF Known, CursorOK
<1>3. \A S : Peek(at, S) = {data[at]}
  BY <1>1 DEF Peek
<1>4. data[at] # Overlong
  BY <1>2, RoundTripAssumption
<1>. DEFINE x == data[at]
            read(b) == [err |-> IF b = Overlong THEN "VarInt" ELSE "none", val |-> b, bytes |-> <<b>>]
<1>5. ReadUvarint(at) = {read(b) : b \in {x}}
  <2>1. Peek(at, NumBytes) = {x} /\ {x} # {}
    BY <1>3
  <2>. HIDE DEF x
  <2>. QED
    BY <2>1 DEF ReadUvarint
<1>6. read(x) = [err |-> "none", val |-> x, bytes |-> <<x>>]
  BY <1>4
<1>7. {read(b) : b \in {x}} = {read(x)}
  <2>. HIDE DEF x, read
  <2>. QED
    OBVIOUS
<1>. QED
  BY <1>2, <1>3, <1>5, <1>6, <1>7

\* It learns nothing.
LEMMA KnownLearn ==
    ASSUME Known, NEW bytes, pos + Len(bytes) <= len, Learn(pos, bytes)
    PROVE  data' = data
  BY DEF Known, Learn

\* It takes the bytes that are there.
LEMMA KnownTake ==
    ASSUME Known, NEW at \in Nat \ {0}, NEW m \in Nat, at - 1 + m <= len, NEW s \in Take(at, m),
           NEW w \in Seq(Nat), Len(w) = m, \A i \in 1..m : data[at - 1 + i] = w[i]
    PROVE  s = w
<1>. DEFINE known == SubSeq(data, at, Len(data))
<1>1. Len(data) \in Nat /\ data \in Seq(Nat) /\ len \in Nat /\ Len(data) = len
  BY LenProperties DEF Known, CursorOK
<1>2. \A i \in at..Len(data) : data[i] \in Nat
  BY <1>1, ElementOfSeq
<1>3. /\ known \in Seq(Nat) /\ Len(known) = IF at <= Len(data) THEN Len(data) - at + 1 ELSE 0
      /\ \A i \in 1..(Len(data) - at + 1) : known[i] = data[at + i - 1]
  BY <1>1, <1>2, SubSeqProperties
<1>4. m <= Len(known)
  BY <1>1, <1>3
<1>5. s = SubSeq(known, 1, m)
  BY <1>4 DEF Take
<1>. HIDE DEF known
<1>6. \A i \in 1..m : known[i] \in Nat
  <2>1. Len(known) \in Nat
    BY <1>3, LenProperties
  <2>2. \A i \in 1..m : i \in 1..Len(known)
    BY <1>4, <2>1
  <2>3. \A i \in 1..Len(known) : known[i] \in Nat
    BY <1>3, ElementOfSeq
  <2>. QED
    BY <2>2, <2>3
<1>7. /\ s \in Seq(Nat) /\ Len(s) = IF 1 <= m THEN m - 1 + 1 ELSE 0
      /\ \A i \in 1..(m - 1 + 1) : s[i] = known[1 + i - 1]
  BY <1>5, <1>6, SubSeqProperties
<1>8. Len(s) = Len(w)
  BY <1>7
<1>9. ASSUME NEW i \in 1..Len(s) PROVE s[i] = w[i]
  <2>1. i \in 1..m /\ i \in 1..(m - 1 + 1) /\ 1 + i - 1 = i
    BY <1>8, <1>9
  <2>2. i \in 1..(Len(data) - at + 1) /\ at + i - 1 = at - 1 + i
    BY <1>1, <2>1
  <2>. QED
    BY <1>3, <1>7, <2>1, <2>2
<1>. QED
  BY <1>7, <1>8, <1>9, SeqEqual

\* What an encoder's document is refused for.
Refusal(e) ==
    /\ e \in {"Host", "Internal", "MaxDepth", "MaxSize", "BadStrRef"}
    /\ e = "Internal" => hostTable # <<>>
    /\ e = "BadStrRef" => len > MaxU32
    /\ e = "MaxDepth" => value \notin V!Nested[MaxDepth]
    /\ e = "MaxSize" => strdedup

\* A string that is new to both tables.
LEMMA TableGrows ==
    ASSUME NEW dedup \in BOOLEAN, NEW tab, TabOK(tab), NEW strs \in Seq(Seq(Nat)),
           TabAgrees(dedup, tab, strs), NEW s \in Seq(Nat), s # <<>>, ~(dedup /\ s \in DOMAIN tab)
    PROVE  TabAgrees(dedup, TableWith(s, dedup, tab), strs \o <<s>>)
<1>1. CASE ~dedup
  <2>1. TableWith(s, dedup, tab) = tab
    BY <1>1 DEF TableWith
  <2>. QED
    BY <1>1, <2>1 DEF TabAgrees
<1>2. CASE dedup
  <2>. DEFINE new == TableWith(s, dedup, tab)
              more == strs \o <<s>>
              l == Len(strs)
  <2>1. l \in Nat /\ s \notin DOMAIN tab /\ IsFiniteSet(DOMAIN tab) /\ Cardinality(DOMAIN tab) = l
        /\ DOMAIN strs = 1..l
    BY <1>2, LenProperties DEF TabOK, TabAgrees
  <2>2. new = [x \in DOMAIN tab \cup {s} |-> IF x = s THEN l ELSE tab[x]]
    BY <1>2, <2>1 DEF TableWith
  <2>3. DOMAIN new = DOMAIN tab \cup {s} /\ new[s] = l /\ \A x \in DOMAIN tab : new[x] = tab[x]
    BY <2>1, <2>2
  <2>4. Cardinality(DOMAIN tab \cup {s}) = l + 1
    BY <2>1, FS_AddElement
  <2>5. Len(more) = l + 1 /\ more[l + 1] = s /\ \A j \in 1..l : more[j] = strs[j]
    <3>1. <<s>> \in Seq(Seq(Nat)) /\ Len(<<s>>) = 1 /\ <<s>>[1] = s
      OBVIOUS
    <3>2. /\ Len(more) = l + 1
          /\ \A i \in 1..(l + 1) : more[i] = IF i <= l THEN strs[i] ELSE <<s>>[i - l]
      BY <3>1, ConcatProperties
    <3>3. l + 1 \in 1..(l + 1) /\ ~(l + 1 <= l) /\ (l + 1) - l = 1
          /\ \A j \in 1..l : j \in 1..(l + 1) /\ j <= l
      BY <2>1
    <3>. HIDE DEF more, l
    <3>. QED
      BY <3>1, <3>2, <3>3
  <2>6. DOMAIN more = 1..(l + 1)
    <3>1. more \in Seq(Seq(Nat))
      OBVIOUS
    <3>. QED
      BY <2>5, <3>1, LenProperties
  <2>7. ASSUME NEW x \in DOMAIN new PROVE new[x] < l + 1 /\ more[new[x] + 1] = x
    <3>1. CASE x = s
      BY <2>1, <2>3, <2>5, <3>1
    <3>2. CASE x \in DOMAIN tab
      <4>1. new[x] = tab[x] /\ tab[x] \in Nat /\ tab[x] < l /\ strs[tab[x] + 1] = x
        BY <1>2, <2>3, <3>2 DEF TabOK, TabAgrees
      <4>2. tab[x] + 1 \in 1..l /\ tab[x] < l + 1
        BY <2>1, <4>1
      <4>. QED
        BY <2>5, <4>1, <4>2
    <3>. QED
      BY <2>3, <3>1, <3>2
  <2>8. ASSUME NEW j \in DOMAIN more PROVE more[j] \in DOMAIN new /\ new[more[j]] = j - 1
    <3>1. CASE j = l + 1
      BY <2>1, <2>3, <2>5, <3>1
    <3>2. CASE j \in 1..l
      <4>1. more[j] = strs[j] /\ strs[j] \in DOMAIN tab /\ tab[strs[j]] = j - 1
        BY <1>2, <2>1, <2>5, <3>2 DEF TabAgrees
      <4>. QED
        BY <2>3, <4>1
    <3>. QED
      BY <2>1, <2>6, <3>1, <3>2
  <2>9. Cardinality(DOMAIN new) = Len(more)
    BY <2>3, <2>4, <2>5
  <2>. HIDE DEF new, more
  <2>10. TabAgrees(dedup, new, more)
    BY <1>2, <2>5, <2>7, <2>8, <2>9 DEF TabAgrees
  <2>. QED
    BY <2>10 DEF new, more
<1>. QED
  BY <1>1, <1>2

\* The decoder is where the encoder had this table, and what follows goes to this place.
Here(tab, bytes, to) ==
    /\ IInv /\ Known /\ len <= MaxSize
    /\ TabOK(tab) /\ TabAgrees(strdedup, tab, strings)
    /\ Len(strings) <= pos /\ (~strdedup => size_used <= pos)
    /\ bytes \in Seq(Nat) /\ Len(bytes) \in Nat \ {0} /\ Spells(data, pos, bytes, to)

\* What is read is this string, and both tables are as they were when it was written.
StringIs(r, s, tab, to) ==
    /\ r.bytes \in Seq(Nat) /\ At + Len(r.bytes) = to
    /\ r.key \in Keys
    /\ KeyIn(r.key, hostTable \o r.def) = <<"str", s>> /\ Text(r) = s
    /\ TabAgrees(strdedup, TableWith(s, strdedup, tab), strings \o r.def)
    /\ Len(strings \o r.def) <= to
    /\ (~strdedup => size_used + r.charge <= to)
    /\ \A i \in 1..Len(strings) : (hostTable \o r.def)[i] = hostTable[i]

\* What is spelled at the cursor is in front of the end of the document.
LEMMA HereNumbers ==
    ASSUME NEW tab, NEW bytes, NEW to, Here(tab, bytes, to)
    PROVE  /\ pos \in Nat /\ len \in Nat /\ to \in Nat /\ to = pos + Len(bytes) /\ to <= len
           /\ At = pos + 1 /\ At \in Nat \ {0} /\ At <= len /\ At <= to /\ MaxSize \in Nat
           /\ len <= MaxSize
           /\ \A i \in 1..Len(bytes) : data[pos + i] = bytes[i]
           /\ data[At] = bytes[1]
           /\ \A S : Peek(At, S) = {bytes[1]}
           /\ strings \in Seq(Seq(Nat)) /\ hostTable \in Seq(Seq(Nat)) /\ Len(strings) \in Nat
           /\ size_used \in Nat /\ (strings # <<>> => hostTable = strings) /\ strdedup \in BOOLEAN
           /\ Len(strings) <= pos /\ (~strdedup => size_used <= pos)
<1>1. CursorOK /\ TablesOK /\ pos \in Nat /\ len \in Nat /\ At \in Nat \ {0}
  BY AtCursor DEF Here
<1>2. /\ strings \in Seq(Seq(Nat)) /\ hostTable \in Seq(Seq(Nat)) /\ Len(strings) \in Nat
      /\ size_used \in Nat /\ (strings # <<>> => hostTable = strings) /\ strdedup \in BOOLEAN
  BY <1>1, LenProperties DEF TablesOK, Here, IInv
<1>3. Len(bytes) \in Nat \ {0} /\ to = pos + Len(bytes) /\ to <= Len(data) /\ Len(data) = len
      /\ \A i \in 1..Len(bytes) : data[pos + i] = bytes[i]
  BY DEF Here, Spells, Known
<1>4. to \in Nat /\ At <= to /\ At <= len /\ At = pos + 1
  BY <1>1, <1>3 DEF At
<1>5. data[At] = bytes[1]
  <2>1. 1 \in 1..Len(bytes)
    BY <1>3
  <2>. QED
    BY <1>3, <1>4, <2>1
<1>6. \A S : Peek(At, S) = {data[At]}
  BY <1>1, <1>4, KnownByte DEF Here
<1>. QED
  BY <1>1, <1>2, <1>3, <1>4, <1>5, <1>6, DecoderAssumption DEF Here

\* A varint behind the tag.
LEMMA HereNumber ==
    ASSUME NEW tab, NEW bytes, NEW to, Here(tab, bytes, to), Len(bytes) >= 2
    PROVE  /\ ReadUvarint(At + 1) = {[err |-> "none", val |-> bytes[2], bytes |-> <<bytes[2]>>]}
           /\ bytes[2] \in Nat /\ At + 1 <= to
<1>1. /\ pos \in Nat /\ len \in Nat /\ to = pos + Len(bytes) /\ to <= len /\ At = pos + 1
      /\ \A i \in 1..Len(bytes) : data[pos + i] = bytes[i]
  BY HereNumbers
<1>2. 2 \in 1..Len(bytes) /\ Len(bytes) \in Nat
  BY DEF Here
<1>3. At + 1 \in Nat \ {0} /\ At + 1 <= len /\ At + 1 = pos + 2 /\ At + 1 <= to
  BY <1>1, <1>2
<1>4. Known
  BY DEF Here
<1>5. data[At + 1] = bytes[2]
  BY <1>1, <1>2, <1>3
<1>6. /\ data[At + 1] \in Nat
      /\ ReadUvarint(At + 1) = {[err |-> "none", val |-> data[At + 1], bytes |-> <<data[At + 1]>>]}
  BY <1>3, <1>4, KnownByte
<1>. QED
  BY <1>3, <1>5, <1>6

\* The empty string.
LEMMA EmptyHere ==
    ASSUME NEW tab, NEW bytes, NEW to, Here(tab, bytes, to), Len(bytes) = 1,
           bytes[1] = TAG_STR_EMPTY, NEW e, NEW r \in ReadString(At + 1, bytes[1], e)
    PROVE  r.err = "none" /\ StringIs(r, <<>>, tab, to)
<1>2. bytes[1] = TAG_STR_EMPTY /\ Len(bytes) = 1
  OBVIOUS
<1>3. r = EmptyString
  <2>1. ReadString(At + 1, TAG_STR_EMPTY, e) = {EmptyString}
    BY DEF ReadString, TAG_STR_EMPTY, TAG_STR_VARINT, TAG_STR_REF
  <2>. QED
    BY <1>2, <2>1
<1>4. r.err = "none" /\ r.bytes = <<>> /\ r.def = <<>> /\ r.charge = 0
      /\ r.key = [kind |-> "empty", n |-> 0]
  BY <1>3 DEF EmptyString
<1>5. hostTable \o <<>> = hostTable /\ strings \o <<>> = strings
  BY HereNumbers, ConcatEmptySeq
<1>6. r.bytes \in Seq(Nat) /\ Len(r.bytes) = 0
  BY <1>4
<1>7. At + 0 = to /\ Len(strings) <= to /\ (~strdedup => size_used + r.charge <= to)
  <2>1. /\ pos \in Nat /\ to = pos + Len(bytes) /\ At = pos + 1 /\ Len(strings) \in Nat
        /\ size_used \in Nat
        /\ Len(strings) <= pos /\ (~strdedup => size_used <= pos)
    BY HereNumbers
  <2>. QED
    BY <1>2, <1>4, <2>1
<1>8. TableWith(<<>>, strdedup, tab) = tab
  BY DEF TableWith
<1>9. r.key \in Keys /\ KeyIn(r.key, hostTable) = <<"str", <<>>>> /\ Text(r) = <<>>
  BY <1>4 DEF Keys, KeyIn, Text
<1>. QED
  BY <1>4, <1>5, <1>6, <1>7, <1>8, <1>9 DEF StringIs, Here

\* A string that was defined before.
LEMMA RefHere ==
    ASSUME NEW tab, NEW s \in Seq(Nat), s # <<>>, NEW bytes, NEW to, Here(tab, bytes, to),
           Len(bytes) = 2, bytes[1] = TAG_STR_REF, bytes[2] = tab[s], strdedup, s \in DOMAIN tab,
           NEW e, NEW r \in ReadString(At + 1, bytes[1], e)
    PROVE  IF r.err # "none" THEN Refusal(r.err) ELSE StringIs(r, s, tab, to)
<1>. DEFINE id == tab[s]
<1>2. bytes[1] = TAG_STR_REF /\ bytes[2] = id /\ Len(bytes) = 2
  OBVIOUS
<1>3. id \in Nat /\ id < Len(strings) /\ strings[id + 1] = s
  BY DEF Here, TabOK, TabAgrees
<1>. HIDE DEF id
<1>4. ReadUvarint(At + 1) = {[err |-> "none", val |-> id, bytes |-> <<id>>]} /\ At + 1 = to
  <2>1. Len(bytes) >= 2
    BY <1>2
  <2>2. ReadUvarint(At + 1) = {[err |-> "none", val |-> bytes[2], bytes |-> <<bytes[2]>>]}
    BY <2>1, HereNumber
  <2>3. to = pos + Len(bytes) /\ At = pos + 1 /\ pos \in Nat
    BY HereNumbers
  <2>. QED
    BY <1>2, <2>2, <2>3
<1>. DEFINE u == [err |-> "none", val |-> id, bytes |-> <<id>>]
<1>5. r = RefRead(u, e)
  <2>1. TAG_STR_REF # TAG_STR_EMPTY /\ TAG_STR_REF # TAG_STR_VARINT
    BY DEF TAG_STR_REF, TAG_STR_EMPTY, TAG_STR_VARINT
  <2>2. r \in {RefRead(x, e) : x \in ReadUvarint(At + 1)}
    BY <1>2, <2>1 DEF ReadString
  <2>. HIDE DEF u
  <2>. QED
    BY <1>4, <2>2 DEF u
<1>6. u.err = "none" /\ u.val = id /\ u.bytes = <<id>>
  OBVIOUS
<1>. HIDE DEF u
<1>7. CASE id > MaxU32
  <2>1. r.err = "BadStrRef"
    BY <1>5, <1>6, <1>7 DEF RefRead, Refused
  <2>2. len > MaxU32
    <3>1. Len(strings) \in Nat /\ Len(strings) <= pos /\ pos \in Nat /\ len \in Nat
          /\ At <= len /\ At = pos + 1
      BY HereNumbers
    <3>2. MaxU32 \in Nat
      BY DecoderAssumption
    <3>. QED
      BY <1>3, <1>7, <3>1, <3>2
  <2>. QED
    BY <2>1, <2>2 DEF Refusal
<1>8. CASE ~(id > MaxU32)
  <2>1. ~(id >= Len(strings))
    BY <1>3, HereNumbers
  <2>2. CASE size_used + Len(strings[id + 1]) > MaxSize
    <3>1. r.err = "MaxSize"
      BY <1>5, <1>6, <1>8, <2>1, <2>2 DEF RefRead, Refused
    <3>. QED
      BY <3>1 DEF Refusal
  <2>3. CASE ~(size_used + Len(strings[id + 1]) > MaxSize)
    <3>1. r = [err |-> "none", bytes |-> <<id>>, key |-> [kind |-> "id", n |-> id],
               def |-> <<>>, charge |-> Len(strings[id + 1])]
      BY <1>5, <1>6, <1>8, <2>1, <2>3 DEF RefRead
    <3>2. r.err = "none" /\ r.bytes = <<id>> /\ r.key = [kind |-> "id", n |-> id] /\ r.def = <<>>
      BY <3>1
    <3>3. strings # <<>> /\ hostTable = strings
      <4>1. Len(strings) \in Nat /\ Len(strings) > 0
        BY <1>3, HereNumbers
      <4>2. strings # <<>>
        BY <4>1
      <4>. QED
        BY <4>2, HereNumbers
    <3>4. hostTable \o <<>> = hostTable /\ strings \o <<>> = strings
      BY HereNumbers, ConcatEmptySeq
    <3>5. r.bytes \in Seq(Nat) /\ Len(r.bytes) = 1
      BY <1>3, <3>2
    <3>6. TableWith(s, strdedup, tab) = tab
      BY DEF TableWith
    <3>7. r.key \in Keys /\ KeyIn(r.key, hostTable) = <<"str", s>>
      BY <1>3, <3>2, <3>3 DEF Keys, KeyIn
    <3>8. Text(r) = s
      BY <1>3, <3>2, <3>3, <3>4 DEF Text
    <3>9. Len(strings) <= to /\ At + 1 = to
      <4>1. Len(strings) \in Nat /\ Len(strings) <= pos /\ pos \in Nat /\ At = pos + 1
        BY HereNumbers
      <4>. QED
        BY <1>4, <4>1
    <3>. QED
      BY <3>2, <3>4, <3>5, <3>6, <3>7, <3>8, <3>9 DEF StringIs, Here
  <2>. QED
    BY <2>2, <2>3
<1>. QED
  BY <1>7, <1>8

\* A string that is defined here.
LEMMA DefinitionHere ==
    ASSUME NEW tab, NEW s \in Seq(Nat), s # <<>>, NEW bytes, NEW to, Here(tab, bytes, to),
           Len(bytes) = 2 + Len(s), bytes[1] = TAG_STR_VARINT, bytes[2] = Len(s),
           \A i \in 1..Len(s) : bytes[2 + i] = s[i], ~(strdedup /\ s \in DOMAIN tab),
           NEW e, NEW r \in ReadString(At + 1, bytes[1], e)
    PROVE  IF r.err # "none" THEN Refusal(r.err) ELSE StringIs(r, s, tab, to)
<1>. DEFINE l == Len(s)
<1>1. l \in Nat
  BY LenProperties
<1>2. /\ pos \in Nat /\ len \in Nat /\ to = pos + Len(bytes) /\ to <= len /\ At = pos + 1
      /\ \A i \in 1..Len(bytes) : data[pos + i] = bytes[i]
      /\ MaxSize \in Nat /\ len <= MaxSize /\ Len(strings) \in Nat /\ size_used \in Nat
      /\ Len(strings) <= pos /\ (~strdedup => size_used <= pos)
  BY ONLY Here(tab, bytes, to), HereNumbers
<1>3. strings \in Seq(Seq(Nat)) /\ hostTable \in Seq(Seq(Nat)) /\ strdedup \in BOOLEAN
      /\ (strings # <<>> => hostTable = strings)
  BY ONLY Here(tab, bytes, to), HereNumbers
<1>4. Len(bytes) = 2 + l /\ bytes[1] = TAG_STR_VARINT /\ bytes[2] = l
      /\ \A i \in 1..l : bytes[2 + i] = s[i]
  OBVIOUS
<1>. HIDE DEF l
<1>5. ReadUvarint(At + 1) = {[err |-> "none", val |-> l, bytes |-> <<l>>]}
  <2>1. Len(bytes) >= 2
    BY <1>1, <1>4
  <2>2. ReadUvarint(At + 1) = {[err |-> "none", val |-> bytes[2], bytes |-> <<bytes[2]>>]}
    BY <2>1, HereNumber
  <2>. QED
    BY <1>4, <2>2
<1>. DEFINE u == [err |-> "none", val |-> l, bytes |-> <<l>>]
<1>6. u.err = "none" /\ u.val = l /\ u.bytes = <<l>>
  OBVIOUS
<1>. HIDE DEF u
<1>7. r \in DefinitionRead(At + 1, u)
  <2>1. ReadString(At + 1, TAG_STR_VARINT, e) =
            UNION {DefinitionRead(At + 1, x) : x \in ReadUvarint(At + 1)}
    BY DEF ReadString, TAG_STR_EMPTY, TAG_STR_VARINT, TAG_STR_REF
  <2>2. ReadUvarint(At + 1) = {u}
    BY <1>5 DEF u
  <2>. QED
    BY <1>4, <2>1, <2>2
<1>8. ~(l > len - (At + 1))
  BY <1>1, <1>2, <1>4
<1>9. CASE size_used + l > MaxSize
  <2>1. r.err = "MaxSize"
    BY <1>6, <1>7, <1>8, <1>9 DEF DefinitionRead, Refused
  <2>2. strdedup
    BY <1>1, <1>2, <1>4, <1>9
  <2>. QED
    BY <2>1, <2>2 DEF Refusal
<1>10. CASE ~(size_used + l > MaxSize) /\ Len(strings) # Len(hostTable)
  <2>1. r.err = "Internal"
    BY <1>6, <1>7, <1>8, <1>10 DEF DefinitionRead, Refused
  <2>2. hostTable # <<>>
    <3>1. CASE strings = <<>>
      BY <1>10, <3>1
    <3>2. CASE strings # <<>>
      BY <1>3, <1>10, <3>2
    <3>. QED
      BY <3>1, <3>2
  <2>. QED
    BY <2>1, <2>2 DEF Refusal
<1>11. CASE ~(size_used + l > MaxSize) /\ Len(strings) = Len(hostTable)
  <2>1. PICK w \in Take(At + 1 + 1, l) :
            r = [err |-> "none", bytes |-> u.bytes \o w, key |-> [kind |-> "id", n |-> Len(strings)],
                 def |-> <<w>>, charge |-> l]
    BY <1>6, <1>7, <1>8, <1>11 DEF DefinitionRead
  <2>2. w = s
    <3>. DEFINE at == At + 1 + 1
    <3>1. at \in Nat \ {0} /\ at - 1 + l <= len
      BY <1>1, <1>2, <1>4
    <3>2. ASSUME NEW i \in 1..l PROVE data[at - 1 + i] = s[i]
      <4>1. at - 1 + i = pos + (2 + i) /\ 2 + i \in 1..Len(bytes)
        BY <1>1, <1>2, <1>4
      <4>. QED
        BY <1>2, <1>4, <4>1
    <3>3. Known
      BY DEF Here
    <3>4. Len(s) = l
      BY DEF l
    <3>5. w \in Take(at, l)
      OBVIOUS
    <3>. HIDE DEF at
    <3>. QED
      BY ONLY <1>1, <3>1, <3>2, <3>3, <3>4, <3>5, KnownTake, s \in Seq(Nat)
  <2>3. r.err = "none" /\ r.bytes = <<l>> \o s /\ r.key = [kind |-> "id", n |-> Len(strings)]
        /\ r.def = <<s>> /\ r.charge = l
    BY <1>6, <2>1, <2>2
  <2>4. hostTable = strings
    <3>1. CASE strings = <<>>
      <4>1. Len(hostTable) = 0
        BY <1>11, <3>1
      <4>. QED
        BY <1>3, <3>1, <4>1, EmptySeq
    <3>2. CASE strings # <<>>
      BY <1>3, <3>2
    <3>. QED
      BY <3>1, <3>2
  <2>5. /\ strings \o <<s>> \in Seq(Seq(Nat)) /\ Len(strings \o <<s>>) = Len(strings) + 1
        /\ (strings \o <<s>>)[Len(strings) + 1] = s
        /\ \A i \in 1..Len(strings) : (strings \o <<s>>)[i] = strings[i]
    <3>1. <<s>> \in Seq(Seq(Nat)) /\ Len(<<s>>) = 1 /\ <<s>>[1] = s
      OBVIOUS
    <3>. DEFINE c == Len(strings)
    <3>2. /\ strings \o <<s>> \in Seq(Seq(Nat)) /\ Len(strings \o <<s>>) = c + 1
          /\ \A i \in 1..(c + 1) : (strings \o <<s>>)[i] = IF i <= c THEN strings[i] ELSE <<s>>[i - c]
      BY <1>3, <3>1, ConcatProperties
    <3>3. c + 1 \in 1..(c + 1) /\ ~(c + 1 <= c) /\ (c + 1) - c = 1
          /\ \A j \in 1..c : j \in 1..(c + 1) /\ j <= c
      BY <1>2
    <3>. QED
      BY <3>1, <3>2, <3>3
  <2>6. r.bytes \in Seq(Nat) /\ Len(r.bytes) = 1 + l
    <3>1. <<l>> \in Seq(Nat) /\ Len(<<l>>) = 1 /\ Len(s) = l
      BY <1>1 DEF l
    <3>. QED
      BY <2>3, <3>1, ConcatProperties
  <2>7. At + Len(r.bytes) = to
    BY <1>1, <1>2, <1>4, <2>6
  <2>8. r.key \in Keys /\ KeyIn(r.key, hostTable \o r.def) = <<"str", s>> /\ Text(r) = s
    <3>1. r.key.kind = "id" /\ r.key.n = Len(strings) /\ r.key \in Keys
      BY <1>2, <2>3 DEF Keys
    <3>2. (hostTable \o r.def)[r.key.n + 1] = s
      BY <2>3, <2>4, <2>5, <3>1
    <3>. QED
      BY <3>1, <3>2 DEF KeyIn, Text
  <2>9. TabAgrees(strdedup, TableWith(s, strdedup, tab), strings \o r.def)
    <3>1. TabOK(tab) /\ TabAgrees(strdedup, tab, strings)
      BY DEF Here
    <3>2. TabAgrees(strdedup, TableWith(s, strdedup, tab), strings \o <<s>>)
      BY <1>3, <3>1, TableGrows
    <3>. QED
      BY <2>3, <3>2
  <2>10. Len(strings \o r.def) <= to /\ (~strdedup => size_used + r.charge <= to)
    <3>1. Len(strings) + 1 <= to /\ (~strdedup => size_used + l <= to)
      BY <1>1, <1>2, <1>4
    <3>. QED
      BY <2>3, <2>5, <3>1
  <2>. QED
    BY <2>3, <2>4, <2>5, <2>6, <2>7, <2>8, <2>9, <2>10 DEF StringIs
<1>. QED
  BY <1>9, <1>10, <1>11

\* The tag of a string.
LEMMA StringHere ==
    ASSUME NEW tab, NEW s \in Seq(Nat), NEW to, Here(tab, StringToken(s, strdedup, tab), to),
           NEW t, t = StringToken(s, strdedup, tab)[1],
           NEW e, NEW r \in ReadString(At + 1, t, e)
    PROVE  IF r.err # "none" THEN Refusal(r.err) ELSE StringIs(r, s, tab, to)
<1>. DEFINE bytes == StringToken(s, strdedup, tab)
<1>0. Here(tab, bytes, to) /\ r \in ReadString(At + 1, bytes[1], e)
  OBVIOUS
<1>1. CASE s = <<>>
  <2>1. bytes = <<TAG_STR_EMPTY>>
    BY <1>1 DEF StringToken
  <2>2. Len(bytes) = 1 /\ bytes[1] = TAG_STR_EMPTY
    BY <2>1
  <2>. HIDE DEF bytes
  <2>3. r.err = "none" /\ StringIs(r, <<>>, tab, to)
    BY ONLY <1>0, <2>2, EmptyHere
  <2>. QED
    BY <1>1, <2>3
<1>2. CASE s # <<>> /\ strdedup /\ s \in DOMAIN tab
  <2>1. bytes = <<TAG_STR_REF, tab[s]>>
    BY <1>2 DEF StringToken
  <2>2. Len(bytes) = 2 /\ bytes[1] = TAG_STR_REF /\ bytes[2] = tab[s]
    BY <2>1
  <2>. HIDE DEF bytes
  <2>. QED
    BY ONLY <1>0, <1>2, <2>2, RefHere, s \in Seq(Nat)
<1>3. CASE s # <<>> /\ ~(strdedup /\ s \in DOMAIN tab)
  <2>1. bytes = <<TAG_STR_VARINT, Len(s)>> \o s
    BY <1>3 DEF StringToken
  <2>2. Len(bytes) = 2 + Len(s) /\ bytes[1] = TAG_STR_VARINT /\ bytes[2] = Len(s)
        /\ \A i \in 1..Len(s) : bytes[2 + i] = s[i]
    <3>. DEFINE head == <<TAG_STR_VARINT, Len(s)>>
                l == Len(s)
    <3>1. l \in Nat
      BY LenProperties
    <3>2. head \in Seq(Nat) /\ Len(head) = 2 /\ head[1] = TAG_STR_VARINT /\ head[2] = l
      BY <3>1 DEF TAG_STR_VARINT
    <3>. HIDE DEF head
    <3>30. Len(s) = l /\ s \in Seq(Nat)
      OBVIOUS
    <3>. HIDE DEF l
    <3>3. /\ Len(head \o s) = 2 + l
          /\ \A i \in 1..(2 + l) : (head \o s)[i] = IF i <= 2 THEN head[i] ELSE s[i - 2]
      <4>1. Len(head \o s) = Len(head) + Len(s)
            /\ \A i \in 1..(Len(head) + Len(s)) :
                  (head \o s)[i] = IF i <= Len(head) THEN head[i] ELSE s[i - Len(head)]
        BY <3>2, <3>30, ConcatProperties
      <4>. QED
        BY <3>2, <3>30, <4>1
    <3>4. 1 \in 1..(2 + l) /\ 2 \in 1..(2 + l)
          /\ \A i \in 1..l : 2 + i \in 1..(2 + l) /\ ~(2 + i <= 2) /\ (2 + i) - 2 = i
      BY <3>1
    <3>5. bytes = head \o s
      BY <2>1 DEF head
    <3>. HIDE DEF bytes
    <3>. QED
      BY <3>2, <3>3, <3>30, <3>4, <3>5
  <2>. HIDE DEF bytes
  <2>. QED
    BY ONLY <1>0, <1>3, <2>2, DefinitionHere, s \in Seq(Nat)
<1>. QED
  BY <1>1, <1>2, <1>3
-----------------------------------------------------------------------------
(* The decoder at a place of the run: values without parts.                *)

\* A decoder in front of a place of the document, and the run of the encoder at that place.
Place(dedup, v, c, ws, st, hs, b, strs, table, p, used) ==
    /\ c.at = p
    /\ TabAgrees(dedup, c.tab, strs)
    /\ Len(strs) <= p /\ (~dedup => used <= p)
    /\ Match(v, st, hs, ws, c.todo, b, table)

Decoding ==
    /\ IInv /\ HostInv /\ Running
    /\ data \in Seq(Nat) /\ len = Len(data) /\ len <= MaxSize
    /\ value \in U

Paired(g, n, k, ws) ==
    /\ Decoding /\ Written(strdedup, value, data, strtab, g, n) /\ k \in 0..n
    /\ Place(strdedup, value, g[k], ws, stack, arrs, IF root = <<>> THEN 0 ELSE 1,
             strings, hostTable, pos, size_used)

\* The decoder goes on in step with it.
Onward(g, n) ==
    /\ UNCHANGED <<len, data, strdedup, result>>
    /\ \E k2 \in 0..n : \E ws2 :
          Place(strdedup, value, g[k2], ws2, stack', arrs', IF root' = <<>> THEN 0 ELSE 1,
                strings', hostTable', pos', size_used')
    /\ root' # <<>> => <<root'[1], value>> \in V!Equal[MaxDepth]

\* What a decoder at a place of the run knows.
LEMMA PairedKnown ==
    ASSUME NEW g, NEW n, NEW k, NEW ws, Paired(g, n, k, ws)
    PROVE  /\ IInv /\ HostInv /\ Running /\ Known /\ len <= MaxSize /\ value \in U
           /\ strdedup \in BOOLEAN /\ k \in 0..n /\ Written(strdedup, value, data, strtab, g, n)
           /\ TabOK(g[k].tab) /\ g[k].at = pos /\ TabAgrees(strdedup, g[k].tab, strings)
           /\ Len(strings) <= pos /\ (~strdedup => size_used <= pos)
           /\ Match(value, stack, arrs, ws, g[k].todo, IF root = <<>> THEN 0 ELSE 1, hostTable)
           /\ g[k].todo \in Seq(Seq(Tasks)) /\ (root # <<>> => stack = <<>>)
           /\ depth = Len(stack) /\ Len(stack) \in Nat /\ Len(stack) <= MaxDepth /\ MaxDepth \in Nat
<1>1. Known
  BY DEF Paired, Decoding, IInv, Known
<1>2. TabOK(g[k].tab) /\ g[k].todo \in Seq(Seq(Tasks))
  BY DEF Paired, Written, Run, ConfigOK
<1>3. depth = Len(stack) /\ Len(stack) <= MaxDepth
  BY DEF Paired, Decoding, IInv, DepthIsNesting, Running
<1>4. Len(stack) \in Nat /\ MaxDepth \in Nat
  <2>1. stack \in Seq(Frames)
    BY DEF Paired, Decoding, IInv, StackOK
  <2>. QED
    BY <2>1, LenProperties, DecoderAssumption
<1>5. root # <<>> => stack = <<>>
  BY DEF Paired, Decoding, HostInv
<1>6. strdedup \in BOOLEAN
  BY DEF Paired, Decoding, IInv
<1>. QED
  BY <1>1, <1>2, <1>3, <1>4, <1>5, <1>6 DEF Paired, Decoding, Place

\* Where a value is called for the encoder wrote one, and this is how.
LEMMA ValueHere ==
    ASSUME NEW g, NEW n, NEW k, NEW ws, Paired(g, n, k, ws), WantsValue
    PROVE  LET x == HoleOf(value, stack, ws)
               td == Change(g[k].todo, Tail(g[k].todo[Len(g[k].todo)]))
           IN  /\ x \in U /\ k + 1 \in 0..n
               /\ root = <<>> /\ (stack # <<>> => Expecting(Top) /\ Top.kind # "rows")
               /\ td \in Seq(Seq(Tasks)) /\ Match(value, stack, arrs, ws, td, 1, hostTable)
               /\ Here(g[k].tab, ValueToken(x, strdedup, g[k].tab), g[k + 1].at)
               /\ g[k + 1].todo = IF V!IsArray(x) THEN Plus(td, PartsOf(FormOf(x), x)) ELSE td
               /\ g[k + 1].tab = IF x[1] = "str" THEN TableWith(x[2], strdedup, g[k].tab)
                                 ELSE g[k].tab
<1>. DEFINE x == HoleOf(value, stack, ws)
            loop == g[k].todo[Len(g[k].todo)]
            td == Change(g[k].todo, Tail(loop))
<1>1. /\ IInv /\ HostInv /\ Known /\ len <= MaxSize /\ value \in U
      /\ strdedup \in BOOLEAN /\ k \in 0..n /\ Written(strdedup, value, data, strtab, g, n)
      /\ TabOK(g[k].tab) /\ g[k].at = pos /\ TabAgrees(strdedup, g[k].tab, strings)
      /\ Len(strings) <= pos /\ (~strdedup => size_used <= pos)
  BY PairedKnown
<1>2. root = <<>> /\ (stack # <<>> => Expecting(Top) /\ Top.kind # "rows")
  BY PairedKnown DEF WantsValue
<1>3. Match(value, stack, arrs, ws, g[k].todo, 0, hostTable)
  BY <1>2, PairedKnown
<1>4. stack # <<>> => Expecting(stack[Len(stack)]) /\ stack[Len(stack)].kind # "rows"
  BY <1>2 DEF Top
<1>5. /\ g[k].todo \in Seq(Seq(Tasks)) /\ g[k].todo # <<>> /\ loop # <<>>
      /\ loop[1] = ValueTask(x) /\ x \in U
      /\ Match(value, stack, arrs, ws, td, 1, hostTable)
  BY <1>1, <1>3, <1>4, MatchTake
<1>6. ValueTask(x).kind = "value" /\ ValueTask(x).what = x
  BY DEF ValueTask, Enc!Task
<1>. HIDE DEF x
<1>7. ValueTask(x).kind # "row"
  BY <1>6
<1>8. /\ k + 1 \in 0..n
      /\ Token(ValueTask(x), strdedup, g[k].tab) \in Seq(Nat)
      /\ Len(Token(ValueTask(x), strdedup, g[k].tab)) \in Nat \ {0}
      /\ Spells(data, g[k].at, Token(ValueTask(x), strdedup, g[k].tab), g[k + 1].at)
      /\ g[k + 1].tab = TableAfter(ValueTask(x), strdedup, g[k].tab)
      /\ g[k + 1].todo = IF Opens(ValueTask(x)) THEN Plus(td, Parts(ValueTask(x))) ELSE td
  <2>. HIDE DEF loop, td
  <2>1. /\ g[k].todo # <<>> /\ loop = g[k].todo[Len(g[k].todo)] /\ loop # <<>>
        /\ ValueTask(x) = loop[1]
        /\ td = Change(g[k].todo, Tail(loop))
    BY <1>5 DEF loop, td
  <2>. QED
    BY ONLY <1>1, <1>7, <2>1, RunTakes
<1>9. Token(ValueTask(x), strdedup, g[k].tab) = ValueToken(x, strdedup, g[k].tab)
  BY <1>6 DEF Token
<1>10. TableAfter(ValueTask(x), strdedup, g[k].tab)
          = IF x[1] = "str" THEN TableWith(x[2], strdedup, g[k].tab) ELSE g[k].tab
  BY <1>6 DEF TableAfter
<1>11. (Opens(ValueTask(x)) <=> V!IsArray(x)) /\ Parts(ValueTask(x)) = PartsOf(FormOf(x), x)
  BY <1>6 DEF Opens, Parts
<1>12. td \in Seq(Seq(Tasks))
  <2>1. loop \in Seq(Tasks)
    BY <1>5, SeqTop
  <2>2. Tail(loop) \in Seq(Tasks)
    BY <1>5, <2>1
  <2>. HIDE DEF loop
  <2>. QED
    BY <1>5, <2>2, SeqChange
<1>13. Here(g[k].tab, ValueToken(x, strdedup, g[k].tab), g[k + 1].at)
  BY <1>1, <1>8, <1>9 DEF Here
<1>. QED
  BY <1>2, <1>5, <1>8, <1>10, <1>11, <1>12, <1>13 DEF x

\* It arrives, when it is no array.
LEMMA ScalarArrives ==
    ASSUME NEW g, NEW n, NEW k, NEW ws, Paired(g, n, k, ws), WantsValue,
           NEW x, x = HoleOf(value, stack, ws), ~V!IsArray(x), Deliver(stack, arrs, x),
           UNCHANGED <<len, data, strdedup, result>>, pos' = g[k + 1].at,
           TabAgrees(strdedup, g[k + 1].tab, strings'), Len(strings') <= pos',
           ~strdedup => size_used' <= pos', \A i \in 1..Len(strings) : hostTable'[i] = hostTable[i]
    PROVE  Onward(g, n)
<1>. DEFINE td == Change(g[k].todo, Tail(g[k].todo[Len(g[k].todo)]))
            y == HoleOf(value, stack, ws)
<1>1. /\ y \in U /\ k + 1 \in 0..n
      /\ root = <<>> /\ (stack # <<>> => Expecting(Top))
      /\ Match(value, stack, arrs, ws, td, 1, hostTable)
      /\ g[k + 1].todo = IF V!IsArray(y) THEN Plus(td, PartsOf(FormOf(y), y)) ELSE td
  BY ONLY Paired(g, n, k, ws), WantsValue, ValueHere
<1>2. y = x
  OBVIOUS
<1>. HIDE DEF td, y
<1>3. g[k + 1].todo = td
  BY <1>1, <1>2
<1>4. IInv /\ HostInv /\ Len(stack) \in Nat /\ Len(stack) <= MaxDepth /\ MaxDepth \in Nat
  BY ONLY Paired(g, n, k, ws), PairedKnown
<1>5. <<y, y>> \in V!Equal[MaxDepth - Len(stack)]
  <2>1. MaxDepth - Len(stack) \in Nat
    BY <1>4
  <2>2. y \in V!Scalars
    BY <1>1, <1>2, ScalarContent
  <2>. QED
    BY <2>1, <2>2, ScalarNested
<1>6. Given(stack, arrs) /\ (stack # <<>> => Expecting(stack[Len(stack)]))
  BY <1>1, <1>4 DEF HostInv, Top
<1>7. Deliver(stack, arrs, y)
  BY <1>2
<1>8. <<y, HoleOf(value, stack, ws)>> \in V!Equal[MaxDepth - Len(stack)]
  BY <1>5 DEF y
<1>9. /\ Match(value, stack', arrs', ws, td, IF root' = <<>> THEN 0 ELSE 1, hostTable)
      /\ root' # <<>> => <<root'[1], value>> \in V!Equal[MaxDepth]
  BY ONLY <1>1, <1>6, <1>7, <1>8, MatchDeliver
<1>10. StackOK(stack', Len(strings), len) /\ Len(strings) \in Nat
  <2>1. StackOK(stack, Len(strings), len) /\ strings \in Seq(Seq(Nat))
    BY <1>4 DEF IInv, TablesOK
  <2>. QED
    BY <1>6, <1>7, <2>1, DeliverOK, LenProperties
<1>11. Match(value, stack', arrs', ws, td, IF root' = <<>> THEN 0 ELSE 1, hostTable')
  BY <1>9, <1>10, MatchMore
<1>12. Place(strdedup, value, g[k + 1], ws, stack', arrs', IF root' = <<>> THEN 0 ELSE 1,
             strings', hostTable', pos', size_used')
  BY <1>3, <1>11 DEF Place
<1>. QED
  BY <1>1, <1>9, <1>12 DEF Onward

\* The tag of a value tells its kind, and the form of an array.
LEMMA TagTells ==
    ASSUME NEW x \in U, NEW dedup, NEW tab, NEW t, t = ValueToken(x, dedup, tab)[1]
    PROVE  /\ t \in ValueTags
           /\ t = TAG_NULL => x[1] = "null"
           /\ t \in {TAG_FALSE, TAG_TRUE} => x[1] = "bool" /\ x[2] = (t = TAG_TRUE)
           /\ t = TAG_VARINT => x[1] = "int"
           /\ t = TAG_DOUBLE => x[1] = "double"
           /\ t \in StringTags => x[1] = "str"
           /\ t = TAG_ARRAY_PACKED => V!IsArray(x) /\ FormOf(x) = "packed"
           /\ t = TAG_ARRAY_HASH => V!IsArray(x) /\ FormOf(x) = "hash"
           /\ t = TAG_PACKED_LONGS => V!IsArray(x) /\ FormOf(x) = "longs"
           /\ t = TAG_ARRAY_REPEAT => V!IsArray(x) /\ FormOf(x) = "repeat"
           /\ t = TAG_ARRAY_ROWS => V!IsArray(x) /\ FormOf(x) = "rows"
<1>1. x[1] \in {"null", "bool", "int", "str", "double", "list", "hash"}
  BY ScalarContent
<1>2. CASE x[1] = "null"
  <2>1. t = TAG_NULL
    BY <1>2 DEF ValueToken
  <2>. QED
    BY <1>2, <2>1 DEF ValueTags, StringTags, TAG_NULL, TAG_FALSE, TAG_TRUE, TAG_VARINT, TAG_DOUBLE,
        TAG_STR_EMPTY, TAG_STR_VARINT, TAG_STR_REF, TAG_ARRAY_PACKED, TAG_ARRAY_HASH,
        TAG_PACKED_LONGS, TAG_ARRAY_ROWS, TAG_ARRAY_REPEAT
<1>3. CASE x[1] = "bool"
  <2>1. x[2] \in BOOLEAN /\ t = IF x[2] THEN TAG_TRUE ELSE TAG_FALSE
    BY <1>3, ScalarContent DEF ValueToken
  <2>2. CASE x[2] = TRUE
    BY <1>3, <2>1, <2>2 DEF ValueTags, StringTags, TAG_NULL, TAG_FALSE, TAG_TRUE, TAG_VARINT,
       TAG_DOUBLE, TAG_STR_EMPTY, TAG_STR_VARINT, TAG_STR_REF, TAG_ARRAY_PACKED, TAG_ARRAY_HASH,
        TAG_PACKED_LONGS, TAG_ARRAY_ROWS, TAG_ARRAY_REPEAT
  <2>3. CASE x[2] = FALSE
    BY <1>3, <2>1, <2>3 DEF ValueTags, StringTags, TAG_NULL, TAG_FALSE, TAG_TRUE, TAG_VARINT,
       TAG_DOUBLE, TAG_STR_EMPTY, TAG_STR_VARINT, TAG_STR_REF, TAG_ARRAY_PACKED, TAG_ARRAY_HASH,
        TAG_PACKED_LONGS, TAG_ARRAY_ROWS, TAG_ARRAY_REPEAT
  <2>. QED
    BY <2>1, <2>2, <2>3
<1>4. CASE x[1] = "int"
  <2>1. t = TAG_VARINT
    BY <1>4 DEF ValueToken, IntToken
  <2>. QED
    BY <1>4, <2>1 DEF ValueTags, StringTags, TAG_NULL, TAG_FALSE, TAG_TRUE, TAG_VARINT, TAG_DOUBLE,
        TAG_STR_EMPTY, TAG_STR_VARINT, TAG_STR_REF, TAG_ARRAY_PACKED, TAG_ARRAY_HASH,
        TAG_PACKED_LONGS, TAG_ARRAY_ROWS, TAG_ARRAY_REPEAT
<1>5. CASE x[1] = "double"
  <2>1. x[2] \in Seq(Nat) /\ ValueToken(x, dedup, tab) = <<TAG_DOUBLE>> \o x[2]
    BY <1>5, ScalarContent DEF ValueToken
  <2>2. t = TAG_DOUBLE
    <3>1. <<TAG_DOUBLE>> \in Seq(Nat) /\ Len(<<TAG_DOUBLE>>) = 1 /\ <<TAG_DOUBLE>>[1] = TAG_DOUBLE
      BY DEF TAG_DOUBLE
    <3>2. Len(x[2]) \in Nat
      BY <2>1, LenProperties
    <3>. QED
      BY <2>1, <3>1, <3>2, ConcatProperties
  <2>. QED
    BY <1>5, <2>2 DEF ValueTags, StringTags, TAG_NULL, TAG_FALSE, TAG_TRUE, TAG_VARINT, TAG_DOUBLE,
        TAG_STR_EMPTY, TAG_STR_VARINT, TAG_STR_REF, TAG_ARRAY_PACKED, TAG_ARRAY_HASH,
        TAG_PACKED_LONGS, TAG_ARRAY_ROWS, TAG_ARRAY_REPEAT
<1>6. CASE x[1] = "str"
  <2>1. x[2] \in Seq(Nat) /\ ValueToken(x, dedup, tab) = StringToken(x[2], dedup, tab)
    BY <1>6, ScalarContent DEF ValueToken
  <2>2. t \in StringTags
    <3>1. CASE x[2] = <<>>
      BY <2>1, <3>1 DEF StringToken, StringTags
    <3>2. CASE x[2] # <<>> /\ dedup /\ x[2] \in DOMAIN tab
      BY <2>1, <3>2 DEF StringToken, StringTags
    <3>3. CASE x[2] # <<>> /\ ~(dedup /\ x[2] \in DOMAIN tab)
      <4>1. t = (<<TAG_STR_VARINT, Len(x[2])>> \o x[2])[1]
        BY <2>1, <3>3 DEF StringToken
      <4>2. Len(x[2]) \in Nat
        BY <2>1, LenProperties
      <4>3. /\ <<TAG_STR_VARINT, Len(x[2])>> \in Seq(Nat) /\ Len(<<TAG_STR_VARINT, Len(x[2])>>) = 2
            /\ <<TAG_STR_VARINT, Len(x[2])>>[1] = TAG_STR_VARINT
        BY <4>2 DEF TAG_STR_VARINT
      <4>4. t = TAG_STR_VARINT
        BY <2>1, <4>1, <4>2, <4>3, ConcatProperties
      <4>. QED
        BY <4>4 DEF StringTags
    <3>. QED
      BY <3>1, <3>2, <3>3
  <2>. QED
    BY <1>6, <2>2 DEF ValueTags, StringTags, TAG_NULL, TAG_FALSE, TAG_TRUE, TAG_VARINT, TAG_DOUBLE,
        TAG_STR_EMPTY, TAG_STR_VARINT, TAG_STR_REF, TAG_ARRAY_PACKED, TAG_ARRAY_HASH,
        TAG_PACKED_LONGS, TAG_ARRAY_ROWS, TAG_ARRAY_REPEAT
<1>7. CASE x[1] \in {"list", "hash"}
  <2>1. V!IsArray(x) /\ ValueToken(x, dedup, tab) = Header(FormOf(x), x)
    BY <1>7 DEF ValueToken, V!IsArray
  <2>2. /\ FormOf(x) \in {"hash", "longs", "repeat", "rows", "packed"}
        /\ t = IF FormOf(x) = "rows" THEN TAG_ARRAY_ROWS
               ELSE IF FormOf(x) = "hash" THEN TAG_ARRAY_HASH
               ELSE IF FormOf(x) = "longs" THEN TAG_PACKED_LONGS
               ELSE IF FormOf(x) = "repeat" THEN TAG_ARRAY_REPEAT
               ELSE TAG_ARRAY_PACKED
    BY <2>1, HeaderIs
  <2>. QED
    BY <2>1, <2>2 DEF ValueTags, StringTags, TAG_NULL, TAG_FALSE, TAG_TRUE, TAG_VARINT, TAG_DOUBLE,
        TAG_STR_EMPTY, TAG_STR_VARINT, TAG_STR_REF, TAG_ARRAY_PACKED, TAG_ARRAY_HASH,
        TAG_PACKED_LONGS, TAG_ARRAY_ROWS, TAG_ARRAY_REPEAT
<1>. QED
  BY <1>1, <1>2, <1>3, <1>4, <1>5, <1>6, <1>7

\* Reading what is here.
LEMMA ConsumeHere ==
    ASSUME NEW tab, NEW bytes, NEW to, Here(tab, bytes, to), NEW b, pos + Len(b) = to, Consume(b)
    PROVE  /\ pos' = to /\ data' = data /\ Len(strings) <= pos'
           /\ (~strdedup => size_used <= pos') /\ pos <= pos' /\ pos \in Nat /\ pos' \in Nat
<1>1. /\ pos \in Nat /\ to \in Nat /\ pos <= to /\ to <= len /\ Len(strings) \in Nat
      /\ size_used \in Nat
      /\ Len(strings) <= pos /\ (~strdedup => size_used <= pos)
  <2>1. to = pos + Len(bytes) /\ Len(bytes) \in Nat
    BY HereNumbers DEF Here
  <2>. QED
    BY <2>1, HereNumbers
<1>2. pos' = to
  BY DEF Consume
<1>3. data' = data
  BY <1>1, KnownLearn DEF Consume, Here
<1>. QED
  BY <1>1, <1>2, <1>3

\* A value that is no string.
LEMMA PlainArrives ==
    ASSUME NEW g, NEW n, NEW k, NEW ws, Paired(g, n, k, ws), WantsValue,
           NEW x, x = HoleOf(value, stack, ws), ~V!IsArray(x), x[1] # "str",
           NEW b, pos + Len(b) = g[k + 1].at, Scalar(b, x)
    PROVE  Onward(g, n)
<1>. DEFINE y == HoleOf(value, stack, ws)
<1>1. /\ Here(g[k].tab, ValueToken(y, strdedup, g[k].tab), g[k + 1].at)
      /\ g[k + 1].tab = IF y[1] = "str" THEN TableWith(y[2], strdedup, g[k].tab) ELSE g[k].tab
  BY ONLY Paired(g, n, k, ws), WantsValue, ValueHere
<1>2. y = x
  OBVIOUS
<1>. HIDE DEF y
<1>3. g[k + 1].tab = g[k].tab
  BY <1>1, <1>2
<1>4. Consume(b) /\ Deliver(stack, arrs, x) /\ UNCHANGED <<len, strdedup, tables, depth, result>>
  BY DEF Scalar
<1>5. /\ pos' = g[k + 1].at /\ data' = data /\ Len(strings) <= pos'
      /\ (~strdedup => size_used <= pos')
  BY <1>1, <1>4, ConsumeHere
<1>6. TabAgrees(strdedup, g[k + 1].tab, strings)
  BY <1>3, PairedKnown
<1>7. UNCHANGED <<strings, hostTable, size_used>>
  BY <1>4 DEF tables
<1>. QED
  BY <1>4, <1>5, <1>6, <1>7, ScalarArrives

\* What a step of the decoder comes to: it goes on, or refuses the document.
Gives(g, n) == Onward(g, n) \/ \E e : Refusal(e) /\ \E b : Fail(e, b)

\* The tag that is read is that of the value.
LEMMA TagHere ==
    ASSUME NEW g, NEW n, NEW k, NEW ws, Paired(g, n, k, ws), WantsValue,
           NEW x, x = HoleOf(value, stack, ws), NEW t \in Peek(At, TagBytes)
    PROVE  /\ x \in U /\ k + 1 \in 0..n
           /\ Here(g[k].tab, ValueToken(x, strdedup, g[k].tab), g[k + 1].at)
           /\ t = ValueToken(x, strdedup, g[k].tab)[1]
           /\ g[k + 1].tab = IF x[1] = "str" THEN TableWith(x[2], strdedup, g[k].tab) ELSE g[k].tab
<1>. DEFINE y == HoleOf(value, stack, ws)
<1>1. /\ y \in U /\ k + 1 \in 0..n
      /\ Here(g[k].tab, ValueToken(y, strdedup, g[k].tab), g[k + 1].at)
      /\ g[k + 1].tab = IF y[1] = "str" THEN TableWith(y[2], strdedup, g[k].tab) ELSE g[k].tab
  BY ONLY Paired(g, n, k, ws), WantsValue, ValueHere
<1>2. y = x
  OBVIOUS
<1>. HIDE DEF y
<1>3. Peek(At, TagBytes) = {ValueToken(y, strdedup, g[k].tab)[1]}
  BY ONLY <1>1, HereNumbers
<1>. QED
  BY <1>1, <1>2, <1>3

\* A sequence of two is its elements.
LEMMA TwoBytes ==
    ASSUME NEW a \in Nat, NEW b \in Nat
    PROVE  Len(<<a>> \o <<b>>) = 2
<1>1. <<a>> \in Seq(Nat) /\ <<b>> \in Seq(Nat) /\ Len(<<a>>) = 1 /\ Len(<<b>>) = 1
  OBVIOUS
<1>. QED
  BY <1>1, ConcatProperties

\* A null or a boolean arrives (decoder.rs, decode_value).
LEMMA ConstStep ==
    ASSUME NEW g, NEW n, NEW k, NEW ws, Paired(g, n, k, ws), DecodeConst
    PROVE  Onward(g, n)
<1>0. WantsValue
  BY DEF DecodeConst
<1>1. PICK t \in Peek(At, TagBytes) :
          /\ t \in {TAG_NULL, TAG_FALSE, TAG_TRUE}
          /\ Scalar(<<t>>, CASE t = TAG_NULL -> <<"null">>
                             [] t = TAG_FALSE -> <<"bool", FALSE>>
                             [] t = TAG_TRUE -> <<"bool", TRUE>>)
  BY DEF DecodeConst
<1>. DEFINE x == HoleOf(value, stack, ws)
            bytes == ValueToken(x, strdedup, g[k].tab)
<1>2. x \in U /\ Here(g[k].tab, bytes, g[k + 1].at) /\ t = bytes[1]
  BY <1>0, TagHere
<1>3. /\ t = TAG_NULL => x[1] = "null"
      /\ t \in {TAG_FALSE, TAG_TRUE} => x[1] = "bool" /\ x[2] = (t = TAG_TRUE)
  <2>. HIDE DEF x
  <2>. QED
    BY <1>2, TagTells
<1>. HIDE DEF x
<1>4. x = CASE t = TAG_NULL -> <<"null">>
            [] t = TAG_FALSE -> <<"bool", FALSE>>
            [] t = TAG_TRUE -> <<"bool", TRUE>>
  <2>1. TAG_NULL # TAG_FALSE /\ TAG_NULL # TAG_TRUE /\ TAG_FALSE # TAG_TRUE
    BY DEF TAG_NULL, TAG_FALSE, TAG_TRUE
  <2>2. CASE t = TAG_NULL
    <3>1. x = <<"null">>
      BY <1>2, <1>3, <2>2, ScalarContent
    <3>. QED
      BY <2>1, <2>2, <3>1
  <2>3. CASE t = TAG_FALSE
    <3>1. x = <<"bool", x[2]>> /\ x[2] = FALSE
      BY <1>2, <1>3, <2>1, <2>3, ScalarContent
    <3>. QED
      BY <2>1, <2>3, <3>1
  <2>4. CASE t = TAG_TRUE
    <3>1. x = <<"bool", x[2]>> /\ x[2] = TRUE
      BY <1>2, <1>3, <2>1, <2>4, ScalarContent
    <3>. QED
      BY <2>1, <2>4, <3>1
  <2>. QED
    BY <1>1, <2>2, <2>3, <2>4
<1>5. x[1] \in {"null", "bool"} /\ ~V!IsArray(x) /\ x[1] # "str"
  BY <1>1, <1>3 DEF V!IsArray
<1>6. Len(bytes) = 1
  BY <1>5 DEF ValueToken
<1>. HIDE DEF bytes
<1>7. pos + Len(<<t>>) = g[k + 1].at
  BY <1>2, <1>6, HereNumbers
<1>8. Scalar(<<t>>, x)
  BY <1>1, <1>4
<1>. QED
  BY <1>0, <1>5, <1>7, <1>8, PlainArrives DEF x

\* An integer arrives.
LEMMA IntStep ==
    ASSUME NEW g, NEW n, NEW k, NEW ws, Paired(g, n, k, ws), DecodeInt
    PROVE  Onward(g, n)
<1>0. WantsValue
  BY DEF DecodeInt
<1>1. PICK t \in Peek(At, TagBytes), u \in ReadUvarint(At + 1) :
          /\ t = TAG_VARINT
          /\ IF u.err # "none" THEN Fail(u.err, <<t>> \o u.bytes)
             ELSE Scalar(<<t>> \o u.bytes, <<"int", ZigzagDecode(u.val)>>)
  BY DEF DecodeInt
<1>. DEFINE x == HoleOf(value, stack, ws)
            bytes == ValueToken(x, strdedup, g[k].tab)
<1>2. x \in U /\ Here(g[k].tab, bytes, g[k + 1].at) /\ t = bytes[1]
  BY <1>0, TagHere
<1>3. x[1] = "int"
  <2>. HIDE DEF x
  <2>. QED
    BY <1>1, <1>2, TagTells
<1>. HIDE DEF x
<1>4. x[2] \in Int /\ x = <<"int", x[2]>> /\ ~V!IsArray(x)
  BY <1>2, <1>3, ScalarContent DEF V!IsArray
<1>5. bytes = IntToken(x[2])
  BY <1>3 DEF ValueToken
<1>6. Len(bytes) = 2 /\ bytes[2] = ZigzagEncode(x[2])
  BY <1>4, <1>5, IntTokenIs
<1>. HIDE DEF bytes
<1>7. u = [err |-> "none", val |-> bytes[2], bytes |-> <<bytes[2]>>]
  <2>1. Len(bytes) >= 2
    BY <1>6
  <2>2. ReadUvarint(At + 1) = {[err |-> "none", val |-> bytes[2], bytes |-> <<bytes[2]>>]}
    BY ONLY <1>2, <2>1, HereNumber
  <2>. QED
    BY <2>2
<1>8. u.err = "none" /\ u.val = bytes[2] /\ u.bytes = <<bytes[2]>>
  BY <1>7
<1>9. ZigzagDecode(u.val) = x[2]
  BY <1>4, <1>6, <1>8, ZigzagIs
<1>10. pos + Len(<<t>> \o u.bytes) = g[k + 1].at
  <2>1. t \in Nat /\ bytes[2] \in Nat
    <3>1. Len(bytes) >= 2
      BY <1>6
    <3>2. bytes[2] \in Nat
      BY ONLY <1>2, <3>1, HereNumber
    <3>. QED
      BY <1>1, <3>2 DEF TAG_VARINT
  <2>2. Len(<<t>> \o u.bytes) = 2
    BY <1>8, <2>1, TwoBytes
  <2>3. pos \in Nat /\ g[k + 1].at = pos + Len(bytes)
    BY ONLY <1>2, HereNumbers
  <2>. QED
    BY <1>6, <2>2, <2>3
<1>11. Scalar(<<t>> \o u.bytes, x)
  BY <1>1, <1>4, <1>8, <1>9
<1>. QED
  BY <1>0, <1>3, <1>4, <1>10, <1>11, PlainArrives DEF x

\* A double arrives, bit for bit.
LEMMA DoubleStep ==
    ASSUME NEW g, NEW n, NEW k, NEW ws, Paired(g, n, k, ws), DecodeDouble
    PROVE  Onward(g, n)
<1>0. WantsValue
  BY DEF DecodeDouble
<1>1. PICK t \in Peek(At, TagBytes) :
          /\ t = TAG_DOUBLE
          /\ IF len - At < DoubleWidth THEN Fail("Truncated", <<t>>)
             ELSE \E raw \in Take(At + 1, DoubleWidth) : Scalar(<<t>> \o raw, <<"double", raw>>)
  BY DEF DecodeDouble
<1>. DEFINE x == HoleOf(value, stack, ws)
            bytes == ValueToken(x, strdedup, g[k].tab)
<1>2. x \in U /\ Here(g[k].tab, bytes, g[k + 1].at) /\ t = bytes[1]
  BY <1>0, TagHere
<1>3. x[1] = "double"
  <2>. HIDE DEF x
  <2>. QED
    BY <1>1, <1>2, TagTells
<1>. HIDE DEF x
<1>4. /\ x[2] \in Seq(Nat) /\ Len(x[2]) = DoubleWidth /\ x = <<"double", x[2]>> /\ ~V!IsArray(x)
      /\ DoubleWidth \in Nat
  BY <1>2, <1>3, ScalarContent, DecoderAssumption DEF V!IsArray
<1>. DEFINE w == DoubleWidth
            s == x[2]
            head == <<TAG_DOUBLE>>
<1>5. bytes = head \o s
  BY <1>3 DEF ValueToken
<1>. HIDE DEF s
<1>6. Len(bytes) = 1 + w /\ \A i \in 1..w : bytes[1 + i] = s[i]
  <2>1. head \in Seq(Nat) /\ Len(head) = 1 /\ s \in Seq(Nat) /\ Len(s) = w /\ w \in Nat
    BY <1>4 DEF TAG_DOUBLE, s
  <2>. HIDE DEF bytes, head, w
  <2>2. /\ Len(head \o s) = Len(head) + Len(s)
        /\ \A i \in 1..(Len(head) + Len(s)) :
              (head \o s)[i] = IF i <= Len(head) THEN head[i] ELSE s[i - Len(head)]
    BY <2>1, ConcatProperties
  <2>3. \A i \in 1..w : 1 + i \in 1..(1 + w) /\ ~(1 + i <= 1) /\ (1 + i) - 1 = i
    BY <2>1
  <2>. QED
    BY <1>5, <2>1, <2>2, <2>3
<1>. HIDE DEF bytes
<1>7. /\ pos \in Nat /\ len \in Nat /\ g[k + 1].at = pos + Len(bytes) /\ g[k + 1].at <= len
      /\ At = pos + 1
      /\ \A i \in 1..Len(bytes) : data[pos + i] = bytes[i]
  BY <1>2, HereNumbers
<1>8. ~(len - At < w) /\ w \in Nat
  BY <1>4, <1>6, <1>7
<1>9. PICK raw \in Take(At + 1, DoubleWidth) : Scalar(<<t>> \o raw, <<"double", raw>>)
  BY <1>1, <1>8
<1>10. raw = s
  <2>. DEFINE at == At + 1
  <2>1. at \in Nat \ {0} /\ at - 1 + w <= len
    BY <1>6, <1>7, <1>8
  <2>2. ASSUME NEW i \in 1..w PROVE data[at - 1 + i] = s[i]
    <3>1. at - 1 + i = pos + (1 + i) /\ 1 + i \in 1..Len(bytes)
      BY <1>6, <1>7, <1>8
    <3>. QED
      BY <1>6, <1>7, <3>1
  <2>3. Known /\ raw \in Take(at, w)
    BY <1>2 DEF Here
  <2>4. s \in Seq(Nat) /\ Len(s) = w
    BY <1>4 DEF s
  <2>. HIDE DEF at, w
  <2>. QED
    BY ONLY <1>8, <2>1, <2>2, <2>3, <2>4, KnownTake
<1>11. pos + Len(<<t>> \o raw) = g[k + 1].at
  <2>1. t \in Nat
    BY <1>1 DEF TAG_DOUBLE
  <2>2. <<t>> \in Seq(Nat) /\ Len(<<t>>) = 1 /\ s \in Seq(Nat) /\ Len(s) = w
    BY <1>4, <2>1 DEF s
  <2>3. Len(<<t>> \o s) = 1 + w
    BY <2>2, ConcatProperties
  <2>. QED
    BY <1>6, <1>7, <1>8, <1>10, <2>3
<1>12. Scalar(<<t>> \o raw, x)
  BY <1>4, <1>9, <1>10 DEF s
<1>13. x[1] # "str"
  BY <1>3
<1>. QED
  BY <1>0, <1>4, <1>11, <1>12, <1>13, PlainArrives DEF x

\* What was read of a string is behind its tag.
LEMMA BehindTag ==
    ASSUME NEW tab, NEW bytes, NEW to, Here(tab, bytes, to), NEW t \in Nat, NEW b \in Seq(Nat),
           At + Len(b) = to
    PROVE  pos + Len(<<t>> \o b) = to
<1>1. pos \in Nat /\ At = pos + 1
  BY HereNumbers
<1>2. <<t>> \in Seq(Nat) /\ Len(<<t>>) = 1 /\ Len(b) \in Nat
  BY LenProperties
<1>3. Len(<<t>> \o b) = 1 + Len(b)
  BY <1>2, ConcatProperties
<1>. QED
  BY <1>1, <1>2, <1>3

\* A string arrives, or is refused for a limit.
LEMMA StringStep ==
    ASSUME NEW g, NEW n, NEW k, NEW ws, Paired(g, n, k, ws), DecodeString
    PROVE  Gives(g, n)
<1>0. WantsValue
  BY DEF DecodeString
<1>1. PICK t \in Peek(At, TagBytes) :
          /\ t \in StringTags
          /\ \E r \in ReadString(At + 1, t, "UnknownTag") :
                IF r.err # "none" THEN Fail(r.err, <<t>> \o r.bytes)
                ELSE /\ Consume(<<t>> \o r.bytes) /\ Intern(r)
                     /\ Deliver(stack, arrs, <<"str", Text(r)>>)
                     /\ UNCHANGED <<len, strdedup, depth, result>>
  BY DEF DecodeString
<1>2. PICK r \in ReadString(At + 1, t, "UnknownTag") :
                IF r.err # "none" THEN Fail(r.err, <<t>> \o r.bytes)
                ELSE /\ Consume(<<t>> \o r.bytes) /\ Intern(r)
                     /\ Deliver(stack, arrs, <<"str", Text(r)>>)
                     /\ UNCHANGED <<len, strdedup, depth, result>>
  BY <1>1
<1>. DEFINE x == HoleOf(value, stack, ws)
            bytes == ValueToken(x, strdedup, g[k].tab)
            to == g[k + 1].at
<1>3. /\ x \in U /\ Here(g[k].tab, bytes, to) /\ t = bytes[1]
      /\ g[k + 1].tab = IF x[1] = "str" THEN TableWith(x[2], strdedup, g[k].tab) ELSE g[k].tab
  BY <1>0, TagHere
<1>4. x[1] = "str"
  <2>. HIDE DEF x
  <2>. QED
    BY <1>1, <1>3, TagTells
<1>. HIDE DEF x
<1>5. x[2] \in Seq(Nat) /\ x = <<"str", x[2]>> /\ ~V!IsArray(x)
  BY <1>3, <1>4, ScalarContent DEF V!IsArray
<1>6. bytes = StringToken(x[2], strdedup, g[k].tab)
  BY <1>4 DEF ValueToken
<1>. HIDE DEF bytes, to
<1>7. IF r.err # "none" THEN Refusal(r.err) ELSE StringIs(r, x[2], g[k].tab, to)
  <2>1. Here(g[k].tab, StringToken(x[2], strdedup, g[k].tab), to)
        /\ t = StringToken(x[2], strdedup, g[k].tab)[1]
    BY <1>3, <1>6
  <2>. QED
    BY <1>5, <2>1, StringHere
<1>8. CASE r.err # "none"
  BY <1>2, <1>7, <1>8 DEF Gives
<1>9. CASE r.err = "none"
  <2>1. StringIs(r, x[2], g[k].tab, to)
    BY <1>7, <1>9
  <2>2. /\ Consume(<<t>> \o r.bytes) /\ Intern(r)
        /\ Deliver(stack, arrs, <<"str", Text(r)>>)
        /\ UNCHANGED <<len, strdedup, depth, result>>
    BY <1>2, <1>9
  <2>3. t \in Nat
    BY <1>1 DEF StringTags, TAG_STR_EMPTY, TAG_STR_VARINT, TAG_STR_REF
  <2>4. pos + Len(<<t>> \o r.bytes) = to
    BY <1>3, <2>1, <2>3, BehindTag DEF StringIs
  <2>5. pos' = to /\ data' = data
    BY <1>3, <2>2, <2>4, ConsumeHere
  <2>6. Deliver(stack, arrs, x)
    BY <1>5, <2>1, <2>2 DEF StringIs
  <2>7. /\ strings' = strings \o r.def /\ hostTable' = hostTable \o r.def
        /\ size_used' = size_used + r.charge
    BY <2>2 DEF Intern
  <2>8. /\ TabAgrees(strdedup, g[k + 1].tab, strings') /\ Len(strings') <= pos'
        /\ (~strdedup => size_used' <= pos')
        /\ \A i \in 1..Len(strings) : hostTable'[i] = hostTable[i]
    BY <1>3, <1>4, <2>1, <2>5, <2>7 DEF StringIs
  <2>9. Onward(g, n)
    BY <1>0, <1>5, <2>2, <2>5, <2>6, <2>8, ScalarArrives DEF x, to
  <2>. QED
    BY <2>9 DEF Gives
<1>. QED
  BY <1>8, <1>9

\* There is always a tag, and one of the format.
LEMMA NoOtherTag ==
    ASSUME NEW g, NEW n, NEW k, NEW ws, Paired(g, n, k, ws)
    PROVE  ~UnknownTag /\ ~NoTag
<1>. SUFFICES ASSUME UnknownTag \/ NoTag PROVE FALSE
  OBVIOUS
<1>1. WantsValue
  BY DEF UnknownTag, NoTag
<1>. DEFINE x == HoleOf(value, stack, ws)
            bytes == ValueToken(x, strdedup, g[k].tab)
<1>2. x \in U /\ Here(g[k].tab, bytes, g[k + 1].at)
  BY ONLY <1>1, Paired(g, n, k, ws), ValueHere
<1>3. Peek(At, TagBytes) = {bytes[1]}
  BY <1>2, HereNumbers
<1>4. bytes[1] \in ValueTags
  <2>. HIDE DEF x
  <2>. QED
    BY <1>2, TagTells
<1>. QED
  BY <1>3, <1>4 DEF UnknownTag, NoTag
-----------------------------------------------------------------------------
(* Arrays: entering.                                                       *)

\* An array that a decoder of max_depth arrays has no level for is in a value that is
\* deeper than max_depth.
LEMMA TooDeep ==
    ASSUME NEW v, NEW st, NEW hs, NEW ws, NEW td, NEW b, NEW table,
           Match(v, st, hs, ws, td, b, table), st # <<>> => Expecting(st[Len(st)]),
           V!IsArray(HoleOf(v, st, ws)), Len(st) + 1 > MaxDepth
    PROVE  v \notin V!Nested[MaxDepth]
<1>. SUFFICES ASSUME v \in V!Nested[MaxDepth] PROVE FALSE
  OBVIOUS
<1>1. MaxDepth \in Nat \ {0}
  BY DecoderAssumption
<1>2. CASE st = <<>>
  <2>1. Len(st) = 0
    BY <1>2
  <2>. QED
    BY <1>1, <2>1
<1>3. CASE st # <<>>
  <2>. DEFINE i == Len(st)
  <2>1. i \in Nat \ {0} /\ Level(st[i], hs[i], ws[i], td[Len(td)], MaxDepth - i, b, table)
    BY <1>3, MatchTop
  <2>2. i <= MaxDepth /\ ws[i] \in V!Nested[MaxDepth + 1 - i]
    <3>1. i \in 1..Len(st)
      BY <2>1
    <3>. QED
      BY <1>1, <3>1 DEF Match
  <2>3. MaxDepth + 1 - i = 1
    BY <1>1, <2>1, <2>2
  <2>4. ws[i] \in V!Nested[1] /\ 1 \in Nat /\ 1 - 1 = 0
    BY <2>2, <2>3
  <2>5. Slot(st[i], ws[i]) \in V!Nested[1 - 1]
    BY <1>3, <2>1, <2>4, SlotIn
  <2>6. Slot(st[i], ws[i]) \in V!Scalars
    BY <2>4, <2>5, NestedLevels
  <2>7. Len(ws) = Len(st)
    BY DEF Match
  <2>. QED
    BY <1>3, <2>6, <2>7, ScalarKind DEF HoleOf
<1>. QED
  BY <1>2, <1>3

\* An array is entered, or there is no level for it.
LEMMA EntersArray ==
    ASSUME NEW g, NEW n, NEW k, NEW ws, Paired(g, n, k, ws), WantsValue,
           NEW x, x = HoleOf(value, stack, ws), V!IsArray(x),
           NEW f \in Frames, f.kind \in {"packed", "hash", "longs", "template", "schema"},
           FormOfFrame(f) = FormOf(x), f.count = Len(x[2]), f.left = f.count, f.keys = <<>>,
           f.kind = "schema" => f.cols = Len(x[2][1][2]),
           NEW b, pos + Len(b) = g[k + 1].at,
           EnterOr(IF depth + 1 > MaxDepth THEN "MaxDepth" ELSE "none", f, b)
    PROVE  Gives(g, n)
<1>. DEFINE td == Change(g[k].todo, Tail(g[k].todo[Len(g[k].todo)]))
            y == HoleOf(value, stack, ws)
<1>1. /\ y \in U /\ k + 1 \in 0..n
      /\ root = <<>> /\ (stack # <<>> => Expecting(Top))
      /\ Match(value, stack, arrs, ws, td, 1, hostTable)
      /\ Here(g[k].tab, ValueToken(y, strdedup, g[k].tab), g[k + 1].at)
      /\ g[k + 1].todo = IF V!IsArray(y) THEN Plus(td, PartsOf(FormOf(y), y)) ELSE td
      /\ g[k + 1].tab = IF y[1] = "str" THEN TableWith(y[2], strdedup, g[k].tab) ELSE g[k].tab
  BY ONLY Paired(g, n, k, ws), WantsValue, ValueHere
<1>2. y = x
  OBVIOUS
<1>3. /\ TabAgrees(strdedup, g[k].tab, strings) /\ depth = Len(stack)
      /\ Len(stack) \in Nat /\ MaxDepth \in Nat
  BY ONLY Paired(g, n, k, ws), PairedKnown
<1>4. stack # <<>> => Expecting(stack[Len(stack)])
  BY <1>1 DEF Top
<1>. HIDE DEF td
<1>5. CASE depth + 1 > MaxDepth
  <2>1. Fail("MaxDepth", b)
    BY <1>5 DEF EnterOr
  <2>2. V!IsArray(HoleOf(value, stack, ws)) /\ Len(stack) + 1 > MaxDepth
    BY <1>3, <1>5
  <2>3. value \notin V!Nested[MaxDepth]
    BY ONLY <1>1, <1>4, <2>2, TooDeep
  <2>4. Refusal("MaxDepth")
    BY <2>3 DEF Refusal
  <2>. QED
    BY <2>1, <2>4 DEF Gives
<1>6. CASE ~(depth + 1 > MaxDepth)
  <2>1. Enter(f, b)
    BY <1>6 DEF EnterOr
  <2>2. /\ Consume(b) /\ stack' = Plus(stack, f) /\ arrs' = Plus(arrs, EmptyArray)
        /\ UNCHANGED <<len, strdedup, root, strings, hostTable, size_used, result>>
    BY <2>1 DEF Enter, Plus, tables
  <2>3. /\ pos' = g[k + 1].at /\ data' = data /\ Len(strings) <= pos'
        /\ (~strdedup => size_used <= pos')
    BY <1>1, <2>2, ConsumeHere
  <2>. HIDE DEF y
  <2>4. y \in U /\ V!IsArray(y) /\ FormOfFrame(f) = FormOf(y) /\ f.count = Len(y[2])
        /\ (f.kind = "schema" => f.cols = Len(y[2][1][2])) /\ y = HoleOf(value, stack, ws)
    BY <1>1, <1>2 DEF y
  <2>5. Match(value, Plus(stack, f), Plus(arrs, EmptyArray), Plus(ws, y),
              Plus(td, PartsOf(FormOf(y), y)), 0, hostTable)
    BY <1>1, <1>4, <2>4, MatchEnter
  <2>6. g[k + 1].todo = Plus(td, PartsOf(FormOf(y), y)) /\ g[k + 1].tab = g[k].tab
    BY <1>1, <2>4 DEF V!IsArray
  <2>7. root' = <<>>
    BY <1>1, <2>2
  <2>8. Place(strdedup, value, g[k + 1], Plus(ws, y), stack', arrs', IF root' = <<>> THEN 0 ELSE 1,
              strings', hostTable', pos', size_used')
    BY <1>3, <2>2, <2>3, <2>5, <2>6, <2>7 DEF Place
  <2>. QED
    BY <1>1, <2>2, <2>3, <2>7, <2>8 DEF Gives, Onward
<1>. QED
  BY <1>5, <1>6

\* An array that is written from here on: its count, and room in the payload for what it
\* consists of.
Fits(x, bytes, to) ==
    LET form == FormOf(x) count == Len(x[2]) cols == Len(x[2][1][2]) IN
    /\ form \in {"hash", "longs", "repeat", "rows", "packed"}
    /\ len \in Nat /\ to \in Nat /\ to <= len
    /\ count \in Nat /\ count <= MaxU32 /\ MaxU32 \in Nat
    /\ Len(bytes) = (IF form = "rows" THEN 3 ELSE 2) /\ bytes[2] = count
    /\ form = "rows" => /\ bytes[3] = cols /\ cols \in Nat \ {0} /\ cols <= MaxU32
                        /\ to + (cols + count * cols) <= len
    /\ form = "hash" => to + 2 * count <= len
    /\ form = "repeat" => to + 1 <= len
    /\ form \in {"packed", "longs"} => to + count <= len

\* Where an array is called for, its header is.
LEMMA ArrayHere ==
    ASSUME NEW g, NEW n, NEW k, NEW ws, Paired(g, n, k, ws), WantsValue,
           NEW x, x = HoleOf(value, stack, ws), V!IsArray(x)
    PROVE  Fits(x, ValueToken(x, strdedup, g[k].tab), g[k + 1].at)
<1>. DEFINE td == Change(g[k].todo, Tail(g[k].todo[Len(g[k].todo)]))
            y == HoleOf(value, stack, ws)
            bytes == ValueToken(y, strdedup, g[k].tab)
<1>1. /\ y \in U /\ k + 1 \in 0..n /\ td \in Seq(Seq(Tasks))
      /\ Here(g[k].tab, bytes, g[k + 1].at)
      /\ g[k + 1].todo = IF V!IsArray(y) THEN Plus(td, PartsOf(FormOf(y), y)) ELSE td
  BY ONLY Paired(g, n, k, ws), WantsValue, ValueHere
<1>2. y = x /\ V!IsArray(y)
  OBVIOUS
<1>. HIDE DEF td, y
<1>3. g[k + 1].todo = Plus(td, PartsOf(FormOf(y), y))
  BY <1>1, <1>2
<1>4. Written(strdedup, value, data, strtab, g, n) /\ strdedup \in BOOLEAN /\ Known
  BY ONLY Paired(g, n, k, ws), PairedKnown
<1>5. Len(data) = len /\ len \in Nat /\ Len(data) \in Nat
  BY <1>4 DEF Known, CursorOK
<1>6. y[1] \in {"list", "hash"} /\ bytes = Header(FormOf(y), y)
  BY <1>2 DEF V!IsArray, ValueToken
<1>. HIDE DEF bytes
<1>7. LET form == FormOf(y) count == Len(y[2]) cols == Len(y[2][1][2]) IN
      /\ form = "rows" => g[k + 1].at + (cols + count * cols) <= Len(data)
      /\ form = "hash" => g[k + 1].at + 2 * count <= Len(data)
      /\ form = "repeat" => g[k + 1].at + 1 <= Len(data)
      /\ form \in {"packed", "longs"} => g[k + 1].at + count <= Len(data)
  BY ONLY <1>1, <1>2, <1>3, <1>4, <1>5, PartsFit
<1>8. Len(y[2]) \in Nat /\ Len(y[2]) <= MaxU32
  BY <1>1, <1>2, ArrayInU
<1>9. LET form == FormOf(y) t == Header(form, y) IN
           /\ form \in {"hash", "longs", "repeat", "rows", "packed"}
           /\ form # "hash" => y[1] = "list" /\ form = Enc!Form(y[2])
           /\ form = "rows" => /\ Len(t) = 3 /\ t[2] = Len(y[2])
                               /\ t[3] = Len(y[2][1][2]) /\ Len(y[2][1][2]) \in Nat \ {0}
           /\ form # "rows" => Len(t) = 2 /\ t[2] = Len(y[2])
  BY <1>1, <1>2, HeaderIs
<1>10. ASSUME FormOf(y) = "rows" PROVE Len(y[2][1][2]) <= MaxU32
  <2>1. y[1] = "list" /\ Enc!Form(y[2]) = "rows"
    BY <1>9, <1>10
  <2>2. Len(y[2]) >= 2 /\ \A i \in 1..Len(y[2]) : y[2][i][1] = "hash"
    BY <1>1, <2>1, FormFacts
  <2>3. 1 \in 1..Len(y[2])
    BY <1>8, <2>2
  <2>4. y[2][1] \in U
    BY <1>1, <1>2, <2>1, <2>3, ArrayInU, ElementOfSeq
  <2>. QED
    BY <2>2, <2>3, <2>4, ArrayInU DEF V!IsArray
<1>11. g[k + 1].at \in Nat /\ g[k + 1].at <= len
  BY <1>1, HereNumbers
<1>12. MaxU32 \in Nat
  BY DecoderAssumption
<1>. QED
  BY <1>1, <1>2, <1>5, <1>6, <1>7, <1>8, <1>9, <1>10, <1>11, <1>12 DEF bytes, Fits

\* The frame of an array.
LEMMA FrameIs ==
    ASSUME NEW kind \in Kinds, NEW count \in Nat, NEW cols \in Nat
    PROVE  LET f == Frame(kind, count, <<>>, cols) IN
           /\ f \in Frames /\ f.kind = kind /\ f.count = count /\ f.left = count
           /\ f.keys = <<>> /\ f.cols = cols
<1>1. <<>> \in Seq(Keys)
  OBVIOUS
<1>. QED
  BY <1>1 DEF Frame, Frames

\* A packed or hash array, or a run of longs, is entered or refused for its depth.
LEMMA CountedStep ==
    ASSUME NEW g, NEW n, NEW k, NEW ws, Paired(g, n, k, ws),
           NEW kind \in {"packed", "hash", "longs"}, NEW tag, NEW minBytes,
           tag = (IF kind = "packed" THEN TAG_ARRAY_PACKED
                  ELSE IF kind = "hash" THEN TAG_ARRAY_HASH ELSE TAG_PACKED_LONGS),
           minBytes = (IF kind = "hash" THEN 2 ELSE 1), BeginCounted(tag, kind, minBytes)
    PROVE  Gives(g, n)
<1>0. WantsValue
  BY DEF BeginCounted
<1>1. PICK t \in Peek(At, TagBytes), u \in ReadUvarint(At + 1) :
          /\ t = tag
          /\ EnterOr(CountError(u, minBytes, len - At - 1), Frame(kind, u.val, <<>>, 0),
                     <<t>> \o u.bytes)
  BY DEF BeginCounted
<1>. DEFINE x == HoleOf(value, stack, ws)
            bytes == ValueToken(x, strdedup, g[k].tab)
            to == g[k + 1].at
            c == Len(x[2])
            f == Frame(kind, u.val, <<>>, 0)
<1>2. x \in U /\ Here(g[k].tab, bytes, to) /\ t = bytes[1]
  BY <1>0, TagHere
<1>3. V!IsArray(x) /\ FormOf(x) = kind
  <2>. HIDE DEF x
  <2>1. /\ t = TAG_ARRAY_PACKED => V!IsArray(x) /\ FormOf(x) = "packed"
        /\ t = TAG_ARRAY_HASH => V!IsArray(x) /\ FormOf(x) = "hash"
        /\ t = TAG_PACKED_LONGS => V!IsArray(x) /\ FormOf(x) = "longs"
    BY <1>2, TagTells
  <2>. QED
    BY <1>1, <2>1
<1>4. /\ len \in Nat /\ to \in Nat /\ to <= len /\ c \in Nat /\ c <= MaxU32 /\ MaxU32 \in Nat
      /\ Len(bytes) = 2 /\ bytes[2] = c
      /\ kind = "hash" => to + 2 * c <= len
      /\ kind # "hash" => to + c <= len
  <2>1. Fits(x, bytes, to)
    BY ONLY Paired(g, n, k, ws), <1>0, <1>3, ArrayHere
  <2>. HIDE DEF x, bytes, to
  <2>. QED
    BY <1>3, <2>1 DEF Fits
<1>. HIDE DEF x, bytes, to
<1>5. /\ pos \in Nat /\ At = pos + 1 /\ to = pos + 2
  <2>1. /\ pos \in Nat /\ At = pos + 1 /\ to = pos + Len(bytes)
    BY <1>2, HereNumbers
  <2>. QED
    BY <1>4, <2>1
<1>6. u.err = "none" /\ u.val = c /\ u.bytes = <<c>>
  <2>1. Len(bytes) >= 2
    BY <1>4
  <2>2. ReadUvarint(At + 1) = {[err |-> "none", val |-> bytes[2], bytes |-> <<bytes[2]>>]}
    BY ONLY <1>2, <2>1, HereNumber
  <2>. QED
    BY <1>4, <2>2
<1>7. c * minBytes <= len - At - 1
  <2>. HIDE DEF c
  <2>1. CASE kind = "hash"
    <3>1. minBytes = 2 /\ to + 2 * c <= len
      BY <1>4, <2>1
    <3>. QED
      BY <1>4, <1>5, <3>1
  <2>2. CASE kind # "hash"
    <3>1. minBytes = 1 /\ to + c <= len
      BY <1>4, <2>2
    <3>. QED
      BY <1>4, <1>5, <3>1
  <2>. QED
    BY <2>1, <2>2
<1>8. ~(c > MaxU32) /\ ~(c * minBytes > len - At - 1)
  <2>1. c * minBytes \in Int /\ len - At - 1 \in Int
    BY <1>4, <1>5
  <2>. HIDE DEF c
  <2>. QED
    BY <1>4, <1>7, <2>1
<1>9. CountError(u, minBytes, len - At - 1) = IF depth + 1 > MaxDepth THEN "MaxDepth" ELSE "none"
  <2>. HIDE DEF c
  <2>. QED
    BY <1>6, <1>8 DEF CountError
<1>10. /\ f \in Frames /\ f.kind = kind /\ f.count = c /\ f.left = c /\ f.keys = <<>>
  <2>1. kind \in Kinds /\ u.val \in Nat /\ 0 \in Nat
    BY <1>4, <1>6 DEF Kinds
  <2>2. /\ f \in Frames /\ f.kind = kind /\ f.count = u.val /\ f.left = u.val /\ f.keys = <<>>
    BY <2>1, FrameIs
  <2>. QED
    BY <1>6, <2>2
<1>11. pos + Len(<<t>> \o u.bytes) = to
  <2>1. t \in Nat
    BY <1>1 DEF TAG_ARRAY_PACKED, TAG_ARRAY_HASH, TAG_PACKED_LONGS
  <2>2. Len(<<t>> \o <<c>>) = 2
    BY <1>4, <2>1, TwoBytes
  <2>. QED
    BY <1>5, <1>6, <2>2
<1>12. EnterOr(IF depth + 1 > MaxDepth THEN "MaxDepth" ELSE "none", f, <<t>> \o u.bytes)
  BY <1>1, <1>9
<1>. HIDE DEF f
<1>13. /\ FormOfFrame(f) = FormOf(x) /\ f.count = Len(x[2]) /\ f.left = f.count
       /\ f.kind \in {"packed", "hash", "longs", "template", "schema"}
       /\ (f.kind = "schema" => f.cols = Len(x[2][1][2]))
  BY <1>3, <1>10 DEF FormOfFrame
<1>. QED
  BY <1>0, <1>3, <1>10, <1>11, <1>12, <1>13, EntersArray DEF x, to

\* A repeat is entered or refused for its depth.
LEMMA RepeatStep ==
    ASSUME NEW g, NEW n, NEW k, NEW ws, Paired(g, n, k, ws), BeginRepeat
    PROVE  Gives(g, n)
<1>0. WantsValue
  BY DEF BeginRepeat
<1>1. PICK t \in Peek(At, TagBytes), u \in ReadUvarint(At + 1) :
          /\ t = TAG_ARRAY_REPEAT
          /\ EnterOr(RepeatError(u, len - At - 1), Frame("template", u.val, <<>>, 0),
                     <<t>> \o u.bytes)
  BY DEF BeginRepeat
<1>. DEFINE x == HoleOf(value, stack, ws)
            bytes == ValueToken(x, strdedup, g[k].tab)
            to == g[k + 1].at
            c == Len(x[2])
            f == Frame("template", u.val, <<>>, 0)
<1>2. x \in U /\ Here(g[k].tab, bytes, to) /\ t = bytes[1]
  BY <1>0, TagHere
<1>3. V!IsArray(x) /\ FormOf(x) = "repeat"
  <2>. HIDE DEF x
  <2>. QED
    BY <1>1, <1>2, TagTells
<1>4. /\ len \in Nat /\ to \in Nat /\ to <= len /\ c \in Nat /\ c <= MaxU32 /\ MaxU32 \in Nat
      /\ Len(bytes) = 2 /\ bytes[2] = c /\ to + 1 <= len
  <2>1. Fits(x, bytes, to)
    BY ONLY Paired(g, n, k, ws), <1>0, <1>3, ArrayHere
  <2>. HIDE DEF x, bytes, to
  <2>. QED
    BY <1>3, <2>1 DEF Fits
<1>. HIDE DEF x, bytes, to
<1>5. /\ pos \in Nat /\ At = pos + 1 /\ to = pos + 2
  <2>1. /\ pos \in Nat /\ At = pos + 1 /\ to = pos + Len(bytes)
    BY <1>2, HereNumbers
  <2>. QED
    BY <1>4, <2>1
<1>6. u.err = "none" /\ u.val = c /\ u.bytes = <<c>>
  <2>1. Len(bytes) >= 2
    BY <1>4
  <2>2. ReadUvarint(At + 1) = {[err |-> "none", val |-> bytes[2], bytes |-> <<bytes[2]>>]}
    BY ONLY <1>2, <2>1, HereNumber
  <2>. QED
    BY <1>4, <2>2
<1>8. ~(c > MaxU32) /\ ~(len - At - 1 < 1)
  <2>. HIDE DEF c
  <2>. QED
    BY <1>4, <1>5
<1>9. RepeatError(u, len - At - 1) = IF depth + 1 > MaxDepth THEN "MaxDepth" ELSE "none"
  <2>. HIDE DEF c
  <2>. QED
    BY <1>6, <1>8 DEF RepeatError
<1>10. /\ f \in Frames /\ f.kind = "template" /\ f.count = c /\ f.left = c /\ f.keys = <<>>
  <2>1. "template" \in Kinds /\ u.val \in Nat /\ 0 \in Nat
    BY <1>4, <1>6 DEF Kinds
  <2>2. /\ f \in Frames /\ f.kind = "template" /\ f.count = u.val /\ f.left = u.val /\ f.keys = <<>>
    BY <2>1, FrameIs
  <2>. QED
    BY <1>6, <2>2
<1>11. pos + Len(<<t>> \o u.bytes) = to
  <2>1. t \in Nat
    BY <1>1 DEF TAG_ARRAY_REPEAT
  <2>2. Len(<<t>> \o <<c>>) = 2
    BY <1>4, <2>1, TwoBytes
  <2>. QED
    BY <1>5, <1>6, <2>2
<1>12. EnterOr(IF depth + 1 > MaxDepth THEN "MaxDepth" ELSE "none", f, <<t>> \o u.bytes)
  BY <1>1, <1>9
<1>. HIDE DEF f
<1>13. /\ FormOfFrame(f) = FormOf(x) /\ f.count = Len(x[2]) /\ f.left = f.count
       /\ f.kind \in {"packed", "hash", "longs", "template", "schema"}
       /\ (f.kind = "schema" => f.cols = Len(x[2][1][2]))
  BY <1>3, <1>10 DEF FormOfFrame
<1>. QED
  BY <1>0, <1>3, <1>10, <1>11, <1>12, <1>13, EntersArray DEF x, to

\* The third byte of a rowset.
LEMMA HereThird ==
    ASSUME NEW tab, NEW bytes, NEW to, Here(tab, bytes, to), Len(bytes) = 3
    PROVE  /\ ReadUvarint(At + 2) = {[err |-> "none", val |-> bytes[3], bytes |-> <<bytes[3]>>]}
           /\ bytes[3] \in Nat
<1>1. /\ pos \in Nat /\ len \in Nat /\ to = pos + Len(bytes) /\ to <= len /\ At = pos + 1
      /\ \A i \in 1..Len(bytes) : data[pos + i] = bytes[i]
  BY HereNumbers
<1>2. At + 2 \in Nat \ {0} /\ At + 2 <= len /\ At + 2 = pos + 3 /\ 3 \in 1..Len(bytes)
  BY <1>1
<1>3. data[At + 2] = bytes[3]
  BY <1>1, <1>2
<1>4. Known
  BY DEF Here
<1>5. /\ data[At + 2] \in Nat
      /\ ReadUvarint(At + 2) = {[err |-> "none", val |-> data[At + 2], bytes |-> <<data[At + 2]>>]}
  BY <1>2, <1>4, KnownByte
<1>. QED
  BY <1>3, <1>5

\* A sequence of three is its elements.
LEMMA ThreeBytes ==
    ASSUME NEW a \in Nat, NEW b \in Nat, NEW c \in Nat
    PROVE  Len(<<a>> \o <<b>> \o <<c>>) = 3
<1>1. <<a>> \in Seq(Nat) /\ <<b>> \in Seq(Nat) /\ Len(<<a>>) = 1 /\ Len(<<b>>) = 1
  OBVIOUS
<1>2. <<c>> \in Seq(Nat) /\ Len(<<c>>) = 1
  OBVIOUS
<1>3. <<a>> \o <<b>> \in Seq(Nat) /\ Len(<<a>> \o <<b>>) = 2
  BY <1>1, ConcatProperties
<1>. QED
  BY <1>2, <1>3, ConcatProperties

\* A rowset has room for its key table and its rows, and more than one.
LEMMA RowsFit ==
    ASSUME NEW c \in Nat \ {0}, NEW r \in Nat, NEW rest \in Int, c + r * c <= rest
    PROVE  ~(c + r * (IF c > 1 THEN c ELSE 1) > rest)
<1>1. (IF c > 1 THEN c ELSE 1) = c
  OBVIOUS
<1>2. r * c \in Nat
  BY Products
<1>. QED
  BY <1>1, <1>2

\* A rowset is entered or refused for its depth.
LEMMA RowsStep ==
    ASSUME NEW g, NEW n, NEW k, NEW ws, Paired(g, n, k, ws), BeginRows
    PROVE  Gives(g, n)
<1>0. WantsValue
  BY DEF BeginRows
<1>1. PICK t \in Peek(At, TagBytes), u \in ReadUvarint(At + 1) :
          /\ t = TAG_ARRAY_ROWS
          /\ \E z \in IF u.err = "none" THEN ReadUvarint(At + 2) ELSE {u} :
                EnterOr(RowsError(u, z, len - At - 2), Frame("schema", u.val, <<>>, z.val),
                        IF u.err = "none" THEN <<t>> \o u.bytes \o z.bytes ELSE <<t>> \o u.bytes)
  BY DEF BeginRows
<1>. DEFINE x == HoleOf(value, stack, ws)
            bytes == ValueToken(x, strdedup, g[k].tab)
            to == g[k + 1].at
            r == Len(x[2])
            c == Len(x[2][1][2])
<1>2. x \in U /\ Here(g[k].tab, bytes, to) /\ t = bytes[1]
  BY <1>0, TagHere
<1>3. V!IsArray(x) /\ FormOf(x) = "rows"
  <2>. HIDE DEF x
  <2>. QED
    BY <1>1, <1>2, TagTells
<1>4. /\ len \in Nat /\ to \in Nat /\ to <= len /\ r \in Nat /\ r <= MaxU32 /\ MaxU32 \in Nat
      /\ Len(bytes) = 3 /\ bytes[2] = r /\ bytes[3] = c /\ c \in Nat \ {0} /\ c <= MaxU32
      /\ to + (c + r * c) <= len
  <2>1. Fits(x, bytes, to)
    BY ONLY Paired(g, n, k, ws), <1>0, <1>3, ArrayHere
  <2>. HIDE DEF x, bytes, to
  <2>. QED
    BY <1>3, <2>1 DEF Fits
<1>. HIDE DEF x, bytes, to
<1>5. /\ pos \in Nat /\ At = pos + 1 /\ to = pos + 3
  <2>1. /\ pos \in Nat /\ At = pos + 1 /\ to = pos + Len(bytes)
    BY <1>2, HereNumbers
  <2>. QED
    BY <1>4, <2>1
<1>6. u.err = "none" /\ u.val = r /\ u.bytes = <<r>>
  <2>1. Len(bytes) >= 2
    BY <1>4
  <2>2. ReadUvarint(At + 1) = {[err |-> "none", val |-> bytes[2], bytes |-> <<bytes[2]>>]}
    BY ONLY <1>2, <2>1, HereNumber
  <2>. QED
    BY <1>4, <2>2
<1>7. PICK z \in ReadUvarint(At + 2) :
          EnterOr(RowsError(u, z, len - At - 2), Frame("schema", u.val, <<>>, z.val),
                  <<t>> \o u.bytes \o z.bytes)
  BY <1>1, <1>6
<1>. DEFINE f == Frame("schema", u.val, <<>>, z.val)
<1>8. z.err = "none" /\ z.val = c /\ z.bytes = <<c>>
  <2>1. Len(bytes) = 3
    BY <1>4
  <2>2. ReadUvarint(At + 2) = {[err |-> "none", val |-> bytes[3], bytes |-> <<bytes[3]>>]}
    BY ONLY <1>2, <2>1, HereThird
  <2>3. z = [err |-> "none", val |-> bytes[3], bytes |-> <<bytes[3]>>]
    BY <1>7, <2>2
  <2>4. bytes[3] = c
    BY <1>4
  <2>. QED
    BY ONLY <2>3, <2>4
<1>9. ~(r > MaxU32 \/ c > MaxU32) /\ ~(c + r * (IF c > 1 THEN c ELSE 1) > len - At - 2)
  <2>. DEFINE rest == len - At - 2
              p == r * c
  <2>1. p \in Nat /\ to + (c + p) <= len
    BY <1>4, Products
  <2>. HIDE DEF p, c, r
  <2>2. rest \in Int /\ c + p <= rest
    BY <1>4, <1>5, <2>1
  <2>. HIDE DEF rest
  <2>3. ~(c + r * (IF c > 1 THEN c ELSE 1) > rest)
    BY <1>4, <2>2, RowsFit DEF p
  <2>4. ~(r > MaxU32 \/ c > MaxU32)
    BY <1>4
  <2>. QED
    BY <2>3, <2>4 DEF rest
<1>10. RowsError(u, z, len - At - 2) = IF depth + 1 > MaxDepth THEN "MaxDepth" ELSE "none"
  <2>. HIDE DEF c, r
  <2>. QED
    BY <1>6, <1>8, <1>9 DEF RowsError
<1>11. /\ f \in Frames /\ f.kind = "schema" /\ f.count = r /\ f.left = r /\ f.keys = <<>>
       /\ f.cols = c
  <2>1. "schema" \in Kinds /\ u.val \in Nat /\ z.val \in Nat
    BY <1>4, <1>6, <1>8 DEF Kinds
  <2>2. /\ f \in Frames /\ f.kind = "schema" /\ f.count = u.val /\ f.left = u.val /\ f.keys = <<>>
        /\ f.cols = z.val
    BY <2>1, FrameIs
  <2>. QED
    BY <1>6, <1>8, <2>2
<1>12. pos + Len(<<t>> \o u.bytes \o z.bytes) = to
  <2>1. t \in Nat
    BY <1>1 DEF TAG_ARRAY_ROWS
  <2>2. Len(<<t>> \o <<r>> \o <<c>>) = 3
    BY <1>4, <2>1, ThreeBytes
  <2>. QED
    BY <1>5, <1>6, <1>8, <2>2
<1>13. EnterOr(IF depth + 1 > MaxDepth THEN "MaxDepth" ELSE "none", f, <<t>> \o u.bytes \o z.bytes)
  BY <1>7, <1>10
<1>. HIDE DEF f
<1>14. /\ FormOfFrame(f) = FormOf(x) /\ f.count = Len(x[2]) /\ f.left = f.count
       /\ f.kind \in {"packed", "hash", "longs", "template", "schema"}
       /\ (f.kind = "schema" => f.cols = Len(x[2][1][2]))
  BY <1>3, <1>11 DEF FormOfFrame
<1>. QED
  BY <1>0, <1>3, <1>11, <1>12, <1>13, <1>14, EntersArray DEF x, to
-----------------------------------------------------------------------------
(* Arrays: inside, and leaving.                                            *)

KeyToken(x, dedup, tab) ==
    IF x[1] = "int" THEN IntToken(x[2]) ELSE StringToken(x[2], dedup, tab)

\* Where a key is read the encoder wrote one.
LEMMA KeyHere ==
    ASSUME NEW g, NEW n, NEW k, NEW ws, Paired(g, n, k, ws), WantsKey
    PROVE  LET x == KeyTo(Top, ws[Len(stack)]) IN
           /\ x \in V!Keys /\ k + 1 \in 0..n
           /\ root = <<>> /\ stack # <<>> /\ KeyWanted(Top)
           /\ Here(g[k].tab, KeyToken(x, strdedup, g[k].tab), g[k + 1].at)
           /\ g[k + 1].todo = Change(g[k].todo, Tail(g[k].todo[Len(g[k].todo)]))
           /\ g[k + 1].tab = IF x[1] = "str" THEN TableWith(x[2], strdedup, g[k].tab)
                             ELSE g[k].tab
<1>. DEFINE x == KeyTo(Top, ws[Len(stack)])
            loop == g[k].todo[Len(g[k].todo)]
            td == Change(g[k].todo, Tail(loop))
<1>1. /\ IInv /\ HostInv /\ Known /\ len <= MaxSize /\ value \in U
      /\ strdedup \in BOOLEAN /\ k \in 0..n /\ Written(strdedup, value, data, strtab, g, n)
      /\ TabOK(g[k].tab) /\ g[k].at = pos /\ TabAgrees(strdedup, g[k].tab, strings)
      /\ Len(strings) <= pos /\ (~strdedup => size_used <= pos)
  BY PairedKnown
<1>2. stack # <<>> /\ KeyWanted(Top)
  BY DEF WantsKey, InTop, KeyWanted
<1>3. root = <<>> /\ Match(value, stack, arrs, ws, g[k].todo, 0, hostTable)
  BY <1>2, PairedKnown
<1>4. KeyWanted(stack[Len(stack)])
  BY <1>2 DEF Top
<1>5. /\ g[k].todo \in Seq(Seq(Tasks)) /\ g[k].todo # <<>> /\ loop # <<>>
      /\ loop[1] = KeyTask(KeyTo(stack[Len(stack)], ws[Len(stack)]))
      /\ KeyTo(stack[Len(stack)], ws[Len(stack)]) \in V!Keys
  BY <1>2, <1>3, <1>4, MatchKey
<1>6. loop[1] = KeyTask(x) /\ x \in V!Keys
  BY <1>5 DEF Top
<1>. HIDE DEF x
<1>7. KeyTask(x).kind = "key" /\ KeyTask(x).what = x
  BY DEF KeyTask, Enc!Task
<1>8. KeyTask(x).kind # "row"
  BY <1>7
<1>9. /\ k + 1 \in 0..n
      /\ Token(KeyTask(x), strdedup, g[k].tab) \in Seq(Nat)
      /\ Len(Token(KeyTask(x), strdedup, g[k].tab)) \in Nat \ {0}
      /\ Spells(data, g[k].at, Token(KeyTask(x), strdedup, g[k].tab), g[k + 1].at)
      /\ g[k + 1].tab = TableAfter(KeyTask(x), strdedup, g[k].tab)
      /\ g[k + 1].todo = IF Opens(KeyTask(x)) THEN Plus(td, Parts(KeyTask(x))) ELSE td
  <2>. HIDE DEF loop, td
  <2>1. /\ g[k].todo # <<>> /\ loop = g[k].todo[Len(g[k].todo)] /\ loop # <<>>
        /\ KeyTask(x) = loop[1]
        /\ td = Change(g[k].todo, Tail(loop))
    BY <1>5, <1>6 DEF loop, td
  <2>. QED
    BY ONLY <1>1, <1>8, <2>1, RunTakes
<1>10. x[1] \in {"int", "str"}
  BY <1>6 DEF V!Keys
<1>11. Token(KeyTask(x), strdedup, g[k].tab) = KeyToken(x, strdedup, g[k].tab)
  BY <1>7 DEF Token, KeyToken
<1>12. TableAfter(KeyTask(x), strdedup, g[k].tab)
          = IF x[1] = "str" THEN TableWith(x[2], strdedup, g[k].tab) ELSE g[k].tab
  BY <1>7 DEF TableAfter
<1>13. ~Opens(KeyTask(x))
  BY <1>7 DEF Opens
<1>14. Here(g[k].tab, KeyToken(x, strdedup, g[k].tab), g[k + 1].at)
  BY <1>1, <1>9, <1>11 DEF Here
<1>. QED
  BY <1>2, <1>3, <1>6, <1>9, <1>12, <1>13, <1>14 DEF x

\* What is read of a key is that key.
KeyIs(r, x, tab, to) ==
    /\ r.bytes \in Seq(Nat) /\ At + Len(r.bytes) = to /\ r.key \in Keys
    /\ KeyIn(r.key, hostTable \o r.def) = x
    /\ TabAgrees(strdedup, IF x[1] = "str" THEN TableWith(x[2], strdedup, tab) ELSE tab,
                 strings \o r.def)
    /\ Len(strings \o r.def) <= to /\ (~strdedup => size_used + r.charge <= to)
    /\ \A i \in 1..Len(strings) : (hostTable \o r.def)[i] = hostTable[i]

\* Nothing is put behind a sequence.
LEMMA NothingMore ==
    ASSUME NEW S, NEW s \in Seq(S)
    PROVE  s \o <<>> = s
OBVIOUS

\* A key that is an integer is read.
LEMMA IntKeyHere ==
    ASSUME NEW tab, NEW x, x \in V!Keys, x[1] = "int", NEW bytes, NEW to, Here(tab, bytes, to),
           bytes = IntToken(x[2]), NEW r \in ReadKey(At + 1, TAG_VARINT)
    PROVE  r.err = "none" /\ KeyIs(r, x, tab, to)
<1>1. x[2] \in Int /\ x = <<"int", x[2]>>
  BY DEF V!Keys
<1>2. Len(bytes) = 2 /\ bytes[2] = ZigzagEncode(x[2])
  BY <1>1, IntTokenIs
<1>3. /\ pos \in Nat /\ to \in Nat /\ to = pos + Len(bytes) /\ At = pos + 1
      /\ strings \in Seq(Seq(Nat)) /\ hostTable \in Seq(Seq(Nat)) /\ Len(strings) \in Nat
      /\ size_used \in Nat
      /\ Len(strings) <= pos /\ (~strdedup => size_used <= pos)
  BY HereNumbers
<1>4. /\ ReadUvarint(At + 1) = {[err |-> "none", val |-> bytes[2], bytes |-> <<bytes[2]>>]}
      /\ bytes[2] \in Nat
  <2>1. Len(bytes) >= 2
    BY <1>2
  <2>. QED
    BY ONLY Here(tab, bytes, to), <2>1, HereNumber
<1>5. r = [err |-> "none", bytes |-> <<bytes[2]>>,
           key |-> [kind |-> "int", n |-> ZigzagDecode(bytes[2])], def |-> <<>>, charge |-> 0]
  BY <1>4 DEF ReadKey
<1>6. ZigzagDecode(bytes[2]) = x[2]
  BY <1>1, <1>2, ZigzagIs
<1>7. /\ r.err = "none" /\ r.bytes = <<bytes[2]>> /\ r.key = [kind |-> "int", n |-> x[2]]
      /\ r.def = <<>> /\ r.charge = 0
  BY <1>5, <1>6
<1>8. r.bytes \in Seq(Nat) /\ Len(r.bytes) = 1
  BY <1>4, <1>7
<1>9. r.key \in Keys /\ KeyIn(r.key, hostTable \o r.def) = x
  BY <1>1, <1>7 DEF Keys, KeyIn
<1>10. strings \o r.def = strings /\ hostTable \o r.def = hostTable
  BY <1>3, <1>7, NothingMore
<1>11. TabAgrees(strdedup, tab, strings)
  BY DEF Here
<1>12. At + Len(r.bytes) = to
  BY <1>2, <1>3, <1>8
<1>13. Len(strings) <= to /\ (~strdedup => size_used + r.charge <= to)
  BY <1>2, <1>3, <1>7
<1>14. x[1] # "str"
  OBVIOUS
<1>. QED
  BY <1>7, <1>8, <1>9, <1>10, <1>11, <1>12, <1>13, <1>14 DEF KeyIs

\* The tag of a string.
LEMMA StringTagIs ==
    ASSUME NEW s \in Seq(Nat), NEW dedup, NEW tab
    PROVE  StringToken(s, dedup, tab)[1] \in StringTags
<1>1. CASE s = <<>>
  BY <1>1 DEF StringToken, StringTags
<1>2. CASE s # <<>> /\ dedup /\ s \in DOMAIN tab
  BY <1>2 DEF StringToken, StringTags
<1>3. CASE s # <<>> /\ ~(dedup /\ s \in DOMAIN tab)
  <2>1. StringToken(s, dedup, tab)[1] = (<<TAG_STR_VARINT, Len(s)>> \o s)[1]
    BY <1>3 DEF StringToken
  <2>2. Len(s) \in Nat
    BY LenProperties
  <2>3. /\ <<TAG_STR_VARINT, Len(s)>> \in Seq(Nat) /\ Len(<<TAG_STR_VARINT, Len(s)>>) = 2
        /\ <<TAG_STR_VARINT, Len(s)>>[1] = TAG_STR_VARINT
    BY <2>2 DEF TAG_STR_VARINT
  <2>4. StringToken(s, dedup, tab)[1] = TAG_STR_VARINT
    BY <2>1, <2>2, <2>3, ConcatProperties
  <2>. QED
    BY <2>4 DEF StringTags
<1>. QED
  BY <1>1, <1>2, <1>3

\* Whatever key is called for is read, or refused for a limit.
LEMMA KeyReadHere ==
    ASSUME NEW tab, NEW x \in V!Keys, NEW to, Here(tab, KeyToken(x, strdedup, tab), to),
           NEW t, t = KeyToken(x, strdedup, tab)[1], NEW r \in ReadKey(At + 1, t)
    PROVE  /\ t \in KeyTags
           /\ IF r.err # "none" THEN Refusal(r.err) ELSE KeyIs(r, x, tab, to)
<1>1. x[1] \in {"int", "str"}
  BY DEF V!Keys
<1>2. CASE x[1] = "int"
  <2>. DEFINE bytes == KeyToken(x, strdedup, tab)
  <2>1. bytes = IntToken(x[2]) /\ Here(tab, bytes, to)
    BY <1>2 DEF KeyToken
  <2>2. t = TAG_VARINT
    BY <2>1 DEF IntToken
  <2>3. r \in ReadKey(At + 1, TAG_VARINT)
    BY <2>2
  <2>. HIDE DEF bytes
  <2>4. r.err = "none" /\ KeyIs(r, x, tab, to)
    BY ONLY <1>2, <2>1, <2>3, x \in V!Keys, IntKeyHere
  <2>. QED
    BY <2>2, <2>4 DEF KeyTags
<1>3. CASE x[1] = "str"
  <2>0. x[2] \in Seq(Nat) /\ x = <<"str", x[2]>>
    BY <1>3 DEF V!Keys
  <2>1. KeyToken(x, strdedup, tab) = StringToken(x[2], strdedup, tab)
    BY <1>3 DEF KeyToken
  <2>2. Here(tab, StringToken(x[2], strdedup, tab), to) /\ t = StringToken(x[2], strdedup, tab)[1]
    BY <2>1
  <2>3. t \in StringTags
    BY <2>0, <2>2, StringTagIs
  <2>4. t \in KeyTags /\ t # TAG_VARINT
    BY <2>3 DEF KeyTags, StringTags, TAG_VARINT, TAG_STR_EMPTY, TAG_STR_VARINT, TAG_STR_REF
  <2>5. r \in ReadString(At + 1, t, "BadKey")
    BY <2>4 DEF ReadKey
  <2>6. IF r.err # "none" THEN Refusal(r.err) ELSE StringIs(r, x[2], tab, to)
    BY ONLY <2>0, <2>2, <2>5, StringHere
  <2>. QED
    BY <1>3, <2>0, <2>4, <2>6 DEF StringIs, KeyIs
<1>. QED
  BY <1>1, <1>2, <1>3

\* A key arrives.
LEMMA KeyStep ==
    ASSUME NEW g, NEW n, NEW k, NEW ws, Paired(g, n, k, ws), TakeKey
    PROVE  Gives(g, n)
<1>0. WantsKey
  BY DEF TakeKey
<1>1. PICK t \in Peek(At, TagBytes) : t \in KeyTags /\ \E r \in ReadKey(At + 1, t) :
           IF r.err # "none"
           THEN Fail(r.err, <<t>> \o r.bytes)
           ELSE /\ Consume(<<t>> \o r.bytes)
                /\ Intern(r)
                /\ stack' = [stack EXCEPT ![Len(stack)].keys = Append(@, r.key)]
                /\ UNCHANGED <<len, strdedup, arrs, root, depth, result>>
  BY DEF TakeKey
<1>2. PICK r \in ReadKey(At + 1, t) :
           IF r.err # "none"
           THEN Fail(r.err, <<t>> \o r.bytes)
           ELSE /\ Consume(<<t>> \o r.bytes)
                /\ Intern(r)
                /\ stack' = [stack EXCEPT ![Len(stack)].keys = Append(@, r.key)]
                /\ UNCHANGED <<len, strdedup, arrs, root, depth, result>>
  BY <1>1
<1>. DEFINE x == KeyTo(Top, ws[Len(stack)])
            to == g[k + 1].at
            tab == g[k].tab
            td == Change(g[k].todo, Tail(g[k].todo[Len(g[k].todo)]))
<1>3. /\ x \in V!Keys /\ k + 1 \in 0..n
      /\ root = <<>> /\ stack # <<>> /\ KeyWanted(Top)
      /\ Here(tab, KeyToken(x, strdedup, tab), to)
      /\ g[k + 1].todo = td
      /\ g[k + 1].tab = IF x[1] = "str" THEN TableWith(x[2], strdedup, tab) ELSE tab
  BY ONLY <1>0, Paired(g, n, k, ws), KeyHere
<1>4. t = KeyToken(x, strdedup, tab)[1]
  BY <1>3, HereNumbers
<1>5. Match(value, stack, arrs, ws, g[k].todo, 0, hostTable) /\ IInv
  BY <1>3, PairedKnown
<1>. HIDE DEF to, td, tab
<1>6. IF r.err # "none" THEN Refusal(r.err) ELSE KeyIs(r, x, tab, to)
  <2>. HIDE DEF x
  <2>. QED
    BY <1>3, <1>4, KeyReadHere
<1>7. CASE r.err # "none"
  BY <1>2, <1>6, <1>7 DEF Gives
<1>8. CASE r.err = "none"
  <2>1. /\ Consume(<<t>> \o r.bytes)
        /\ strings' = strings \o r.def /\ hostTable' = hostTable \o r.def
        /\ size_used' = size_used + r.charge
        /\ stack' = [stack EXCEPT ![Len(stack)].keys = Append(@, r.key)]
        /\ UNCHANGED <<len, strdedup, arrs, root, depth, result>>
    BY <1>2, <1>8 DEF Intern
  <2>2. KeyIs(r, x, tab, to)
    BY <1>6, <1>8
  <2>3. /\ r.bytes \in Seq(Nat) /\ At + Len(r.bytes) = to /\ r.key \in Keys
        /\ KeyIn(r.key, hostTable') = x
        /\ TabAgrees(strdedup, g[k + 1].tab, strings')
        /\ Len(strings') <= to /\ (~strdedup => size_used' <= to)
        /\ \A i \in 1..Len(strings) : hostTable'[i] = hostTable[i]
    BY <1>3, <2>1, <2>2 DEF KeyIs
  <2>4. t \in Nat
    BY <1>1 DEF KeyTags, TAG_VARINT, TAG_STR_EMPTY, TAG_STR_VARINT, TAG_STR_REF
  <2>5. pos + Len(<<t>> \o r.bytes) = to
    BY <1>3, <2>3, <2>4, BehindTag
  <2>6. pos' = to /\ data' = data
    BY <1>3, <2>1, <2>5, ConsumeHere
  <2>7. StackOK(stack, Len(strings), len) /\ Len(strings) \in Nat
    <3>1. StackOK(stack, Len(strings), len) /\ strings \in Seq(Seq(Nat))
      BY <1>5 DEF IInv, TablesOK
    <3>. QED
      BY <3>1, LenProperties
  <2>8. Match(value, stack, arrs, ws, g[k].todo, 0, hostTable')
    BY <1>5, <2>3, <2>7, MatchMore
  <2>. DEFINE f == stack[Len(stack)]
  <2>9. KeyWanted(f)
    BY <1>3 DEF Top
  <2>10. \A kk \in Keys : KeyIn(kk, hostTable') = KeyTo(f, ws[Len(stack)]) =>
            Match(value, Change(stack, [f EXCEPT !.keys = Append(@, kk)]), arrs, ws,
                  Change(g[k].todo, Tail(g[k].todo[Len(g[k].todo)])), 0, hostTable')
    BY <1>3, <2>8, <2>9, MatchKey
  <2>11. Match(value, Change(stack, [f EXCEPT !.keys = Append(@, r.key)]), arrs, ws, td, 0,
               hostTable')
    BY <2>3, <2>10 DEF Top, td
  <2>12. stack' = Change(stack, [f EXCEPT !.keys = Append(@, r.key)])
    BY <2>1 DEF Change
  <2>13. root' = <<>> /\ arrs' = arrs
    BY <1>3, <2>1
  <2>14. Match(value, stack', arrs', ws, g[k + 1].todo, IF root' = <<>> THEN 0 ELSE 1, hostTable')
    BY <1>3, <2>11, <2>12, <2>13
  <2>15. Place(strdedup, value, g[k + 1], ws, stack', arrs', IF root' = <<>> THEN 0 ELSE 1,
               strings', hostTable', pos', size_used')
    BY <2>3, <2>6, <2>14 DEF Place, to
  <2>. QED
    BY <1>3, <2>1, <2>6, <2>13, <2>15 DEF Gives, Onward
<1>. QED
  BY <1>7, <1>8

\* No other tag is where a key is called for.
LEMMA NoOtherKey ==
    ASSUME NEW g, NEW n, NEW k, NEW ws, Paired(g, n, k, ws)
    PROVE  ~BadKey /\ ~NoKey
<1>. SUFFICES ASSUME BadKey \/ NoKey PROVE FALSE
  OBVIOUS
<1>1. WantsKey
  BY DEF BadKey, NoKey
<1>. DEFINE x == KeyTo(Top, ws[Len(stack)])
            bytes == KeyToken(x, strdedup, g[k].tab)
<1>2. x \in V!Keys /\ Here(g[k].tab, bytes, g[k + 1].at)
  BY ONLY <1>1, Paired(g, n, k, ws), KeyHere
<1>3. Peek(At, TagBytes) = {bytes[1]}
  BY <1>2, HereNumbers
<1>4. bytes[1] \in KeyTags
  <2>. HIDE DEF x
  <2>1. x[1] \in {"int", "str"}
    BY <1>2 DEF V!Keys
  <2>2. CASE x[1] = "int"
    BY <2>2 DEF KeyToken, IntToken, KeyTags
  <2>3. CASE x[1] = "str"
    <3>0. x[2] \in Seq(Nat)
      BY <1>2, <2>3 DEF V!Keys
    <3>1. bytes = StringToken(x[2], strdedup, g[k].tab)
      BY <2>3 DEF KeyToken
    <3>2. StringToken(x[2], strdedup, g[k].tab)[1] \in StringTags
      BY <3>0, StringTagIs
    <3>. QED
      BY <3>1, <3>2 DEF KeyTags, StringTags
  <2>. QED
    BY <2>1, <2>2, <2>3
<1>. QED
  BY <1>3, <1>4 DEF BadKey, NoKey

\* The key table of a rowset is complete when its rows follow.
LEMMA OpenRowsStep ==
    ASSUME NEW g, NEW n, NEW k, NEW ws, Paired(g, n, k, ws), OpenRows
    PROVE  Onward(g, n)
<1>1. stack # <<>> /\ Top.kind = "schema" /\ Len(Top.keys) = Top.cols
  BY DEF OpenRows, InTop
<1>2. /\ k \in 0..n /\ TabAgrees(strdedup, g[k].tab, strings) /\ g[k].at = pos
      /\ Len(strings) <= pos /\ (~strdedup => size_used <= pos)
      /\ root = <<>> /\ Match(value, stack, arrs, ws, g[k].todo, 0, hostTable)
  BY <1>1, PairedKnown
<1>. DEFINE f == stack[Len(stack)]
<1>3. Match(value, Change(stack, [f EXCEPT !.kind = "rows"]), arrs, ws, g[k].todo, 0, hostTable)
  BY <1>1, <1>2, MatchOpenRows DEF Top
<1>4. /\ stack' = Change(stack, [f EXCEPT !.kind = "rows"])
      /\ UNCHANGED <<len, data, strdedup, pos, arrs, root, strings, hostTable, size_used, result>>
  BY DEF OpenRows, Change, Inside, tables
<1>5. Match(value, stack', arrs', ws, g[k].todo, IF root' = <<>> THEN 0 ELSE 1, hostTable')
  BY <1>2, <1>3, <1>4
<1>6. Place(strdedup, value, g[k], ws, stack', arrs', IF root' = <<>> THEN 0 ELSE 1,
            strings', hostTable', pos', size_used')
  BY <1>2, <1>4, <1>5 DEF Place
<1>. QED
  BY <1>2, <1>4, <1>6 DEF Onward

\* A row is entered, or refused for its depth.
LEMMA RowStep ==
    ASSUME NEW g, NEW n, NEW k, NEW ws, Paired(g, n, k, ws), BeginRow
    PROVE  Gives(g, n)
<1>1. stack # <<>> /\ Top.kind = "rows" /\ Top.left > 0
  BY DEF BeginRow, InTop
<1>2. /\ k \in 0..n /\ TabAgrees(strdedup, g[k].tab, strings) /\ g[k].at = pos
      /\ Len(strings) <= pos /\ (~strdedup => size_used <= pos)
      /\ root = <<>> /\ Match(value, stack, arrs, ws, g[k].todo, 0, hostTable)
      /\ Written(strdedup, value, data, strtab, g, n) /\ strdedup \in BOOLEAN
      /\ depth = Len(stack)
  BY <1>1, PairedKnown
<1>. DEFINE f == stack[Len(stack)]
            w == Slot(f, ws[Len(stack)])
            loop == g[k].todo[Len(g[k].todo)]
            e == Frame("row", f.cols, f.keys, f.cols)
            td == Plus(Change(g[k].todo, Tail(loop)), PartsOf("row", w))
<1>3. f.kind = "rows" /\ f.left > 0
  BY <1>1 DEF Top
<1>4. /\ g[k].todo # <<>> /\ loop # <<>> /\ loop[1] = RowTask(w)
      /\ w \in U /\ w[1] = "hash" /\ w = HoleOf(value, stack, ws)
      /\ Match(value, Plus(stack, e), Plus(arrs, EmptyArray), Plus(ws, w), td, 0, hostTable)
  BY <1>1, <1>2, <1>3, MatchRow
<1>5. Expecting(f)
  BY <1>3 DEF Expecting
<1>. HIDE DEF w
<1>6. /\ k + 1 \in 0..n /\ g[k + 1].at = g[k].at /\ g[k + 1].tab = g[k].tab
      /\ g[k + 1].todo = td
  <2>1. g[k].todo # <<>> /\ loop # <<>> /\ loop[1] = RowTask(w)
    BY <1>4
  <2>. QED
    BY ONLY <1>2, <2>1, RunEntersRow
<1>. HIDE DEF td, loop
<1>7. CASE depth + 1 > MaxDepth
  <2>1. Fail("MaxDepth", <<>>)
    BY <1>7 DEF BeginRow
  <2>2. Len(stack) + 1 > MaxDepth /\ V!IsArray(HoleOf(value, stack, ws))
    BY <1>2, <1>4, <1>7 DEF V!IsArray
  <2>3. value \notin V!Nested[MaxDepth]
    BY ONLY <1>2, <1>5, <2>2, TooDeep
  <2>4. Refusal("MaxDepth")
    BY <2>3 DEF Refusal
  <2>. QED
    BY <2>1, <2>4 DEF Gives
<1>8. CASE ~(depth + 1 > MaxDepth)
  <2>1. /\ stack' = Plus(stack, e) /\ arrs' = Plus(arrs, EmptyArray)
        /\ UNCHANGED <<len, data, strdedup, pos, root, strings, hostTable, size_used, result>>
    BY <1>8 DEF BeginRow, Plus, Top, Inside, tables
  <2>2. Match(value, stack', arrs', Plus(ws, w), g[k + 1].todo,
              IF root' = <<>> THEN 0 ELSE 1, hostTable')
    BY <1>2, <1>4, <1>6, <2>1
  <2>3. Place(strdedup, value, g[k + 1], Plus(ws, w), stack', arrs', IF root' = <<>> THEN 0 ELSE 1,
              strings', hostTable', pos', size_used')
    BY <1>2, <1>6, <2>1, <2>2 DEF Place
  <2>. QED
    BY <1>2, <1>6, <2>1, <2>3 DEF Gives, Onward
<1>. QED
  BY <1>7, <1>8

\* An item of a run of longs arrives.
LEMMA LongStep ==
    ASSUME NEW g, NEW n, NEW k, NEW ws, Paired(g, n, k, ws), ReadLong
    PROVE  Onward(g, n)
<1>1. stack # <<>> /\ Top.kind = "longs" /\ Top.left > 0
  BY DEF ReadLong, InTop
<1>2. /\ k \in 0..n /\ TabAgrees(strdedup, g[k].tab, strings) /\ g[k].at = pos
      /\ Len(strings) <= pos /\ (~strdedup => size_used <= pos)
      /\ root = <<>> /\ Match(value, stack, arrs, ws, g[k].todo, 0, hostTable)
      /\ Written(strdedup, value, data, strtab, g, n) /\ strdedup \in BOOLEAN
      /\ Len(stack) <= MaxDepth /\ TabOK(g[k].tab) /\ IInv /\ Known /\ len <= MaxSize
  BY <1>1, PairedKnown
<1>. DEFINE f == stack[Len(stack)]
            h == arrs[Len(stack)]
            loop == g[k].todo[Len(g[k].todo)]
            td == Change(g[k].todo, Tail(loop))
<1>3. f.kind = "longs" /\ f.left > 0
  BY <1>1 DEF Top
<1>4. /\ g[k].todo # <<>> /\ loop # <<>>
      /\ \E x \in {"int"} \X Int :
            /\ loop[1] = LongTask(x)
            /\ Match(value, Change(stack, [f EXCEPT !.left = @ - 1]),
                     Change(arrs, [h EXCEPT !.items = Append(@, x)]), ws, td, 0, hostTable)
  <2>1. stack[Len(stack)].kind = "longs" /\ stack[Len(stack)].left > 0
    BY <1>3
  <2>2. LET ff == stack[Len(stack)] hh == arrs[Len(stack)] ll == g[k].todo[Len(g[k].todo)] IN
        /\ g[k].todo \in Seq(Seq(Tasks)) /\ g[k].todo # <<>> /\ ll # <<>>
        /\ \E x \in {"int"} \X Int :
              /\ ll[1] = LongTask(x)
              /\ Match(value, Change(stack, [ff EXCEPT !.left = @ - 1]),
                       Change(arrs, [hh EXCEPT !.items = Append(@, x)]), ws,
                       Change(g[k].todo, Tail(ll)), 0, hostTable)
    BY ONLY <1>1, <1>2, <2>1, MatchLong
  <2>. QED
    BY ONLY <2>2
<1>5. PICK x \in {"int"} \X Int :
            /\ loop[1] = LongTask(x)
            /\ Match(value, Change(stack, [f EXCEPT !.left = @ - 1]),
                     Change(arrs, [h EXCEPT !.items = Append(@, x)]), ws, td, 0, hostTable)
  BY <1>4
<1>6. LongTask(x).kind = "long" /\ LongTask(x).what = x /\ x[2] \in Int /\ x = <<"int", x[2]>>
  BY <1>5 DEF LongTask, Enc!Task
<1>. DEFINE bytes == Token(LongTask(x), strdedup, g[k].tab)
            to == g[k + 1].at
<1>7. LongTask(x).kind # "row" /\ ~Opens(LongTask(x))
      /\ TableAfter(LongTask(x), strdedup, g[k].tab) = g[k].tab
      /\ bytes = <<ZigzagEncode(x[2])>>
  BY <1>6 DEF Opens, TableAfter, Token
<1>8. /\ k + 1 \in 0..n /\ bytes \in Seq(Nat) /\ Len(bytes) \in Nat \ {0}
      /\ Spells(data, g[k].at, bytes, to)
      /\ g[k + 1].tab = TableAfter(LongTask(x), strdedup, g[k].tab)
      /\ g[k + 1].todo = IF Opens(LongTask(x)) THEN Plus(td, Parts(LongTask(x))) ELSE td
  <2>. DEFINE t == LongTask(x)
  <2>. HIDE DEF loop, td, bytes, to
  <2>1. /\ g[k].todo # <<>> /\ loop = g[k].todo[Len(g[k].todo)] /\ loop # <<>> /\ t = loop[1]
        /\ td = Change(g[k].todo, Tail(loop)) /\ t.kind # "row"
        /\ bytes = Token(t, strdedup, g[k].tab) /\ to = g[k + 1].at
    BY <1>4, <1>5, <1>7 DEF loop, td, bytes, to
  <2>2. k \in 0..n /\ Written(strdedup, value, data, strtab, g, n) /\ strdedup \in BOOLEAN
    BY <1>2
  <2>. HIDE DEF t
  <2>3. /\ k + 1 \in 0..n
        /\ Token(t, strdedup, g[k].tab) \in Seq(Nat)
        /\ Len(Token(t, strdedup, g[k].tab)) \in Nat \ {0}
        /\ Spells(data, g[k].at, Token(t, strdedup, g[k].tab), g[k + 1].at)
        /\ g[k + 1].tab = TableAfter(t, strdedup, g[k].tab)
        /\ g[k + 1].todo = IF Opens(t) THEN Plus(Change(g[k].todo, Tail(loop)), Parts(t))
                           ELSE Change(g[k].todo, Tail(loop))
    BY ONLY <2>1, <2>2, RunTakes
  <2>. QED
    BY ONLY <2>1, <2>3 DEF t
<1>. HIDE DEF td, loop, to
<1>9. Here(g[k].tab, bytes, to)
  BY <1>2, <1>8 DEF Here
<1>10. bytes[1] = ZigzagEncode(x[2]) /\ Len(bytes) = 1
  BY <1>7
<1>. HIDE DEF bytes
<1>11. /\ pos \in Nat /\ to = pos + Len(bytes) /\ At \in Nat \ {0} /\ At <= len
       /\ data[At] = bytes[1]
  BY <1>9, HereNumbers
<1>12. ReadUvarint(At) = {[err |-> "none", val |-> data[At], bytes |-> <<data[At]>>]}
  BY <1>2, <1>11, KnownByte
<1>13. PICK u \in ReadUvarint(At) :
           IF u.err # "none"
           THEN Fail(u.err, u.bytes)
           ELSE Consume(u.bytes) /\ AddElement(<<"int", ZigzagDecode(u.val)>>)
  BY DEF ReadLong
<1>14. u.err = "none" /\ u.val = ZigzagEncode(x[2]) /\ Len(u.bytes) = 1
  <2>1. u = [err |-> "none", val |-> data[At], bytes |-> <<data[At]>>]
    BY <1>12
  <2>. QED
    BY <1>10, <1>11, <2>1
<1>15. Consume(u.bytes) /\ AddElement(x)
  <2>1. ZigzagDecode(u.val) = x[2]
    BY <1>6, <1>14, ZigzagIs
  <2>. QED
    BY <1>6, <1>13, <1>14, <2>1
<1>16. pos + Len(u.bytes) = to
  BY <1>10, <1>11, <1>14
<1>17. /\ pos' = to /\ data' = data /\ Len(strings) <= pos' /\ (~strdedup => size_used <= pos')
  BY <1>9, <1>15, <1>16, ConsumeHere
<1>18. Len(arrs) = Len(stack)
  BY <1>2 DEF Match
<1>19. /\ stack' = Change(stack, [f EXCEPT !.left = @ - 1])
       /\ arrs' = Change(arrs, [h EXCEPT !.items = Append(@, x)])
       /\ UNCHANGED <<len, strdedup, root, strings, hostTable, size_used, result>>
  BY <1>15, <1>18 DEF AddElement, Change, Inside, tables
<1>20. g[k + 1].todo = td /\ g[k + 1].tab = g[k].tab
  BY <1>7, <1>8
<1>21. Match(value, stack', arrs', ws, g[k + 1].todo, IF root' = <<>> THEN 0 ELSE 1, hostTable')
  BY <1>2, <1>5, <1>19, <1>20
<1>22. Place(strdedup, value, g[k + 1], ws, stack', arrs', IF root' = <<>> THEN 0 ELSE 1,
             strings', hostTable', pos', size_used')
  BY <1>2, <1>17, <1>19, <1>20, <1>21 DEF Place, to
<1>. QED
  BY <1>2, <1>8, <1>17, <1>19, <1>22 DEF Onward

\* A copy of the template is the next element of a repeat.
LEMMA CopyStep ==
    ASSUME NEW g, NEW n, NEW k, NEW ws, Paired(g, n, k, ws), CopyTemplate
    PROVE  Onward(g, n)
<1>1. stack # <<>> /\ Top.kind = "copies" /\ Top.left > 0
  BY DEF CopyTemplate, InTop
<1>2. /\ k \in 0..n /\ TabAgrees(strdedup, g[k].tab, strings) /\ g[k].at = pos
      /\ Len(strings) <= pos /\ (~strdedup => size_used <= pos) /\ Len(stack) <= MaxDepth
      /\ root = <<>> /\ Match(value, stack, arrs, ws, g[k].todo, 0, hostTable)
  BY <1>1, PairedKnown
<1>. DEFINE f == stack[Len(stack)]
            h == arrs[Len(stack)]
<1>3. f.kind = "copies" /\ f.left > 0
  BY <1>1 DEF Top
<1>4. Match(value, Change(stack, [f EXCEPT !.left = @ - 1]),
            Change(arrs, [h EXCEPT !.items = Append(@, h.template[1])]), ws, g[k].todo, 0, hostTable)
  BY <1>1, <1>2, <1>3, MatchCopy
<1>5. Len(arrs) = Len(stack)
  BY <1>2 DEF Match
<1>6. /\ stack' = Change(stack, [f EXCEPT !.left = @ - 1])
      /\ arrs' = Change(arrs, [h EXCEPT !.items = Append(@, h.template[1])])
      /\ UNCHANGED <<len, data, strdedup, pos, root, strings, hostTable, size_used, result>>
  BY <1>5 DEF CopyTemplate, AddElement, Change, Inside, tables, TopArray
<1>7. Match(value, stack', arrs', ws, g[k].todo, IF root' = <<>> THEN 0 ELSE 1, hostTable')
  BY <1>2, <1>4, <1>6
<1>8. Place(strdedup, value, g[k], ws, stack', arrs', IF root' = <<>> THEN 0 ELSE 1,
            strings', hostTable', pos', size_used')
  BY <1>2, <1>6, <1>7 DEF Place
<1>. QED
  BY <1>2, <1>6, <1>8 DEF Onward

\* An array that is left is equal to the one that was written.
LEMMA EndStep ==
    ASSUME NEW g, NEW n, NEW k, NEW ws, Paired(g, n, k, ws), EndArray
    PROVE  Onward(g, n)
<1>1. stack # <<>> /\ Top.left = 0 /\ Top.kind \notin {"schema", "template"}
  BY DEF EndArray
<1>2. /\ k \in 0..n /\ TabAgrees(strdedup, g[k].tab, strings) /\ g[k].at = pos
      /\ Len(strings) <= pos /\ (~strdedup => size_used <= pos) /\ Len(stack) <= MaxDepth
      /\ root = <<>> /\ Match(value, stack, arrs, ws, g[k].todo, 0, hostTable)
      /\ Written(strdedup, value, data, strtab, g, n) /\ strdedup \in BOOLEAN
      /\ IInv /\ HostInv
  BY <1>1, PairedKnown
<1>. DEFINE f == stack[Len(stack)]
            h == arrs[Len(arrs)]
<1>3. f.left = 0 /\ f.kind \notin {"schema", "template"}
  BY <1>1 DEF Top
<1>4. Lower(stack) # <<>> => Expecting(Lower(stack)[Len(Lower(stack))])
  <2>1. stack \in Seq(Frames) /\ \A i \in 1..(Len(stack) - 1) : Expecting(stack[i])
    BY <1>2 DEF IInv, StackOK
  <2>2. /\ Len(stack) \in Nat \ {0} /\ Lower(stack) \in Seq(Frames)
        /\ Len(Lower(stack)) = Len(stack) - 1
        /\ \A i \in 1..(Len(stack) - 1) : Lower(stack)[i] = stack[i]
    BY <1>1, <2>1, SeqTop
  <2>. SUFFICES ASSUME Lower(stack) # <<>> PROVE Expecting(Lower(stack)[Len(Lower(stack))])
    OBVIOUS
  <2>3. Len(Lower(stack)) # 0
    BY <2>2, EmptySeq
  <2>4. Len(Lower(stack)) \in 1..(Len(stack) - 1)
    BY <2>2, <2>3
  <2>. QED
    BY <2>1, <2>2, <2>4
<1>5. Given(stack, arrs)
  BY <1>2 DEF HostInv
<1>6. Deliver(Lower(stack), Lower(arrs),
              <<IF f.kind \in {"hash", "row"} THEN "hash" ELSE "list", h.items>>)
  BY DEF EndArray, Top, TopArray, Below, ArraysBelow, Lower
<1>7. /\ g[k].todo # <<>> /\ g[k].todo[Len(g[k].todo)] = <<>>
      /\ Match(value, stack', arrs', Lower(ws), Lower(g[k].todo),
               IF root' = <<>> THEN 0 ELSE 1, hostTable)
      /\ root' # <<>> => <<root'[1], value>> \in V!Equal[MaxDepth]
  BY <1>1, <1>2, <1>3, <1>4, <1>5, <1>6, MatchLeave
<1>8. /\ k + 1 \in 0..n /\ g[k + 1].at = g[k].at /\ g[k + 1].tab = g[k].tab
      /\ g[k + 1].todo = Lower(g[k].todo)
  BY ONLY <1>2, <1>7, RunLeaves
<1>9. UNCHANGED <<len, data, strdedup, pos, strings, hostTable, size_used, result>>
  BY DEF EndArray, tables
<1>10. Place(strdedup, value, g[k + 1], Lower(ws), stack', arrs', IF root' = <<>> THEN 0 ELSE 1,
             strings', hostTable', pos', size_used')
  <2>1. Match(value, stack', arrs', Lower(ws), g[k + 1].todo,
              IF root' = <<>> THEN 0 ELSE 1, hostTable')
    BY <1>7, <1>8, <1>9
  <2>. QED
    BY <1>2, <1>8, <1>9, <2>1 DEF Place
<1>. QED
  BY <1>7, <1>8, <1>9, <1>10 DEF Onward

\* A value that is whole is one of a document that is read to its end.
LEMMA WholeAtEnd ==
    ASSUME NEW g, NEW n, NEW k, NEW ws, Paired(g, n, k, ws), root # <<>>
    PROVE  pos = len
<1>1. /\ k \in 0..n /\ g[k].at = pos /\ stack = <<>> /\ g[k].todo \in Seq(Seq(Tasks))
      /\ Match(value, stack, arrs, ws, g[k].todo, 1, hostTable)
      /\ Written(strdedup, value, data, strtab, g, n) /\ strdedup \in BOOLEAN /\ Known
  BY PairedKnown
<1>2. Len(stack) = 0
  BY <1>1
<1>3. Len(g[k].todo) = 1 /\ LoopIs(g[k].todo[1], <<ValueTask(value)>>, 1)
  <2>1. /\ Len(g[k].todo) = Len(stack) + 1
        /\ LoopIs(g[k].todo[1], <<ValueTask(value)>>, IF stack = <<>> THEN 1 ELSE 1)
    BY <1>1 DEF Match
  <2>. QED
    BY <1>2, <2>1
<1>4. g[k].todo # <<>> /\ g[k].todo[Len(g[k].todo)] = <<>>
  <2>1. Len(<<ValueTask(value)>>) = 1
    OBVIOUS
  <2>2. g[k].todo[1] = <<>>
    BY <1>3, <2>1, LoopEnd
  <2>. QED
    BY <1>1, <1>3, <2>2, EmptySeq
<1>5. /\ k + 1 \in 0..n /\ g[k + 1].at = g[k].at /\ g[k + 1].todo = Lower(g[k].todo)
  BY ONLY <1>1, <1>4, RunLeaves
<1>6. Lower(g[k].todo) = <<>>
  <2>1. Len(Lower(g[k].todo)) = Len(g[k].todo) - 1 /\ Lower(g[k].todo) \in Seq(Seq(Tasks))
    BY <1>1, <1>4, SeqTop
  <2>2. Len(Lower(g[k].todo)) = 0
    BY <1>3, <2>1
  <2>. QED
    BY <2>1, <2>2, EmptySeq
<1>7. g[k + 1].todo = <<>>
  BY <1>5, <1>6
<1>8. g[k + 1].at = Len(data)
  BY ONLY <1>1, <1>5, <1>7, RunEnds
<1>. QED
  BY <1>1, <1>5, <1>8 DEF Known

\* Every step of the decoder but its return.
LEMMA StepGives ==
    ASSUME NEW g, NEW n, NEW k, NEW ws, Paired(g, n, k, ws), Step \/ HostError
    PROVE  Gives(g, n) \/ Return
<1>1. CASE DecodeConst
  BY <1>1, ConstStep DEF Gives
<1>2. CASE DecodeInt
  BY <1>2, IntStep DEF Gives
<1>3. CASE DecodeDouble
  BY <1>3, DoubleStep DEF Gives
<1>4. CASE DecodeString
  BY <1>4, StringStep
<1>5. CASE UnknownTag \/ NoTag
  BY <1>5, NoOtherTag
<1>6. CASE BeginPacked
  BY <1>6, CountedStep DEF BeginPacked
<1>7. CASE BeginHash
  BY <1>7, CountedStep DEF BeginHash
<1>8. CASE BeginLongs
  BY <1>8, CountedStep DEF BeginLongs
<1>9. CASE BeginRows
  BY <1>9, RowsStep
<1>10. CASE BeginRepeat
  BY <1>10, RepeatStep
<1>11. CASE TakeKey
  BY <1>11, KeyStep
<1>12. CASE BadKey \/ NoKey
  BY <1>12, NoOtherKey
<1>13. CASE OpenRows
  BY <1>13, OpenRowsStep DEF Gives
<1>14. CASE BeginRow
  BY <1>14, RowStep
<1>15. CASE ReadLong
  BY <1>15, LongStep DEF Gives
<1>16. CASE CopyTemplate
  BY <1>16, CopyStep DEF Gives
<1>17. CASE EndArray
  BY <1>17, EndStep DEF Gives
<1>18. CASE HostError
  <2>1. Fail("Host", <<>>) /\ Refusal("Host")
    BY <1>18 DEF HostError, Refusal
  <2>. QED
    BY <2>1 DEF Gives
<1>. QED
  BY <1>1, <1>2, <1>3, <1>4, <1>5, <1>6, <1>7, <1>8, <1>9, <1>10, <1>11, <1>12, <1>13, <1>14,
     <1>15, <1>16, <1>17, <1>18 DEF Step
-----------------------------------------------------------------------------
(* The invariant.                                                          *)

\* A decoder that has not begun; one whose value is the one that was encoded.
New ==
    /\ pos = 0 /\ stack = <<>> /\ arrs = <<>> /\ root = <<>>
    /\ strings = <<>> /\ hostTable \in Leftovers /\ size_used = 0 /\ depth = 0
IsBack == <<root[1], value>> \in V!Equal[MaxDepth]

\* While the encoder runs there is no decoder; while the decoder runs, it is at a place
\* of the encoder's run.
TripInv ==
    /\ EncInv
    /\ result = "idle" => New
    /\ result # "idle" => todo = <<>> /\ IInv /\ HostInv
    /\ TablesAgree /\ OnlyLimitsRefuse
    /\ result = "ok" => IsBack
    /\ result = "running" => /\ data = buf /\ (root # <<>> => IsBack)
                             /\ \E g, n, k, ws : Paired(g, n, k, ws)

\* The strings have these numbers in the table of the encoder.
Numbered(dedup, tab, strs) ==
    dedup => \A j \in DOMAIN strs : strs[j] \in DOMAIN tab /\ tab[strs[j]] = j - 1

\* The table of the encoder has what it had at any place of its run.
LEMMA AgreeHere ==
    ASSUME NEW dedup, NEW v, NEW doc, NEW tab, NEW g, NEW n, Written(dedup, v, doc, tab, g, n),
           NEW k \in 0..n, NEW strs, TabAgrees(dedup, g[k].tab, strs)
    PROVE  Numbered(dedup, tab, strs)
<1>1. Run(dedup, v, doc, g, n) /\ g[n].tab = tab
  BY DEF Written
<1>2. Keeps(g[k].tab, tab)
  BY <1>1, RunKeeps
<1>. QED
  BY <1>2 DEF Keeps, TabAgrees, Numbered

\* The invariant holds at first, and every step keeps it.
LEMMA TripStart == TripInit => TripInv
<1>. SUFFICES ASSUME TripInit PROVE TripInv
  OBVIOUS
<1>1. EncInv
  BY EncStart
<1>2. New /\ result = "idle"
  BY DEF TripInit, New
<1>3. TablesAgree /\ OnlyLimitsRefuse
  BY <1>2 DEF New, TablesAgree, OnlyLimitsRefuse
<1>. QED
  BY <1>1, <1>2, <1>3 DEF TripInv

\* A step of the encoder keeps it.
LEMMA EncodeKeeps == TripInv /\ Encode => TripInv'
<1>. SUFFICES ASSUME TripInv, Encode PROVE TripInv'
  OBVIOUS
<1>1. Enc!Encode /\ UNCHANGED decoder
  BY DEF Encode
<1>2. todo # <<>>
  BY <1>1 DEF Enc!Encode, Enc!WriteScalar, Enc!WriteString, Enc!WriteKey, Enc!WriteLong,
     Enc!WriteLongs, Enc!WriteRepeat, Enc!WriteRows, Enc!WriteRow, Enc!WritePacked, Enc!WriteHash,
     Enc!WriteList, Enc!Upcoming, Enc!EndLoop
<1>3. result = "idle" /\ New
  BY <1>2 DEF TripInv
<1>4. EncInv'
  BY <1>1, EncNext DEF TripInv
<1>5. New' /\ result' = "idle"
  BY <1>1, <1>3 DEF New, decoder, tables
<1>6. TablesAgree' /\ OnlyLimitsRefuse'
  BY <1>5 DEF New, TablesAgree, OnlyLimitsRefuse
<1>. QED
  BY <1>4, <1>5, <1>6 DEF TripInv

\* A step that changes nothing keeps it.
LEMMA StoppedKeeps == TripInv /\ UNCHANGED <<vars, encoder>> => TripInv'
<1>. SUFFICES ASSUME TripInv, UNCHANGED <<vars, encoder>> PROVE TripInv'
  OBVIOUS
<1>1. /\ UNCHANGED <<len, data, strdedup, pos, stack, arrs, root, strings, hostTable, size_used,
                     depth, result>>
      /\ UNCHANGED <<value, todo, strtab, buf>>
  BY DEF vars, input, tables, encoder
<1>2. EncInv'
  BY <1>1, EncStays DEF encoder, TripInv
<1>3. IInv /\ HostInv => IInv' /\ HostInv'
  BY NextIInv, HostInvNext
<1>4. (result' = "idle" => New') /\ (IsBack => IsBack')
  BY <1>1 DEF TripInv, New, IsBack
<1>5. TablesAgree' /\ OnlyLimitsRefuse'
  BY <1>1 DEF TripInv, TablesAgree, OnlyLimitsRefuse
<1>6. result' = "running" => \E g, n, k, ws : Paired(g, n, k, ws)'
  <2>. SUFFICES ASSUME result' = "running" PROVE \E g, n, k, ws : Paired(g, n, k, ws)'
    OBVIOUS
  <2>1. PICK g, n, k, ws : Paired(g, n, k, ws)
    BY <1>1 DEF TripInv
  <2>2. IInv /\ HostInv /\ IInv' /\ HostInv'
    BY <1>3, <2>1 DEF Paired, Decoding
  <2>3. Decoding'
    BY <1>1, <2>1, <2>2 DEF Paired, Decoding, Running
  <2>4. Paired(g, n, k, ws)'
    BY <1>1, <2>1, <2>3 DEF Paired
  <2>. QED
    BY <2>4
<1>. QED
  BY <1>1, <1>2, <1>3, <1>4, <1>5, <1>6 DEF TripInv

\* decode_with begins at the beginning of the document.
LEMMA OpenKeeps == TripInv /\ Open => TripInv'
<1>. SUFFICES ASSUME TripInv, Open PROVE TripInv'
  OBVIOUS
<1>1. /\ todo = <<>> /\ result = "idle" /\ New
      /\ len' = Len(buf) /\ data' = buf
      /\ result' = IF Len(buf) > MaxSize THEN "MaxSize" ELSE "running"
      /\ UNCHANGED <<value, todo, strtab, buf, strdedup, pos, stack, arrs, root, strings,
                     hostTable, size_used, depth>>
  BY DEF TripInv, Open, encoder, tables
<1>2. EncInv'
  BY <1>1, EncStays DEF encoder, TripInv
<1>3. value \in U /\ strdedup \in BOOLEAN /\ buf \in Seq(Nat) /\ Len(buf) \in Nat
  BY LenProperties DEF TripInv, EncInv, EncOK
<1>4. MaxSize \in Nat \ {0} /\ MaxDepth \in Nat \ {0} /\ hostTable \in Seq(Seq(Nat))
  BY <1>1, DecoderAssumption DEF New
<1>5. IInv'
  <2>1. CursorOK'
    BY <1>1, <1>3 DEF CursorOK, New
  <2>2. TablesOK'
    BY <1>1, <1>4 DEF TablesOK, New
  <2>3. StackOK(stack, Len(strings), len)'
    <3>1. stack' = <<>> /\ <<>> \in Seq(Frames) /\ Len(<<>>) = 0
      BY <1>1 DEF New
    <3>. QED
      BY <3>1 DEF StackOK
  <2>4. DepthIsNesting'
    BY <1>1, <1>4 DEF DepthIsNesting, New
  <2>5. /\ strdedup' \in BOOLEAN /\ depth' \in Nat /\ result' \in {"running", "ok"} \cup Errors
        /\ result' # "Internal"
    BY <1>1, <1>3 DEF New, Errors
  <2>. QED
    BY <2>1, <2>2, <2>3, <2>4, <2>5 DEF IInv
<1>6. HostInv'
  BY <1>1, GivenNone DEF HostInv, New
<1>7. TablesAgree' /\ OnlyLimitsRefuse'
  <2>1. strings' = <<>>
    BY <1>1 DEF New
  <2>. QED
    BY <1>1, <2>1 DEF TablesAgree, OnlyLimitsRefuse
<1>8. CASE Len(buf) > MaxSize
  <2>1. result' = "MaxSize"
    BY <1>1, <1>8
  <2>. QED
    BY <1>1, <1>2, <1>5, <1>6, <1>7, <2>1 DEF TripInv
<1>9. CASE ~(Len(buf) > MaxSize)
  <2>1. result' = "running" /\ Len(buf) <= MaxSize
    BY <1>1, <1>3, <1>4, <1>9
  <2>2. PICK g, n : Run(strdedup, value, buf, g, n) /\ g[n] = State
    BY DEF TripInv, EncInv
  <2>3. Written(strdedup, value, buf, strtab, g, n)
    BY <1>1, <2>2 DEF Written, State
  <2>4. /\ 0 \in 0..n /\ g[0].todo = <<Enc!Each("value", <<value>>)>> /\ g[0].tab = <<>>
        /\ g[0].at = 0
    BY <2>2 DEF Run
  <2>5. g[0].todo = <<<<ValueTask(value)>>>>
    <3>1. Enc!Each("value", <<value>>) = [i \in 1..1 |-> Enc!Task("value", <<value>>[i])]
      BY DEF Enc!Each
    <3>2. [i \in 1..1 |-> Enc!Task("value", <<value>>[i])] = <<ValueTask(value)>>
      BY DEF ValueTask
    <3>. QED
      BY <2>4, <3>1, <3>2
  <2>6. Match(value, <<>>, <<>>, <<>>, g[0].todo, 0, hostTable)
    BY <1>3, <2>5, MatchNothing
  <2>7. TabAgrees(strdedup, <<>>, <<>>)
    <3>1. DOMAIN <<>> = {} /\ Cardinality({}) = 0 /\ Len(<<>>) = 0
      BY FS_EmptySet
    <3>. QED
      BY <3>1 DEF TabAgrees
  <2>8. Place(strdedup, value, g[0], <<>>, <<>>, <<>>, 0, <<>>, hostTable, 0, 0)
    <3>1. Len(<<>>) <= 0 /\ 0 <= 0
      OBVIOUS
    <3>. QED
      BY <2>4, <2>6, <2>7, <3>1 DEF Place
  <2>9. Decoding'
    BY <1>1, <1>3, <1>5, <1>6, <2>1 DEF Decoding, Running
  <2>10. Paired(g, n, 0, <<>>)'
    BY <1>1, <2>3, <2>4, <2>8, <2>9 DEF Paired, New
  <2>11. root' = <<>>
    BY <1>1 DEF New
  <2>. QED
    BY <1>1, <1>2, <1>5, <1>6, <1>7, <2>1, <2>10, <2>11 DEF TripInv
<1>. QED
  BY <1>8, <1>9

\* The decoder takes steps only while it runs.
LEMMA StepRuns == Step \/ HostError => Running
BY DEF Step, HostError, DecodeConst, DecodeInt, DecodeDouble, DecodeString, UnknownTag, NoTag,
   BeginPacked, BeginHash, BeginLongs, BeginCounted, BeginRows, BeginRepeat, TakeKey, BadKey, NoKey,
   OpenRows, BeginRow, ReadLong, CopyTemplate, EndArray, Return, WantsValue, WantsKey, InTop

\* Every step of the decoder moves it to a place of the run, or ends it.
LEMMA DecodeKeeps == TripInv /\ Decode => TripInv'
<1>. SUFFICES ASSUME TripInv, Decode PROVE TripInv'
  OBVIOUS
<1>1. (Step \/ HostError) /\ UNCHANGED <<value, todo, strtab, buf>>
  BY DEF Decode, encoder
<1>2. result = "running"
  BY <1>1, StepRuns DEF Running
<1>3. PICK g, n, k, ws : Paired(g, n, k, ws)
  BY <1>2 DEF TripInv
<1>4. /\ todo = <<>> /\ data = buf /\ (root # <<>> => IsBack) /\ IInv /\ HostInv
      /\ TablesAgree /\ EncInv
  BY <1>2 DEF TripInv
<1>5. IInv' /\ HostInv'
  <2>1. [Next]_vars
    BY <1>1 DEF Next
  <2>. QED
    BY <1>4, <2>1, NextIInv, HostInvNext
<1>6. Gives(g, n) \/ Return
  BY ONLY <1>1, <1>3, StepGives
<1>7. /\ Written(strdedup, value, data, strtab, g, n) /\ data \in Seq(Nat) /\ len = Len(data)
      /\ len <= MaxSize /\ value \in U
  BY <1>3 DEF Paired, Decoding
<1>8. UNCHANGED strdedup => EncInv'
  BY <1>1, <1>4, EncStays DEF encoder
<1>9. CASE Onward(g, n)
  <2>1. UNCHANGED <<len, data, strdedup, result>>
        /\ (root' # <<>> => <<root'[1], value>> \in V!Equal[MaxDepth])
    BY <1>9 DEF Onward
  <2>2. PICK k2, ws2 :
            k2 \in 0..n /\
            Place(strdedup, value, g[k2], ws2, stack', arrs', IF root' = <<>> THEN 0 ELSE 1,
                  strings', hostTable', pos', size_used')
    BY <1>9 DEF Onward
  <2>3. Decoding'
    BY <1>1, <1>2, <1>5, <1>7, <2>1 DEF Decoding, Running
  <2>4. Paired(g, n, k2, ws2)'
    BY <1>1, <1>7, <2>1, <2>2, <2>3 DEF Paired
  <2>5. TablesAgree'
    <3>1. TabAgrees(strdedup, g[k2].tab, strings')
      BY <2>2 DEF Place
    <3>2. strdedup => \A j \in DOMAIN strings' :
              strings'[j] \in DOMAIN strtab /\ strtab[strings'[j]] = j - 1
      <4>. DEFINE strs == strings'
      <4>1. Written(strdedup, value, data, strtab, g, n) /\ k2 \in 0..n
            /\ TabAgrees(strdedup, g[k2].tab, strs)
        BY <1>7, <2>2, <3>1
      <4>. HIDE DEF strs
      <4>2. Numbered(strdedup, strtab, strs)
        BY ONLY <4>1, AgreeHere
      <4>. QED
        BY <4>2 DEF strs, Numbered
    <3>. QED
      BY <1>1, <2>1, <3>2 DEF TablesAgree
  <2>6. result' = "running" /\ data' = buf'
    BY <1>1, <1>2, <1>4, <2>1
  <2>7. OnlyLimitsRefuse'
    BY <2>6 DEF OnlyLimitsRefuse
  <2>8. root' # <<>> => IsBack'
    BY <1>1, <2>1 DEF IsBack
  <2>9. todo' = <<>> /\ EncInv'
    BY <1>1, <1>4, <1>8, <2>1
  <2>. QED
    BY <1>5, <2>4, <2>5, <2>6, <2>7, <2>8, <2>9 DEF TripInv
<1>10. ASSUME NEW e, Refusal(e), NEW b, Fail(e, b) PROVE TripInv'
  <2>1. result' = e /\ UNCHANGED <<len, strdedup, strings, hostTable>>
    BY <1>10 DEF Fail, tables
  <2>2. e \notin {"idle", "running", "ok"}
    BY <1>10 DEF Refusal
  <2>3. TablesAgree'
    BY <1>1, <1>4, <2>1 DEF TablesAgree
  <2>4. e = "BadStrRef" => ~(Len(buf) <= MaxU32)
    <3>1. Len(buf) \in Nat /\ MaxU32 \in Nat /\ len = Len(buf)
      BY <1>4, <1>7, LenProperties, DecoderAssumption
    <3>. QED
      BY <1>10, <3>1 DEF Refusal
  <2>5. OnlyLimitsRefuse'
    BY <1>1, <1>10, <2>1, <2>4 DEF OnlyLimitsRefuse, Refusal
  <2>6. todo' = <<>> /\ EncInv'
    BY <1>1, <1>4, <1>8, <2>1
  <2>. QED
    BY <1>5, <2>1, <2>2, <2>3, <2>5, <2>6 DEF TripInv
<1>11. CASE Return
  <2>1. root # <<>>
    BY <1>11 DEF Return
  <2>2. pos = len /\ len \in Nat
    BY <1>3, <1>7, <2>1, WholeAtEnd, LenProperties
  <2>3. /\ result' = "ok"
        /\ UNCHANGED <<input, strdedup, pos, stack, arrs, root, tables, depth>>
    <3>1. ~(pos < len)
      BY <2>2
    <3>. QED
      BY <1>11, <3>1 DEF Return
  <2>4. TablesAgree'
    BY <1>1, <1>4, <2>3 DEF TablesAgree, tables
  <2>5. IsBack /\ IsBack'
    BY <1>1, <1>4, <2>1, <2>3 DEF IsBack
  <2>6. value' \in V!Nested[MaxDepth]
    <3>1. MaxDepth \in Nat
      BY DecoderAssumption
    <3>2. value \in V!Nested[MaxDepth]
      BY <2>5, <3>1, EqualCases DEF IsBack
    <3>. QED
      BY <1>1, <3>2
  <2>7. OnlyLimitsRefuse'
    BY <2>3, <2>6 DEF OnlyLimitsRefuse
  <2>8. todo' = <<>> /\ EncInv'
    BY <1>1, <1>4, <1>8, <2>3
  <2>. QED
    BY <1>5, <2>3, <2>4, <2>5, <2>7, <2>8 DEF TripInv
<1>. QED
  BY <1>6, <1>9, <1>10, <1>11 DEF Gives

\* So every step keeps it.
LEMMA TripNextInv == TripInv /\ [TripNext]_<<vars, encoder>> => TripInv'
BY EncodeKeeps, OpenKeeps, DecodeKeeps, StoppedKeeps DEF TripNext, TripStopped

\* The invariant is one of the round trip.
LEMMA TripInvariant == TripSpec => []TripInv
BY TripStart, TripNextInv, PTL DEF TripSpec

\* The value that decode_with returns is the one that encode_with was given.
THEOREM RoundTripValueArrives == TripSpec => []ValueArrives
<1>1. TripInv => ValueArrives
  <2>. SUFFICES ASSUME TripInv, result = "ok" PROVE SameValue(root[1], value)
    BY DEF ValueArrives
  <2>1. /\ <<root[1], value>> \in V!Equal[MaxDepth] /\ MaxDepth \in Nat
        /\ value \in V!Nested[Levels] /\ Levels \in Nat
    BY DecoderAssumption, RoundTripAssumption DEF TripInv, EncInv, EncOK, U, IsBack
  <2>2. <<value, root[1]>> \in V!Equal[MaxDepth]
    BY <2>1, EqualBack
  <2>3. <<value, root[1]>> \in V!Equal[Levels]
    BY <2>1, <2>2, EqualAtLevel
  <2>4. <<root[1], value>> \in V!Equal[Levels]
    BY <2>1, <2>3, EqualBack
  <2>. QED
    BY <2>4 DEF SameValue, V!SameValue
<1>. QED
  BY <1>1, TripInvariant, PTL

\* A document that encode_with wrote is refused for a limit or by the Host.
THEOREM RoundTripOnlyLimitsRefuse == TripSpec => []OnlyLimitsRefuse
<1>1. TripInv => OnlyLimitsRefuse
  BY DEF TripInv
<1>. QED
  BY <1>1, TripInvariant, PTL

\* Decoder and encoder number the strings alike.
THEOREM RoundTripTablesAgree == TripSpec => []TablesAgree
<1>1. TripInv => TablesAgree
  BY DEF TripInv
<1>. QED
  BY <1>1, TripInvariant, PTL
=============================================================================
