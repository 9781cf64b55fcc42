----------------------------- MODULE MCInterop -----------------------------
(***************************************************************************)
(* Interop on values of three levels and on short payloads.  The scalars   *)
(* are few but make every form of array: null, an integer and a string that*)
(* is also a key, long enough for its repetitions to outgrow the document. *)
(* The string of the one character 7 is the decimal number 1.              *)
(***************************************************************************)
EXTENDS Interop

LOCAL Lists(elements, lengths) ==
    {<<"list", s>> : s \in UNION {[1..n -> elements] : n \in lengths}}
LOCAL Hashes(keys, elements, lengths) ==
    {<<"hash", s>> : s \in UNION {[1..n -> keys \X elements] : n \in lengths}}

MCSymtableKey(s) == IF s = <<7>> THEN <<"int", 1>> ELSE <<"str", s>>

MCPosZero == <<0, 0>>
MCNegZero == <<0, 128>>
MCNaN == <<1, 127>>

LOCAL Long == <<"str", <<1, 1, 1, 1, 1, 1, 1, 1>>>>
LOCAL Short == <<"str", <<2>>>>
LOCAL Empty == <<"str", <<>>>>
LOCAL Decimal == <<"str", <<7>>>>
LOCAL One == <<"int", 1>>
LOCAL Leaves == {<<"null">>, <<"int", -1>>, Long}
LOCAL MoreLeaves(doubles) ==
    Leaves \cup {<<"bool", TRUE>>, <<"bool", FALSE>>, Empty, Short}
        \cup {<<"double", d>> : d \in doubles}

\* Of Rust: an ArrayHash may hold a key twice, or the keys of a list, or a number
\* as an integer and as a string.
LOCAL RustLeaves == MoreLeaves({<<1, 1>>, <<1, 2>>})
LOCAL RustKeys == {<<"int", 0>>, Long}
LOCAL RustLevel1 == Leaves \cup Lists(Leaves, 0..2) \cup Hashes(RustKeys, Leaves, 0..2)
LOCAL RustLevel2 == Lists(RustLevel1, 1..2) \cup Hashes(RustKeys, RustLevel1, {1})

MCRustDocuments ==
    RustLevel1 \cup RustLevel2
        \cup Lists(RustLeaves, 1..3) \cup Hashes(RustKeys \cup {Empty}, RustLeaves, 1..2)
        \cup Lists(Hashes(RustKeys \cup {Empty}, Leaves, {1}), {3})
        \cup Lists(Hashes({One, Decimal}, {<<"null">>, <<"int", -1>>}, {2}), 1..2)
        \cup {<<"list", <<v>>>> : v \in RustLevel2} \cup {<<"list", <<v, v>>>> : v \in RustLevel2}

\* Of PHP: a hash never has the keys 0, 1, ... in order (it would be a list), its
\* keys are distinct and none is a decimal string.
LOCAL Pairs(k, l, elements) == {<<"hash", <<<<k, x>>, <<l, y>>>>>> : x, y \in elements}
LOCAL Single(keys, elements) == {<<"hash", <<<<k, x>>>>>> : k \in keys, x \in elements}
LOCAL NaN1 == <<"double", MCNaN>>
LOCAL PhpLeaves == MoreLeaves({MCPosZero, MCNaN})

\* The smallest sets that make a row, a repeated row and rows that differ.
LOCAL PhpLevel1 ==
    Leaves \cup {<<"list", <<>>>>} \cup Lists({NaN1, <<"int", -1>>}, 1..2)
        \cup Single({Long}, Leaves) \cup Pairs(Long, One, {<<"null">>, <<"int", -1>>})
        \cup Single({One}, {NaN1})

\* A list and a hash of the same length in one list are left out: what
\* schemas_match says of them is anybody's guess (see SchemasMatch).
LOCAL Comparable(v) ==
    v[1] = "list" =>
        \A i, j \in DOMAIN v[2] :
            ~(/\ v[2][i][1] = "list" /\ v[2][j][1] = "hash"
              /\ Len(v[2][i][2]) = Len(v[2][j][2]))

LOCAL PhpLevel2 ==
    {v \in Lists(PhpLevel1, 1..2) : Comparable(v)} \cup Single({One, Long}, PhpLevel1)

MCPhpDocuments ==
    PhpLevel1 \cup PhpLevel2
        \cup Lists(PhpLeaves, 0..2) \cup Pairs(Empty, Long, PhpLeaves)
        \cup Lists({NaN1, <<"double", MCPosZero>>, One}, {3})
        \cup {<<"list", <<v>>>> : v \in PhpLevel2} \cup {<<"list", <<v, v>>>> : v \in PhpLevel2}
        \cup Lists(Single({Long, Empty}, {<<"int", 0>>, <<"null">>}), {3})
        \cup {<<"object">>, <<"list", <<<<"null">>, <<"object">>>>>>}

\* Many equal elements, plain strings and rows.
MCLargeDocuments ==
    Lists({<<"null">>}, 1..9) \cup Lists(RustLeaves, 1..2) \cup Hashes(RustKeys, Leaves, 1..2)

\* Rowsets in rowsets.
LOCAL Rowset(cells) ==
    {<<"list", <<<<"hash", <<<<Long, x>>>>>>, <<"hash", <<<<Long, <<"int", 3>>>>>>>>>>>> :
        x \in cells}
MCDeepDocuments ==
    Rowset(Leaves) \cup Rowset(Rowset(Leaves)) \cup Lists(Lists(Leaves, 1..2), 1..2)
        \cup Rowset(Rowset(Rowset(Leaves)))
=============================================================================
