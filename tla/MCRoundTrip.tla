---------------------------- MODULE MCRoundTrip ----------------------------
(***************************************************************************)
(* RoundTrip on the values that make every form of array and meet every    *)
(* limit: a rowset in a rowset is as deep as its rows.                     *)
(***************************************************************************)
EXTENDS RoundTrip

LOCAL Lists(elements, lengths) ==
    {<<"list", s>> : s \in UNION {[1..n -> elements] : n \in lengths}}
LOCAL Hashes(keys, elements, lengths) ==
    {<<"hash", s>> : s \in UNION {[1..n -> keys \X elements] : n \in lengths}}

LOCAL Long == <<"str", <<7, 7, 7>>>>
LOCAL Empty == <<"str", <<>>>>
LOCAL MCKeys == {Long, Empty, <<"int", 1>>}
LOCAL Leaves == {<<"null">>, <<"int", -1>>, Long}
LOCAL MoreLeaves ==
    Leaves \cup {<<"bool", TRUE>>, <<"bool", FALSE>>, Empty, <<"str", <<8>>>>, <<"double", <<1, 2>>>>}
LOCAL Level1 == Leaves \cup Lists(Leaves, 0..2) \cup Hashes(MCKeys, Leaves, 0..1)
LOCAL Level2 == Lists(Level1, 1..2) \cup Hashes({Long}, Level1, {1})

MCDocuments ==
    MoreLeaves \cup Level1 \cup Level2
        \cup Lists(MoreLeaves, 1..3) \cup Hashes({Long, <<"int", 1>>}, Leaves, {2})
        \cup Lists(Hashes({Long, <<"int", 1>>}, {<<"null">>, Long}, {2}), {2})
        \cup {<<"list", <<v, v>>>> : v \in Level2}
        \cup {<<"list", <<<<"hash", <<<<Long, v>>>>>>, <<"hash", <<<<Long, <<"null">>>>>>>>>>>> :
                  v \in Level2}

MCLeftovers == {<<>>, <<<<7, 7, 7>>>>}

\* No byte at all: the bytes are those of an encoder.
MCOverlong == -1
=============================================================================
