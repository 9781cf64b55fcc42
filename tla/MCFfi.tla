------------------------------- MODULE MCFfi -------------------------------
(***************************************************************************)
(* The two halves of the C ABI: the encoder API with what becomes of its   *)
(* documents, and the host of a decode with the function tables of MCCHost.*)
(* They share no state, so that each is explored while the other rests at  *)
(* its start.                                                              *)
(*                                                                         *)
(* There is a scalar of every type: two can be keys, one of them a string  *)
(* that is defined and referred to.                                        *)
(***************************************************************************)
EXTENDS MCCHost, ApiDocument

MCScalars ==
    {<<"null">>, <<"bool", TRUE>>, <<"int", 1>>, <<"double", <<1, 2>>>>, <<"str", <<7>>>>}

MCItems == {-1}

MCBegins ==
    {<<"packed", 0>>, <<"packed", 1>>, <<"packed", 2>>, <<"longs", 2>>,
     <<"hash", 0>>, <<"hash", 1>>, <<"repeat", 0>>, <<"repeat", 2>>,
     <<"rows", 2, 1>>, <<"rows", 0, 1>>}

\* One of the states each half starts in: with the smallest table, no string has been
\* defined and nothing made.
HostRests ==
    /\ strings = 0 /\ live = 0 /\ undropped = 0 /\ arrays = <<>> /\ result = "running"
    /\ hooks = {"duplicate_value"} /\ UNCHANGED vars
DocRests == strdedup /\ DocInit /\ UNCHANGED <<apiVars, decoder>>

FfiInit == Init /\ DocInit
FfiNext == (DocRests /\ Next) \/ (HostRests /\ DocNext)
FfiSpec == FfiInit /\ [][FfiNext]_<<vars, apiVars, decoder>>
=============================================================================
