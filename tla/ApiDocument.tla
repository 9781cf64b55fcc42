---------------------------- MODULE ApiDocument ----------------------------
(***************************************************************************)
(* A document written call by call through the C API and then decoded by   *)
(* the Rust decoder (the path behind pf_decode).                           *)
(*                                                                         *)
(* The API takes any sequence of calls, but for the items of a run, which  *)
(* EncodeApi keeps inside their run.  Parse says which sequences are one   *)
(* value; it looks at calls only, never at bytes, string ids or limits.    *)
(***************************************************************************)
EXTENDS EncodeApi

CONSTANTS MaxDepth, MaxSize, MaxU32, DoubleWidth

VARIABLES
    len, data, pos, stack, arrs, root, depth, size_used,
    table, hostTable,   \* the decoder's strings, and those of its Host
    outcome             \* "idle", "running", "ok" or the decoder's error

decoder == <<len, data, pos, stack, arrs, root, table, hostTable, depth, size_used, outcome>>

\* All bytes are the encoder's: none is ever chosen.
Dec == INSTANCE Decoder WITH
    TagBytes <- {}, NumBytes <- {}, CharBytes <- {}, Lengths <- {0}, Overlong <- -1,
    StrictTrailing <- TRUE, Leftovers <- {<<>>}, strings <- table, result <- outcome

\* The caller has the document decoded; decode_with on the payload, which may be
\* empty.
OpenDocument ==
    /\ out = "live" /\ data = <<>> /\ outcome = "idle"
    /\ len' = Len(buf) /\ data' = buf
    /\ outcome' = IF Len(buf) > MaxSize THEN "MaxSize" ELSE "running"
    /\ UNCHANGED <<apiVars, pos, stack, arrs, root, table, hostTable, depth, size_used>>

Decode == Dec!Step /\ UNCHANGED <<strtab, buf, heap, err, calls>>

\* The decoder reads the buffer in place: it is not freed meanwhile.
FreeOutAfter == FreeOut /\ outcome # "running"

\* The caller may stop when it holds no handle and no buffer.
DocStopped ==
    /\ handle = "none" /\ encoder # "live" /\ out # "live" /\ outcome # "running"
    /\ UNCHANGED <<apiVars, decoder>>

DocInit ==
    /\ ApiInit /\ Dec!InitInput
    /\ pos = 0 /\ stack = <<>> /\ arrs = <<>> /\ root = <<>>
    /\ table = <<>> /\ hostTable = <<>> /\ size_used = 0 /\ depth = 0
    /\ outcome = "idle"

DocNext ==
    \/ (New \/ Write \/ FinishRefused \/ Finish \/ Free \/ FreeOutAfter) /\ UNCHANGED decoder
    \/ OpenDocument \/ Decode \/ DocStopped

DocSpec == DocInit /\ [][DocNext]_<<apiVars, decoder>>
-----------------------------------------------------------------------------
(* Which calls make a value, and which value.                                *)

Repeated(kinds, n) == [i \in 1..(n * Len(kinds)) |-> kinds[((i - 1) % Len(kinds)) + 1]]

\* The parts an array consists of after its begin call, and the array they make.
PartsOf(begin) ==
    CASE begin[1] = "packed" -> Repeated(<<"value">>, begin[2])
      [] begin[1] = "longs" -> Repeated(<<"item">>, begin[2])
      [] begin[1] = "hash" -> Repeated(<<"key", "value">>, begin[2])
      [] begin[1] = "repeat" -> <<"value">>
      [] begin[1] = "rows" ->
           Repeated(<<"key">>, begin[3]) \o Repeated(<<"value">>, begin[2] * begin[3])

ArrayOf(begin, parts) ==
    CASE begin[1] \in {"packed", "longs"} -> <<"list", parts>>
      [] begin[1] = "hash" ->
           <<"hash", [i \in 1..begin[2] |-> <<parts[2 * i - 1], parts[2 * i]>>]>>
      [] begin[1] = "repeat" -> <<"list", [i \in 1..begin[2] |-> parts[1]]>>
      [] begin[1] = "rows" ->
           <<"list", [i \in 1..begin[2] |->
                <<"hash", [j \in 1..begin[3] |-> <<parts[j], parts[i * begin[3] + j]>>]>>]>>

\* The ways to read things of these kinds, in order, off the front of some calls
\* (there is one or none): the things and the calls that are left.
RECURSIVE Parse(_, _)
Parse(kinds, cs) ==
    IF kinds = <<>> THEN {<<<<>>, cs>>}
    ELSE IF cs = <<>> THEN {}
    ELSE LET call == cs[1]
             first ==
                 CASE kinds[1] = "item" /\ call[1] = "item" -> {<<<<"int", call[2]>>, Tail(cs)>>}
                   [] kinds[1] = "key" /\ call[1] \in {"int", "str"} -> {<<call, Tail(cs)>>}
                   [] kinds[1] = "value" /\ call \in Scalars -> {<<call, Tail(cs)>>}
                   [] kinds[1] = "value" /\ call[1] \notin {"item"} /\ call \notin Scalars ->
                        {<<ArrayOf(call, p[1]), p[2]>> : p \in Parse(PartsOf(call), Tail(cs))}
                   [] OTHER -> {}
         IN  UNION {{<<<<f[1]>> \o p[1], p[2]>> : p \in Parse(Tail(kinds), f[2])} : f \in first}

\* What the calls make, if they make exactly one value.
Meaning == {p[1][1] : p \in {q \in Parse(<<"value">>, calls) : q[2] = <<>>}}

\* Rows of no columns have no bytes, which the decoder's check of the counts wants.
NoEmptyRows == \A i \in DOMAIN calls : calls[i][1] = "rows" => calls[i][3] > 0

\* A document decodes exactly if the calls that returned Ok made one value: each count
\* that was announced was kept, keys are where keys belong, nothing is left over;
\* and then it decodes to that value.  A caller that miscounts never gets another
\* value than it wrote (the elements of the wrong array, say): it gets an error.
DecodesIfBalanced ==
    /\ outcome = "ok" => Meaning = {root[1]}
    /\ outcome \notin {"idle", "running", "ok"} /\ NoEmptyRows => Meaning = {}
=============================================================================
