--------------------------- MODULE DecodersAgree ---------------------------
(***************************************************************************)
(* The two decoders of the repository on the same payload: the Rust one    *)
(* (module Decoder) and then the C one (module DecoderC), which says of    *)
(* itself that it "mirrors crates/pf-core decoder semantics"               *)
(* (decode_c.c:3).  Neither the Host nor the PHP engine fails here.        *)
(***************************************************************************)
EXTENDS Input

CONSTANTS MaxDepth, MaxSize, MaxU32, DoubleWidth, SymtableKey(_)

VARIABLES
    strdedup,
    rpos, rstack, rarrs, rroot, rstrings, rhost, rdepth, rsize, rresult,
    cpos, cframes, couts, croot, cstrs, cdepth, csize, cowned, ckeytabs, cerr, cresult

rust == <<rpos, rstack, rarrs, rroot, rstrings, rhost, rdepth, rsize, rresult>>
c == <<cpos, cframes, couts, croot, cstrs, cdepth, csize, cowned, ckeytabs, cerr, cresult>>
vars == <<len, data, strdedup, rust, c>>

Rust == INSTANCE Decoder WITH
    pos <- rpos, stack <- rstack, arrs <- rarrs, root <- rroot, strings <- rstrings,
    hostTable <- rhost, depth <- rdepth, size_used <- rsize, result <- rresult,
    StrictTrailing <- TRUE, Leftovers <- {<<>>}

C == INSTANCE DecoderC WITH
    pos <- cpos, frames <- cframes, outs <- couts, root <- croot, strs <- cstrs,
    depth <- cdepth, size_used <- csize, owned <- cowned, keytabs <- ckeytabs,
    err <- cerr, result <- cresult

RustStep == Rust!Step /\ UNCHANGED c
CStep == rresult # "running" /\ C!Step /\ UNCHANGED rust
Stopped == rresult # "running" /\ cresult # "running" /\ UNCHANGED vars

Init == InitInput /\ Rust!Init /\ C!Init
Next == RustStep \/ CStep \/ Stopped
Spec == Init /\ [][Next]_vars
-----------------------------------------------------------------------------
\* The PHP value that the entries of a Rust ArrayHash make when they are
\* inserted one after the other into a PHP array.
RECURSIVE PhpValue(_)
PhpValue(v) ==
    CASE v[1] = "list" -> <<"list", [i \in DOMAIN v[2] |-> PhpValue(v[2][i])]>>
      [] v[1] = "hash" ->
           LET key(k) == IF k[1] = "str" THEN SymtableKey(k[2]) ELSE k
               ins[i \in 0..Len(v[2])] ==
                   IF i = 0 THEN <<>>
                   ELSE C!Update(ins[i - 1], key(v[2][i][1]), PhpValue(v[2][i][2]))
           IN  <<"hash", ins[Len(v[2])]>>
      [] OTHER -> v

\* Every payload is accepted by both decoders, as the same PHP value and with
\* the same bytes charged, or refused by both with the same error code.
Agreement ==
    rresult # "running" /\ cresult # "running" =>
        /\ cresult = rresult
        /\ rresult = "ok" => croot[1] = PhpValue(rroot[1]) /\ csize = rsize
=============================================================================
