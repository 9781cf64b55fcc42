----------------------------- MODULE MCDecoder -----------------------------
(* Decoder over all payloads of the bytes and lengths its cfg files give.  *)
EXTENDS Decoder, TLC

\* A new Host, and two that were lent for documents of one or two strings.
MCLeftovers == {<<>>, <<<<9>>>>, <<<<9>>, <<9, 9>>>>}

\* The Host is never asked to reserve more elements for an array than there are
\* bytes left behind its count ("if declared_count > remaining_bytes: reject",
\* protocol-v1.md, 10.3), for whatever kind of array.
EveryReserveBounded ==
    \A i \in 1..Len(stack) :
        stack[i].kind \in {"packed", "hash", "longs", "rows", "row", "copies"} =>
            stack[i].count <= len
=============================================================================
