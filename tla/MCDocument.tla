----------------------------- MODULE MCDocument -----------------------------
(***************************************************************************)
(* Document with payloads of up to three bytes over two, one of which is   *)
(* also a flag, and a hash that tells them and their damaged forms apart.  *)
(***************************************************************************)
EXTENDS Document

LOCAL INSTANCE SequencesExt

MCPayloads == UNION {[1..n -> {1, 2}] : n \in 0..3}

\* The digits of the bytes in a base that is larger than all of them.
MCHash(payload) == 100 + FoldLeft(LAMBDA h, b : 200 * h + b + 1, 0, payload)

MCBytes == {0, 1, 2, 3, 4, MAGIC} \cup {MCHash(<<>>), MCHash(<<1>>)}

\* A short and a long document of some other format.
MCForeign == {<<0, 2>>, <<0, 0, 2>>}

MCDepths == {-1, 0, 1, 5, 8, 9, 16, 18}
MCSizes == {-1, 0, 1, 2, 9}
=============================================================================
