------------------------------ MODULE MCBytes ------------------------------
(***************************************************************************)
(* Varint and Buffer, what every document rests on.  Neither looks at the  *)
(* other, so that each is explored while the other rests at its start.     *)
(***************************************************************************)
EXTENDS Varint, Buffer

\* The first integer is about to be written; the buffer is empty.
VarintRests == value = <<0>> /\ written = 0 /\ UNCHANGED vars
BufferRests == BufferInit /\ UNCHANGED bufferVars

BytesInit == Init /\ BufferInit
BytesNext == (Next /\ BufferRests) \/ (BufferNext /\ VarintRests)

\* The fairness of BufferSpec.
BytesSpec ==
    BytesInit /\ [][BytesNext]_<<vars, bufferVars>> /\ WF_bufferVars(Double \/ Reallocate \/ Copy)
=============================================================================
