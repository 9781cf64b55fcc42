----------------------------- MODULE HostCalls -----------------------------
(***************************************************************************)
(* What a decoder promises to whom it builds a value with (the Host of     *)
(* pf-core/src/host.rs, or the array functions of PHP): arrays are begun   *)
(* and ended one inside the other, an array is ended when it has got       *)
(* exactly as many elements as it was begun with and then goes to the array*)
(* around it, and there is one value in the end or none.                   *)
(***************************************************************************)
EXTENDS Naturals, Sequences

CONSTANT MaxCount       \* the largest count of an array

VARIABLES
    open,       \* the arrays that are begun and not ended, and repeats whose value
                \* is still to come: each [needs |-> elements still to come,
                \* template |-> TRUE for such a repeat]
    whole,      \* whether the outermost value is complete
    answer      \* "none", "value" or "error"

vars == <<open, whole, answer>>

Init == open = <<>> /\ whole = FALSE /\ answer \in {"none", "error"}

\* Somebody is waiting for a value: the caller of the decoder, a repeat or an array.
Wanted(arrays) ==
    IF arrays = <<>> THEN ~whole
    ELSE arrays[Len(arrays)].template \/ arrays[Len(arrays)].needs > 0

\* An array that gets a value: its template, or one of its elements.
Served(array) ==
    IF array.template THEN [array EXCEPT !.template = FALSE]
    ELSE [array EXCEPT !.needs = @ - 1]

\* A complete value goes to the innermost of these arrays.
Receive(arrays) ==
    /\ Wanted(arrays)
    /\ IF arrays = <<>> THEN open' = <<>> /\ whole' = TRUE
       ELSE /\ open' = [arrays EXCEPT ![Len(arrays)] = Served(@)]
            /\ UNCHANGED whole

\* push_scalar, insert_scalar, make_*; a copy of a template.
Give == answer = "none" /\ Receive(open) /\ UNCHANGED answer

\* begin_array, or decode_array_repeat on its way to its template.
BeginArray ==
    /\ answer = "none" /\ Wanted(open)
    /\ \E n \in 0..MaxCount, template \in BOOLEAN :
           open' = Append(open, [needs |-> n, template |-> template])
    /\ UNCHANGED <<whole, answer>>

\* end_array, and push_packed or insert_key of what it returned.
EndArray ==
    /\ answer = "none" /\ open # <<>>
    /\ ~open[Len(open)].template /\ open[Len(open)].needs = 0
    /\ Receive(SubSeq(open, 1, Len(open) - 1))
    /\ UNCHANGED answer

\* A value is returned when nothing is open; an error ends everything at any time.
AnswerValue ==
    /\ answer = "none" /\ open = <<>> /\ whole
    /\ answer' = "value" /\ UNCHANGED <<open, whole>>

AnswerError ==
    /\ answer = "none" /\ answer' = "error"
    /\ open' = <<>> /\ whole' = FALSE

Next == Give \/ BeginArray \/ EndArray \/ AnswerValue \/ AnswerError

Spec == Init /\ [][Next]_vars
=============================================================================
