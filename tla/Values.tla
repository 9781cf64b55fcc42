------------------------------- MODULE Values -------------------------------
(***************************************************************************)
(* The Value of the Rust side (pf-core/src/value.rs), and its equality.  A *)
(* value is a pair of a kind and its content: a list is an ArrayPacked, a  *)
(* hash an ArrayHash, a sequence of <<key, value>> in order.  Strings and  *)
(* doubles are sequences of bytes.  What PHP has is written alike: a list  *)
(* is an array with the keys 0, 1, ... in order, a hash any other one.     *)
(*                                                                         *)
(* Values are trees; both definitions below go by how many levels of arrays*)
(* there are.                                                              *)
(***************************************************************************)
EXTENDS Integers, Sequences

CONSTANTS
    Levels,         \* bound: levels of arrays in a value
    MaxU32,         \* u32::MAX, which the count of an array never passes
    DoubleWidth     \* 8, the bytes of a double

IsArray(v) == v[1] \in {"list", "hash"}

Scalars ==
    {<<"null">>} \cup ({"bool"} \X BOOLEAN) \cup ({"int"} \X Int) \cup ({"str"} \X Seq(Nat))
        \cup ({"double"} \X {raw \in Seq(Nat) : Len(raw) = DoubleWidth})

Keys == ({"int"} \X Int) \cup ({"str"} \X Seq(Nat))

Counted(S) == {s \in Seq(S) : Len(s) <= MaxU32}

\* The values that have up to n levels of arrays.
Nested[n \in Nat] ==
    IF n = 0 THEN Scalars
    ELSE Scalars \cup ({"list"} \X Counted(Nested[n - 1]))
                 \cup ({"hash"} \X Counted(Keys \X Nested[n - 1]))

\* Whether two arrays are equal if equal elements are the pairs in this set: those of
\* the same kind are compared element by element, and the empty ones are all equal.
SameArrays(a, b, same) ==
    \/ IsArray(a) /\ IsArray(b) /\ a[2] = <<>> /\ b[2] = <<>>
    \/ a[1] = "list" /\ b[1] = "list" /\ Len(a[2]) = Len(b[2])
       /\ \A i \in 1..Len(a[2]) : <<a[2][i], b[2][i]>> \in same
    \/ a[1] = "hash" /\ b[1] = "hash" /\ Len(a[2]) = Len(b[2])
       /\ \A i \in 1..Len(a[2]) : /\ a[2][i][1] = b[2][i][1]
                                  /\ <<a[2][i][2], b[2][i][2]>> \in same

\* The pairs of equal values among those of up to n levels: doubles by their bits.
Equal[n \in Nat] ==
    IF n = 0 THEN {p \in Scalars \X Scalars : p[1] = p[2]}
    ELSE {p \in Nested[n] \X Nested[n] :
             \/ p[1] \in Scalars /\ p[1] = p[2]
             \/ SameArrays(p[1], p[2], Equal[n - 1])}

\* Value::eq.
SameValue(a, b) == <<a, b>> \in Equal[Levels]
=============================================================================
