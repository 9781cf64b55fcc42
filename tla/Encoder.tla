------------------------------ MODULE Encoder ------------------------------
(***************************************************************************)
(* The Rust encoder (pf-core/src/encoder.rs): encode_with on a Value.      *)
(*                                                                         *)
(* write_value calls itself from its loops.  "todo" is the stack of these  *)
(* loops, outermost first: for each what it has still to write, without    *)
(* what it is writing.                                                     *)
(***************************************************************************)
EXTENDS Writer

CONSTANTS
    Documents,          \* the values to encode (module Values)
    SameValue(_, _)     \* Value::eq

VARIABLES
    value,      \* the argument of encode_with
    todo        \* the loops that are not at their end

vars == <<written, value, todo>>

Task(kind, x) == [kind |-> kind, what |-> x]
Each(kind, xs) == [i \in 1..Len(xs) |-> Task(kind, xs[i])]

Init ==
    /\ WriterInit
    /\ value \in Documents
    /\ todo = <<Each("value", <<value>>)>>
-----------------------------------------------------------------------------
Loop == todo[Len(todo)]

\* The next thing to write is of this kind.
Upcoming(kind) == todo # <<>> /\ Loop # <<>> /\ Loop[1].kind = kind
What == Loop[1].what

\* The innermost loop, when it goes on.
Rest == [todo EXCEPT ![Len(todo)] = Tail(@)]

\* One thing is written; or it consists of these things, which a loop inside writes.
Done == todo' = Rest /\ UNCHANGED value
Within(tasks) == todo' = Append(Rest, tasks) /\ UNCHANGED value

\* A loop is at its end.
EndLoop ==
    /\ todo # <<>> /\ Loop = <<>>
    /\ todo' = SubSeq(todo, 1, Len(todo) - 1)
    /\ UNCHANGED <<written, value>>

WriteScalar ==
    /\ Upcoming("value") /\ Done
    /\ \/ What[1] = "null" /\ WriteNull
       \/ What[1] = "bool" /\ WriteBool(What[2])
       \/ What[1] = "int" /\ WriteInt(What[2])
       \/ What[1] = "double" /\ WriteDouble(What[2])

WriteString == Upcoming("value") /\ What[1] = "str" /\ WriteStringBytes(What[2]) /\ Done

WriteKey ==
    /\ Upcoming("key") /\ Done
    /\ IF What[1] = "int" THEN WriteInt(What[2]) ELSE WriteStringBytes(What[2])

WriteLong == Upcoming("long") /\ WriteLongItem(What[2]) /\ Done
-----------------------------------------------------------------------------
(* The form of an array.                                                     *)

IsLongs(items) == items # <<>> /\ \A i \in 1..Len(items) : items[i][1] = "int"

IsRepeat(items) ==
    /\ Len(items) >= 2
    /\ \A i \in 1..Len(items) : SameValue(items[i], items[1])

KeysOf(row) == [i \in 1..Len(row[2]) |-> row[2][i][1]]
CellsOf(row) == [i \in 1..Len(row[2]) |-> row[2][i][2]]

\* Mutant of IsRowset: only the number of keys is compared.
IsRowsetByLength(items) ==
    /\ Len(items) >= 2
    /\ \A i \in 1..Len(items) : items[i][1] = "hash"
    /\ items[1][2] # <<>>
    /\ \A i \in 1..Len(items) : Len(items[i][2]) = Len(items[1][2])

\* rowset_schema finds a schema.
IsRowset(items) ==
    /\ Len(items) >= 2
    /\ \A i \in 1..Len(items) : items[i][1] = "hash"
    /\ items[1][2] # <<>>
    /\ \A i \in 1..Len(items) : KeysOf(items[i]) = KeysOf(items[1])

Form(items) ==
    IF IsLongs(items) THEN "longs"
    ELSE IF IsRepeat(items) THEN "repeat"
    ELSE IF IsRowset(items) THEN "rows"
    ELSE "packed"

WriteList(form) == Upcoming("value") /\ What[1] = "list" /\ Form(What[2]) = form

WriteLongs ==
    /\ WriteList("longs")
    /\ BeginLongs(Len(What[2])) /\ Within(Each("long", What[2]))

WriteRepeat ==
    /\ WriteList("repeat")
    /\ BeginRepeat(Len(What[2])) /\ Within(<<Task("value", What[2][1])>>)

WriteRows ==
    /\ WriteList("rows")
    /\ LET rows == What[2]
       IN  /\ BeginRows(Len(rows), Len(rows[1][2]))
           /\ Within(Each("key", KeysOf(rows[1])) \o Each("row", rows))

\* The loop over the cells of a row.
WriteRow == Upcoming("row") /\ Within(Each("value", CellsOf(What))) /\ UNCHANGED written

WritePacked ==
    /\ WriteList("packed")
    /\ BeginPacked(Len(What[2])) /\ Within(Each("value", What[2]))

\* A key and its value, in turns.
Entries(pairs) ==
    [j \in 1..(2 * Len(pairs)) |->
        IF j % 2 = 1 THEN Task("key", pairs[(j + 1) \div 2][1])
                     ELSE Task("value", pairs[j \div 2][2])]

WriteHash ==
    /\ Upcoming("value") /\ What[1] = "hash"
    /\ BeginHash(Len(What[2])) /\ Within(Entries(What[2]))

Encode ==
    \/ WriteScalar \/ WriteString \/ WriteKey \/ WriteLong
    \/ WriteLongs \/ WriteRepeat \/ WriteRows \/ WriteRow \/ WritePacked \/ WriteHash
    \/ EndLoop
=============================================================================
