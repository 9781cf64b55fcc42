------------------------------- MODULE CHost -------------------------------
(***************************************************************************)
(* The Host that pf_decode gives the Rust decoder (pf-ffi/src/c_host.rs):  *)
(* every method calls a function of a table that a C program filled in,    *)
(* where some functions may be missing, and any may fail.                  *)
(*                                                                         *)
(* The decoder is the environment here: it makes any sequence of calls it  *)
(* could make for some document (decoder.rs; module Decoder says which     *)
(* document makes it do what).  Handles are counted, not named: "live" are *)
(* the values and array states the C program gave out and has neither      *)
(* taken back, by putting them into an array, nor been told to drop.  The  *)
(* Rust side owns a handle in a CValue or CArray whose pointer is not      *)
(* null.  The C program takes a value only when it succeeds, but an array  *)
(* given to end_array always.  A table without drop_value or drop_array is *)
(* told nothing of what is not used (pfserialize.h:95-98): those handles   *)
(* stay the C program's and are counted apart.                             *)
(***************************************************************************)
EXTENDS Naturals, Sequences, FiniteSets

CONSTANTS
    HookSets,       \* which optional functions of the table are there
    MaxArrays,      \* bound: arrays open at a time
    MaxStrings,     \* bound: strings defined
    MaxElements     \* bound: elements of an array that are given to the host

ASSUME CHostAssumption ==
    MaxArrays \in Nat \ {0} /\ MaxStrings \in Nat /\ MaxElements \in Nat

VARIABLES
    hooks,      \* PfHostVTable: the optional functions that are not NULL
    fallback,   \* how many entries fallback_strings has
    cached,     \* how many strings the C program was given to intern
    strings,    \* how many strings the decoder has defined
    arrays,     \* the arrays being decoded, outermost first
    held,       \* CValues in local variables of the decoder: a finished value
    live,       \* handles the C program has given out
    undropped,  \* history: handles let go of for which the table has no drop function
    result      \* "running", "ok" or the error of decode_with; UnknownId is its Host,
                \* from a function given an id it had been told no string for

vars == <<hooks, fallback, cached, strings, arrays, held, live, undropped, result>>

\* An array is open (its CArray is owned by its frame), of one kind or the other,
\* or the template of a repeat is being decoded, or is copied into its array.
\* The key is that of the next element of a hash, once it has been read.
Kinds == {"packed", "hash", "template", "copies"}
KeyKinds == {"none", "int", "empty", "id"}
Arrays == [kind : Kinds, n : 0..MaxElements, key : KeyKinds]

Init ==
    /\ hooks \in HookSets
    /\ fallback = 0 /\ cached = 0 /\ strings = 0
    /\ arrays = <<>> /\ held = 0 /\ live = 0 /\ undropped = 0
    /\ result = "running"
-----------------------------------------------------------------------------
Has(hook) == hook \in hooks
Running == result = "running"
Top == arrays[Len(arrays)]
TopKind == IF arrays = <<>> THEN "root" ELSE Top.kind
Below == SubSeq(arrays, 1, Len(arrays) - 1)

\* The handles the Rust side owns: held, and those of the frames (a repeat that
\* copies has its array and its template).
ArraysOf(frames) ==
    Cardinality({k \in DOMAIN frames : frames[k].kind \in {"packed", "hash", "copies"}})
TemplatesOf(frames) == Cardinality({k \in DOMAIN frames : frames[k].kind = "copies"})
OwnedBy(frames) == ArraysOf(frames) + TemplatesOf(frames)

Owned == held + OwnedBy(arrays)

\* Of so many CValues and CArrays that are dropped, those the C program is not told of.
Untold(values, states) ==
    (IF Has("drop_value") THEN 0 ELSE values) + (IF Has("drop_array") THEN 0 ELSE states)

\* An error: every frame returns it, and Drop gives back what they own.  Before it,
\* so many CValues have lost their pointer and so many arrays were given away.
FailAfter(e, lost, given) ==
    /\ result' = e
    /\ arrays' = <<>> /\ held' = 0
    /\ LET untold == Untold(held + TemplatesOf(arrays) - lost, ArraysOf(arrays) - given)
       IN  live' = live - (Owned - lost - untold) /\ undropped' = undropped + untold
    /\ UNCHANGED <<hooks, fallback, cached, strings>>

Fail(e) == FailAfter(e, 0, 0)

\* The C function is called: it fails, or this happens.
Call(succeeded) == succeeded \/ Fail("Host")

\* One more element of the innermost array.
Counted == [arrays EXCEPT ![Len(arrays)].n = @ + 1, ![Len(arrays)].key = "none"]

\* The innermost array is to get another element (a hash has its key).
WantsElement(kind) ==
    /\ Running /\ held = 0 /\ TopKind = kind
    /\ Top.n < MaxElements /\ (kind = "hash" => Top.key # "none")

\* decode_value is called: for the root, a template or an array as an element.
WantsValue == Running /\ held = 0 /\ TopKind \in {"root", "template"}
WantsArray == (WantsValue \/ WantsElement("packed") \/ WantsElement("hash"))
                  /\ Len(arrays) < MaxArrays

Strings == <<hooks, fallback, cached, strings>>
-----------------------------------------------------------------------------
(* Strings and keys.                                                         *)

\* Mutant of InternString: nobody keeps the strings for a table without the
\* function.
InternStringNowhere ==
    /\ Running /\ held = 0 /\ TopKind # "copies" /\ strings < MaxStrings
    /\ strings' = strings + 1
    /\ IF Has("intern_string") THEN cached' = cached + 1 ELSE UNCHANGED cached
    /\ UNCHANGED <<hooks, fallback, arrays, held, live, undropped, result>>

\* intern_string; the decoder's ids count from 0.
InternString ==
    /\ Running /\ held = 0 /\ TopKind # "copies" /\ strings < MaxStrings
    /\ IF Has("intern_string")
       THEN Call(/\ cached' = cached + 1 /\ strings' = strings + 1
                 /\ UNCHANGED <<hooks, fallback, arrays, held, live, undropped, result>>)
       ELSE IF strings # fallback THEN Fail("Internal")
       ELSE /\ fallback' = fallback + 1 /\ strings' = strings + 1
            /\ UNCHANGED <<hooks, cached, arrays, held, live, undropped, result>>

\* Whether a string id may be meant.
Ids == IF strings > 0 THEN BOOLEAN ELSE {FALSE}

\* The C program fails when it is given an id it has no string for;
\* fallback_bytes has one for every id or for none.
KnowsIds == cached = strings
HasBytes == fallback = strings

\* A function of the C program that is given an id, if withId says so.
CallWith(withId, then) == IF withId /\ ~KnowsIds THEN Fail("UnknownId") ELSE Call(then)

ReadKey ==
    /\ Running /\ held = 0 /\ TopKind = "hash" /\ Top.key = "none" /\ Top.n < MaxElements
    /\ \E key \in {"int", "empty"} \cup (IF strings > 0 THEN {"id"} ELSE {}) :
           arrays' = [arrays EXCEPT ![Len(arrays)].key = key]
    /\ UNCHANGED <<Strings, held, live, undropped, result>>
-----------------------------------------------------------------------------
(* Scalars.                                                                  *)

\* make_string_id, or any other make_*: a new CValue.
Make(withId) ==
    LET made == held' = 1 /\ live' = live + 1 /\ UNCHANGED <<Strings, arrays, undropped, result>>
    IN  IF withId /\ Has("make_string_id") THEN CallWith(TRUE, made)
        ELSE IF withId /\ ~HasBytes THEN Fail("BadStrRef")
        ELSE Call(made)

MakeValue == WantsValue /\ \E withId \in Ids : Make(withId)

Stored == arrays' = Counted /\ UNCHANGED <<Strings, held, live, undropped, result>>

\* push_scalar: without its function, a CValue is made, for push_packed.
PushScalar ==
    /\ WantsElement("packed")
    /\ \E withId \in Ids : IF Has("push_scalar") THEN CallWith(withId, Stored) ELSE Make(withId)

\* insert_scalar: by the function for the kind of key, with the bytes of a key
\* instead of its id if need be; otherwise a CValue is made, for insert_key.
InsertScalar ==
    /\ WantsElement("hash")
    /\ \E withId \in Ids :
         IF Top.key = "id" /\ Has("insert_scalar_string_key_id") THEN CallWith(TRUE, Stored)
         ELSE IF Top.key = "id" /\ ~HasBytes THEN Fail("BadStrRef")
         ELSE IF Has(IF Top.key = "int" THEN "insert_scalar_i64_key" ELSE "insert_scalar_string_key")
         THEN CallWith(withId, Stored)
         ELSE Make(withId)

\* push_i64_run on a whole array; without it, push_scalar is called for each.
PushRun ==
    /\ WantsElement("packed") /\ Top.n = 0 /\ Has("push_i64_run")
    /\ Call(/\ arrays' = [arrays EXCEPT ![Len(arrays)].n = MaxElements]
            /\ UNCHANGED <<Strings, held, live, undropped, result>>)
-----------------------------------------------------------------------------
(* Arrays and finished values.                                               *)

Open(kind) == Append(arrays, [kind |-> kind, n |-> 0, key |-> "none"])

BeginArray ==
    /\ WantsArray
    /\ \E kind \in {"packed", "hash"} :
           Call(/\ arrays' = Open(kind) /\ live' = live + 1
                /\ UNCHANGED <<Strings, held, undropped, result>>)

\* decode_array_repeat calls the Host for its template first,
BeginTemplate ==
    /\ WantsArray
    /\ arrays' = Open("template")
    /\ UNCHANGED <<Strings, held, live, undropped, result>>

\* then for the array of the copies.
BeginCopies ==
    /\ Running /\ held = 1 /\ TopKind = "template"
    /\ Call(/\ arrays' = [arrays EXCEPT ![Len(arrays)].kind = "copies"]
            /\ held' = 0 /\ live' = live + 1
            /\ UNCHANGED <<Strings, undropped, result>>)

Duplicate ==
    /\ WantsElement("copies")
    /\ IF Has("duplicate_value")
       THEN Call(/\ held' = 1 /\ live' = live + 1
                 /\ UNCHANGED <<Strings, arrays, undropped, result>>)
       ELSE Fail("Internal")

\* The C program takes the value that is held.
Taken ==
    /\ arrays' = Counted /\ held' = 0 /\ live' = live - 1
    /\ UNCHANGED <<Strings, undropped, result>>

\* Mutant of PushPacked: the pointer of a value that was not taken stays null.
PushPackedForgets ==
    Running /\ held = 1 /\ TopKind \in {"packed", "copies"} /\ (Taken \/ FailAfter("Host", 1, 0))

PushPacked == Running /\ held = 1 /\ TopKind \in {"packed", "copies"} /\ Call(Taken)

\* insert_key; where fallback_bytes fails, it returns while the CValue's pointer
\* is null and nobody will drop the value.
InsertKey ==
    /\ Running /\ held = 1 /\ TopKind = "hash"
    /\ IF Top.key = "id" /\ Has("insert_string_key_id") THEN CallWith(TRUE, Taken)
       ELSE IF Top.key = "id" /\ ~HasBytes THEN FailAfter("BadStrRef", 1, 0)
       ELSE Call(Taken)

\* The innermost array becomes a value; a repeat has dropped its template.
Ended ==
    LET templates == TemplatesOf(<<Top>>)
        untold == Untold(templates, 0)
    IN  /\ arrays' = Below /\ held' = 1
        /\ live' = live - templates + untold /\ undropped' = undropped + untold
        /\ UNCHANGED <<Strings, result>>

\* Mutant of EndArray: the pointer is kept, and an array that end_array failed to
\* finish is dropped a second time.
EndArrayDropsAgain ==
    /\ Running /\ held = 0 /\ TopKind \in {"packed", "hash", "copies"}
    /\ Top.key = "none"
    /\ \/ Ended
       \/ /\ result' = "Host" /\ arrays' = <<>>
          /\ live' = live - Owned - (IF Has("drop_array") THEN 1 ELSE 0)
          /\ UNCHANGED <<Strings, held, undropped>>

\* end_array.  The CArray's pointer is nulled for good: the array is the C program's,
\* even if its function fails.
EndArray ==
    /\ Running /\ held = 0 /\ TopKind \in {"packed", "hash", "copies"}
    /\ Top.key = "none"
    /\ Ended \/ FailAfter("Host", 0, 1)

\* Any error of the document itself.
BadDocument == Running /\ Fail("Malformed")

\* pf_decode hands the value over with into_raw.
Return ==
    /\ Running /\ held = 1 /\ arrays = <<>>
    /\ result' = "ok" /\ held' = 0
    /\ UNCHANGED <<Strings, arrays, live, undropped>>

Stopped == ~Running /\ UNCHANGED vars
-----------------------------------------------------------------------------
Next ==
    \/ InternString \/ ReadKey \/ MakeValue \/ PushScalar \/ InsertScalar \/ PushRun
    \/ BeginArray \/ BeginTemplate \/ BeginCopies \/ Duplicate \/ PushPacked \/ InsertKey
    \/ EndArray \/ BadDocument \/ Return \/ Stopped

Spec == Init /\ [][Next]_vars
-----------------------------------------------------------------------------
TypeOK ==
    /\ hooks \in HookSets
    /\ fallback \in 0..strings /\ cached \in 0..strings /\ strings \in 0..MaxStrings
    /\ arrays \in Seq(Arrays) /\ Len(arrays) <= MaxArrays
    /\ held \in {0, 1} /\ live \in Nat /\ undropped \in Nat
    /\ result \in {"running", "ok", "Host", "Malformed", "BadStrRef", "Internal", "UnknownId"}

\* Every handle the C program gave out has one owner on the Rust side, until it
\* is taken back or dropped; after an error nothing is left, and after success
\* the one value that pf_decode returns ("Implementations must free any Zend/PHP
\* resources in Drop", host.rs:14, needs the pointer to be there).  Only a table
\* without drop_value or drop_array is left with handles it was not told of.
EveryHandleIsOwned ==
    /\ result = "running" => live = Owned + undropped
    /\ result = "ok" => live = 1 + undropped
    /\ result \notin {"running", "ok"} => live = undropped
    /\ {"drop_value", "drop_array"} \subseteq hooks => undropped = 0

\* The functions that are given a string by its id, and those that may find one in
\* a pf_scalar.
IdFunctions == {"make_string_id", "insert_string_key_id", "insert_scalar_string_key_id"}
ScalarFunctions == {"push_scalar", "insert_scalar_i64_key", "insert_scalar_string_key"}

\* What the host takes for granted in a table: duplicate_value; and with
\* intern_string all functions that take ids, without it none that may be given one.
Suffices(table) ==
    /\ "duplicate_value" \in table
    /\ IF "intern_string" \in table THEN IdFunctions \subseteq table
       ELSE table \cap (IdFunctions \cup ScalarFunctions) = {}

\* No decode fails because an optional function is missing from a table that
\* suffices: its work is done by those that are there, and the strings are where it
\* looks for them.  pfserialize.h:94-113 calls each of these functions optional by
\* itself, which the code does not keep: a table without duplicate_value fails every
\* repeat (c_host.rs:387), and one with intern_string but not all of IdFunctions
\* fails references (c_host.rs:284, 346, 448).
MissingIsReplaced ==
    Suffices(hooks) => result \notin {"BadStrRef", "Internal", "UnknownId"}
=============================================================================
