------------------------------ MODULE MCCHost ------------------------------
(***************************************************************************)
(* CHost with every table of optional functions that loses no value, and   *)
(* with one that does.                                                     *)
(***************************************************************************)
EXTENDS CHost

Optional == IdFunctions \cup ScalarFunctions \cup {"intern_string", "push_i64_run", "duplicate_value"}
Drops == {"drop_value", "drop_array"}

\* Strings are interned, but keys are inserted by their bytes.
LosesKeys(table) == "intern_string" \in table /\ "insert_string_key_id" \notin table

\* Each of the functions there or not; the drop functions there or not in the tables
\* that have all others, or the fewest with which nothing fails.
MCHookSets ==
    {table \in SUBSET (Optional \cup Drops) :
        /\ ~LosesKeys(table)
        /\ Drops \subseteq table \/ table \ Drops \in {Optional, {"duplicate_value"}}}

MCNoKeyId == {(Optional \ {"insert_string_key_id", "insert_scalar_string_key_id"}) \cup Drops}
=============================================================================
