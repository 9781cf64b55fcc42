--------------------------- MODULE StringChannel ---------------------------
(***************************************************************************)
(* What the string table of a PFBinary document promises, without tables,  *)
(* identifiers or tokens: the reader is handed the strings of the document *)
(* in the order the writer mentioned them, keys and values alike, each one *)
(* whole.  The reader may give up (a limit, a host that refuses a string), *)
(* but what it was handed until then is still a prefix of what was written.*)
(***************************************************************************)
EXTENDS Naturals, Sequences

CONSTANT Items      \* what can be mentioned: a string, in key or value place

VARIABLES
    sent,           \* the strings mentioned so far, in document order
    got,            \* the strings handed to the reader so far
    status          \* "open", "closed", "complete" or "refused"

vars == <<sent, got, status>>

Init == sent = <<>> /\ got = <<>> /\ status = "open"

Send(x) ==
    /\ status = "open"
    /\ sent' = Append(sent, x)
    /\ UNCHANGED <<got, status>>

Close ==
    /\ status = "open"
    /\ status' = "closed"
    /\ UNCHANGED <<sent, got>>

Deliver ==
    /\ status = "closed"
    /\ Len(got) < Len(sent)
    /\ got' = Append(got, sent[Len(got) + 1])
    /\ UNCHANGED <<sent, status>>

Complete ==
    /\ status = "closed"
    /\ got = sent
    /\ status' = "complete"
    /\ UNCHANGED <<sent, got>>

Refuse ==
    /\ status = "closed"
    /\ status' = "refused"
    /\ UNCHANGED <<sent, got>>

Next ==
    \/ \E x \in Items : Send(x)
    \/ Close
    \/ Deliver
    \/ Complete
    \/ Refuse

Spec == Init /\ [][Next]_vars
=============================================================================
