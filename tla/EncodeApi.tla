----------------------------- MODULE EncodeApi -----------------------------
(***************************************************************************)
(* The C API of the encoder (pf-ffi/src/encode_api.rs) and its caller.     *)
(*                                                                         *)
(* The caller keeps to what pfserialize.h says of ownership: a handle is   *)
(* given to finish or to free once, and not used again.  What it writes is *)
(* its own business, with one exception: the items of a run of longs have  *)
(* no tags, so that they are written inside such a run and nothing else    *)
(* is.  Any call may be made with arguments that are null.                 *)
(***************************************************************************)
EXTENDS Writer

CONSTANTS
    Scalars,        \* what is written by the calls for scalars, which also make keys
    Items,          \* the longs of a run
    Begins,         \* the arrays that are begun, each with its kind and what is announced:
                    \* a count, or rows and columns
    MaxCalls        \* bound: the calls that write something

ASSUME EncodeApiAssumption ==
    /\ \A v \in Scalars : /\ v[1] = "int" => v[2] \in Int
                          /\ v[1] \in {"double", "str"} => v[2] \in Seq(Nat)
    /\ Items \subseteq Int
    /\ \A b \in Begins : b[2] \in Nat /\ (b[1] = "rows" => b[3] \in Nat)

VARIABLES
    handle,         \* the caller's pf_encoder*: "none" (out of use), "null" or "enc"
    encoder,        \* the PfEncoder behind it: "absent", "live" or "freed"
    out,            \* the buffer of pf_encoder_finish: "absent", "live" or "freed"
    err,            \* what the last call returned, "none" if nothing
    calls           \* the calls that returned Ok and wrote something, while there is
                    \* something left of what they wrote

heap == <<handle, encoder, out>>
apiVars == <<written, heap, err, calls>>

ApiInit ==
    /\ WriterInit
    /\ handle = "none" /\ encoder = "absent" /\ out = "absent"
    /\ err = "none" /\ calls = <<>>

\* pf_encoder_new: null for flags that validate_flags refuses.
New ==
    /\ encoder = "absent" /\ handle = "none"
    /\ \/ handle' = "enc" /\ encoder' = "live"
       \/ handle' = "null" /\ UNCHANGED encoder
    /\ UNCHANGED <<written, out, err, calls>>
-----------------------------------------------------------------------------
(* Writing.                                                                  *)

\* The items that the run begun last still lacks.
RunLeft ==
    LET begins == {0} \cup {i \in DOMAIN calls : calls[i][1] # "item"}
        begun == CHOOSE i \in begins : \A j \in begins : j <= i
    IN  IF begun > 0 /\ calls[begun][1] = "longs"
        THEN calls[begun][2] - (Len(calls) - begun)
        ELSE 0

\* with_enc around one of the write_* functions.
WithEnc(call, write) ==
    /\ handle # "none" /\ Len(calls) < MaxCalls
    /\ IF handle = "null" THEN err' = "NullArg" /\ UNCHANGED <<written, calls>>
       ELSE write /\ err' = "Ok" /\ calls' = Append(calls, call)
    /\ UNCHANGED heap

Tagged(call, write) == WithEnc(call, write) /\ RunLeft = 0

\* pf_encoder_null, _bool, _i64 and _key_i64, _f64, _string and _key_string.
Scalar ==
    \E v \in Scalars :
        \/ v[1] = "null" /\ Tagged(v, WriteNull)
        \/ v[1] = "bool" /\ Tagged(v, WriteBool(v[2]))
        \/ v[1] = "int" /\ Tagged(v, WriteInt(v[2]))
        \/ v[1] = "double" /\ Tagged(v, WriteDouble(v[2]))
        \/ v[1] = "str" /\ Tagged(v, WriteStringBytes(v[2]))

\* pf_encoder_string and _key_string given a length and no bytes, with any handle.
NullBytes ==
    /\ handle # "none" /\ RunLeft = 0
    /\ err' = "NullArg"
    /\ UNCHANGED <<written, heap, calls>>

Begin ==
    \E b \in Begins :
        \/ b[1] = "packed" /\ Tagged(b, BeginPacked(b[2]))
        \/ b[1] = "longs" /\ Tagged(b, BeginLongs(b[2]))
        \/ b[1] = "hash" /\ Tagged(b, BeginHash(b[2]))
        \/ b[1] = "repeat" /\ Tagged(b, BeginRepeat(b[2]))
        \/ b[1] = "rows" /\ Tagged(b, BeginRows(b[2], b[3]))

\* pf_encoder_packed_long_item.
LongItem ==
    /\ \E n \in Items : WithEnc(<<"item", n>>, WriteLongItem(n))
    /\ RunLeft > 0 \/ handle = "null"
-----------------------------------------------------------------------------
(* The end of a handle.                                                      *)

\* Box::from_raw and drop, for a handle that is not null; the caller forgets it.
Consume ==
    /\ handle # "none" /\ handle' = "none"
    /\ encoder' = IF handle = "enc" THEN "freed" ELSE encoder
    /\ strtab' = <<>> /\ UNCHANGED strdedup

\* The buffer of the encoder is dropped with it.
Discard == buf' = <<>> /\ calls' = <<>>

\* Mutant of FinishRefused: a null out pointer is refused at the door.
FinishRefusedEarly ==
    /\ handle # "none" /\ handle' = "none"
    /\ err' = "NullArg" /\ UNCHANGED <<written, calls, encoder, out>>

\* pf_encoder_finish with a pointer that is null.
FinishRefused == Consume /\ Discard /\ err' = "NullArg" /\ UNCHANGED out

\* Mutant of Finish: what malloc returned is not looked at.
FinishUnchecked ==
    /\ handle = "enc" /\ Consume /\ err' = "Ok"
    /\ out' \in {"live", out}
    /\ UNCHANGED <<buf, calls>>

\* pf_encoder_finish: the bytes are copied to where malloc says, unless it fails.
Finish ==
    /\ handle = "enc" /\ Consume
    /\ \/ out' = "live" /\ err' = "Ok" /\ UNCHANGED <<buf, calls>>
       \/ out' = out /\ err' = "Internal" /\ Discard

\* pf_encoder_free, which returns nothing.
Free == Consume /\ Discard /\ err' = "none" /\ UNCHANGED out

\* pf_free.
FreeOut == out = "live" /\ out' = "freed" /\ UNCHANGED <<written, handle, encoder, err, calls>>

Write == Scalar \/ NullBytes \/ Begin \/ LongItem
ApiNext == New \/ Write \/ FinishRefused \/ Finish \/ Free \/ FreeOut

\* The caller may stop whenever it holds no handle.
ApiStopped == handle = "none" /\ encoder # "live" /\ out # "live" /\ UNCHANGED apiVars

ApiSpec == ApiInit /\ [][ApiNext \/ ApiStopped]_apiVars
-----------------------------------------------------------------------------
ApiTypeOK ==
    /\ strdedup \in BOOLEAN /\ buf \in Seq(Nat)
    /\ handle \in {"none", "null", "enc"}
    /\ encoder \in {"absent", "live", "freed"} /\ out \in {"absent", "live", "freed"}
    /\ err \in {"Ok", "NullArg", "Internal", "none"}

\* A caller that keeps to the header never holds a handle whose encoder is gone and
\* never forgets one that is alive, whichever call failed ("always consumes enc",
\* pfserialize.h:156).
HandleIsOwned == handle = "enc" <=> encoder = "live"

\* The caller has a buffer to free exactly if finish said so.
OutIsOwned == encoder = "freed" /\ err = "Ok" <=> out # "absent"
=============================================================================
