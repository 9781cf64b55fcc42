------------------------------ MODULE Interop ------------------------------
(***************************************************************************)
(* One format and everybody who uses it: a document of the Rust encoder, of*)
(* the C encoder of the PHP extension, or of anybody's bytes, read by the  *)
(* Rust decoder (module Decoder) and then by the C decoder (DecoderC).     *)
(* This has in it the round trip of the Rust tests, pf_encode and pf_decode*)
(* of PHP, and a PHP process and a Rust service that share a cache.        *)
(***************************************************************************)
EXTENDS Values
LOCAL INSTANCE SequencesExt

CONSTANTS
    RustDocuments, PhpDocuments,    \* the values the two encoders are given
    EncMaxDepth, PosZero, NegZero, NaN,             \* of EncoderC
    TagBytes, NumBytes, CharBytes, Lengths, Overlong,       \* of Input
    MaxDepth, MaxSize, SymtableKey(_)                       \* of DecodersAgree

VARIABLES
    writer,     \* of the document: "rust", "c" or "anybody"
    strdedup, value, todo, strtab, buf, encErr,
    len, data,
    rpos, rstack, rarrs, rroot, rstrings, rhost, rdepth, rsize, rresult,
    cpos, cframes, couts, croot, cstrs, cdepth, csize, cowned, ckeytabs, cerr, cresult

encoder == <<writer, value, todo, strtab, buf, encErr>>
readers ==
    <<rpos, rstack, rarrs, rroot, rstrings, rhost, rdepth, rsize,
      cpos, cframes, couts, croot, cstrs, cdepth, csize, cowned, ckeytabs, cerr>>
vars == <<strdedup, encoder, len, data, readers, rresult, cresult>>

RustWriter == INSTANCE Encoder WITH Documents <- RustDocuments
CWriter == INSTANCE EncoderC WITH Documents <- PhpDocuments
Read == INSTANCE DecodersAgree WITH Lengths <- Lengths \cup {0}

\* The bytes of a document that was encoded are all known when a decoder starts;
\* anybody's are chosen while it is read.
Init ==
    /\ \/ writer = "rust" /\ RustWriter!Init /\ encErr = "none"
       \/ writer = "c" /\ CWriter!Init
       \/ /\ writer = "anybody" /\ value = <<"null">>
          /\ todo = <<>> /\ strtab = <<>> /\ buf = <<>> /\ encErr = "none"
    /\ Read!Init
    /\ writer = "anybody" <=> len > 0

Encoded == writer # "anybody"

RustEncode ==
    /\ writer = "rust" /\ RustWriter!Encode
    /\ UNCHANGED <<writer, encErr, len, data, readers, rresult, cresult>>

CEncode ==
    /\ writer = "c" /\ CWriter!Encode
    /\ UNCHANGED <<writer, len, data, readers, rresult, cresult>>

\* The header of the document is written and read by both alike (module Document).
Handover ==
    /\ Encoded /\ todo = <<>> /\ encErr = "none" /\ len = 0
    /\ len' = Len(buf) /\ data' = buf
    /\ LET start == IF Len(buf) > MaxSize THEN "MaxSize" ELSE "running"
       IN  rresult' = start /\ cresult' = start
    /\ UNCHANGED <<strdedup, encoder, readers>>

Decode == len > 0 /\ (Read!RustStep \/ Read!CStep) /\ UNCHANGED encoder

Stopped ==
    /\ encErr # "none" \/ "running" \notin {rresult, cresult}
    /\ UNCHANGED vars

Next == RustEncode \/ CEncode \/ Handover \/ Decode \/ Stopped
Spec == Init /\ [][Next]_vars
-----------------------------------------------------------------------------
Results == {rresult, cresult}

\* A PHP array that was built as a hash and has the keys 0, 1, ... in order is
\* the list of its values.
RECURSIVE PhpNormal(_)
PhpNormal(v) ==
    CASE v[1] = "list" -> <<"list", [i \in DOMAIN v[2] |-> PhpNormal(v[2][i])]>>
      [] v[1] = "hash" ->
           IF \A i \in DOMAIN v[2] : v[2][i][1] = <<"int", i - 1>>
           THEN <<"list", [i \in DOMAIN v[2] |-> PhpNormal(v[2][i][2])]>>
           ELSE <<"hash", [i \in DOMAIN v[2] |-> <<v[2][i][1], PhpNormal(v[2][i][2])>>]>>
      [] OTHER -> v

\* How deep arrays are nested in a value, itself included.
RECURSIVE Nesting(_)
Nesting(v) ==
    LET inside == CASE v[1] = "list" -> {Nesting(v[2][i]) : i \in DOMAIN v[2]}
                    [] v[1] = "hash" -> {Nesting(v[2][i][2]) : i \in DOMAIN v[2]}
                    [] OTHER -> {}
    IN  IF ~IsArray(v) THEN 0
        ELSE 1 + (CHOOSE n \in inside \cup {0} : \A m \in inside : m <= n)

\* The bytes of all strings in a value, those of keys included.
RECURSIVE StringBytes(_)
StringBytes(v) ==
    LET sum(f(_)) ==
            LET n[i \in 0..Len(v[2])] == IF i = 0 THEN 0 ELSE n[i - 1] + f(v[2][i])
            IN  n[Len(v[2])]
    IN  CASE v[1] = "str" -> Len(v[2])
          [] v[1] = "list" -> sum(StringBytes)
          [] v[1] = "hash" -> sum(LAMBDA pair : StringBytes(pair[1]) + StringBytes(pair[2]))
          [] OTHER -> 0

\* A value as PHP has it: the entries of a Rust ArrayHash are inserted one after
\* the other, and keys that are decimal numbers become integers.
AsPhp(v) == PhpNormal(Read!PhpValue(v))

\* Whichever of the array forms an encoder chose and wherever a string was defined,
\* each reader that accepts the document has the value that was encoded
\* (protocol-v1.md, 12.4): in the encoder's own language to the bit and in order,
\* up to the one empty array of Value::eq; in the other one as the PHP array that
\* it makes.
ValueArrives ==
    Encoded =>
        /\ rresult = "ok" =>
              IF writer = "rust" THEN SameValue(rroot[1], value)
              ELSE AsPhp(rroot[1]) = value
        /\ cresult = "ok" => PhpNormal(croot[1]) = AsPhp(value)

\* What charge is called for: every string that a document of the Rust encoder
\* spells out or refers to, so the keys of a rowset and what is in a repeat once; and
\* nothing for an array or its elements.
Sum(ns) == FoldLeft(LAMBDA m, n : m + n, 0, ns)
KeyBytes(v) == Sum([k \in DOMAIN v[2] |-> StringBytes(v[2][k][1])])

RECURSIVE Charges(_)
Charges(v) ==
    CASE v[1] = "str" -> Len(v[2])
      [] v[1] = "hash" -> KeyBytes(v) + Sum([k \in DOMAIN v[2] |-> Charges(v[2][k][2])])
      [] v[1] = "list" ->
           LET items == [k \in DOMAIN v[2] |-> Charges(v[2][k])]
               form == RustWriter!Form(v[2])
           IN  CASE form = "repeat" -> items[1]
                 [] form = "rows" ->
                      Sum([k \in DOMAIN items |->
                               IF k = 1 THEN items[1] ELSE items[k] - KeyBytes(v[2][k])])
                 [] OTHER -> Sum(items)
      [] OTHER -> 0

\* The strings are limited: size_used never passes max_size, from which the C decoder
\* subtracts it in a size_t (decoder.rs:90, decode_c.c:72), and no decoder accepts a
\* document of the Rust encoder that spells out and refers to more than max_size bytes
\* of strings.  That is all max_size bounds; see AcceptedFitsMaxSize.
StringsAreLimited ==
    /\ rsize <= MaxSize /\ csize <= MaxSize
    /\ writer = "rust" /\ "ok" \in Results => Charges(value) <= MaxSize

\* The elements of all arrays in a value.
RECURSIVE Elements(_)
Elements(v) ==
    CASE v[1] = "list" -> Len(v[2]) + Sum([k \in DOMAIN v[2] |-> Elements(v[2][k])])
      [] v[1] = "hash" -> Len(v[2]) + Sum([k \in DOMAIN v[2] |-> Elements(v[2][k][2])])
      [] OTHER -> 0

\* A value that is accepted fits in max_size: the lengths of its strings and an estimate
\* of its array nodes ("累计声明字符串长度 + 数组节点估算超限", architecture-v1.0.md:309),
\* here as low as one byte for each element.  Both decoders estimate nothing.
AcceptedFitsMaxSize ==
    writer = "rust" /\ "ok" \in Results => Charges(value) + Elements(value) <= MaxSize

\* A value is refused for its depth or its size only, by whichever encoder or
\* decoder, and never because of the form that was chosen: the compact forms count
\* as deep as the plain ones (protocol-v1.md, 8.4), and no string is charged before
\* the limit is really exceeded.
OnlyLimitsRefuse ==
    Encoded =>
        /\ encErr \in {"none", "MaxDepth", "UnsupportedType"}
        /\ encErr = "MaxDepth" => Nesting(value) > EncMaxDepth
        /\ Results \subseteq {"running", "ok", "MaxDepth", "MaxSize"}
        /\ "ok" \in Results => Nesting(value) <= MaxDepth /\ Len(buf) <= MaxSize
        /\ "MaxDepth" \in Results => Nesting(value) > MaxDepth
        /\ "MaxSize" \in Results =>
              \/ Len(buf) > MaxSize
              \/ writer = "rust" /\ Charges(value) > MaxSize
              \/ writer = "c" /\ StringBytes(value) > MaxSize

\* While a document is decoded, the decoder's string table is a prefix of the
\* encoder's: entry n is the string the encoder gave the id n, in both languages.
TablesAgree ==
    Encoded /\ strdedup =>
        \A table \in {rstrings, cstrs} : \A n \in DOMAIN table :
            table[n] \in DOMAIN strtab /\ strtab[table[n]] = n - 1

\* Every document, anybody's included, is accepted by both decoders, as the same
\* PHP value and with the same bytes charged, or refused by both with the same error:
\* the C decoder "mirrors crates/pf-core decoder semantics" (decode_c.c:3).
Agreement == Read!Agreement

\* Nothing that the C encoder wrote is refused for its depth with the same limit:
\* rows count alike on both sides (protocol-v1.md, 8.4 and 12.4).
EncodedIsNotTooDeep == writer = "c" => "MaxDepth" \notin Results
=============================================================================
