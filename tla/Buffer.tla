------------------------------- MODULE Buffer -------------------------------
(***************************************************************************)
(* The output buffer of the C encoder (php/encode_c.c): enc_reserve doubles*)
(* a capacity in a size_t until the request fits, and enc_bytes and enc_u8 *)
(* then write without a further look.                                      *)
(***************************************************************************)
EXTENDS Naturals

CONSTANTS
    Word,       \* 2^64, how many values a size_t has
    InitCap,    \* PF_INIT_CAP
    HeaderLen,  \* PF_HEADER_LEN
    Memory,     \* what a process can allocate; it ends when that is not enough
    Requests    \* lengths of what is appended at once

\* Less than half of the address space can be allocated, as in any 64-bit process.
ASSUME BufferAssumption ==
    /\ Word \in Nat /\ InitCap \in Nat \ {0} /\ HeaderLen \in 0..InitCap
    /\ Requests \subseteq Nat
    /\ Memory \in Nat /\ InitCap <= Memory /\ 2 * Memory < Word

VARIABLES
    cap, len,   \* pf_cenc.cap, pf_cenc.len
    asked,      \* the length of what is being appended
    ncap,       \* the local variable of enc_reserve
    pc          \* "ready", "grow" inside the loop of enc_reserve, "copy" before
                \* the bytes are written, "dead" when the memory was not enough

bufferVars == <<cap, len, asked, ncap, pc>>

BufferInit == cap = InitCap /\ len = HeaderLen /\ asked = 0 /\ ncap = 0 /\ pc = "ready"

\* A sum of two values of a size_t.
SizeT(x) == IF x < Word THEN x ELSE x - Word
Need == SizeT(len + asked)

\* enc_reserve: room for k bytes, at once or by growing.
Start == IF cap = 0 THEN InitCap ELSE SizeT(2 * cap)
Reserve(k) ==
    IF SizeT(len + k) <= cap THEN pc' = "copy" /\ UNCHANGED ncap
    ELSE pc' = "grow" /\ ncap' = Start

\* enc_bytes of something that is in memory together with the buffer.
AppendBytes ==
    /\ pc = "ready"
    /\ \E k \in Requests : cap + k <= Memory /\ asked' = k /\ Reserve(k)
    /\ UNCHANGED <<cap, len>>

\* Mutant of AppendByte: the capacity is taken for the last place.
AppendByteLax ==
    /\ pc = "ready"
    /\ asked' = 1
    /\ IF len <= cap THEN pc' = "copy" /\ UNCHANGED ncap ELSE Reserve(1)
    /\ UNCHANGED <<cap, len>>

\* enc_u8 has a look of its own at the capacity.
AppendByte ==
    /\ pc = "ready"
    /\ asked' = 1
    /\ IF len < cap THEN pc' = "copy" /\ UNCHANGED ncap ELSE Reserve(1)
    /\ UNCHANGED <<cap, len>>

\* Mutant of Small: twice the request must fit.
SmallByHalf == ncap < 2 * Need

\* The loop of enc_reserve goes on.
Small == ncap < Need

Double ==
    /\ pc = "grow" /\ Small
    /\ ncap' = SizeT(2 * ncap)
    /\ UNCHANGED <<cap, len, asked, pc>>

\* erealloc returns the block or does not return.
Reallocate ==
    /\ pc = "grow" /\ ~Small
    /\ IF ncap <= Memory THEN cap' = ncap /\ pc' = "copy"
       ELSE pc' = "dead" /\ UNCHANGED cap
    /\ UNCHANGED <<len, asked, ncap>>

Copy ==
    /\ pc = "copy"
    /\ len' = SizeT(len + asked) /\ pc' = "ready"
    /\ UNCHANGED <<cap, asked, ncap>>

BufferNext == AppendBytes \/ AppendByte \/ Double \/ Reallocate \/ Copy

\* The encoder calls on; each of its functions runs to its end.
BufferSpec ==
    BufferInit /\ [][BufferNext]_bufferVars /\ WF_bufferVars(Double \/ Reallocate \/ Copy)
-----------------------------------------------------------------------------
BufferTypeOK ==
    /\ cap \in Nat /\ len \in 0..cap /\ asked \in Requests \cup {0, 1}
    /\ ncap \in 0..(Word - 1)
    /\ pc \in {"ready", "grow", "copy", "dead"}

\* When the bytes are written, the block has room for all of them: no sum and no
\* doubling has wrapped around on the way.
NoOverrun == pc = "copy" => len + asked <= cap

\* The loop of enc_reserve ends: the capacity does not wrap around to nothing
\* before it is large enough.
GrowthEnds == pc = "grow" ~> pc # "grow"
=============================================================================
