# A verification project for PFSerialize / PFBinary

PFSerialize serializes PHP values to a binary format, PFBinary version 1, and
back. This directory holds TLA+ models of it, the TLC runs that check them and
the theorems TLAPS proves about them. Paths below are relative to the
repository root (`src/` in `PROJECT.json`).

## The system

| part | files | state it keeps | operations |
|---|---|---|---|
| wire format | `crates/pf-format/src/*.rs` | none | tags; header with magic, version, flags and an optional checksum |
| varints | `crates/pf-core/src/varint.rs`; again in `php/encode_c.c`, `php/decode_c.c` | the loop's | zigzag, LEB128 of at most ten bytes |
| string tables | `crates/pf-core/src/string_table.rs` | encoder: map from string to id; decoder: list of strings | intern, push, look up |
| Rust encoder | `crates/pf-core/src/encoder.rs` | buffer, string table | one `write_*` per token; `write_value` chooses the form of an array |
| Rust decoder | `crates/pf-core/src/decoder.rs` | cursor, string table, `depth`, `size_used`, the call stack | `decode_with` and what it calls |
| Host | `crates/pf-core/src/host.rs`, `test_host.rs` | arrays being built, its own string table | callbacks of the decoder; any may fail |
| vtable host | `crates/pf-ffi/src/c_host.rs` | handles given out by a C program, strings for tables that keep none | the Host, by functions of a C table, some of them optional |
| FFI encoder | `crates/pf-ffi/src/encode_api.rs` | a heap handle | new, one function per token, finish, free |
| C encoder | `php/encode_c.c` | buffer, string table, `depth` | `pf_c_encode` on a zval |
| C decoder | `php/decode_c.c` | cursor, string table, `depth`, `size_used`, zvals its functions own | `pf_c_decode` into a zval |
| PHP functions | `php/pfserialize.c`, `host_php8.c` | none | encode, decode, size, stats |
| tool | `crates/pf-cli/src/main.rs` | none | encode a sample, print a document |

How they interact: an encoder writes a document to its end and only then a
decoder reads it; the decoder calls its Host synchronously, and an error of any
call ends the decode at once. The two languages share no code: the PHP extension
uses the C encoder and decoder, everything else the Rust ones, and a document of
either must mean the same to the other. Nothing runs concurrently and nothing is
persisted.

What is hard about it, then, is not interleaving but position and balance:

* a string reference is a *position* in a table that both sides must build alike,
  from definitions in values, in keys, in the key table of a rowset and inside the
  template of a repeat, while the empty string is in no table;
* limits (`max_depth`, `max_size`, remaining bytes) are counted in many places and
  must be exact at the boundary and given back on every path;
* the C decoder cleans up by hand on every error path, and the vtable host nulls
  and restores pointers around every call that may fail;
* lists have four encodings, and the choice must never lose anything;
* the bytes are anybody's: every payload must end in a value or an error;
* the C API of the encoder takes any sequence of calls, and consumes its handle on
  every path;
* a document is kept by a store that may damage it, and limits come from PHP as
  signed 64-bit numbers.

`PROJECT.json` lists these hazards at their lines, each with the properties that
would catch it going wrong or a note why none does.

## The modules

| module | models | checked by |
|---|---|---|
| `StringChannel` | the promise of the two string tables: one channel, in order, complete only when it is closed | |
| `StringTable` | the handlers of strings of both sides, string token by string token | `MCStringTable`, `StringTableProofs` |
| `Varint` | writing and reading an integer byte by byte | `MCBytes`, `BytesProofs` |
| `Format`, `Input` | the tags; a payload and reads of it | |
| `HostCalls` | the promise of a decoder to whom it builds a value with | both decoders implement it, by proof |
| `Decoder` | the Rust decoder and a Host that keeps what it gets | `MCDecoder`, `DecoderProofs` |
| `DecoderC` | the C decoder with its cleanup | `MCDecoderC`, `DecoderCProofs` |
| `DecodersAgree` | both decoders, one after the other, on one payload | part of `Interop` |
| `Values` | values and `Value::eq`, level by level | part of `RoundTrip`, `Interop` |
| `Writer` | the `write_*` functions of the Rust encoder | part of `Encoder`, `EncodeApi` |
| `Encoder` | `write_value` | part of `RoundTrip`, `Interop` |
| `RoundTrip` | a value through `encode_with` and then `decode_with` | `MCRoundTrip`, `EncoderRunProofs`, `RoundTripProofs` |
| `EncoderC` | the C encoder | part of `Interop` |
| `Interop` | a document of either encoder, or of anybody, read by both decoders | `MCInterop` |
| `EncodeApi` | the C API of the encoder and its caller, over `Writer` | `ApiDocument`, `FfiProofs` |
| `ApiDocument` | a document written by calls of that API and decoded | `MCFfi` |
| `Document` | header, checksum, limits, a store that damages what it keeps | `MCDocument`, `DocumentProofs` |
| `Buffer` | the growing output buffer of the C encoder | `MCBytes`, `BytesProofs` |
| `CHost` | the vtable host, the decoder being its environment | `MCFfi`, `MCCHost`, `FfiProofs` |

**How code becomes state.** The decoders are mutually recursive functions. Their call
stack is a variable (`stack`, `frames`), one frame for each array function that has
passed `enter_depth` / `pf_enter`. An action is what the functions do from one read of
the input to the next: it reads, checks in the code's order, charges, tells the Host,
and delivers a finished value to the frame below. The Rust decoder's `?` drops all
frames in one step. The C decoder has no destructors, so there an error is a state of
its own (`err`), and `Unwind` runs the error path of one function at a time with what
that path destroys (`Destroys`) and leaves (`Leaves`). The encoders call themselves as
well, from their loops: `todo` of `Encoder` is the stack of these loops, each with what
it has still to write, and in `EncoderC` what all of them have still to write, in order.
The C API has no such control: there the calls are the caller's, in any order, and
`calls` remembers those that returned Ok.

**What is abstracted.** In all modules but `Varint` a varint is one byte (counts of the
code are 32 bits, `MaxU32`), and `Overlong` is a byte that stands for one no reader
accepts. A double has `DoubleWidth` bytes, two in the runs. Strings are sequences of
bytes. `Input` chooses a byte of the payload when a decoder first looks at it, among the
bytes that matter in that place (a tag, a number, a character): every payload over those
bytes is covered, and no payload is enumerated that differs only behind an error. The
limits are constants, small in the runs. `CHost` counts handles instead of naming them;
a handle that is let go of when the table has no `drop_value` or no `drop_array` stays
the C program's and is counted apart (`undropped`).
The elements of `PACKED_LONGS` are kept with the Host's arrays although the code
collects them first and hands them over in one call. In `Document` the magic is one
byte, and so is the checksum, whose hash is ideal (no payload shares it with what one
damage makes of it); the payload is opaque. In `Buffer` only lengths are kept, in a
`size_t` of `Word` values.

**A Host that is lent twice.** `decode` borrows its Host, and a `TestHost` keeps its
string table. `Decoder` therefore starts with any table of `Leftovers`: the first
definition then fails, and no reference is resolved to an old string (`IdsResolve`).

**What is external.** PHP's hash tables (`zend_symtable_update` and its kin: an existing
key keeps its place; `SymtableKey` makes an integer of a decimal string) and `===` are
modelled from how the code uses them. So is the C program behind a vtable: it takes a
value when its function succeeds and not when it fails, it owns an array from the call
of `end_array` on (the header does not say so; the code never drops it again), and it
fails when it is given a string id it was given no string for.

**Undefined behaviour.** `schemas_match` (`encode_c.c:195`) reads the slots of both
arrays as Buckets. Packed arrays have none since PHP 8.2 (the extension is built for
8.5), so for two lists of the same length `SchemasMatch` may say either. It turns out
not to matter for lists: both encodings come back as the same value. For a list and a
hash of equal length there is nothing to be said; those documents are left out
(`Comparable`).

Every module ends with its properties (the type invariants of `EncodeApi`, `Document` and
`Buffer` are proved and in no run); definitions called *mutants* stand in front of
the definition they change, and show what a property would catch.

## The runs

`PROJECT.json` lists them with their properties. Eight pass:

* **string_table**: up to four string tokens over three strings of one and two bytes and
  the empty one, both settings of the flag, `max_size` 4. Four tokens are a definition,
  another one, and a reference to each, or a definition repeated with the flag off.
  Includes the refinement of `StringChannel`.
* **decoder**: all payloads of 0, 2, 5 and 8 bytes over every tag, an unknown one, and
  the numbers 0, 1, 3, 4 and overlong, with `max_depth` 2, through a new Host and
  through one that kept one or two strings: eight bytes hold a rowset whose cells refer
  to a string its keys defined, a third hash inside two that is one too deep, and a
  repeat of a repeat. (Charging past `max_size`, and cells that define strings behind a
  string key, need more bytes than that; interop has both.) `KeepsHostCalls` is the
  refinement: what the Host has got, array by array, is a behaviour of `HostCalls`.
* **decoder_c**: the same with seven bytes, and any insertion failing.
* **interop**: some thirty thousand values of up to three levels, through the encoder of
  their language, with `max_depth` 2 and `max_size` 20; a string of eight bytes is also
  a key, so that references are charged past the limit while the document is still
  small; NaN, objects, keys that are decimal numbers, an `ArrayHash` with a key twice.
  And all payloads of five and eight bytes. Each is read by both decoders. -0.0 is kept
  out of the PHP values (see below).
* **round_trip**: some three thousand values of up to four levels through the Rust
  encoder and decoder, with `max_depth` 3 and `max_size` 18, both settings of the flag,
  a new Host and one that kept a string: every form of array inside every other, a
  rowset in a rowset (as deep as its rows), a repeat of a repeat, strings that are
  defined in keys, cells and templates and referred to from others. `ValueArrives`,
  `OnlyLimitsRefuse` and `TablesAgree` are those of **interop** for one of its four
  pairs, in a composition that reaches no recursive operator, so that they can be
  proved; `OnlyLimitsRefuse` says more here: `max_depth` refuses exactly the values that
  are deeper.
* **bytes**: two modules that do not meet, each explored while the other rests at its
  start. Of `Varint`, two bits a byte and four bytes, so seven-bit integers: all of
  them, and all byte sequences of up to five bytes; 7 and 10 give the 64 bits of the
  code by the same formula. Of `Buffer`, a `size_t` of 256 values, a memory of 100,
  appends of 1 to 60 bytes: the loop doubles up to five times and passes half of the
  `size_t`.
* **ffi**: two modules that do not meet, like **bytes**. `CHost`, with three open
  arrays, two strings and two elements in each: every pair of frames with a value in
  flight between them, inside another; and with 390 tables: any of the eleven optional
  functions missing, except that a table with `intern_string` has `insert_string_key_id`
  (c_host_no_key_id is about those that have not) and that `drop_value` and `drop_array`
  are missing only where all others are there or where `duplicate_value` alone is.
  `ApiDocument`, with up to four calls that write, in any order except that the items
  of a run of longs, which have no tags, are written inside the run and nothing else is;
  a scalar of each type and arrays of each kind that announce from none to two elements,
  with each way to end a handle (finished, finished with a null pointer, `malloc` failing, freed) and to free
  the buffer before or after the decode. Four calls are a rowset of two rows and a
  column, a hash with a nested list, a list that is one short or one over. `Parse` says
  which sequences are one value by looking at calls alone; rows of no columns are
  excepted from "a balanced document decodes" (`NoEmptyRows`), because the decoder's
  check of their counts wants bytes they do not have.
* **document**: payloads of up to three bytes, all flags including reserved ones, one
  damage of each kind at each place, two foreign documents, and limits that are
  negative, zero, at the default, at 2^32 (8 in the run) and beyond it.

Four runs show where the code and what is written about it differ:

* **round_trip_c_deep**: the C encoder does not count the rows of a rowset, and checks
  the depth before it counts an array. It writes documents that its own decoder, with
  the same limit, refuses.
* **decoder_repeat**: the count of a repeat is not bounded by the remaining bytes, so a
  few bytes make the Host reserve up to 2^32 - 1 elements (both decoders).
* **c_host_no_key_id**: with `intern_string` in the table but not
  `insert_string_key_id`, `insert_key` loses the value: its pointer is null when the
  function returns early.
* **max_size_is_not_value_size**: what is charged against `max_size` is the bytes of
  strings and nothing else. `architecture-v1.0.md`, 8 adds an estimate of the array
  nodes and protocol 10.3 rejects by the estimated allocation; the code estimates neither.
  With `max_size` 8, the three bytes of a repeat of nine nulls are accepted and nothing
  is charged, where one byte for each element would be too much.

Other differences met on the way, which no run shows:

* `[0.0, -0.0]` is encoded by the extension as a repeat of `0.0`, because `===` does not
  see the sign; the protocol asks for `===` (8.3) and promises bit patterns (12.4) at once.
* A repeat charges its template once and copies it `count` times without charging, a
  rowset its keys once: a value may hold more string bytes than `max_size`, besides its
  array nodes. `StringsAreLimited` says what `max_size` does bound: the strings a
  document spells out or refers to.
* `pfserialize.h:94` to 113 calls each function optional by itself, and most of them
  depend on each other. A table without `duplicate_value` makes every repeat fail with
  PF_E_INTERNAL (`c_host.rs:387`). One with `intern_string` but without one of the
  functions that take ids fails references with PF_E_BAD_STRREF (284, 346, 448), as the
  strings are then nowhere on the Rust side. One without `intern_string` but with a
  function that is given ids hands it ids of strings it was never told.
  `MissingIsReplaced` has what a table must have among its conditions (`Suffices`); the
  runs have the other tables too, for the ownership of handles.
* A document shorter than a header is `Truncated` even if it begins with another magic
  (both parsers look at the length first; protocol 9.3 wants `E_BAD_MAGIC`).
* `normalize_for_cmp`, with which the round-trip tests compare, sorts the keys of a hash:
  the tests cannot see an order that was lost. `ValueArrives` does.

**Fairness.** `Terminates` is checked for both decoders under weak fairness of the
decoder's own steps: a decode is one synchronous call that nothing else suspends, and
a step that is enabled is the next instruction. `GrowthEnds` is checked under weak
fairness of the steps inside `enc_reserve` and `enc_bytes` for the same reason; nothing
obliges the encoder to append again. No fairness is assumed for a failing Host
or a failing insertion. The other properties need none.

## What is proved

**`StringTableProofs`** proves, for every set of strings, every size of theirs, every id
space and every bound, that `TypeOK`, `ReceivedIsWritten`, `OnlyLimitsRefuse` and
`Lockstep` hold in all behaviours of `StringTable` and that it implements
`StringChannel`.

None of them is inductive. That a reference resolves to the right string needs to be
known when it is *written*: the invariant says that the ids the encoder has given out
are the positions of the definitions in front of the end of the document, that every
reference on the wire points into the definitions in front of *it*, at the string that
was written, and that definitions only ever grow; and then that the decoder's two tables
are exactly the definitions in front of the decoder's position. The proof has one lemma
for each action of the encoder (the wire grows, what is known of its older tokens stays)
and one for each of the decoder. Each of the theorems then follows from the invariant,
and the refinement from the invariant and a case for each action. The assumptions are
those of the module: sizes are positive, and a document has no more string tokens than
there are ids (`IdSpaceAssumption`: 2^32 tokens are more than 8 GiB; beyond that `as
u32` wraps and the property fails).

**`DecoderProofs`** proves of `Decoder`, for payloads of every length and over any
bytes, all limits and every table a lent Host may hold: `TypeOK` (the cursor never
passes the end), `DepthIsNesting`, `IdsResolve` and `ReserveBounded`. The invariant has
four parts. The bytes in front of the cursor are ones that were looked at, and all of
them in the payload; that is what makes `TypeOK` inductive, and a lemma for each read
says which bytes it took. Decoder's and Host's tables are equal as soon as one has a
string of this document, which one lemma shows for every place that interns. Every frame
but the innermost is waiting for a value (`StackOK`): without that a value that is
delivered two frames down could find a frame that never called for one, and depth would
not be the nesting. And every frame was admitted by a count check, so that its declared
count and its columns are at most `len`, and holds only keys whose ids are in the
tables, which only grow; the rows inherit both from the frame of the rowset. The check
on a rowset is a product of two counts, from which each of the two bounds has to follow.
What is assumed of the constants is their types (`DecoderAssumption`,
`InputAssumption`).

It also proves `KeepsHostCalls`: the decoder implements `HostCalls`. There the strengthening
is about the Host (`HostInv`): every array it has got holds exactly the elements that
the frame which announced it has delivered so far, so that what is still to come is
the declared count less what has come, frame by frame. Every step of the decoder is then
one call of the Host, or none, and an error at any depth is `AnswerError`.

**`DecoderCProofs`** proves of `DecoderC`, for every payload, all limits, every
insertion that fails and any decimal keys: `TypeOK`, `DepthIsNesting`, `EveryZvalIsHeld`,
`FailureIsAtomic` and `KeepsHostCalls`. The C decoder has no destructors, so an error
is many steps here, one for every function that returns. The invariant keeps one account
of zvals and one of key tables through all of them (`owned = ZvalsOf(frames) + Len(root)`,
`keytabs = TablesOf(frames)`): what a function makes, it enters in its frame, and what
the error path of a function destroys is what its frame owns. A filled template is
two zvals, the template and the array; a key table belongs to the
function that reads it and then to the rowset; a failing cell ends two functions in one
place, and leaves both depths. That nothing is left after an error (`FailureIsAtomic`)
follows because no frame is left. The refinement hides what is cleaned up: an error
is `AnswerError` when it is raised, and the unwinding steps are invisible to `HostCalls`.

**`BytesProofs`**, of `Varint`, proves `TypeOK`, `IntegersSurvive` and `ReadsMeaning`
for every number of bits in a group and of bytes in a varint, the 7 and 10 of the code
among them. The writer's invariant: the digits written, and the rest at its place, are
the number (`WriterInv`); the number is below twice the last place, so the rest is at
most one bit when that place is reached and the loop ends. The reader's: what was read
are the digits of the bytes in front of it and below the next place, so no bit is cut
off (`ReaderInv`). Powers of two and sums of digits are recursive functions; what they
are is proved by an induction that has no operator for a parameter (`SetInduction`: a
set of numbers with 0 and the successor of each is all of them), from which a small
recursion theorem follows (`Recursion`).

Of `Buffer` it proves for every size of a `size_t`, every initial capacity and every
set of requests that the C encoder never writes behind its block (`NoOverrun`), and
that a grown block is less than twice as large as what it must hold. The argument: what is
appended is in memory next to the buffer, so it and the buffer together are at most
what a process can have; if that is less than half of the address space
(`BufferAssumption`), no sum wraps, the loop leaves before a doubling can wrap, and
inside it the candidate stays below twice what is needed (`Growing`). In a 32-bit process
with more memory than that the assumption fails: a request above 2 GiB doubles the
capacity to zero and the loop does not end.

**`FfiProofs`**, of `EncodeApi`, proves, for every number of calls and whatever they
write, that the caller holds a handle exactly as long as its encoder is alive and has a
buffer to free exactly if `pf_encoder_finish` returned Ok. The strengthening relates
handle, encoder and buffer through the whole life of an encoder: a freed encoder has no
handle left, so no later call can return another Ok. It also proves `ApiTypeOK`, for
which every id in the encoder's string table has to be a number: it is the size of a
table that is finite (`WriterInv`).

Of `CHost` it proves, for every set of function tables and every bound on
arrays and elements: `TypeOK`; `EveryHandleIsOwned` if no table has `intern_string`
without `insert_string_key_id`; and `MissingIsReplaced`, whose condition is on the one
table of the decode (`Suffices`). The conditions are on the C program and are needed:
without the first the run c_host_no_key_id loses a handle, and without the second decodes
fail for want of a function. The invariant says so itself: a lost handle means
such a table, and an error of the host's own means a missing function. The
rest of it is a balance: the live handles are those of the frames, counted by kind,
plus the value in flight and those no drop function was told of, until the decode is over; a frame that called for a value
still has room for it; and the strings are all at the C program or all with the host,
because a table has `intern_string` for the whole decode or not at all.

**`DocumentProofs`** proves of `Document`, for all payloads, flags, foreign documents
and limits, and however often the store damages what it keeps: `TypeOK`,
`LimitsAreKept`, `ReadersAgree`, `Delivered` and `DamageIsNoticed`. The invariant: a
store that was read is not changed any more, so every answer in `answers` is still the
one its reader would give (`IInv`); and an undamaged store holds what `Encoder::finish`
makes of the payload (`Untouched`), which for the C encoder needs its header to be the
one of a document without a checksum. Limits and agreement follow from the answers
alone, delivery from where the parts of a finished document are. That damage is noticed
needs a case for each kind and each place of it (a byte of the magic, the version, the
checksum, the payload; an end cut off anywhere; a byte more): what is stored is
unreadable from then on (`Noticed`). Of the hash it is assumed that it tells a payload
from what one damage makes of it (`DocumentAssumption`), which TLC evaluates for the
hash of the run.

**`EncoderRunProofs`** and **`RoundTripProofs`** prove of `RoundTrip`, for values of every
number of levels, every length and any strings and keys, for all limits, both settings of
the flag, every Host that was lent before and every call of it that fails:
`ValueArrives`, `OnlyLimitsRefuse` and `TablesAgree`. What `encode_with` writes,
`decode_with` reads back.

None of them is about one state. When the decoder stands somewhere in the document, the
encoder is long done, and what it meant by these bytes is in no variable any more. So
the invariant remembers the *run* of the encoder (`EncInv`): there is a sequence of its
configurations, loops and table and position, each made from the one before by writing
one token, the bytes of which are in the buffer; it begins with the value to write and
ends where the encoder is. `EncoderSteps` shows that every action of `Encoder` goes on
with such a run, and `AdvanceStays` that bytes written later change nothing of it. As
the table only grows (`RunKeeps`), an id means one string from the place of its
definition to the end of the document; and a run that has written everything returns,
loop by loop, to where it entered an array (`AllFinish`, by induction over the levels of
a value).

The invariant of the whole (`TripInv`) says that while the decoder runs it is *at a
place of that run* (`Paired`): its position is the position of a configuration, its
strings are those of the configuration's table, and its call stack is the stack of
loops, level by level (`Match`, `Level`): the frame has the form that `write_value`
chose, what it has consumed is what the loop has written, and what the Host was given so
far of this array is equal to the front of the value's (`Value::eq`, with one level less
for each frame). The decoder's steps then replay the encoder's. One lemma for each kind
of step shows that the token it finds is the one the encoder wrote there (`ConstStep`,
`StringStep`, `CountedStep`, `RowsStep`, `KeyStep`, ...), that no other action is
enabled at it (`NoOtherTag`, `NoOtherKey`), and that it fails, if it does, for a limit
or by the Host; `StepGives` puts them together. A repeat needs that equal elements may
be taken for each other, so `Value::eq` is symmetric and transitive at every level
(`EqualBack`, `EqualOn`); a rowset, that each row has the keys of the first one in
order. That `max_depth` refuses no value of up to that many levels, and accepts no
deeper one, is because the frames and the levels are counted together, rows included.

The assumptions are on the documents (`RoundTripAssumption`): values with finitely many
levels, arrays of at most `MaxU32` elements (`Counted`: `items.len() as u32`,
`encoder.rs:145` to 179, cuts a longer one), doubles of the width the decoder reads, and
no byte that stands for an overlong varint; varints of more bytes are the business of
`BytesProofs`. That references may be refused (`BadStrRef`) only in a document longer
than `MaxU32` is in the property. The proofs use those of `DecoderProofs`: that frames,
arrays and cursor fit each other is taken from there. `Nested` and `Equal` are recursive
functions on the number of levels; what they are on each level is shown by the same
induction over sets of numbers.

Out of the prover's reach, and checked by TLC only: liveness (`Terminates`,
`GrowthEnds`); and what the recursive operators compute (`Nesting` and `Charges` of
`Interop`, `Identical` of `EncoderC`, `Parse` of `ApiDocument`), and so the properties of
the modules that reach them: of `Interop` the other three pairs of encoder and decoder
(`ValueArrives`, `StringsAreLimited`, `OnlyLimitsRefuse`, `TablesAgree`) and `Agreement`, and
`DecodesIfBalanced`.

## Not modelled

* The command line tool: parsing of hexadecimal digits and formatting. It does not
  build at this commit (`main.rs:91` and `:113` use `TestHost` as a unit value).
* In PHP: `pfserialize_size` (an encode whose result is dropped), statistics, warnings
  and the registration of functions. `decode` returns false for an error and for a
  document that holds false, by design.
* `normalize_for_cmp` and `maybe_pack`: they are called by tests and samples only.
* A change of the flags byte of a stored document: it says whether there is a checksum
  and is not covered by one, so nothing is promised.
* The machine's stack, on which `write_value` recurses without a limit, and time.
* The numbers of the error codes. Arithmetic of 64 bits in counts (`saturating_mul`,
  `ncols + nrows * max(ncols, 1)` of two 32-bit numbers) cannot overflow and is done
  in the integers; a list of 2^32 elements is beyond any model here.

## Plan

1. Done, with proofs: string tables, varints, both decoders and that they implement
   `HostCalls`, the Rust encoder and decoder together, buffer, C API, vtable host, stored
   documents. Done, model-checked: the C encoder, and every encoder with every decoder.
2. Next to prove: that the two decoders agree on every payload (`Agreement`), which needs a
   simulation between their stacks; `Interop` without recursive operators, for the
   C encoder.
3. Left to model: `CHost` with `HostCalls` as its environment instead of a free one.
