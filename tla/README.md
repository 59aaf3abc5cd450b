# Verification of aesni

TLA+ models of the library in `aes/` and of the C++ wrapper in `aesxx/`: the
boxes that encrypt and decrypt buffers, the modes of operation and the padding
they use, the AES-NI rounds and the key expansion below them, in C and in
assembly, the calls on one block, the counter, keys in text, error messages, and
the command line utilities around all of it. TLC checks small instances; TLAPS
proves the most important properties for every instance.

* [Components](#components): what the repository consists of
* [Modules](#modules): which module models what, and how it matches the code
* [Runs](#runs): what TLC checks, within which bounds
* [Theorems](#theorems): what is proved, from what, and how
* [Disagreement with the code's messages](#disagreement-with-the-codes-messages)
* [Not modelled](#not-modelled)
* [Plan](#plan)

## Components

| Component | Source | State | Operations |
|---|---|---|---|
| box, buffer interface | `aes/src/box.c`, `aes/include/aes/box.h` | `AES_Box`: algorithm, mode, the expanded keys and `iv`, the chaining value, which outlives a call | `aes_box_init`, `aes_box_encrypt_buffer`, `aes_box_decrypt_buffer`, their `_block` functions |
| modes of operation | `box.c` 47-229; a second time as macros in `aes/include/aes/mode.h` | the chaining value | one encryption and one decryption of a block for each of ECB, CBC, CFB, OFB, CTR |
| padding | `aes/src/padding.c` | none | fill in PKCS7 padding; find its size |
| algorithm dispatch | `aes/src/box_aes.c` | none: tables of functions for each algorithm | round keys of a box, blocks in and out of memory, xor, counter |
| cipher rounds | `aes/src/c/aes{128,192,256}.c` | registers | `encrypt_block_`, `decrypt_block_`, `derive_decryption_keys_` |
| key expansion | the same files | two registers and the round keys | `expand_key_assist`, `expand_key_` |
| assembly | `aes/src/asm/*.asm` | registers; `ecx`, which points into the round keys | for 32-bit MSVC: key expansion and decryption keys, programmed differently from the C; the block functions, the same sequences |
| one-block interface | `aes/include/aes/aes.h`, `data.h` | the caller's `iv` | `aes_AES128_encrypt_block_CBC` and its 29 sisters; the counter step |
| parsing and formatting | `aes/src/aes.c` | none | keys and blocks from text and to text |
| errors | `aes/src/error.c`, `error.h` | `AES_ErrorDetails`, owned by the caller | set by a function that fails; formatted in two passes |
| C++ wrapper | `aesxx/include/aesxx/*.hpp` | `Box`, `EncryptWrapper`, `DecryptWrapper`, `ErrorDetailsThrowsInDestructor` | size query and call; exceptions |
| block utilities | `aesxx/utils/{encrypt,decrypt}_block.cpp`, `block_*.hpp` | groups of words from the command line; one wrapper or box for each group | encrypt and decrypt blocks, print the results |
| file and bitmap utilities | `aesxx/utils/{encrypt,decrypt}_{file,bmp}.cpp`, `helpers/` | a file in memory; files on the disk | encrypt and decrypt a file, the pixels of a bitmap |
| debugging output | `aesxx/include/aesxx/debug.hpp` | - | names for the addresses of a call stack, on Windows |
| tests | `test/` | - | known answers, through the utilities, whose command lines `toolkit.py` makes |

How they meet. A program initialises an `AES_Box`, which expands the key and
derives the decryption keys. Each call on a buffer takes the buffer apart into
blocks; each block goes through the mode, the mode through the round functions
of the algorithm, found in a table. What ties one call to the next is
`box->iv` alone: there is no message boundary, no finalisation and no way back.
The C++ wrapper makes every buffer call twice, the first time with
`dest == NULL` to learn the size. The library starts no threads, has no
globals it writes to and never waits; two boxes share nothing. So the hard
behaviours are not races inside it but:

* **state that outlives a call**: the chaining value after a failed call, after
  a message that ended in a partial block, after an initialisation without iv;
* **memory that may be one buffer**: encryption in place, with block functions
  that write their output before they last read their input;
* **paths nobody takes in a test**: the first or the second `malloc` failing,
  each with its own cleanup label;
* **lengths**: no bytes, a part of a block, whole blocks, with and without
  padding, for which one function announces the size and another writes;
* **two boxes that must stay in step**, with different numbers of calls;
* **what is outside**: the utilities write their output over a file that may be
  their input, streams fail in their own ways, and a command line is taken apart
  by boost and by the program;
* **order**: the round keys derived in reverse, an AES-192 schedule whose round
  keys are written in halves by different calls, an AES-256 schedule whose
  registers change places.

What makes each component correct:

* box: whatever the call, size, aliasing and outcome of `malloc`, the output is
  the mode's, nothing else is written, `iv` is the mode's, nothing leaks, and
  the status and `*dest_size` tell the caller what happened;
* two boxes: what one encrypts the other decrypts, message after message;
* padding: it is taken off exactly where it was put on;
* rounds: decryption with the derived keys inverts encryption;
* key expansion: the words are those of FIPS-197, each round key complete;
* assembly: the same words, stored without a gap, and the decryption keys of C;
* one-block calls: both implementations of a mode make the same blocks, and a
  call with one block as input and output harms no block it need not;
* the counter: it does not come back before its word is exhausted;
* wrapper: the vector is the message, whole, and an exception tells what
  became of the box;
* parsing: what was written is read back, and a failed read leaves no half of a
  key half read;
* errors: the message is whole, and names what was wrong;
* block utilities: every block of the command line is processed with the key and
  the chaining value of its group, and the exit code tells if that was all;
* file utilities: nothing happens to the output before there is a result, from then
  on it is a part of it, and a decryption never makes up bytes; an offset that points out
  of a bitmap is refused, but where the arithmetic of `size_t` lets it through.

## Modules

```
Blocks -- Modes --+
      \           +-- Sizes -- BoxSizes -- Box ------- BoxRefinement -- MCBox
       - Padding -+      \         \         \          |
                          \         \         Session   |     MCSession
                           \         AtomicBox ---------+
                            \
                             FileUtility --- MCFileUtility
                    Errors -/
Modes, Errors -- BlockUtility -------------- MCBlockUtility

                             Wrapper (over Box)        MCWrapper
Modes -- BlockCalls -- MCBlockCalls

Rounds -- MCRounds     Counter -- MCCounter     Parsing -- MCParsing

Words -- Schedule -- KeyExpansion --- MCKeyExpansion -- MCWords
                 \-- Assembly ------- MCAssembly ------ MCWords

Modes_proofs -- Box_proofs -- Session_proofs, Wrapper_proofs
            \-- Programs_proofs (BlockCalls, FileUtility, BlockUtility)
KeyExpansion_proofs -- Assembly_proofs
Primitives_proofs (Rounds, Counter, Parsing)
```

**Blocks** has bytes, blocks and the primitives: `Enc` and `Dec` of a block
under a key, `Xor` of bytes and `Inc`, the counter step, as parameters. Of the
cipher it assumes that `Dec` inverts `Enc`, which is what Rounds shows of the
code. A key stands for the `AES_EncryptionKeys`/`AES_DecryptionKeys` pair.

**Modes** has one operator for each `aes_box_encrypt_block_*` and
`aes_box_decrypt_block_*`: a record of `*output` and the new `box->iv`, for
distinct input and output. `EncryptBlock` and `DecryptBlock` are the dispatch
tables, in which OFB and CTR use one function for both directions. The second
half restates the modes as NIST SP 800-38A does: equations between a
plaintext and a ciphertext (`Encrypts`), with the chaining value read off the
two texts (`Chained`). All properties of the boxes are stated with these
equations, never with the functions.

**Padding** has `aes_fill_with_padding` and `aes_extract_padding_size`. The
scan of the claimed padding runs backwards as the code's does; where it leaves
the caller's memory the comparison may go either way, so that such a call both
may succeed and may be refused.

**Sizes** has the size functions. A size is `full * BlockSize + rest`, the
two numbers the code takes it apart into, and bytes are counted modulo
`SizeMod`, the range of `size_t`. **BoxSizes** adds the caller's memory and
what fits in it.

**Box** is a box with its caller. The state:

| Variable | Code |
|---|---|
| `box` | the `AES_Box` (mode, key, iv) |
| `mem` | the caller's buffers; `src` and `dest` of a call may be the same one |
| `call` | the activation record: arguments, `step`, the blocks `done`, `cut` (the partial block is out) and the local `status` |
| `heap` | the temporaries `plaintext_buf`, `ciphertext_buf` now allocated |
| `size`, `status` | `*dest_size`, the code last returned |
| `calls` | counts calls, for the bound |
| `entry` | history: memory, iv and `*dest_size` at the start of the call |

The caller's actions are `FillBuffer`, `InitBox`, the refused calls
(`RefuseNull`, `RefuseMissingPadding`, `RefuseNullSource`), the size queries
(`dest == NULL`) and `BeginEncrypt`/`BeginDecrypt`. From there `Progress` runs
the call: `ProcessBlock` is one turn of the loop; `NothingLeft` the early
return; `MallocFirst`, `MallocSecond` and their failures the allocations;
`EncryptPaddedBlock` and `ProcessPartialBlock` the last block; `FreeSecond` and
`FreeFirst` the labels `FREE_...`; `RemovePadding` and `RejectPadding` the end
of a padded decryption. A refused or queried call is one step because it
changes at most `*dest_size`; a call that processes blocks is a step for each
block, allocation and label.

**AtomicBox** is what a box promises: each call is one step, described by the
equations of the mode, including what a failed call leaves behind (the full
blocks are in `dest`, the iv stands behind them). **BoxRefinement** maps a Box
onto it: while a call runs, the caller sees the state at its entry.

**Session** is two instances of Box, one encrypting a series of messages and
the other decrypting them, each a program of its own, in every interleaving.
A call that ran out of memory may be made again. The channel between them
keeps order and loses nothing; the library has no transport.

**Rounds** runs the instructions of `encrypt_block_` and `decrypt_block_` one
by one on a register, after deriving the decryption keys, one way and then
back. The four transformations and their inverses are parameters; used are
only that the pairs are inverse, that SubBytes commutes with ShiftRows, and
that InvMixColumns is linear. The three files differ in the number of rounds,
a parameter. `path` is a history variable: the blocks encryption went through.

**Words** has what both key expansions are made of: words, registers of four
words, and the instructions on registers. The S-box, the rotation and the round
constants' words are parameters with the laws the schedules need.

**KeyExpansion** runs the three key schedules of the C code, one action for each call of
`expand_key_assist` together with the stores after it. AES-192 has two such
actions since its calls alternate between completing a half-written round key
and filling a whole one. `FipsWord` is the recurrence of FIPS-197.

**Schedule** is what a key expansion promises, whoever computes it: the words come
into being in order, each is the one FIPS-197 says, none is changed afterwards.
The words of the key itself are there at first (KeyExpansion, whose round keys begin with
them) or are made as the others are (Assembly). Both implement it.
`Unset` is a word not yet written.

**Assembly** is the key functions of the three `.asm` files, an action for each
instruction or short run of them. `ecx` is the index of the word it points at. The
round keys are one array of words: AES-128 and AES-256 store through `ecx` and
advance it in `..._keygen_assist`, AES-192 stores sixteen bytes and then eight,
in the caller, at offsets that are written out. AES-256 exchanges its registers
by three exclusive ors. `aes_AES..._derive_decryption_keys_` then works on
pairs of round keys, from the outside to the middle, where the C code
goes through them one by one. A register that holds no defined value
is `Unset`. The three files share actions where they share instructions.

**Wrapper** is `Box::encrypt_buffer` and `Box::decrypt_buffer` around an instance
of Box, statement by statement: the query, the destructor of the error details
that may throw, `resize`, the call with `data()`, the destructor again, the final
`resize`. `data()` of an empty vector may or may not be NULL, and then
the second call is a query (`AskAgain`) or a call (`BoxBegins`); `resize` may throw
`bad_alloc`, or `length_error` when `*dest_size` has wrapped around. That is so where
`max_size()` is half of what a `size_t` counts, as in libstdc++ (`MaxVectorSize`); a library that
allows more, as that of Visual Studio 2015, throws `bad_alloc` there too, and then a `bad_alloc` no longer tells
that the box is as it was. `length` is the
size of the vector, `details` the code in the error details, `thrown` the exception.

**BlockCalls** is a sender and a receiver that process blocks one by one. Either
holds a box or a wrapper object (`EncryptWrapper`, `DecryptWrapper`). The block
functions of `box.c` are one action for each statement that reads or writes `*input`,
`*output` or `box->iv`, since the two blocks may be one; those of `mode.h` take their
arguments by value (`CallMacro`), and the C++ assignment follows (`AssignValue`).
Round keys are a key and a `kind`, expanded or derived; with keys of the wrong
kind, a block turns into something else (`Mismatched`, a parameter).

**Counter** is `aes_AES_inc_block` on sixteen bytes: the reversal of the bytes, the
addition to the lowest 32-bit lane, the reversal back. In Modes and Box it is
the parameter `Inc`.

**Parsing** reads a key from text, a byte for each turn of the loops in `aes.c`. A
character is a digit with its value, or one of the kinds `sscanf` treats
in its own way: white space, a sign, an `x`, anything else. `Scans` is the set of
what one `sscanf` of `"%2x%n"` may store and how far it may move the cursor; where
libraries differ (`0x` without a digit) it may also fail. `origin` is a
history variable: the key the present text was written from. A block is read and
written like an AES-128 key. The base and the length of a half are parameters.

**Errors** has the details of a parse error, cut to the fields `src` and `what` as
`aes_fill_string` cuts them, and the message made of them in two passes:
`AnnouncedSize` is `aes_format_error` with a NULL `dest`, `FormatError` the second
call, `FormatErrorMessage` the C++ function that makes both. A string is a sequence
of characters without its terminating zero, and a fixed part of a message is one
character.

**BlockUtility** is `encrypt_block` and `decrypt_block`, from the words boost leaves
to the exit code. A word is a sequence of characters, where the two digits of a byte
are one; what `sscanf` makes of other texts is Parsing's. `ParseInput` takes a group
of words off the deque `src`, up to the next `--`, with a key and (but in ECB) an
initialization vector in front. All groups are parsed before the first is
processed. `ConstructWrapper` reads the vector and then the key, `ConstructBox` the
key and then the vector; in ECB the wrapper's vector is any of `Leftovers`, since
nobody assigns it. Then each block is read (`RefuseBlock` if it cannot be),
processed and printed by `EncryptWithMode` and its three sisters, in the order of the
loop: `printed` has the lines of each group so far, with the labels of the verbose
output, and `exit_code` and `cerr` how it ended. `ReadBack` is what a test script does with the output: it has it
decrypted, through either interface, with the command line `toolkit.py` makes.

**FileUtility** is the other four utilities, run one after another by a user, on a
disk of two files. The steps are the calls of `read_file` (the size, the contents),
the constructor of a `BmpFile`, the buffer function of the box with what it
may return or throw (`Outcomes`), `replace_pixels`, and `open`, `write` and the
destructor of the output stream. A box is used for one buffer only, so that the
buffer functions are operators here, made of those of Modes, Padding and Sizes; Box
and Wrapper have their steps. `offset` is 0 for a file, and for a bitmap what the byte in which
the header keeps it (`FieldEnd`) stands for (`BfOffBits`); a file without one is read
beyond its end: any byte, or a signal. Faults, up to `MaxFaults` of them: a stream
that throws (`InputFails`, `OutputFails`, `WriteFails`); no memory (`OutOfMemory`); a read error that the
library takes for the end of the file (`ReadIsCut`); another program that replaces
the input between its two openings (`Replace`); data lost in a destructor that does
not throw (`CloseFails`); a signal (`Kill`). History variables: the disk before
the run, if the output was opened, if it was flushed, and the run before.

The offset of a bitmap is a `DWORD`, and in the x86 builds (`.github/workflows/ci.yml:16`) a
`size_t` has 32 bits too, so that `BfOffBits` may be any `size_t`. An offset beyond the end
wraps the size of the pixels around (`PixelsSize`), and one of three things comes of that:

* the size is larger than any vector, and the utility ends with a `length_error`;
* a padded encryption announces a size of 0, and the bitmap grows to the offset;
* the offset is so near the end of the range of `size_t` that the size is small again, and
  there is a vector for it. The box then reads from in front of the buffer
  (`FromOutside`: a signal, or any bytes of `Stray`), the sum in `replace_pixels` wraps too (`ReplacedSize`),
  and the bytes are copied to memory in front of the buffer. From then on the model
  promises little of that run (`Damaged`): besides what the code says, it may at every step end with any code,
  and any one file may hold a beginning of the result (`HeapFaults`).

A vector is at most half of what a `size_t` counts (`MaxVectorSize`), since differences of pointers
measure it; a larger file cannot be read (`InputFails`). Where a library's `max_size()`
is larger, as in Visual Studio 2015, the assumption is that such an allocation fails: the utility ends with the
same code after a `bad_alloc` as after a `length_error`. In a build with a `size_t` of 64 bits no `DWORD`
is large enough for the third case.

The definitions commented "A slip" in these modules are faulty variants of the
definition after them: errors one could make in this code, which the
properties are known to detect. No specification uses them.

## Runs

| Run | Module, config | Shows |
|---|---|---|
| `box` | `MCBox`, `box.cfg` | two calls on a box, of every kind: output, chaining value, memory, temporaries, size and status at every step; each returns; the second starts from what AtomicBox says the first left |
| `session` | `MCSession`, `session.cfg` | two boxes through up to three messages: round trip, and when they stay in step |
| `rounds` | `MCRounds`, `rounds.cfg` | decryption retraces encryption instruction by instruction |
| `key_expansion` | `MCKeyExpansion`, `key_expansion.cfg` | all schedules, whole, call by call, against FIPS-197 |
| `assembly` | `MCAssembly`, `assembly.cfg` | the key functions in assembly, instruction by instruction, against the same FIPS-197 |
| `block_calls` | `MCBlockCalls`, `block_calls.cfg` | blocks one by one between boxes and wrapper objects, in place or not |
| `counter` | `MCCounter`, `counter.cfg` | the counter block past the period of its last word |
| `wrapper` | `MCWrapper`, `wrapper.cfg` | the C++ buffer functions with every failure on the way |
| `parsing` | `MCParsing`, `parsing.cfg` | keys read from text, written, read again |
| `block_utility` | `MCBlockUtility`, `block_utility.cfg` | `encrypt_block` and `decrypt_block` on many command lines, and their output read back |
| `file_utility` | `MCFileUtility`, `file_utility.cfg` | the file and bitmap utilities, in place or not, alone or one after another, with faults |
| `padding` | `MCBox`, `padding.cfg` | a counterexample, see below |

The properties, by run:

* `box`: `BlocksFollowMode` (each block satisfies the mode's equation, in place
  or not), `IvIsChained` (the chaining value, after failures too),
  `PartialBlockFollowsMode`, `OnlyOutputIsWritten`, `HeapMatchesStep` (no leak,
  no double free), `StatusTellsProgress`, `SizeMatchesOutput` and `TypeOK`;
  `EveryCallReturns`, and the refinement `ImplementsAtomicBox` over sequences of
  calls.
* `session`: `RoundTrip`; `StaysInSync` (after a call the two boxes agree again,
  except for a CFB message that ends in a partial block, whose last ciphertext
  block the decrypting box has not seen in full); `UndisturbedIsInSync` (with
  neither such messages nor repeated calls, every message is decrypted from
  the iv it was encrypted from); `ChainingModesRecover` (CBC and CFB come right
  after one block whatever the iv, ECB at once).
* `rounds`: `Retraces`, `ComesBack`.
* `key_expansion`: `FollowsFips197`, `RegistersHoldLastWords`,
  `TypeOK`, and the refinement `ImplementsSchedule`: the final words of the round
  keys, as one array, grow in order and never change.
* `assembly`: `KeepsItsPromises` (what `..._keygen_assist` requires and ensures by the
  comments in front of it), `DerivesTheKeysOfC` (the pairs make the decryption
  keys of the C code, each written once) and the refinement `ImplementsSchedule`.
* `block_calls`: `SentFollowsMode` (ciphertext satisfies the mode's equation through
  either interface, except where a box was given one block as input and
  output), `OnlyLostBlocksDiffer` (which blocks such calls cost, and that no other
  is harmed: in the stream modes the block itself, in CBC and CFB decryption
  the one after it), `StreamsStayInStep`.
* `counter`: `CountsLastWord`, `RepeatsAfterPeriod`.
* `wrapper`: `WritesStayInVector` (the announced size is enough for what the second
  call writes), `VectorHoldsMessage` (also when an empty vector turns the second
  call into a query), `ExceptionTellsProgress` (after which exceptions the box has
  moved, and how far, and that encryption refuses a NULL `src_buf` only of some bytes).
* `parsing`: `DigitsMakeBytes` (two digits make a byte, and so do a sign and a digit; a text one
  digit short is accepted, since `sscanf` is content with one), `RoundTrip`,
  `OnlyWholeHalvesChange` (whatever the text). Which bytes come of a text with white space
  is said by `Scans` alone.
* `block_utility`: `OutputFollowsModes` (the groups are those of the command line,
  word for word; each line is its mode's for the block in its place, chained within
  its group; the verbose lines show what went in and the chaining value after it),
  `ExitTellsOutput` (0 only when all is printed; otherwise what comes before the
  text that cannot be read, and a message that names it to the last character),
  `ReadsBack` (the output of either interface, decrypted through either, gives
  the blocks).
* `file_utility`: `OutputIsCut` (no other file changes, the output not before there is
  a result, and an exit code of 0 promises all of it, unless closing failed; all this
  unless the heap was damaged), `PixelsFollowMode` (header kept, the rest the mode's; an offset beyond the
  end gets through only where a padded encryption makes nothing of it, or where both sizes wrap
  around: then the result has the size it should have, whatever is in it), `DecryptsToCut` (a decryption of what was encrypted gives
  the file back; of a part that was written before a fault, a part of it
  or nothing, never other bytes).

Bounds, and why they suffice:

* Blocks are two bytes of two bits (`MCPrimitives`). Two bytes make a partial
  block possible, and with four values of a byte a claimed padding can be
  zero, right, or too large by one. The cipher is an arbitrary permutation of
  the sixteen blocks: nothing in the modes can profit from its structure.
* Two blocks in `box` make a first and a last one, whole, partial or padded, and
  `session` has three. The loop body does not depend on the number of blocks; the theorems
  remove the bound. `SizeMod = 16` is reached by a padding larger than the message.
* `MaxCalls` is 2: what one call leaves to the next is the box and the
  memory. The initial states of `box` have every mode and all of the sample
  contents and vectors.
* `session`: three messages out of four kinds (empty, part of a block, a
  block, two blocks and a part), four calls for each box: each may repeat a
  call. Two messages show a lost step, the third shows whether it heals.
* `rounds`: four round keys, of five values each, and all sixteen registers: an outer key at
  either end, two in the middle to be taken in the wrong order.
* `key_expansion` is bounded only in the word (two bytes of three bits, an
  S-box that is not affine) and in the keys: 15 for each algorithm. The calls
  and round constants are all there, the constants mapped into words so
  that they remain distinct.
* `assembly` has the same words and keys; `MCImc`, in the place of `aesimc`, is
  any mixing of a register, since the derivation only moves its results.
* `block_calls`: three blocks of two values, so that a block lost in place has one
  after it that is harmed and one after that which is not.
* `counter`: three values of a byte, a period of 81 and 170 steps, more than two
  periods, from words that are empty, full, and about to carry.
* `wrapper`: one call of the wrapper makes up to two of the box; three, the
  bound on box calls, let a second call of the wrapper begin. `MaxVectorSize` is
  larger than any message and smaller than any size that has wrapped around.
* `parsing`: two digits, two bytes in half a key. Every text of up to three
  characters, every text of digits up to one more than a whole key takes, and
  texts up to seven characters with one character replaced by one of another kind.

* `block_utility`: every command line of up to four words for AES-128 and three for
  the other two, over a block, a text longer than one, a text that cannot be read
  and the separator; and longer lines of two and three groups with up to three
  blocks, with and without a text that cannot be read. Keys of two, three and
  four bytes stand for the three lengths. The text that cannot be read is as long as
  the field of the error details (`SrcSize`), so that it is cut. What a text was taken
  for always fits (`WhatSize > 1`; a name is one character here), as in the code, where the
  names are shorter than the field.
* `file_utility`: twelve files of up to nine bytes, a missing one, with a header of
  two bytes and offsets before, at and behind its end, at the end of the file
  and beyond: `BfOffBits` takes a byte for itself, but 0 for 31. `SizeMod = 32` lets a padded size wrap
  around to zero, and an offset of 31 makes the pixels one byte more than the bitmap.
  `MaxVectorSize` is 8: one file fills a vector, one is too large for it, and so is what a
  padded mode makes of the first. `Stray` has one byte, since no property looks at what was
  read from elsewhere. Two runs, an encryption and the decryption of its output, and
  two faults: one in each, or two in one.

Deadlock is not checked in these runs: a program may make its last call
(`MaxCalls`), the rounds are over, the schedule is complete. That a call
does not get stuck in the middle is `EveryCallReturns`; a utility that has ended stays so.

Fairness: only `box` assumes any, weak fairness of `Progress`. A call is
sequential code that waits for nothing, so once entered it takes its next step.
Nothing is assumed of the caller, nor of `malloc`, which may fail every time.

## Theorems

Assumptions: those named `...Assumption` and `...Laws` in the modules, no other.
They speak about the parameters only and TLC evaluates them in the runs.

**`Box_proofs`**: `Spec => []P` for each of the eight invariants of `box` and for
`CallShape`. No invariant is inductive by itself. `Inductive` is `TypeOK` with `CallShape`,
which ties the step of a call to its arguments (blocks stay within the
memory). On top of it, `Follows` joins four properties that need each other:
that a block satisfies the equation needs the chaining value before it; that
value needs the earlier blocks of the output; and in place, that the block
just read is still the original needs that nothing behind the processed blocks
has been written. The lemmas `EncryptStep`, `DecryptStep` and
`EarlierBlocksDecide` carry the step from the code's functions
to the equations for each mode. `Returns` adds to `StatusTellsProgress` that
during a call `*dest_size` is the announced size, from which `SizeIsRight`
follows at the return; `TemporariesAreFreed` needs only `Inductive`.

`BoxImplementsAtomicBox`, in the same module, says that `Spec` of Box implements
`AtomicBox`. Steps inside a call stutter, a call that returns is the atomic
step for its outcome (`SuccessIsAtomic`, `FailureIsAtomic`, `UnpaddingIsAtomic`),
the rest is `CallerIsAtomic`. It rests on `Inductive`, `Follows` and `Returns`.
For modules that are composed of boxes, `WellBehaved` gathers what is invariant, with
the lemmas that a box begins with it and that each of its steps keeps it.

**`Session_proofs`**: `SessionsStayInSync`, `SessionsRoundTrip`,
`UndisturbedSessionsAreInSync`, `SessionsRecover` and the types, for any messages, calls,
interleaving and failures. Each step of a session is a step of the one box, of the
other, or of neither, so `WellBehaved` of both is invariant by the lemmas of
`Box_proofs`, taken through two INSTANCEs. `Related` says how they hang together:
the programs use one mode and key (`Alike`); what is in a box's memory is the
message it was given (`Drafted`, `Handed`); the receiver has what the sender sent
(`Received`); and from one message to the next each side's chaining value
is that of the message before it (`Linked`). The round trip is then a matter of the modes'
equations: `BlockDecidesText` and `CiphertextDecidesText`
say that the ciphertext and the chaining values decide the plaintext,
`FilledPaddingIsFound` that the padding put on is the one taken off.

**`Wrapper_proofs`**: `VectorIsLargeEnough`, `VectorIsWhole`, `ExceptionsAreHonest` and
the types, for every mode, message, size of a block and largest vector. The wrapper
lets the box run between its own statements, so `Inv` starts from what is invariant of a
box (`BoxInv`) and adds what the statements in between know: what was asked for and
announced (`Asked`), that the message is in memory (`Made`), and whether the second call
was a query again, was refused or ran (`CalledAgain`). Two statements are no step of
Box: `dest_size` is cleared before the query, when `SizeMatchesOutput` may fail until the
query has answered, and `resize` fills the vector with zeros when no call looks. `AnnouncedIsExact` says
that no announced size wraps, because the memory with one block more is smaller than the largest
vector and that, with a byte's range, smaller than `SizeMod` (`WrapperAssumption`);
`Wraps`, that the size of an unpadded message wraps exactly when the last byte claims more than there
is, and is then larger than any vector.

**`Primitives_proofs`** has the theorems of Rounds, Counter and Parsing, which have nothing in
common. Of Rounds: `CipherIsInvertible` and `RoundsRetrace`, for any number of
rounds. The invariant adds to `Retraces` that the decryption keys are the derived
ones (`KeysDerived`) and that `path` is a chain of rounds, as far as it
has been gone (`WayOut`, `WayBack`). `CipherIsInvertible` is what Blocks assumes of
the cipher.

**`KeyExpansion_proofs`**: `ScheduleFollowsFips197`, `RegistersAreRight`,
`SettledWordsAreKept` and `ScheduleIsComplete`, for every key, S-box and rotation
with the stated laws. The invariant adds `UpperLaneIsClear`: the top lane of
AES-192's second register is zero, which keeps it out of the round keys.
`KeyExpansionImplementsSchedule` takes the final words of the round keys for the words of
Schedule: every call is one `Make` of the words it settles, with the recurrence
from `FollowsFips197` and the rest unchanged (`Kept`).
`ScheduleIsComplete` is what Rounds assumes of its round keys. There is one
lemma for each action; `AccumulationChains` says what three shifts and
exclusive ors do to a register, `Assist192Chains` what one AES-192 call does.

**`Assembly_proofs`**: `AssemblyImplementsSchedule`, `AssemblyScheduleIsComplete`,
`AssistKeepsItsPromises`, `AssemblyDerivesTheKeysOfC` and the types, for every key, word and
S-box with the laws of Words. Of `aesimc` only `AssemblyTypes` assumes something,
that it makes registers of registers. The inductive invariant `Inv` says where
the program stands after so many calls (`Standing`), that the words so far are
those of FIPS-197 (`Expanded`), what `xmm0`, `xmm1` and `xmm5` hold at each
instruction (`Lower`, `Upper`, `Assisted`) and where `ecx` points (`Pointed`). That is what
a schedule of instructions needs and one of calls does not: between two of
them a register is neither the old round key nor the new one. What shifts and
exclusive ors do to a register is taken from `KeyExpansion_proofs`. The sums of words
in the comments of the assembly (`Sum`, a recursive function) have at most four terms
and are unrolled (`SumsOfWords`).

Of Counter, in `Primitives_proofs`: `LastWordCounts` and `KeyStreamPeriod`, for every base of a byte
and number of blocks. `CounterInv` says at each of the three steps what `CountsLastWord`
says between calls. `AdvancedCounts` shows that the carry between four bytes adds one
modulo the period; `SameLastWord`, that a word has only one representation, so
that a counter block comes again only with its number.

Of Parsing, in `Primitives_proofs`: `DigitsAreRead`, `KeysAreReadBack`, `HalvesAreWhole` and the types, for
every base, length of a key and text. `ParsingInv` is `ParsingTypeOK` with
`OnlyWholeHalvesChange` and what a call has done so far: the first half of the key is
untouched while the loop over it runs. `ReadInv` adds where the cursor stands
behind so many bytes of a text of pairs (`DigitsRead`) and that a text with an
`origin` is that key written out (`WrittenText`). `PairDigits`, that a byte
is the value of the two digits it is written as, closes the round trip. The end of
white space is a least position (`Least`, from the well-foundedness of the numbers).

**`Modes_proofs`** has no theorem of its own but what the others need about blocks, modes
and sequences of bytes: the lemmas `EncryptStep`, `DecryptStep`, `EarlierBlocksDecide`, `BlockDecidesText`,
`CiphertextDecidesText` and `FilledPaddingIsFound` named above. The modes chain a
block to the one before, so that some facts need induction over the blocks. The library's
induction theorems take an operator as a parameter; `SetInduction` states
induction for a set of numbers instead, and follows from the well-foundedness of the numbers.
`Iteration` derives from it that a recursive function on `0 .. n` exists and
satisfies its equation; the folds of the community modules are opened up in the same way, and
`FlattenType`, `FlattenAppend` and `FlattenFirst` say so of `FlattenSeq`.

**`Programs_proofs`** has the theorems of the three modules on programs that use the library.
Each has one inductive invariant, with a lemma for each action.

Of BlockCalls: `LossIsConfined`, `StreamsStay`, `SentIsEncrypted` and the types, for every
cipher and message, and any number of blocks. `CallsInv` says what each statement of a call has
before it (`CallStands`: `AtFirst`, `AtSecond`, `AtThird`): which of its two
blocks still holds what was given, and the chaining value. That value is a function of the
blocks sent before (`SenderIv`, with `KeyStream` in OFB and CTR), and so needs no
history variable of its own; the receiver has the same one, unless it chained a block it had written
over (`Misled`). `Made` says what each ciphertext was made from.

Of FileUtility: `ResultIsCut`, `WrittenFollowsMode` and `DecryptionIsCut`, for every disk, number
of faults, size of the header, offset and sequence of runs. `FileUtilityAssumption` leaves the offset the
whole range of `size_t`; of sizes it says that a vector takes less than half of that range, and that
beside the largest vector there is room in it for a byte's value and a block. A size that has wrapped around is thus
no vector's, unless the offset is within a vector of the range's end: `BeyondTheEnd` and `OutcomesBeyond` tell
the cases of an offset beyond the end apart, `ReplacedInPlace` and `ReplacedInFront` say where its pixels go. `FileInv` joins how far a run has got
(`Progress`) with what it has in its buffers by then (`Holds`), what is on the
disk (`OnDisk`: the output is a beginning of the result, and nothing else has
changed) and why a run without a fault failed (`Reason`, in `Faultless`): the last one
is needed for the decryption of an encrypted file, which is not to fail. `Preceded`
keeps the same of the run before. A buffer that is made is a result (`ResultOf`) of the
equations of the mode, and `BlockDecidesText` and `FilledPaddingIsFound` lead back from it to the text.

Of BlockUtility: `LinesFollowModes`, `ExitTells` and `PrintedReadsBack`, for every command
line. `BlocksInv` says that every word is in a group or still to come
(`Parsed`), that groups are finished one after another, their lines those of the mode
(`Groups`), which group's object is at hand and what it has left to do
(`Phases`), and how the utility has ended (`Exits`). `ReadingBack` says,
while a script's command line is worked on, that there are groups (`GivenBack`) of
which the words not yet parsed are the rest: the keys and vectors of the run before,
with the blocks it printed. `FollowsMode` and `Finished` are about one group and its lines, so
that a step is only looked at in the last group. The command line that boost
passes on loses its first separator (`Positional`); that the groups can be told
apart afterwards (`Joined`, `Unparsed`) is what `PrintedReadsBack` turns on: keys, vectors and
blocks that can be read are no separators, so that the only ones are those between groups.

Only model-checked: `EveryCallReturns`, since liveness under fairness is out of the
prover's reach. Of every other property of the passing runs a theorem says that it
holds of the specification. TLC alone also shows that every action can happen, and that
each property is lost in a faulty variant of the code.

## Disagreement with the code's messages

`AcceptedPaddingIsPkcs7` (run `padding`): the library has an error for "Invalid
PKCS7 padding" (`aes/src/error.c:58`), but `aes_extract_padding_size_pkcs7` takes
the last byte for the padding size without comparing it with zero or with the
block size. With zero nothing is scanned; with more than the block size the scan
runs into earlier blocks, and past a short message. Then decryption succeeds
though the message ends in no PKCS7 padding, and `*dest_size` is reduced by
whatever the byte said, below zero (modulo the range of `size_t`) if the
message is shorter. The models keep this behaviour: `SizeMatchesOutput` says
what `*dest_size` is, the wrap included, and `ExceptionTellsProgress` that the C++
wrapper then ends in a `length_error` of its vector instead of an `aes::Error`.

## Not modelled

* Buffers that overlap in part, and `dest` smaller than the announced size:
  the caller's duty, not checked by the code.
* The error returns of functions that never return one (the dispatch table's
  functions, the block functions for a valid mode).
* The block functions in assembly: the sequences of Rounds. The key functions are in
  Assembly; three comments there do not fit their instructions
  (`aes192.asm:134` says `w[49]` for `w[47]`, 196 `xmm5` for `xmm4`, 201 and 202
  exchange two words), and the model follows the instructions.
* The matrix format of blocks; of errors, the parameters of those for NULL
  arguments and for what is not implemented, and the call stack, which is empty
  except on Windows, with the symbols for it (`debug.hpp`).
* What boost does with a command line before the program sees it, beyond the
  separator: `--help`, missing and unknown options, names of modes and
  algorithms. All of it ends the utility before it reads or writes anything.
* What a damaged heap does to one run of a utility, beyond `HeapFaults`.
* In AtomicBox, which calls are refused (Wrapper says when the C++ functions are), and
  which of its initialization vectors a program passes to `aes_box_init`.
* The encryption of a file in pieces: the utilities have none, a file is one buffer.
* The known answers of the test suite, and the scripts that collect them.
* Assertions: `assert` stands before the checks of arguments for NULL that are
  modelled, which decide in a build without assertions.

## Plan

Done, in this order: Blocks, Modes, Padding, Box and its invariants; AtomicBox
and the refinement; Session; Rounds; KeyExpansion; and their proofs; Counter
with its proofs; BlockCalls; Wrapper; Parsing with its proofs; Words, Schedule and
Assembly; Sizes, Errors, BlockUtility and FileUtility.

Then the theorems on Session, on Assembly and on Wrapper, and that KeyExpansion
implements Schedule as Assembly does; the theorems on BlockCalls, FileUtility and
BlockUtility.

Next:

1. The matrix format of blocks, and the parameters of the remaining errors, so that Errors has
   all of `error.c`.
2. A model of `aes_AES192_parse_key` and its sisters in the place of `FromString` in BlockUtility,
   so that a command line is one of characters.
