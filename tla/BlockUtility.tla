----------------------------- MODULE BlockUtility -----------------------------
(***************************************************************************)
(* encrypt_block and decrypt_block: programs that take keys, initialization *)
(* vectors and blocks from the command line, in groups separated by "--",   *)
(* and print what the blocks become, through the wrapper objects of aes.hpp *)
(* or through boxes.  A script (toolkit.py) makes the command lines.         *)
(*                                                                         *)
(* A word of the command line is a sequence of characters: one that is a    *)
(* Byte stands for the two digits of that byte, the others are no digits.   *)
(***************************************************************************)
EXTENDS Modes, Errors, SequencesExt

CONSTANTS
  KeySize,    \* bytes in the key of each algorithm
  Commands,   \* the command lines given to the utilities
  Leftovers   \* what an uninitialized block may hold

Algorithm == {"AES128", "AES192", "AES256"}

(* "--", which no function reads a byte from.                               *)
Separator == <<-1>>

(* The parse errors' names: that of a block, and of what a key is read as.  *)
BlockName == <<-20>>
KeyName == [AES128 |-> BlockName, AES192 |-> <<-21>>, AES256 |-> <<-22>>]

(* A word of a command line.                                                *)
Word == Seq(Int)

CommandLine ==
  [op : {"encrypt", "decrypt"}, mode : Mode, algorithm : Algorithm,
   use_boxes : BOOLEAN, verbose : BOOLEAN, args : Seq(Word)]

(* What a text is taken for fits in the error details.                      *)
ASSUME BlockUtilityAssumption ==
  /\ WhatSize > 1
  /\ KeySize \in [Algorithm -> Nat \ {0}]
  /\ \A a \in Algorithm : [1 .. KeySize[a] -> Byte] \subseteq Key
  /\ Commands \subseteq CommandLine
  /\ Leftovers \subseteq Block

VARIABLES
  command,   \* the utility, its options and the words after them
  src,       \* words not parsed yet
  inputs,    \* the groups parsed: key, iv (none in ECB) and blocks
  phase,     \* "parse", "blocks" or "ended"
  cipher,    \* the key and the chaining value of the wrapper or box
  todo,      \* blocks of the current input
  printed,   \* the lines printed for each input begun
  exit_code, \* the exit code, -1 while the utility runs
  cerr,      \* what an error of the library said on std::cerr
  earlier    \* history: the inputs the script encrypted, if it now reads them back

blocksVars == <<command, src, inputs, phase, cipher, todo, printed, exit_code, cerr, earlier>>

-----------------------------------------------------------------------------
(* boost::program_options drops the first "--": what follows is positional, *)
(* further ones included.                                                   *)
Positional(args) == RemoveFirst(args, Separator)

(* A text may go on after what is read from it.                             *)
Readable(text, size) == Len(text) >= size /\ \A i \in 1 .. size : text[i] \in Byte

FromString(text, size) == SubSeq(text, 1, size)

Line(label, bytes) == [label |-> label, bytes |-> bytes]

(* parse_blocks: the words in front of the next "--".                       *)
ParseBlocks(words) ==
  LET end == SelectInSeq(words, LAMBDA w : w = Separator)
  IN  IF end = 0 THEN words ELSE SubSeq(words, 1, end - 1)

ToArgs(input) == <<Separator, input.key>> \o input.iv \o input.blocks

-----------------------------------------------------------------------------
BlocksInit ==
  /\ command \in Commands
  /\ src = Positional(command.args)
  /\ phase = "parse"
  /\ inputs = <<>> /\ todo = <<>> /\ printed = <<>>
  /\ exit_code = -1 /\ cerr = <<>>
  /\ cipher = [key |-> <<>>, iv |-> <<>>]
  /\ earlier = <<>>

ExitWith(code, text) ==
  /\ phase' = "ended"
  /\ exit_code' = code
  /\ cerr' = text

(* An aes::Error, thrown by a parsing function and caught in main.          *)
Throw(text, what) == ExitWith(1, FormatErrorMessage(ErrorParse(text, what)))

ParseInput ==
  LET iv == IF RequiresInitVector(command.mode) THEN <<src[2]>> ELSE <<>>
      words == SubSeq(src, 2 + Len(iv), Len(src))
      blocks == ParseBlocks(words)
  IN  /\ phase = "parse" /\ src # <<>>
      /\ RequiresInitVector(command.mode) => Len(src) > 1
      /\ inputs' = Append(inputs, [key |-> Head(src), iv |-> iv, blocks |-> blocks])
      /\ src' = SubSeq(words, Len(blocks) + 2, Len(words))
      /\ UNCHANGED <<command, phase, cipher, todo, printed, exit_code, cerr, earlier>>

(* A usage error, before any input is looked at.                            *)
RefuseWithoutIv ==
  /\ phase = "parse" /\ Len(src) = 1
  /\ RequiresInitVector(command.mode)
  /\ ExitWith(1, <<>>)
  /\ UNCHANGED <<command, src, inputs, cipher, todo, printed, earlier>>

-----------------------------------------------------------------------------
BetweenInputs ==
  \/ phase = "parse" /\ src = <<>>
  \/ phase = "blocks" /\ todo = <<>>

Current == inputs[Len(printed) + 1]

KeyText(input) ==
  <<[text |-> input.key, size |-> KeySize[command.algorithm],
     what |-> KeyName[command.algorithm], label |-> "Key"]>>

IvText(input) ==
  [i \in DOMAIN input.iv |->
     [text |-> input.iv[i], size |-> BlockSize, what |-> BlockName, label |-> "Initialization vector"]]

(* The texts are read one after another, and printed when verbose says so;  *)
(* in ECB the iv is not read and what it holds is left to chance.           *)
Construct(texts, verbose) ==
  LET bad == SelectInSeq(texts, LAMBDA t : ~ Readable(t.text, t.size))
      read == IF bad = 0 THEN texts ELSE SubSeq(texts, 1, bad - 1)
      lines == [i \in DOMAIN read |-> Line(read[i].label, FromString(read[i].text, read[i].size))]
      key == FromString(Current.key, KeySize[command.algorithm])
      roundKeys == IF bad = 0 THEN <<Line("Round keys", key)>> ELSE <<>>
  IN  /\ printed' = Append(printed, IF verbose THEN lines \o roundKeys ELSE <<>>)
      /\ \/ bad # 0 /\ Throw(texts[bad].text, texts[bad].what) /\ UNCHANGED <<cipher, todo>>
         \/ /\ bad = 0
            /\ \E iv \in IF Current.iv = <<>> THEN Leftovers
                         ELSE {FromString(Current.iv[1], BlockSize)} :
                 cipher' = [key |-> key, iv |-> iv]
            /\ todo' = Current.blocks
            /\ phase' = "blocks"
            /\ UNCHANGED <<exit_code, cerr>>
      /\ UNCHANGED <<command, src, inputs, earlier>>

BeginInput(use_boxes) ==
  /\ BetweenInputs
  /\ Len(printed) < Len(inputs)
  /\ command.use_boxes = use_boxes

ConstructWrapper ==
  BeginInput(FALSE) /\ Construct(IvText(Current) \o KeyText(Current), command.verbose)

(* The boxes interface prints nothing but the results.                      *)
ConstructBox ==
  BeginInput(TRUE) /\ Construct(KeyText(Current) \o IvText(Current), FALSE)

-----------------------------------------------------------------------------
RefuseBlock ==
  /\ phase = "blocks" /\ todo # <<>>
  /\ ~ Readable(Head(todo), BlockSize)
  /\ Throw(Head(todo), BlockName)
  /\ UNCHANGED <<command, src, inputs, cipher, todo, printed, earlier>>

Process(op, use_boxes) ==
  /\ phase = "blocks" /\ todo # <<>>
  /\ Readable(Head(todo), BlockSize)
  /\ command.op = op /\ command.use_boxes = use_boxes

PrintBlock(result, lines) ==
  /\ printed' = [printed EXCEPT ![Len(printed)] = @ \o lines]
  /\ cipher' = [cipher EXCEPT !.iv = result.iv]
  /\ todo' = Tail(todo)
  /\ UNCHANGED <<command, src, inputs, phase, exit_code, cerr, earlier>>

DumpNextIv(iv) ==
  IF RequiresInitVector(command.mode) THEN <<Line("Next initialization vector", iv)>> ELSE <<>>

(* A slip: the chaining value is dumped as it was before the call.          *)
EncryptWithModeDumpingOldIv ==
  LET plaintext == FromString(Head(todo), BlockSize)
      result == EncryptBlock(command.mode, cipher.key, cipher.iv, plaintext)
      dump == <<Line("Plaintext", plaintext), Line("Ciphertext", result.output)>>
  IN  /\ Process("encrypt", FALSE)
      /\ PrintBlock(result, IF command.verbose THEN dump \o DumpNextIv(cipher.iv)
                            ELSE <<Line("", result.output)>>)

EncryptWithMode ==
  LET plaintext == FromString(Head(todo), BlockSize)
      result == EncryptBlock(command.mode, cipher.key, cipher.iv, plaintext)
      dump == <<Line("Plaintext", plaintext), Line("Ciphertext", result.output)>>
  IN  /\ Process("encrypt", FALSE)
      /\ PrintBlock(result, IF command.verbose THEN dump \o DumpNextIv(result.iv)
                            ELSE <<Line("", result.output)>>)

DecryptWithMode ==
  LET ciphertext == FromString(Head(todo), BlockSize)
      result == DecryptBlock(command.mode, cipher.key, cipher.iv, ciphertext)
      dump == <<Line("Ciphertext", ciphertext), Line("Plaintext", result.output)>>
  IN  /\ Process("decrypt", FALSE)
      /\ PrintBlock(result, IF command.verbose THEN dump \o DumpNextIv(result.iv)
                            ELSE <<Line("", result.output)>>)

EncryptUsingBox ==
  LET result == EncryptBlock(command.mode, cipher.key, cipher.iv, FromString(Head(todo), BlockSize))
  IN  Process("encrypt", TRUE) /\ PrintBlock(result, <<Line("", result.output)>>)

(* A slip: the box is set up anew for each block.                           *)
DecryptUsingBoxAnew ==
  LET result == DecryptBlock(command.mode, cipher.key, cipher.iv, FromString(Head(todo), BlockSize))
  IN  Process("decrypt", TRUE) /\ PrintBlock([result EXCEPT !.iv = cipher.iv], <<Line("", result.output)>>)

DecryptUsingBox ==
  LET result == DecryptBlock(command.mode, cipher.key, cipher.iv, FromString(Head(todo), BlockSize))
  IN  Process("decrypt", TRUE) /\ PrintBlock(result, <<Line("", result.output)>>)

Return ==
  /\ BetweenInputs
  /\ Len(printed) = Len(inputs)
  /\ ExitWith(0, <<>>)
  /\ UNCHANGED <<command, src, inputs, cipher, todo, printed, earlier>>

-----------------------------------------------------------------------------
(* The bytes of the lines that have one of the labels, in their order.      *)
Picked(lines, labels) ==
  FlattenSeq([n \in DOMAIN lines |->
    IF lines[n].label \in labels THEN <<lines[n].bytes>> ELSE <<>>])

Lines(i, labels) == Picked(printed[i], labels)

(* A script has the lines that encrypt_block printed decrypted, by either   *)
(* interface, with the keys and initialization vectors they belong to.      *)
ReadBack ==
  /\ exit_code = 0 /\ command.op = "encrypt" /\ ~ command.verbose
  /\ \E use_boxes \in BOOLEAN :
       LET back == [i \in DOMAIN inputs |-> [inputs[i] EXCEPT !.blocks = Lines(i, {""})]]
       IN  command' = [command EXCEPT !.op = "decrypt", !.use_boxes = use_boxes,
                         !.args = FlattenSeq([i \in DOMAIN back |-> ToArgs(back[i])])]
  /\ earlier' = inputs
  /\ src' = Positional(command'.args)
  /\ phase' = "parse"
  /\ inputs' = <<>> /\ todo' = <<>> /\ printed' = <<>>
  /\ exit_code' = -1
  /\ UNCHANGED <<cipher, cerr>>

BlocksNext ==
  \/ ParseInput \/ RefuseWithoutIv
  \/ ConstructWrapper \/ ConstructBox
  \/ RefuseBlock
  \/ EncryptWithMode \/ DecryptWithMode \/ EncryptUsingBox \/ DecryptUsingBox
  \/ Return
  \/ ReadBack

BlocksSpec == BlocksInit /\ [][BlocksNext]_blocksVars

-----------------------------------------------------------------------------
(***************************************************************************)
(* Properties.                                                             *)
(***************************************************************************)
IsEncryption == command.op = "encrypt"

SourceLabel == IF IsEncryption THEN "Plaintext" ELSE "Ciphertext"
ResultLabel == IF IsEncryption THEN "Ciphertext" ELSE "Plaintext"

Results(i) == Lines(i, {"", ResultLabel})

Sources(i) == [n \in DOMAIN inputs[i].blocks |-> FromString(inputs[i].blocks[n], BlockSize)]

(* The inputs joined by separators.                                         *)
Joined ==
  FlattenSeq([i \in DOMAIN inputs |->
    IF i = 1 THEN Tail(ToArgs(inputs[i])) ELSE ToArgs(inputs[i])])

(* Every positional word goes into one group, in its place; every line is   *)
(* the result of its mode for the block in its place, chained within its    *)
(* group only, whichever interface printed it; the verbose lines show the   *)
(* blocks that went in and the chaining value after each.                   *)
OutputFollowsModes ==
  /\ printed # <<>> =>
       Positional(command.args) \in {Joined, Append(Joined, Separator)}
  /\ \A i \in DOMAIN printed :
       LET P == IF IsEncryption THEN Sources(i) ELSE Results(i)
           C == IF IsEncryption THEN Results(i) ELSE Sources(i)
           key == FromString(inputs[i].key, KeySize[command.algorithm])
           iv == IF inputs[i].iv = <<>> THEN cipher.iv
                 ELSE FromString(inputs[i].iv[1], BlockSize)
           dumped == Lines(i, {SourceLabel})
           next == Lines(i, {"Next initialization vector"})
       IN  /\ \A n \in DOMAIN Results(i) : Encrypts(command.mode, key, iv, P, C, n)
           /\ \A n \in DOMAIN dumped : dumped[n] = Sources(i)[n]
           /\ \A n \in DOMAIN next : next[n] = Chained(command.mode, key, iv, P, C, n)

(* All of the blocks of input i have been printed.                          *)
Complete(i) == Len(Results(i)) = Len(inputs[i].blocks)

(* The text an error message names: whole, or as much as the error details  *)
(* have room for.                                                           *)
Names(text, what) ==
  \E n \in 0 .. Len(text) :
    /\ n = Len(text) \/ n = SrcSize - 1
    /\ cerr = <<CouldntParse>> \o SubSeq(text, 1, n) \o <<As>> \o what

(* A utility exits with 0 when it has printed a line for every block, and   *)
(* with 1 when it was not given an initialization vector, in which case it  *)
(* printed nothing, or at the first text it cannot read: then everything    *)
(* before it has been printed and the message names it, to its last          *)
(* character, with what it was taken for.                                   *)
ExitTellsOutput ==
  /\ exit_code = 0 => Len(printed) = Len(inputs) /\ \A i \in DOMAIN printed : Complete(i)
  /\ exit_code = 1 /\ cerr = <<>> => printed = <<>> /\ RequiresInitVector(command.mode)
  /\ exit_code = 1 /\ cerr # <<>> =>
       LET i == Len(printed)
           n == Len(Results(i)) + 1
           texts == KeyText(inputs[i]) \o IvText(inputs[i]) \o
                    IF n \in DOMAIN inputs[i].blocks
                    THEN <<[text |-> inputs[i].blocks[n], size |-> BlockSize,
                            what |-> BlockName, label |-> "Block"]>>
                    ELSE <<>>
       IN  /\ \A j \in 1 .. i - 1 : Complete(j)
           /\ \E t \in Range(texts) : ~ Readable(t.text, t.size) /\ Names(t.text, t.what)

(* What encrypt_block printed, decrypt_block turns back into the blocks it  *)
(* was printed for, group by group, whichever interface either of them      *)
(* uses, if it is given the same keys and initialization vectors.           *)
ReadsBack ==
  (earlier # <<>> /\ phase = "ended") =>
    /\ exit_code = 0
    /\ Len(printed) = Len(earlier)
    /\ \A i \in DOMAIN printed :
         /\ Len(Results(i)) = Len(earlier[i].blocks)
         /\ \A n \in DOMAIN Results(i) :
              Results(i)[n] = FromString(earlier[i].blocks[n], BlockSize)
=============================================================================
