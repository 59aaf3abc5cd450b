------------------------------ MODULE FileUtility ------------------------------
(***************************************************************************)
(* encrypt_file, decrypt_file, encrypt_bmp and decrypt_bmp: each opens its  *)
(* input twice, once for its size and once for its contents, has a box      *)
(* encrypt or decrypt them -- or, in a bitmap, what comes behind the offset *)
(* it finds in the file --, and only then opens its output, which may be    *)
(* the same file, and writes it.  Opening, reading and writing may fail,    *)
(* the program may be killed, and another one may replace the input.        *)
(* A bitmap's offset may point anywhere, and on a 32-bit build even in front *)
(* of the memory the file was read to.                                      *)
(*                                                                         *)
(* A user runs the utilities one after another; a file is a sequence of     *)
(* bytes.                                                                   *)
(***************************************************************************)
EXTENDS Sizes, Errors, SequencesExt

CONSTANTS
  Paths,         \* names of files
  Missing,       \* stands for the contents of a file that is not there
  Disks,         \* what may be on the disk at first
  Replacements,  \* what another program may write to the input
  KeyTexts,      \* what a user may give for a key: one that can be read is in Key
  IvTexts,       \* ... and for an initialization vector: in Block
  Sessions,      \* the settings of the utilities the user runs in a row
  FieldEnd,      \* where a bitmap's offset of the pixels ends: 14 in the code
  BfOffBits,     \* the offset, a DWORD, that the byte there stands for
  Stray,         \* bytes that may come of memory that is not the buffer's
  MaxVectorSize, \* the size of the largest vector a build can make
  MaxFaults      \* bound on the faults of a session

Settings ==
  [kind : {"file", "bmp"}, op : {"encrypt", "decrypt"}, mode : Mode,
   key : KeyTexts, iv : {<<>>} \cup {<<text>> : text \in IvTexts},
   input_path : Paths, output_path : Paths]

(* No vector is larger than a difference of pointers, so than half of what  *)
(* a size_t counts.  An offset may be any size_t: both have 32 bits on x86.  *)
ASSUME FileUtilityAssumption ==
  /\ Missing \notin Seq(Byte)
  /\ Disks \subseteq [Paths -> Seq(Byte) \cup {Missing}]
  /\ Replacements \subseteq Seq(Byte)
  /\ Sessions \subseteq Seq(Settings) \ {<<>>}
  /\ FieldEnd \in Nat \ {0}
  /\ SizeMod \in Nat /\ SizeMod % BlockSize = 0
  /\ BfOffBits \in [Byte -> 0 .. SizeMod - 1]
  /\ Stray \subseteq Byte
  /\ MaxVectorSize \in Nat /\ 2 * MaxVectorSize < SizeMod
  /\ MaxVectorSize + ByteMax + BlockSize < SizeMod
  /\ MaxFaults \in Nat

VARIABLES
  disk,
  queue,      \* the settings of the runs to come
  settings,   \* kind, op, mode, key, iv (none or one text), input_path, output_path
  step,
  buffer,     \* what read_file returned
  offset,     \* where the part to encrypt or decrypt begins: 0 but in a bitmap
  result,     \* what write_file is given
  exit,       \* the exit code, -1 while the utility runs, 2 after a signal
  message,    \* what the library's error said
  null_data,  \* data() of an empty vector is NULL in this build
  faults,     \* the number of faults so far, at most MaxFaults
  was,        \* history: the disk before the run
  opened,     \* history: the output, or after damage any file, has been opened to be written
  unflushed,  \* history: the end of the output was lost as it was closed
  origin      \* history: the run before this one

control == <<queue, settings, null_data, was, origin>>
filesVars == <<disk, control, step, buffer, offset, result, exit, message, faults, opened, unflushed>>

-----------------------------------------------------------------------------
(* A box for a whole buffer.                                                *)
BlockAt(bytes, n) ==
  [i \in 1 .. BlockSize |->
     IF (n - 1) * BlockSize + i <= Len(bytes) THEN bytes[(n - 1) * BlockSize + i] ELSE 0]

InitVector(s) == IF s.iv = <<>> THEN BlockAt(<<>>, 1) ELSE s.iv[1]

CryptBlock(s, chained, input) ==
  IF s.op = "encrypt" THEN EncryptBlock(s.mode, s.key, chained, input)
  ELSE DecryptBlock(s.mode, s.key, chained, input)

(* The blocks, one after another, from the box's initial chaining value.    *)
ThroughBox(s, blocks) ==
  LET next(box, input) ==
        LET block == CryptBlock(s, box.iv, input)
        IN  [output |-> box.output \o block.output, iv |-> block.iv]
      done[n \in 0 .. Len(blocks)] ==
        IF n = 0 THEN [output |-> <<>>, iv |-> InitVector(s)]
        ELSE next(done[n - 1], blocks[n])
  IN  done[Len(blocks)].output

Full(bytes) == Len(bytes) \div BlockSize
Rest(bytes) == Len(bytes) % BlockSize

(* The last block is padded, or else cut to the length it had.              *)
EncryptBuffer(s, bytes) ==
  LET full == [n \in 1 .. Full(bytes) |-> BlockAt(bytes, n)]
      last == BlockAt(bytes, Full(bytes) + 1)
  IN  CASE s.mode \in PaddedMode ->
             ThroughBox(s, Append(full, FillWithPadding(last, Rest(bytes))))
        [] s.mode \notin PaddedMode /\ Rest(bytes) = 0 -> ThroughBox(s, full)
        [] s.mode \notin PaddedMode /\ Rest(bytes) # 0 ->
             SubSeq(ThroughBox(s, Append(full, last)), 1, Len(bytes))

Done(bytes) == [status |-> "done", bytes |-> bytes]
Thrown(status) == [status |-> status, bytes |-> <<>>]

(* What decrypt_buffer may make of bytes that are there.                    *)
DecryptBuffer(s, bytes) ==
  LET output == ThroughBox(s, [n \in 1 .. (Len(bytes) + BlockSize - 1) \div BlockSize |-> BlockAt(bytes, n)])
      cells == [n \in 1 .. Full(bytes) |-> BlockAt(output, n)]
      size == Len(bytes) - ClaimedPadding(cells, Full(bytes))
  IN  IF s.mode \notin PaddedMode THEN {Done(SubSeq(output, 1, Len(bytes)))}
      ELSE {r \in {IF size < 0 THEN Thrown("length_error") ELSE Done(SubSeq(output, 1, size))} :
              PaddingAccepted(cells, Full(bytes))}
           \cup {r \in {Thrown("INVALID_PKCS7_PADDING_ERROR")} :
              PaddingRejected(cells, Full(bytes))}

(* BmpFile::get_pixels_size: an offset beyond the end makes it wrap around. *)
PixelsSize(bytes, from) == (Len(bytes) - from) % SizeMod

(* The size of the vector the box is to fill.                               *)
DestSize(s, size) ==
  IF s.op = "encrypt" THEN EncryptedSize(s.mode, size \div BlockSize, size % BlockSize) ELSE size

(* The pixels begin outside of the buffer, and yet there is a vector for    *)
(* them: the box reads memory that may be there or not, and be anything.    *)
FromOutside(s, dest_size) ==
  IF s.op = "decrypt" /\ s.mode \in PaddedMode
  THEN {Thrown("signal"), Thrown("INVALID_PKCS7_PADDING_ERROR")}
       \cup {Thrown(status) : status \in {t \in {"length_error"} : dest_size < ByteMax}}
       \cup UNION {{Done(bytes) : bytes \in [1 .. size -> Stray]} :
                   size \in {n \in 0 .. dest_size : dest_size - n <= ByteMax}}
  ELSE {Thrown("signal")} \cup {Done(bytes) : bytes \in [1 .. dest_size -> Stray]}

(* Box::encrypt_buffer and Box::decrypt_buffer for get_pixels_size() bytes  *)
(* at offset: the size is announced, a vector made, and the box called.     *)
Outcomes(s, bytes, from) ==
  LET size == PixelsSize(bytes, from)
      dest_size == DestSize(s, size)
      part == SubSeq(bytes, from + 1, Len(bytes))
  IN  CASE s.op = "decrypt" /\ LacksPadding(s.mode, size \div BlockSize, size % BlockSize) ->
             {Thrown("MISSING_PADDING_ERROR")}
        [] ~ (s.op = "decrypt" /\ LacksPadding(s.mode, size \div BlockSize, size % BlockSize)) ->
             IF dest_size > MaxVectorSize THEN {Thrown("length_error")}
             ELSE IF dest_size = 0 /\ null_data THEN {Done(<<>>)}
             ELSE IF from > Len(bytes)
                  THEN IF dest_size = 0 THEN {Thrown("signal")} ELSE FromOutside(s, dest_size)
             ELSE IF s.op = "encrypt" THEN {Done(EncryptBuffer(s, part))}
             ELSE DecryptBuffer(s, part)

(* A slip: the pixels are put behind what is there.                         *)
ReplacePixelsAppending(bytes, from, pixels) == bytes \o pixels

(* What BmpFile::replace_pixels resizes the buffer to: a sum that may wrap. *)
ReplacedSize(from, pixels) == (from + Len(pixels)) % SizeMod

(* BmpFile::replace_pixels: the buffer grows by zeros where it is too short. *)
(* When the sum wraps, the pixels begin in front of the buffer and end with  *)
(* it.                                                                      *)
ReplacePixels(bytes, from, pixels) ==
  LET size == ReplacedSize(from, pixels)
  IN  IF size < from THEN SubSeq(pixels, Len(pixels) - size + 1, Len(pixels))
      ELSE [i \in 1 .. from |-> IF i <= Len(bytes) THEN bytes[i] ELSE 0] \o pixels

-----------------------------------------------------------------------------
FilesInit ==
  /\ disk \in Disks
  /\ null_data \in BOOLEAN
  /\ \E session \in Sessions : settings = Head(session) /\ queue = Tail(session)
  /\ step = "start"
  /\ buffer = <<>> /\ offset = 0 /\ result = <<>>
  /\ exit = -1 /\ message = <<>>
  /\ faults = 0
  /\ was = disk
  /\ opened = FALSE /\ unflushed = FALSE
  /\ origin = <<>>

(* The user runs the next utility when the one before has ended.            *)
Launch ==
  /\ step = "ended" /\ queue # <<>>
  /\ settings' = Head(queue) /\ queue' = Tail(queue)
  /\ origin' = <<[settings |-> settings, buffer |-> buffer, offset |-> offset, result |-> result,
                opened |-> opened]>>
  /\ step' = "start"
  /\ buffer' = <<>> /\ offset' = 0 /\ result' = <<>>
  /\ exit' = -1 /\ message' = <<>>
  /\ was' = disk
  /\ opened' = FALSE /\ unflushed' = FALSE
  /\ UNCHANGED <<disk, null_data, faults>>

End(code) == step' = "ended" /\ exit' = code

Fault == faults < MaxFaults /\ faults' = faults + 1

(* A usage error.                                                           *)
RefuseMissingIv ==
  /\ step = "start"
  /\ RequiresInitVector(settings.mode) /\ settings.iv = <<>>
  /\ End(1)
  /\ UNCHANGED <<disk, control, buffer, offset, result, message, faults, opened, unflushed>>

(* The text of the key, or that of an iv the mode requires, cannot be read. *)
TextsReadable ==
  settings.key \in Key /\ (RequiresInitVector(settings.mode) => settings.iv[1] \in Block)

RefuseText ==
  /\ step = "start"
  /\ RequiresInitVector(settings.mode) => settings.iv # <<>>
  /\ ~ TextsReadable
  /\ End(1)
  /\ message' = FormatErrorMessage(ErrorParse(<<>>, <<>>))
  /\ UNCHANGED <<disk, control, buffer, offset, result, faults, opened, unflushed>>

InitBox ==
  /\ step = "start"
  /\ RequiresInitVector(settings.mode) => settings.iv # <<>>
  /\ TextsReadable
  /\ step' = "measure"
  /\ UNCHANGED <<disk, control, buffer, offset, result, exit, message, faults, opened, unflushed>>

-----------------------------------------------------------------------------
Input == disk[settings.input_path]

(* The size only serves to reserve memory.                                  *)
GetFileSize ==
  /\ step = "measure"
  /\ Input # Missing /\ Len(Input) <= MaxVectorSize
  /\ step' = "read"
  /\ UNCHANGED <<disk, control, buffer, offset, result, exit, message, faults, opened, unflushed>>

(* Another program replaces the input between the two openings.             *)
Replace ==
  /\ step = "read"
  /\ Fault
  /\ \E bytes \in Replacements :
       /\ disk' = [disk EXCEPT ![settings.input_path] = bytes]
       /\ was' = [was EXCEPT ![settings.input_path] = bytes]
  /\ UNCHANGED <<queue, settings, null_data, origin, step, buffer, offset, result, exit,
                message, opened, unflushed>>

ReadFile ==
  /\ step = "read"
  /\ Len(Input) <= MaxVectorSize
  /\ buffer' = Input
  /\ step' = "locate"
  /\ UNCHANGED <<disk, control, offset, result, exit, message, faults, opened, unflushed>>

(* A stream that fails throws, and so does a vector that is to hold too     *)
(* much; but a library may take an error of the system for the end of the   *)
(* file, which is no error to the iterators.                                *)
InputFails ==
  /\ \/ step = "measure" /\ Input = Missing /\ UNCHANGED faults
     \/ /\ step \in {"measure", "read"} /\ Input # Missing /\ Len(Input) > MaxVectorSize
        /\ UNCHANGED faults
     \/ step \in {"measure", "read"} /\ Fault
  /\ End(1)
  /\ UNCHANGED <<disk, control, buffer, offset, result, message, opened, unflushed>>

ReadIsCut ==
  /\ step = "read"
  /\ Fault
  /\ \E bytes \in Prefixes(Input) : Len(bytes) <= MaxVectorSize /\ buffer' = bytes
  /\ step' = "locate"
  /\ UNCHANGED <<disk, control, offset, result, exit, message, opened, unflushed>>

(* extract_pixels_offset reads a field of the header that a short file does *)
(* not have: then it reads whatever lies behind the file in memory.         *)
ExtractPixelsOffset ==
  /\ step = "locate"
  /\ \E from \in IF settings.kind = "file" THEN {0}
                 ELSE {BfOffBits[byte] :
                         byte \in IF Len(buffer) < FieldEnd THEN Byte ELSE {buffer[FieldEnd]}} :
       offset' = from
  /\ step' = "crypt"
  /\ UNCHANGED <<disk, control, buffer, result, exit, message, faults, opened, unflushed>>

HeaderFaults ==
  /\ step = "locate"
  /\ settings.kind = "bmp" /\ Len(buffer) < FieldEnd
  /\ End(2)
  /\ UNCHANGED <<disk, control, buffer, offset, result, message, faults, opened, unflushed>>

-----------------------------------------------------------------------------
Crypt ==
  /\ step = "crypt"
  /\ \E outcome \in Outcomes(settings, buffer, offset) :
       /\ outcome.status = "done"
       /\ ReplacedSize(offset, outcome.bytes) <= MaxVectorSize
       /\ result' = ReplacePixels(buffer, offset, outcome.bytes)
  /\ step' = "open"
  /\ UNCHANGED <<disk, control, buffer, offset, exit, message, faults, opened, unflushed>>

(* An error of the library, an exception of the vector, or a signal.        *)
CryptFails ==
  /\ step = "crypt"
  /\ \E outcome \in Outcomes(settings, buffer, offset) :
       /\ outcome.status # "done" \/ ReplacedSize(offset, outcome.bytes) > MaxVectorSize
       /\ End(IF outcome.status = "signal" THEN 2 ELSE 1)
       /\ message' = IF outcome.status \in DOMAIN StrError
                     THEN FormatErrorMessage(Error(outcome.status)) ELSE <<>>
  /\ UNCHANGED <<disk, control, buffer, offset, result, faults, opened, unflushed>>

(* A vector cannot grow, or the box has no temporary for its last block.     *)
NeedsTemporary ==
  LET size == PixelsSize(buffer, offset)
  IN  /\ DestSize(settings, size) \in 1 .. MaxVectorSize
      /\ IF settings.mode \in PaddedMode THEN settings.op = "encrypt" ELSE size % BlockSize # 0

OutOfMemory ==
  /\ step \in {"read", "crypt"}
  /\ Fault
  /\ End(1)
  /\ \/ UNCHANGED message
     \/ /\ step = "crypt" /\ NeedsTemporary
        /\ message' = FormatErrorMessage(Error("MEMORY_ALLOCATION_ERROR"))
  /\ UNCHANGED <<disk, control, buffer, offset, result, opened, unflushed>>

(* Pixels were copied to memory in front of the buffer.  The names of files  *)
(* may be there, and what the memory's allocator relies on: whether and how  *)
(* the utility ends, and what it writes to which file, is then open.        *)
Damaged == Len(result) < offset

HeapFaults ==
  /\ step \in {"open", "write", "close"}
  /\ Damaged
  /\ \E code \in 0 .. 2 : End(code)
  /\ \/ UNCHANGED <<disk, opened>>
     \/ /\ \E p \in Paths, bytes \in Prefixes(result) : disk' = [disk EXCEPT ![p] = bytes]
        /\ opened' = TRUE
  /\ UNCHANGED <<control, buffer, offset, result, message, faults, unflushed>>

(* ofs.open truncates the file.                                             *)
OpenOutput ==
  /\ step = "open"
  /\ disk' = [disk EXCEPT ![settings.output_path] = <<>>]
  /\ opened' = TRUE
  /\ step' = "write"
  /\ UNCHANGED <<control, buffer, offset, result, exit, message, faults, unflushed>>

OutputFails ==
  /\ step = "open"
  /\ Fault
  /\ End(1)
  /\ UNCHANGED <<disk, control, buffer, offset, result, message, opened, unflushed>>

(* Some of what is written reaches the file, the rest the stream's buffer.  *)
Reaches(bytes) == disk' = [disk EXCEPT ![settings.output_path] = bytes]

Write ==
  /\ step = "write"
  /\ \E bytes \in Prefixes(result) : Reaches(bytes)
  /\ step' = "close"
  /\ UNCHANGED <<control, buffer, offset, result, exit, message, faults, opened, unflushed>>

(* A slip: the stream is not told to throw.                                 *)
WriteFailsSilently ==
  /\ step = "write"
  /\ Fault
  /\ \E bytes \in Prefixes(result) : Reaches(bytes)
  /\ End(0)
  /\ UNCHANGED <<control, buffer, offset, result, message, opened, unflushed>>

WriteFails ==
  /\ step = "write"
  /\ Fault
  /\ \E bytes \in Prefixes(result) : Reaches(bytes)
  /\ End(1)
  /\ UNCHANGED <<control, buffer, offset, result, message, opened, unflushed>>

(* ~ofstream() writes what is left and closes the file.                     *)
Close ==
  /\ step = "close"
  /\ Reaches(result)
  /\ End(0)
  /\ UNCHANGED <<control, buffer, offset, result, message, faults, opened, unflushed>>

(* A destructor does not throw: the utility ends as if all were well.       *)
CloseFails ==
  /\ step = "close"
  /\ Fault
  /\ \E bytes \in Prefixes(result) :
       IsPrefix(disk[settings.output_path], bytes) /\ Reaches(bytes)
  /\ unflushed' = TRUE
  /\ End(0)
  /\ UNCHANGED <<control, buffer, offset, result, message, opened>>

(* The utility is killed: what has reached the file stays.                  *)
Kill ==
  /\ step # "ended"
  /\ Fault
  /\ End(2)
  /\ UNCHANGED <<disk, control, buffer, offset, result, message, opened, unflushed>>

FilesNext ==
  \/ Launch
  \/ RefuseMissingIv \/ RefuseText \/ InitBox
  \/ GetFileSize \/ Replace \/ ReadFile \/ InputFails \/ ReadIsCut
  \/ ExtractPixelsOffset \/ HeaderFaults \/ Crypt \/ CryptFails \/ OutOfMemory
  \/ HeapFaults \/ OpenOutput \/ OutputFails \/ Write \/ WriteFails \/ Close \/ CloseFails
  \/ Kill

FilesSpec == FilesInit /\ [][FilesNext]_filesVars

-----------------------------------------------------------------------------
(***************************************************************************)
(* Properties.                                                             *)
(***************************************************************************)
Output == disk[settings.output_path]

(* No file but the output changes, and the output not before there is a     *)
(* whole result to put in its place: whatever is wrong with the settings,   *)
(* the input, its padding or its header leaves it as it was, in place too.   *)
(* From then on it is a part of the result, cut somewhere.  An exit code of *)
(* 0 says that it is all of it -- unless closing it was what failed.  The    *)
(* exception is a bitmap whose pixels were copied in front of the buffer.   *)
OutputIsCut ==
  /\ ~ opened => disk = was
  /\ opened /\ ~ Damaged =>
       /\ \A p \in Paths \ {settings.output_path} : disk[p] = was[p]
       /\ message = <<>> /\ IsPrefix(Output, result)
       /\ exit = 1 => faults > 0
  /\ exit = 0 /\ ~ Damaged => opened /\ (Output = result \/ unflushed)

(* Of what was read, the part before the offset is written as it is, and    *)
(* the rest is encrypted or decrypted block by block as the mode says; the  *)
(* sizes differ by the padding only.  An offset beyond the end of a bitmap  *)
(* gets through in two cases.  In a padded mode, an encryption grows the    *)
(* bitmap to the offset by zeros and encrypts nothing; the offset is then    *)
(* within a block of the end.  In any mode, an offset so large that adding  *)
(* the pixels' size wraps around damages the heap; the size of the bitmap   *)
(* changes by the padding only.  No offset does so but one within the size  *)
(* of a vector of the largest size_t: on a 64-bit build, none.              *)
PixelsFollowMode ==
  LET read == SubSeq(buffer, offset + 1, Len(buffer))
      written == SubSeq(Output, offset + 1, Len(Output))
      plain == IF settings.op = "encrypt" THEN read ELSE written
      coded == IF settings.op = "encrypt" THEN written ELSE read
      P == [n \in 1 .. Full(plain) |-> BlockAt(plain, n)]
      C == [n \in 1 .. Full(coded) |-> BlockAt(coded, n)]
      iv == InitVector(settings)
      padded == settings.mode \in PaddedMode
      beyond == offset - Len(buffer)
  IN  (exit = 0 /\ ~ unflushed) =>
        /\ offset <= Len(buffer) =>
             /\ SubSeq(Output, 1, offset) = SubSeq(buffer, 1, offset)
             /\ \A n \in DOMAIN P : Encrypts(settings.mode, settings.key, iv, P, C, n)
             /\ padded /\ settings.op = "encrypt" => Len(coded) = (Full(plain) + 1) * BlockSize
             /\ ~ padded => Len(coded) = Len(plain)
        /\ offset > Len(buffer) /\ ~ Damaged =>
             /\ padded /\ settings.op = "encrypt" /\ beyond <= BlockSize
             /\ Len(Output) = offset
             /\ \A i \in 1 .. offset : Output[i] = IF i <= Len(buffer) THEN buffer[i] ELSE 0
        /\ offset > Len(buffer) /\ Damaged =>
             /\ beyond + MaxVectorSize >= SizeMod
             /\ IF padded
                THEN IF settings.op = "encrypt" THEN Len(result) - Len(buffer) \in 1 .. BlockSize
                     ELSE Len(buffer) - Len(result) \in 0 .. ByteMax
                ELSE Len(result) = Len(buffer)

(* This run decrypts what the run before it encrypted, or a cut of that, and *)
(* of a bitmap the header is all there and begins before the pixels.        *)
Undoes(before) ==
  /\ before.settings.op = "encrypt" /\ settings.op = "decrypt"
  /\ \A f \in {"kind", "mode", "key", "iv"} : settings[f] = before.settings[f]
  /\ settings.input_path = before.settings.output_path
  /\ before.opened
  /\ IsPrefix(buffer, before.result)
  /\ settings.kind = "bmp" =>
       /\ Len(buffer) >= FieldEnd
       /\ before.offset \in FieldEnd .. Len(before.buffer)

(* Decryption gives back the file that was encrypted, header and all.  If   *)
(* the ciphertext was cut, by a run that was killed or could not write, the *)
(* decryption is refused or gives a cut of that file, but no other bytes.   *)
DecryptsToCut ==
  \A before \in Range(origin) :
    Undoes(before) =>
      /\ opened => IsPrefix(Output, before.buffer)
      /\ step = "ended" /\ faults = 0 => exit = 0 /\ Output = before.buffer
=============================================================================
