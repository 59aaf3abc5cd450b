--------------------------------- MODULE Box ---------------------------------
(***************************************************************************)
(* One AES_Box and the calls a program makes on it: aes_box_init,            *)
(* aes_box_encrypt_buffer and aes_box_decrypt_buffer, block by block, with   *)
(* their temporary buffers, error returns and cleanup labels.               *)
(*                                                                         *)
(* src and dest may be one buffer: encryption in place.                     *)
(***************************************************************************)
EXTENDS BoxSizes

CONSTANT MaxCalls   \* bound on the calls made

ASSUME CallsAssumption == MaxCalls \in Nat

VARIABLES
  box,     \* the AES_Box: mode, key and the iv, the chaining value
  mem,     \* the caller's memory
  call,    \* the activation record of the call in progress, or of the last one
  heap,    \* the temporary buffers allocated and not yet freed
  size,    \* *dest_size
  status,  \* the code the last call returned
  calls,   \* the number of calls made, at most MaxCalls
  entry    \* history: the memory, the iv and *dest_size when the call began

vars == <<box, mem, call, heap, size, status, calls, entry>>

Status ==
  {"SUCCESS", "NULL_ARGUMENT_ERROR", "MEMORY_ALLOCATION_ERROR",
   "MISSING_PADDING_ERROR", "INVALID_PKCS7_PADDING_ERROR"}

(* Where a call stands: the loop over full blocks, between the two mallocs, *)
(* at the last block, or at one of the labels FREE_...                      *)
Step == {"idle", "loop", "second_malloc", "last", "free_second", "free_first"}

Temporary == {"plaintext_buf", "ciphertext_buf"}

NoCall(b) ==
  [op |-> "none", step |-> "idle", src |-> b, dest |-> b,
   full |-> 0, rest |-> 0, done |-> 0, cut |-> FALSE, status |-> "SUCCESS"]

-----------------------------------------------------------------------------
Padded == box.mode \in PaddedMode

(* The temporary a partial block allocates first: the copy of its input.    *)
First(op)  == IF op = "encrypt" THEN "plaintext_buf" ELSE "ciphertext_buf"
Second(op) == IF op = "encrypt" THEN "ciphertext_buf" ELSE "plaintext_buf"

Return(st) ==
  /\ status' = st
  /\ call' = [call EXCEPT !.step = "idle", !.status = st]

-----------------------------------------------------------------------------
Init ==
  /\ box \in [mode : Mode, key : Key, iv : InitVectors]
  /\ mem \in [Buffers -> Contents]
  /\ \E b \in Buffers : call = NoCall(b)
  /\ heap = {}
  /\ size = 0
  /\ status = "SUCCESS"
  /\ calls = 0
  /\ entry = [mem |-> mem, iv |-> box.iv, size |-> size]

(* The program fills a buffer of its own between calls.                     *)
FillBuffer(b, cells) ==
  /\ call.step = "idle"
  /\ calls < MaxCalls
  /\ mem' = [mem EXCEPT ![b] = cells]
  /\ call' = NoCall(b)
  /\ UNCHANGED <<box, heap, size, status, calls, entry>>

(* A call is made: one at a time, the library has no threads.               *)
Called ==
  /\ call.step = "idle"
  /\ calls < MaxCalls
  /\ calls' = calls + 1

(* aes_box_init on a box that may have been used before.  A NULL iv leaves  *)
(* box->iv as it is: then iv is the present value.                          *)
InitBox(mode, key, iv) ==
  /\ Called
  /\ box' = [mode |-> mode, key |-> key, iv |-> iv]
  /\ call' = NoCall(call.dest)
  /\ status' = "SUCCESS"
  /\ UNCHANGED <<mem, heap, size, entry>>

(* box or dest_size is NULL: refused before anything is written.            *)
RefuseNull ==
  /\ Called
  /\ status' = "NULL_ARGUMENT_ERROR"
  /\ call' = NoCall(call.dest)
  /\ UNCHANGED <<box, mem, heap, size, entry>>

(* dest is NULL: only the size is reported.                                 *)
QueryEncryptedSize(full, rest) ==
  /\ Called
  /\ size' = EncryptedSize(box.mode, full, rest)
  /\ status' = "SUCCESS"
  /\ call' = NoCall(call.dest)
  /\ UNCHANGED <<box, mem, heap, entry>>

QueryDecryptedSize(full, rest) ==
  /\ Called
  /\ ~ LacksPadding(box.mode, full, rest)
  /\ size' = InBytes(full, rest)
  /\ status' = "SUCCESS"
  /\ call' = NoCall(call.dest)
  /\ UNCHANGED <<box, mem, heap, entry>>

RefuseMissingPadding(full, rest) ==
  /\ Called
  /\ LacksPadding(box.mode, full, rest)
  /\ status' = "MISSING_PADDING_ERROR"
  /\ call' = NoCall(call.dest)
  /\ UNCHANGED <<box, mem, heap, size, entry>>

(* dest is given but src is NULL: *dest_size has been written by then.      *)
(* Encryption lets a NULL src of no bytes pass, decryption does not.        *)
RefuseNullSource(op, full, rest) ==
  /\ Called
  /\ \/ op = "encrypt" /\ (full # 0 \/ rest # 0) /\ size' = EncryptedSize(box.mode, full, rest)
     \/ op = "decrypt" /\ ~ LacksPadding(box.mode, full, rest) /\ size' = InBytes(full, rest)
  /\ status' = "NULL_ARGUMENT_ERROR"
  /\ call' = NoCall(call.dest)
  /\ UNCHANGED <<box, mem, heap, entry>>

(* The call passes its checks and enters the loop.                          *)
Enter(op, src, dest, full, rest) ==
  /\ Called
  /\ call' = [op |-> op, step |-> "loop", src |-> src, dest |-> dest,
              full |-> full, rest |-> rest, done |-> 0, cut |-> FALSE,
              status |-> "SUCCESS"]
  /\ entry' = [mem |-> mem, iv |-> box.iv, size |-> size]
  /\ UNCHANGED <<box, mem, heap, status>>

BeginEncrypt(src, dest, full, rest) ==
  /\ EncryptionFits(box.mode, full, rest)
  /\ size' = EncryptedSize(box.mode, full, rest)
  /\ Enter("encrypt", src, dest, full, rest)

BeginDecrypt(src, dest, full, rest) ==
  /\ ~ LacksPadding(box.mode, full, rest)
  /\ DecryptionFits(full, rest)
  /\ size' = InBytes(full, rest)
  /\ Enter("decrypt", src, dest, full, rest)

-----------------------------------------------------------------------------
Crypt(op, input) ==
  IF op = "encrypt"
  THEN EncryptBlock(box.mode, box.key, box.iv, input)
  ELSE DecryptBlock(box.mode, box.key, box.iv, input)

(* Block n of dest becomes b.                                               *)
Store(n, b) == mem' = [mem EXCEPT ![call.dest] = [@ EXCEPT ![n] = b]]

(* A slip: the loop does not advance.                                       *)
ProcessBlockWithoutAdvance ==
  LET n == call.done + 1
      r == Crypt(call.op, mem[call.src][n])
  IN  /\ call.step = "loop"
      /\ call.done < call.full
      /\ Store(n, r.output)
      /\ box' = [box EXCEPT !.iv = r.iv]
      /\ UNCHANGED <<call, heap, size, status, calls, entry>>

(* aes_box_encrypt_buffer_block and its twin: the block is loaded, put      *)
(* through the box and stored, by way of two local variables.               *)
ProcessBlock ==
  LET n == call.done + 1
      r == Crypt(call.op, mem[call.src][n])
  IN  /\ call.step = "loop"
      /\ call.done < call.full
      /\ Store(n, r.output)
      /\ box' = [box EXCEPT !.iv = r.iv]
      /\ call' = [call EXCEPT !.done = n]
      /\ UNCHANGED <<heap, size, status, calls, entry>>

LoopDone == call.step = "loop" /\ call.done = call.full

(* No padding to add and no bytes left over: the call is done.              *)
NothingLeft ==
  /\ LoopDone
  /\ ~ Padded
  /\ call.rest = 0
  /\ Return("SUCCESS")
  /\ UNCHANGED <<box, mem, heap, size, calls, entry>>

(* A last block that needs the first temporary.                             *)
NeedsTemporary == IF Padded THEN call.op = "encrypt" ELSE call.rest # 0

MallocFirst ==
  /\ LoopDone
  /\ NeedsTemporary
  /\ heap' = heap \cup {First(call.op)}
  /\ call' = [call EXCEPT !.step = IF Padded THEN "last" ELSE "second_malloc"]
  /\ UNCHANGED <<box, mem, size, status, calls, entry>>

(* A well-meant change: the iv is put back so that the call can be repeated. *)
MallocFirstFailsRestoringIv ==
  /\ LoopDone
  /\ NeedsTemporary
  /\ Return("MEMORY_ALLOCATION_ERROR")
  /\ box' = [box EXCEPT !.iv = entry.iv]
  /\ UNCHANGED <<mem, heap, size, calls, entry>>

MallocFirstFails ==
  /\ LoopDone
  /\ NeedsTemporary
  /\ Return("MEMORY_ALLOCATION_ERROR")
  /\ UNCHANGED <<box, mem, heap, size, calls, entry>>

MallocSecond ==
  /\ call.step = "second_malloc"
  /\ heap' = heap \cup {Second(call.op)}
  /\ call' = [call EXCEPT !.step = "last"]
  /\ UNCHANGED <<box, mem, size, status, calls, entry>>

(* Slips of the second error return: past the label, or without a code.     *)
MallocSecondFailsReturning ==
  /\ call.step = "second_malloc"
  /\ Return("MEMORY_ALLOCATION_ERROR")
  /\ UNCHANGED <<box, mem, heap, size, calls, entry>>

MallocSecondFailsSilently ==
  /\ call.step = "second_malloc"
  /\ call' = [call EXCEPT !.step = "free_first"]
  /\ UNCHANGED <<box, mem, heap, size, status, calls, entry>>

MallocSecondFails ==
  /\ call.step = "second_malloc"
  /\ call' = [call EXCEPT !.step = "free_first", !.status = "MEMORY_ALLOCATION_ERROR"]
  /\ UNCHANGED <<box, mem, heap, size, status, calls, entry>>

(* A slip: the padding is filled in where the plaintext is.                 *)
EncryptPaddedBlockInPlace ==
  LET n == call.full + 1
      padded == FillWithPadding(mem[call.src][n], call.rest)
      r == Crypt("encrypt", padded)
  IN  /\ call.step = "last"
      /\ Padded
      /\ mem' = [b \in Buffers |->
                   [mem[b] EXCEPT ![n] = CASE b = call.dest -> r.output
                                           [] b # call.dest /\ b = call.src -> padded
                                           [] OTHER -> @]]
      /\ box' = [box EXCEPT !.iv = r.iv]
      /\ call' = [call EXCEPT !.step = "free_first", !.done = n]
      /\ UNCHANGED <<heap, size, status, calls, entry>>

(* The rest of the plaintext, padded to a block, goes through the box       *)
(* straight into dest.                                                      *)
EncryptPaddedBlock ==
  LET n == call.full + 1
      r == Crypt("encrypt", FillWithPadding(mem[call.src][n], call.rest))
  IN  /\ call.step = "last"
      /\ Padded
      /\ Store(n, r.output)
      /\ box' = [box EXCEPT !.iv = r.iv]
      /\ call' = [call EXCEPT !.step = "free_first", !.done = n]
      /\ UNCHANGED <<heap, size, status, calls, entry>>

(* Slips: the whole block is copied out; decryption leaves the iv behind.   *)
ProcessPartialBlockWhole ==
  LET n == call.full + 1
      r == Crypt(call.op, ZeroExtended(mem[call.src][n], call.rest))
  IN  /\ call.step = "last"
      /\ ~ Padded
      /\ Store(n, r.output)
      /\ box' = [box EXCEPT !.iv = r.iv]
      /\ call' = [call EXCEPT !.step = "free_second", !.cut = TRUE]
      /\ UNCHANGED <<heap, size, status, calls, entry>>

ProcessPartialBlockKeepingIv ==
  LET n == call.full + 1
      r == Crypt(call.op, ZeroExtended(mem[call.src][n], call.rest))
  IN  /\ call.step = "last"
      /\ ~ Padded
      /\ Store(n, Overwritten(mem[call.dest][n], r.output, call.rest))
      /\ box' = IF call.op = "decrypt" THEN box ELSE [box EXCEPT !.iv = r.iv]
      /\ call' = [call EXCEPT !.step = "free_second", !.cut = TRUE]
      /\ UNCHANGED <<heap, size, status, calls, entry>>

(* The rest of the input, extended with zeros to a block, goes through the  *)
(* box into the second temporary, whose first bytes are copied to dest.     *)
ProcessPartialBlock ==
  LET n == call.full + 1
      r == Crypt(call.op, ZeroExtended(mem[call.src][n], call.rest))
  IN  /\ call.step = "last"
      /\ ~ Padded
      /\ Store(n, Overwritten(mem[call.dest][n], r.output, call.rest))
      /\ box' = [box EXCEPT !.iv = r.iv]
      /\ call' = [call EXCEPT !.step = "free_second", !.cut = TRUE]
      /\ UNCHANGED <<heap, size, status, calls, entry>>

FreeSecond ==
  /\ call.step = "free_second"
  /\ heap' = heap \ {Second(call.op)}
  /\ call' = [call EXCEPT !.step = "free_first"]
  /\ UNCHANGED <<box, mem, size, status, calls, entry>>

FreeFirst ==
  /\ call.step = "free_first"
  /\ heap' = heap \ {First(call.op)}
  /\ Return(call.status)
  /\ UNCHANGED <<box, mem, size, calls, entry>>

(* Slips: the size is subtracted without wrapping, or not subtracted.       *)
RemovePaddingSigned ==
  /\ LoopDone
  /\ Padded /\ call.op = "decrypt"
  /\ PaddingAccepted(mem[call.dest], call.full)
  /\ size' = size - ClaimedPadding(mem[call.dest], call.full)
  /\ Return("SUCCESS")
  /\ UNCHANGED <<box, mem, heap, calls, entry>>

RemovePaddingUnshortened ==
  /\ LoopDone
  /\ Padded /\ call.op = "decrypt"
  /\ PaddingAccepted(mem[call.dest], call.full)
  /\ Return("SUCCESS")
  /\ UNCHANGED <<box, mem, heap, size, calls, entry>>

(* The end of a decryption in a padded mode: the padding is looked for in   *)
(* what has just been written, and *dest_size shrinks by it.                *)
RemovePadding ==
  /\ LoopDone
  /\ Padded /\ call.op = "decrypt"
  /\ PaddingAccepted(mem[call.dest], call.full)
  /\ size' = (size - ClaimedPadding(mem[call.dest], call.full)) % SizeMod
  /\ Return("SUCCESS")
  /\ UNCHANGED <<box, mem, heap, calls, entry>>

RejectPadding ==
  /\ LoopDone
  /\ Padded /\ call.op = "decrypt"
  /\ PaddingRejected(mem[call.dest], call.full)
  /\ Return("INVALID_PKCS7_PADDING_ERROR")
  /\ UNCHANGED <<box, mem, heap, size, calls, entry>>

-----------------------------------------------------------------------------
(* What the call in progress does next.                                     *)
Progress ==
  \/ ProcessBlock
  \/ NothingLeft
  \/ MallocFirst \/ MallocFirstFails
  \/ MallocSecond \/ MallocSecondFails
  \/ EncryptPaddedBlock \/ ProcessPartialBlock
  \/ FreeSecond \/ FreeFirst
  \/ RemovePadding \/ RejectPadding

(* What the caller may do between two calls.                                *)
Caller ==
  \/ \E b \in Buffers, cells \in Contents : FillBuffer(b, cells)
  \/ \E mode \in Mode, key \in Key, iv \in InitVectors \cup {box.iv} :
       InitBox(mode, key, iv)
  \/ RefuseNull
  \/ \E full \in 0 .. Cells, rest \in 0 .. BlockSize - 1 :
       \/ QueryEncryptedSize(full, rest)
       \/ QueryDecryptedSize(full, rest)
       \/ RefuseMissingPadding(full, rest)
       \/ \E op \in {"encrypt", "decrypt"} : RefuseNullSource(op, full, rest)
       \/ \E src, dest \in Buffers :
            \/ BeginEncrypt(src, dest, full, rest)
            \/ BeginDecrypt(src, dest, full, rest)

Next == Progress \/ Caller

Spec == Init /\ [][Next]_vars

(* A call that has begun runs on: the code never waits for anything.        *)
FairSpec == Spec /\ WF_vars(Progress)

-----------------------------------------------------------------------------
(***************************************************************************)
(* Properties.                                                             *)
(***************************************************************************)
TypeOK ==
  /\ box \in [mode : Mode, key : Key, iv : Block]
  /\ mem \in [Buffers -> Memory]
  /\ call \in [op : {"none", "encrypt", "decrypt"}, step : Step,
               src : Buffers, dest : Buffers,
               full : 0 .. Cells, rest : 0 .. BlockSize - 1,
               done : 0 .. Cells, cut : BOOLEAN, status : Status]
  /\ heap \subseteq Temporary
  /\ size \in 0 .. SizeMod - 1
  /\ status \in Status
  /\ calls \in 0 .. MaxCalls
  /\ entry \in [mem : [Buffers -> Memory], iv : Block, size : 0 .. SizeMod - 1]

(* What a call in progress may rely on where it stands: the block it is at  *)
(* is in the caller's memory, a partial block exists where the temporaries  *)
(* are allocated, and the padding is looked for in a block that was there.  *)
CallShape ==
  /\ call.step # "idle" => call.op # "none"
  /\ call.op = "none" => call.done = 0 /\ ~ call.cut
  /\ call.op = "encrypt" => EncryptionFits(box.mode, call.full, call.rest)
  /\ call.op = "decrypt" =>
       /\ DecryptionFits(call.full, call.rest)
       /\ ~ LacksPadding(box.mode, call.full, call.rest)
  /\ call.step = "loop" => call.done <= call.full
  /\ call.step \in {"loop", "second_malloc", "last"} => ~ call.cut
  /\ call.step \in {"second_malloc", "last"} => call.done = call.full
  /\ call.step \in {"second_malloc", "free_second"} => ~ Padded
  /\ call.step \in {"second_malloc", "last", "free_second", "free_first"} =>
       NeedsTemporary
  /\ call.cut => ~ Padded /\ call.rest # 0 /\ call.done = call.full
  /\ call.done > call.full =>
       call.done = call.full + 1 /\ Padded /\ call.op = "encrypt"

(* What the call was given to process, block by block: the memory of src    *)
(* when it began, and the padded block in the place of the last one.        *)
Input ==
  [n \in 1 .. Cells |->
     IF n = call.full + 1 /\ Padded
     THEN FillWithPadding(entry.mem[call.src][n], call.rest)
     ELSE entry.mem[call.src][n]]

Output == mem[call.dest]

Plaintext  == IF call.op = "encrypt" THEN Input ELSE Output
Ciphertext == IF call.op = "encrypt" THEN Output ELSE Input

ChainedAfter(n) ==
  Chained(box.mode, box.key, entry.iv, Plaintext, Ciphertext, n)

(* Every block processed so far satisfies the equation of the mode with      *)
(* respect to the input as it was when the call began, in place or not, at  *)
(* every point of a call and after it returned with or without an error     *)
(* (the loops of aes_box_encrypt_buffer and aes_box_decrypt_buffer).        *)
BlocksFollowMode ==
  call.op # "none" =>
    \A n \in 1 .. call.done :
      Encrypts(box.mode, box.key, entry.iv, Plaintext, Ciphertext, n)

(* box->iv is the value the mode chains into the block after the last one   *)
(* processed.  A call that failed to allocate or found no padding leaves    *)
(* the box right behind its full blocks, so a retry continues from there.   *)
IvIsChained ==
  (call.op # "none" /\ ~ call.cut) => box.iv = ChainedAfter(call.done)

(* After a partial block: its bytes are the input's xor the key stream, the *)
(* bytes behind them are the caller's own, and the iv has moved on.         *)
PartialBlockFollowsMode ==
  call.cut =>
    LET n == call.full + 1
        stream == Enc(box.key, ChainedAfter(call.full))
        input == entry.mem[call.src][n]
    IN  /\ Output[n] = Overwritten(entry.mem[call.dest][n],
                                   XorBlocks(stream, input), call.rest)
        /\ box.iv = IvAfterPartial(box.mode, box.key, ChainedAfter(call.full),
                                   call.op, ZeroExtended(input, call.rest))

(* Nothing is written but the blocks of dest that have been processed: not  *)
(* the blocks still to be read when src and dest are one buffer, not the    *)
(* memory behind *dest_size bytes, and no other buffer.                     *)
OnlyOutputIsWritten ==
  call.op # "none" =>
    /\ \A b \in Buffers \ {call.dest} : mem[b] = entry.mem[b]
    /\ \A n \in 1 .. Cells :
         (n > call.done /\ ~ (call.cut /\ n = call.full + 1)) =>
           Output[n] = entry.mem[call.dest][n]

(* The temporaries allocated are exactly those the labels still ahead will  *)
(* free: none is leaked on the error returns, none freed twice.             *)
HeapMatchesStep ==
  heap = CASE call.step \in {"idle", "loop"} -> {}
           [] call.step \in {"second_malloc", "free_first"} -> {First(call.op)}
           [] call.step = "last" ->
                IF Padded THEN {First(call.op)} ELSE Temporary
           [] call.step = "free_second" -> Temporary

(* All of the input has been processed, the last block included; or exactly *)
(* the full blocks have, and nothing of the last.                           *)
Complete ==
  /\ call.done = call.full + (IF Padded /\ call.op = "encrypt" THEN 1 ELSE 0)
  /\ call.cut = (~ Padded /\ call.rest # 0)

OnlyFullBlocks == call.done = call.full /\ ~ call.cut

(* The code a call returns tells its caller how far it got: all the way, or *)
(* to the end of the full blocks.  The local status that the cleanup labels *)
(* return is the one set where the call jumped to them.                     *)
StatusTellsProgress ==
  call.op # "none" =>
    /\ call.step = "idle" => status = call.status
    /\ call.step \in {"idle", "free_first"} =>
         IF call.status = "SUCCESS" THEN Complete ELSE OnlyFullBlocks
    /\ call.step \in {"loop", "second_malloc", "last", "free_second"} =>
         call.status = "SUCCESS"
    /\ call.step = "free_second" => call.cut
    /\ call.step = "free_first" =>
         call.status \in {"SUCCESS", "MEMORY_ALLOCATION_ERROR"}

(* On success *dest_size is the number of bytes that were written, less the  *)
(* padding taken off: it is computed from the size alone before the first   *)
(* block, by another function than the loop that writes.                    *)
SizeMatchesOutput ==
  (call.op # "none" /\ call.step = "idle" /\ status = "SUCCESS") =>
    LET written == InBytes(call.done, IF call.cut THEN call.rest ELSE 0)
    IN  size = IF Padded /\ call.op = "decrypt"
               THEN (written - ClaimedPadding(Output, call.full)) % SizeMod
               ELSE written

(* Every call returns: the loop ends and each label leads to a return.      *)
EveryCallReturns == (call.step # "idle") ~> (call.step = "idle")

(* "Invalid PKCS7 padding (wrong key?)" is what the library says it reports *)
(* of a message that does not end in PKCS7 padding.                         *)
AcceptedPaddingIsPkcs7 ==
  (call.op = "decrypt" /\ call.step = "idle" /\ Padded /\ status = "SUCCESS") =>
    \E pad \in 1 .. BlockSize : IsPkcs7(Output[call.full], pad)
=============================================================================
