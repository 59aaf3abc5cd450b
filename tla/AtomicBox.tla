------------------------------- MODULE AtomicBox -------------------------------
(***************************************************************************)
(* What an AES_Box promises its caller: a call happens in one step, and its *)
(* effect on the caller's memory, on *dest_size and on the chaining value   *)
(* is given by the equations of the mode, block by block.  A call that      *)
(* fails for want of memory has processed the full blocks all the same.     *)
(***************************************************************************)
EXTENDS BoxSizes

VARIABLES box, mem, size, status

vars == <<box, mem, size, status>>

Init ==
  /\ box \in [mode : Mode, key : Key, iv : InitVectors]
  /\ mem \in [Buffers -> Contents]
  /\ size = 0
  /\ status = "SUCCESS"

-----------------------------------------------------------------------------
FillBuffer(b, cells) ==
  /\ mem' = [mem EXCEPT ![b] = cells]
  /\ UNCHANGED <<box, size, status>>

Reinitialized(mode, key, iv) ==
  /\ box' = [mode |-> mode, key |-> key, iv |-> iv]
  /\ status' = "SUCCESS"
  /\ UNCHANGED <<mem, size>>

(* A call may be refused, or asked only for a size: the box and the memory  *)
(* are as they were.                                                        *)
Refused ==
  /\ status' \in {"NULL_ARGUMENT_ERROR", "MISSING_PADDING_ERROR"}
  /\ UNCHANGED <<box, mem, size>>

Sized(full, rest) ==
  /\ status' \in {"SUCCESS", "NULL_ARGUMENT_ERROR"}
  /\ size' \in {EncryptedSize(box.mode, full, rest), InBytes(full, rest)}
  /\ UNCHANGED <<box, mem>>

-----------------------------------------------------------------------------
Plaintext(op, input, dest)  == IF op = "encrypt" THEN input ELSE mem'[dest]
Ciphertext(op, input, dest) == IF op = "encrypt" THEN mem'[dest] ELSE input

ChainedAfter(op, input, dest, n) ==
  Chained(box.mode, box.key, box.iv,
          Plaintext(op, input, dest), Ciphertext(op, input, dest), n)

(* The first n blocks of dest become those of the input under the mode;     *)
(* other buffers, and dest behind the blocks in written, are left alone.    *)
Blocks(op, input, dest, n, written) ==
  /\ \A k \in 1 .. n :
       Encrypts(box.mode, box.key, box.iv,
                Plaintext(op, input, dest), Ciphertext(op, input, dest), k)
  /\ \A b \in Buffers \ {dest} : mem'[b] = mem[b]
  /\ \A k \in (1 .. Cells) \ written : mem'[dest][k] = mem[dest][k]

(* n blocks and nothing else.                                               *)
WholeBlocks(op, input, dest, n) ==
  /\ Blocks(op, input, dest, n, 1 .. n)
  /\ box' = [box EXCEPT !.iv = ChainedAfter(op, input, dest, n)]

(* The full blocks and the first rest bytes of one more.                    *)
BlocksAndPart(op, input, dest, full, rest) ==
  LET n == full + 1
      chained == ChainedAfter(op, input, dest, full)
  IN  /\ Blocks(op, input, dest, full, 1 .. n)
      /\ mem'[dest][n] =
           Overwritten(mem[dest][n],
                       XorBlocks(Enc(box.key, chained), input[n]), rest)
      /\ box' = [box EXCEPT !.iv =
                   IvAfterPartial(box.mode, box.key, chained, op,
                                  ZeroExtended(input[n], rest))]

WithPadding(src, full, rest) ==
  [mem[src] EXCEPT ![full + 1] = FillWithPadding(@, rest)]

Encrypted(src, dest, full, rest) ==
  /\ IF box.mode \in PaddedMode
     THEN WholeBlocks("encrypt", WithPadding(src, full, rest), dest, full + 1)
     ELSE IF rest = 0
     THEN WholeBlocks("encrypt", mem[src], dest, full)
     ELSE BlocksAndPart("encrypt", mem[src], dest, full, rest)
  /\ size' = EncryptedSize(box.mode, full, rest)
  /\ status' = "SUCCESS"

Decrypted(src, dest, full, rest) ==
  /\ box.mode \notin PaddedMode
  /\ IF rest = 0
     THEN WholeBlocks("decrypt", mem[src], dest, full)
     ELSE BlocksAndPart("decrypt", mem[src], dest, full, rest)
  /\ size' = InBytes(full, rest)
  /\ status' = "SUCCESS"

(* In a padded mode the size is that of the text without its padding, or    *)
(* the padding is refused and the size is left with it.                     *)
Unpadded(src, dest, full) ==
  /\ box.mode \in PaddedMode
  /\ WholeBlocks("decrypt", mem[src], dest, full)
  /\ \/ /\ PaddingAccepted(mem'[dest], full)
        /\ size' = (InBytes(full, 0) - ClaimedPadding(mem'[dest], full)) % SizeMod
        /\ status' = "SUCCESS"
     \/ /\ PaddingRejected(mem'[dest], full)
        /\ size' = InBytes(full, 0)
        /\ status' = "INVALID_PKCS7_PADDING_ERROR"

(* Only a last block that is padded or partial takes memory.                *)
OutOfMemory(op, src, dest, full, rest) ==
  /\ IF box.mode \in PaddedMode THEN op = "encrypt" ELSE rest # 0
  /\ WholeBlocks(op, mem[src], dest, full)
  /\ size' = IF op = "encrypt" THEN EncryptedSize(box.mode, full, rest)
             ELSE InBytes(full, rest)
  /\ status' = "MEMORY_ALLOCATION_ERROR"

Next ==
  \/ \E b \in Buffers, cells \in Contents : FillBuffer(b, cells)
  \/ \E mode \in Mode, key \in Key, iv \in InitVectors \cup {box.iv} :
       Reinitialized(mode, key, iv)
  \/ Refused
  \/ \E full \in 0 .. Cells, rest \in 0 .. BlockSize - 1 :
       \/ Sized(full, rest)
       \/ \E src, dest \in Buffers :
            \/ /\ EncryptionFits(box.mode, full, rest)
               /\ \/ Encrypted(src, dest, full, rest)
                  \/ OutOfMemory("encrypt", src, dest, full, rest)
            \/ /\ DecryptionFits(full, rest)
               /\ ~ LacksPadding(box.mode, full, rest)
               /\ \/ Decrypted(src, dest, full, rest)
                  \/ Unpadded(src, dest, full)
                  \/ OutOfMemory("decrypt", src, dest, full, rest)

Spec == Init /\ [][Next]_vars
=============================================================================
