-------------------------------- MODULE Modes --------------------------------
(***************************************************************************)
(* One block through a box, in each mode of operation: what is written to   *)
(* *output and what box->iv becomes.  Input and output are distinct blocks, *)
(* as they are in every call the buffer functions make.                     *)
(***************************************************************************)
EXTENDS Blocks

Mode == {"ECB", "CBC", "CFB", "OFB", "CTR"}

(* The modes whose last block is padded, so that dest_size is a multiple of *)
(* the block size; the others truncate the last block instead.              *)
PaddedMode == {"ECB", "CBC"}

(* The modes that chain each block to the one before, from a first value.   *)
RequiresInitVector(mode) == mode # "ECB"

EncryptBlockEcb(key, iv, input) == [output |-> Enc(key, input), iv |-> iv]

(* A slip: the chaining value is not replaced.                              *)
EncryptBlockCbcUnchained(key, iv, input) ==
  [output |-> Enc(key, XorBlocks(input, iv)), iv |-> iv]

EncryptBlockCbc(key, iv, input) ==
  LET output == Enc(key, XorBlocks(input, iv))
  IN  [output |-> output, iv |-> output]

EncryptBlockCfb(key, iv, input) ==
  LET output == XorBlocks(Enc(key, iv), input)
  IN  [output |-> output, iv |-> output]

(* A slip: the output is fed back in place of the key stream.               *)
EncryptBlockOfbFedOutput(key, iv, input) ==
  LET output == XorBlocks(Enc(key, iv), input)
  IN  [output |-> output, iv |-> output]

EncryptBlockOfb(key, iv, input) ==
  LET stream == Enc(key, iv)
  IN  [output |-> XorBlocks(stream, input), iv |-> stream]

EncryptBlockCtr(key, iv, input) ==
  [output |-> XorBlocks(Enc(key, iv), input), iv |-> Inc(iv)]

(* aes_box_encrypt_block: dispatch through the table indexed by the mode.   *)
EncryptBlock(mode, key, iv, input) ==
  CASE mode = "ECB" -> EncryptBlockEcb(key, iv, input)
    [] mode = "CBC" -> EncryptBlockCbc(key, iv, input)
    [] mode = "CFB" -> EncryptBlockCfb(key, iv, input)
    [] mode = "OFB" -> EncryptBlockOfb(key, iv, input)
    [] mode = "CTR" -> EncryptBlockCtr(key, iv, input)

DecryptBlockEcb(key, iv, input) == [output |-> Dec(key, input), iv |-> iv]

(* A slip: decryption chains the plaintext, as if it were encryption.       *)
DecryptBlockCbcChainingOutput(key, iv, input) ==
  LET output == XorBlocks(Dec(key, input), iv)
  IN  [output |-> output, iv |-> output]

DecryptBlockCbc(key, iv, input) ==
  [output |-> XorBlocks(Dec(key, input), iv), iv |-> input]

(* The same slip: the encryption function is used for decryption.           *)
DecryptBlockCfbAsEncryption(key, iv, input) == EncryptBlockCfb(key, iv, input)

DecryptBlockCfb(key, iv, input) ==
  [output |-> XorBlocks(Enc(key, iv), input), iv |-> input]

(* aes_box_decrypt_block: OFB and CTR reuse the encryption functions.       *)
DecryptBlock(mode, key, iv, input) ==
  CASE mode = "ECB" -> DecryptBlockEcb(key, iv, input)
    [] mode = "CBC" -> DecryptBlockCbc(key, iv, input)
    [] mode = "CFB" -> DecryptBlockCfb(key, iv, input)
    [] mode = "OFB" -> EncryptBlockOfb(key, iv, input)
    [] mode = "CTR" -> EncryptBlockCtr(key, iv, input)

-----------------------------------------------------------------------------
(***************************************************************************)
(* The modes as equations between a plaintext P and a ciphertext C, both    *)
(* functions from block numbers, in the form of NIST SP 800-38A: nothing    *)
(* here says who computes which of the two, or in which order.              *)
(***************************************************************************)

(* The value chained into block n + 1 of a message that started from iv.    *)
(* In OFB and CTR it is recovered from the key stream P xor C: the counter   *)
(* of a CTR block is what the block's key stream decrypts to.               *)
Chained(mode, key, iv, P, C, n) ==
  CASE n = 0 \/ mode = "ECB"    -> iv
    [] n # 0 /\ mode \in {"CBC", "CFB"} -> C[n]
    [] n # 0 /\ mode = "OFB"    -> XorBlocks(P[n], C[n])
    [] n # 0 /\ mode = "CTR"    -> Inc(Dec(key, XorBlocks(P[n], C[n])))

(* Block n of C is block n of P encrypted in the mode.                      *)
Encrypts(mode, key, iv, P, C, n) ==
  LET chained == Chained(mode, key, iv, P, C, n - 1)
  IN  CASE mode = "ECB" -> C[n] = Enc(key, P[n])
        [] mode = "CBC" -> C[n] = Enc(key, XorBlocks(P[n], chained))
        [] mode \in {"CFB", "OFB", "CTR"} ->
             C[n] = XorBlocks(Enc(key, chained), P[n])

(* The iv a partial block leaves: ciphertext feedback keeps the ciphertext  *)
(* block of the zero-extended input when encrypting, but the zero-extended  *)
(* ciphertext when decrypting.                                              *)
IvAfterPartial(mode, key, chained, op, input) ==
  CASE mode = "CFB" /\ op = "encrypt" -> XorBlocks(Enc(key, chained), input)
    [] mode = "CFB" /\ op = "decrypt" -> input
    [] mode = "OFB" -> Enc(key, chained)
    [] mode = "CTR" -> Inc(chained)
=============================================================================
