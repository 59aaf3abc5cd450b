------------------------------- MODULE Blocks -------------------------------
(***************************************************************************)
(* Bytes, blocks and the block primitives every other module is built      *)
(* from.  A block is BlockSize bytes (16 in the code, 2 in the models); the *)
(* block cipher itself, the exclusive or of two bytes and the CTR counter   *)
(* step are parameters, of which only the laws assumed here are used.       *)
(***************************************************************************)
EXTENDS Integers

CONSTANTS
  BlockSize,    \* bytes in a block
  ByteMax,      \* the largest value of a byte
  Key,          \* cipher keys (an expanded key schedule is named by its key)
  Xor(_, _),    \* exclusive or of two bytes
  Enc(_, _),    \* Enc(k, b): block b encrypted under key k
  Dec(_, _),    \* Dec(k, b): block b decrypted under key k
  Inc(_)        \* the counter block that follows a counter block

Byte == 0 .. ByteMax

Block == [1 .. BlockSize -> Byte]

(* A PKCS7 padding byte holds its count, so BlockSize must fit in a byte.   *)
ASSUME BlockSizeAssumption ==
  /\ BlockSize \in Nat \ {0}
  /\ ByteMax \in Nat
  /\ BlockSize <= ByteMax

ASSUME XorAssumption ==
  \A a, b \in Byte :
    /\ Xor(a, b) \in Byte
    /\ Xor(a, b) = Xor(b, a)
    /\ Xor(Xor(a, b), b) = a

(* For one key the cipher is a permutation of the blocks, Dec its inverse.  *)
ASSUME CipherAssumption ==
  \A k \in Key, b \in Block :
    /\ Enc(k, b) \in Block
    /\ Dec(k, b) \in Block
    /\ Dec(k, Enc(k, b)) = b
    /\ Enc(k, Dec(k, b)) = b

ASSUME IncAssumption == \A b \in Block : Inc(b) \in Block

XorBlocks(a, b) == [i \in 1 .. BlockSize |-> Xor(a[i], b[i])]

(* The first n bytes of a block, the rest zero: a buffer of one block that  *)
(* is cleared by memset and then receives n bytes by memcpy.                *)
ZeroExtended(b, n) == [i \in 1 .. BlockSize |-> IF i <= n THEN b[i] ELSE 0]

(* memcpy of the first n bytes of b over those of a.                        *)
Overwritten(a, b, n) == [i \in 1 .. BlockSize |-> IF i <= n THEN b[i] ELSE a[i]]
=============================================================================
