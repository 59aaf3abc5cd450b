--------------------------- MODULE Modes_proofs -----------------------------
(***************************************************************************)
(* Facts about blocks, padding, the modes of operation and sequences of    *)
(* bytes that the proofs about boxes, and about the programs that use the   *)
(* library, have in common: for every block size, cipher and message.  The  *)
(* modes chain each block to the one before, and FlattenSeq each sequence   *)
(* to those before it: the facts about them are by induction on a set of    *)
(* numbers, which SetInduction provides.                                    *)
(***************************************************************************)
EXTENDS Modes, Padding, SequencesExt, FiniteSetTheorems, SequenceTheorems, TLAPS

-----------------------------------------------------------------------------
(* The exclusive or of two blocks is a block.                               *)
LEMMA XorBlocksType ==
  ASSUME NEW a \in Block, NEW b \in Block
  PROVE  XorBlocks(a, b) \in Block
  BY XorAssumption DEF XorBlocks, Block

(* The order of the operands of aes_AES_xor_block does not matter.          *)
LEMMA XorBlocksCommute ==
  ASSUME NEW a \in Block, NEW b \in Block
  PROVE  XorBlocks(a, b) = XorBlocks(b, a)
  BY XorAssumption DEF XorBlocks, Block

(* The exclusive or of blocks undoes itself.                                *)
LEMMA XorBlocksCancel ==
  ASSUME NEW a \in Block, NEW b \in Block
  PROVE  XorBlocks(XorBlocks(a, b), b) = a
<1>1. \A i \in 1 .. BlockSize : XorBlocks(XorBlocks(a, b), b)[i] = a[i]
  BY XorAssumption DEF XorBlocks, Block
<1>2. XorBlocks(XorBlocks(a, b), b) = [i \in 1 .. BlockSize |-> a[i]]
  BY <1>1 DEF XorBlocks
<1>3. a = [i \in 1 .. BlockSize |-> a[i]]
  BY DEF Block
<1>4. QED
  BY <1>2, <1>3

(* A block cut or padded is a block.                                        *)
LEMMA CutBlocksType ==
  ASSUME NEW a \in Block, NEW b \in Block, NEW n \in 0 .. BlockSize - 1
  PROVE  /\ ZeroExtended(a, n) \in Block
         /\ Overwritten(a, b, n) \in Block
         /\ FillWithPadding(a, n) \in Block
<1>1. /\ BlockSize \in Nat
      /\ 0 \in Byte
      /\ BlockSize - n \in Byte
  BY BlockSizeAssumption DEF Byte
<1>2. \A i \in 1 .. BlockSize : a[i] \in Byte /\ b[i] \in Byte
  BY DEF Block
<1>3. ZeroExtended(a, n) \in Block
  BY <1>1, <1>2 DEF ZeroExtended, Block
<1>4. Overwritten(a, b, n) \in Block
  BY <1>1, <1>2 DEF Overwritten, Block
<1>5. FillWithPadding(a, n) \in Block
  BY <1>1, <1>2 DEF FillWithPadding, Block
<1>6. QED
  BY <1>3, <1>4, <1>5

(* What aes_box_encrypt_block and aes_box_decrypt_block leave is a block.   *)
LEMMA CryptType ==
  ASSUME NEW mode \in Mode, NEW key \in Key, NEW iv \in Block, NEW input \in Block
  PROVE  /\ EncryptBlock(mode, key, iv, input).output \in Block
         /\ EncryptBlock(mode, key, iv, input).iv \in Block
         /\ DecryptBlock(mode, key, iv, input).output \in Block
         /\ DecryptBlock(mode, key, iv, input).iv \in Block
<1>1. /\ Enc(key, input) \in Block
      /\ Dec(key, input) \in Block
      /\ Enc(key, iv) \in Block
      /\ Inc(iv) \in Block
      /\ XorBlocks(input, iv) \in Block
  BY CipherAssumption, IncAssumption, XorBlocksType
<1>2. /\ Enc(key, XorBlocks(input, iv)) \in Block
      /\ XorBlocks(Enc(key, iv), input) \in Block
      /\ XorBlocks(Dec(key, input), iv) \in Block
  BY <1>1, CipherAssumption, XorBlocksType
<1>3. mode \in {"ECB", "CBC", "CFB", "OFB", "CTR"}
  BY DEF Mode
<1>4. QED
  BY <1>1, <1>2, <1>3
     DEF EncryptBlock, EncryptBlockEcb, EncryptBlockCbc, EncryptBlockCfb,
         EncryptBlockOfb, EncryptBlockCtr,
         DecryptBlock, DecryptBlockEcb, DecryptBlockCbc, DecryptBlockCfb

-----------------------------------------------------------------------------
(* One block encrypted with the chained value in box->iv: the ciphertext     *)
(* satisfies the equation of the mode, and box->iv becomes the next chained *)
(* value.                                                                   *)
LEMMA EncryptStep ==
  ASSUME NEW mode \in Mode, NEW key \in Key, NEW iv \in Block, NEW N \in Nat,
         NEW P \in [1 .. N -> Block], NEW C \in [1 .. N -> Block],
         NEW n \in 1 .. N, NEW c \in Block,
         c = Chained(mode, key, iv, P, C, n - 1),
         C[n] = EncryptBlock(mode, key, c, P[n]).output
  PROVE  /\ Encrypts(mode, key, iv, P, C, n)
         /\ EncryptBlock(mode, key, c, P[n]).iv = Chained(mode, key, iv, P, C, n)
<1> DEFINE e == EncryptBlock(mode, key, c, P[n])
<1>1. P[n] \in Block /\ C[n] \in Block /\ Enc(key, c) \in Block /\ n # 0
  BY CipherAssumption
<1>2. CASE mode = "ECB"
  <2>1. e = [output |-> Enc(key, P[n]), iv |-> c]
    BY <1>2 DEF EncryptBlock, EncryptBlockEcb
  <2>2. c = iv
    BY <1>2 DEF Chained
  <2>3. QED
    BY <1>2, <2>1, <2>2 DEF Encrypts, Chained
<1>3. CASE mode = "CBC"
  <2>1. e.output = Enc(key, XorBlocks(P[n], c)) /\ e.iv = e.output
    BY <1>3 DEF EncryptBlock, EncryptBlockCbc
  <2>2. QED
    BY <1>1, <1>3, <2>1 DEF Encrypts, Chained
<1>4. CASE mode = "CFB"
  <2>1. e.output = XorBlocks(Enc(key, c), P[n]) /\ e.iv = e.output
    BY <1>4 DEF EncryptBlock, EncryptBlockCfb
  <2>2. QED
    BY <1>1, <1>4, <2>1 DEF Encrypts, Chained
<1>5. CASE mode = "OFB"
  <2>1. e.output = XorBlocks(Enc(key, c), P[n]) /\ e.iv = Enc(key, c)
    BY <1>5 DEF EncryptBlock, EncryptBlockOfb
  <2>2. XorBlocks(P[n], C[n]) = Enc(key, c)
    BY <1>1, <2>1, XorBlocksCommute, XorBlocksCancel
  <2>3. QED
    BY <1>1, <1>5, <2>1, <2>2 DEF Encrypts, Chained
<1>6. CASE mode = "CTR"
  <2>1. e.output = XorBlocks(Enc(key, c), P[n]) /\ e.iv = Inc(c)
    BY <1>6 DEF EncryptBlock, EncryptBlockCtr
  <2>2. Dec(key, XorBlocks(P[n], C[n])) = c
    BY <1>1, <2>1, XorBlocksCommute, XorBlocksCancel, CipherAssumption
  <2>3. QED
    BY <1>1, <1>6, <2>1, <2>2 DEF Encrypts, Chained
<1>7. QED
  BY <1>2, <1>3, <1>4, <1>5, <1>6 DEF Mode

(* The same of one block decrypted.                                         *)
LEMMA DecryptStep ==
  ASSUME NEW mode \in Mode, NEW key \in Key, NEW iv \in Block, NEW N \in Nat,
         NEW P \in [1 .. N -> Block], NEW C \in [1 .. N -> Block],
         NEW n \in 1 .. N, NEW c \in Block,
         c = Chained(mode, key, iv, P, C, n - 1),
         P[n] = DecryptBlock(mode, key, c, C[n]).output
  PROVE  /\ Encrypts(mode, key, iv, P, C, n)
         /\ DecryptBlock(mode, key, c, C[n]).iv = Chained(mode, key, iv, P, C, n)
<1> DEFINE d == DecryptBlock(mode, key, c, C[n])
<1>1. /\ P[n] \in Block /\ C[n] \in Block
      /\ Enc(key, c) \in Block /\ Dec(key, C[n]) \in Block /\ n # 0
  BY CipherAssumption
<1>2. CASE mode = "ECB"
  <2>1. d = [output |-> Dec(key, C[n]), iv |-> c]
    BY <1>2 DEF DecryptBlock, DecryptBlockEcb
  <2>2. c = iv
    BY <1>2 DEF Chained
  <2>3. Enc(key, P[n]) = C[n]
    BY <1>1, <2>1, CipherAssumption
  <2>4. QED
    BY <1>2, <2>1, <2>2, <2>3 DEF Encrypts, Chained
<1>3. CASE mode = "CBC"
  <2>1. d.output = XorBlocks(Dec(key, C[n]), c) /\ d.iv = C[n]
    BY <1>3 DEF DecryptBlock, DecryptBlockCbc
  <2>2. Enc(key, XorBlocks(P[n], c)) = C[n]
    BY <1>1, <2>1, XorBlocksCancel, CipherAssumption
  <2>3. QED
    BY <1>1, <1>3, <2>1, <2>2 DEF Encrypts, Chained
<1>4. CASE mode \in {"CFB", "OFB", "CTR"}
  <2>1. P[n] = XorBlocks(Enc(key, c), C[n])
    BY <1>4 DEF DecryptBlock, DecryptBlockCfb, EncryptBlockOfb, EncryptBlockCtr
  <2>2. C[n] = XorBlocks(Enc(key, c), P[n]) /\ XorBlocks(P[n], C[n]) = Enc(key, c)
    BY <1>1, <2>1, XorBlocksCommute, XorBlocksCancel
  <2>3. Encrypts(mode, key, iv, P, C, n)
    BY <1>4, <2>2 DEF Encrypts
  <2>4. Dec(key, XorBlocks(P[n], C[n])) = c
    BY <2>2, CipherAssumption
  <2>5. CASE mode = "CFB"
    BY <1>1, <2>3, <2>5 DEF DecryptBlock, DecryptBlockCfb, Chained
  <2>6. CASE mode = "OFB"
    BY <1>1, <2>2, <2>3, <2>6 DEF DecryptBlock, EncryptBlockOfb, Chained
  <2>7. CASE mode = "CTR"
    BY <1>1, <2>3, <2>4, <2>7 DEF DecryptBlock, EncryptBlockCtr, Chained
  <2>8. QED
    BY <1>4, <2>5, <2>6, <2>7
<1>5. QED
  BY <1>2, <1>3, <1>4 DEF Mode

(* The equations and chained values up to block m look at no later block.   *)
LEMMA EarlierBlocksDecide ==
  ASSUME NEW mode \in Mode, NEW key, NEW iv, NEW P, NEW C, NEW P2, NEW C2,
         NEW m \in Nat,
         \A k \in 1 .. m : P2[k] = P[k] /\ C2[k] = C[k]
  PROVE  /\ \A n \in 0 .. m :
              Chained(mode, key, iv, P2, C2, n) = Chained(mode, key, iv, P, C, n)
         /\ \A n \in 1 .. m :
              Encrypts(mode, key, iv, P2, C2, n) <=> Encrypts(mode, key, iv, P, C, n)
<1>1. ASSUME NEW n \in 0 .. m
      PROVE  Chained(mode, key, iv, P2, C2, n) = Chained(mode, key, iv, P, C, n)
  <2>1. CASE n = 0
    BY <2>1 DEF Chained
  <2>2. CASE n # 0
    <3>1. P2[n] = P[n] /\ C2[n] = C[n]
      BY <2>2
    <3>2. QED
      BY <2>2, <3>1 DEF Chained, Mode
  <2>3. QED
    BY <2>1, <2>2
<1>2. ASSUME NEW n \in 1 .. m
      PROVE  Encrypts(mode, key, iv, P2, C2, n) <=> Encrypts(mode, key, iv, P, C, n)
  <2>1. Chained(mode, key, iv, P2, C2, n - 1) = Chained(mode, key, iv, P, C, n - 1)
    BY <1>1
  <2>2. P2[n] = P[n] /\ C2[n] = C[n]
    OBVIOUS
  <2>3. QED
    BY <2>1, <2>2 DEF Encrypts, Mode
<1>3. QED
  BY <1>1, <1>2

(* Chained values are blocks.                                               *)
LEMMA ChainedType ==
  ASSUME NEW mode \in Mode, NEW key \in Key, NEW iv \in Block, NEW N \in Nat,
         NEW P \in [1 .. N -> Block], NEW C \in [1 .. N -> Block], NEW n \in 0 .. N
  PROVE  Chained(mode, key, iv, P, C, n) \in Block
<1>1. CASE n = 0
  BY <1>1 DEF Chained
<1>2. CASE n # 0
  <2>1. P[n] \in Block /\ C[n] \in Block
    BY <1>2
  <2>2. XorBlocks(P[n], C[n]) \in Block
    BY <2>1, XorBlocksType
  <2>3. Inc(Dec(key, XorBlocks(P[n], C[n]))) \in Block
    BY <2>2, CipherAssumption, IncAssumption
  <2>4. QED
    BY <1>2, <2>1, <2>2, <2>3 DEF Chained, Mode
<1>3. QED
  BY <1>1, <1>2

-----------------------------------------------------------------------------
(* Induction up to m, for a set T: otherwise n |-> n + 1 would map the      *)
(* members of T below m one to one into one fewer.                          *)
LEMMA SetInduction ==
  ASSUME NEW T, NEW m \in Nat, 0 \in T,
         \A n \in 0 .. m - 1 : n \in T => n + 1 \in T
  PROVE  m \in T
<1> SUFFICES ASSUME m \notin T PROVE FALSE
  OBVIOUS
<1> DEFINE A == {n \in 0 .. m : n \in T}
           f == [n \in A |-> n + 1]
<1>1. 0 \in A /\ A \subseteq 0 .. m
  OBVIOUS
<1>2. IsFiniteSet(A)
  <2>1. IsFiniteSet(0 .. m)
    BY FS_Interval
  <2>2. QED
    BY <1>1, <2>1, FS_Subset
<1>3. ASSUME NEW n \in A PROVE n + 1 \in A \ {0}
  OBVIOUS
<1>4. IsFiniteSet(A \ {0}) /\ Cardinality(A \ {0}) = Cardinality(A) - 1
  BY <1>1, <1>2, FS_RemoveElement
<1>5. Cardinality(A) \in Nat
  BY <1>2, FS_CardinalityType
<1>6. f \in [A -> A \ {0}]
  BY <1>3
<1>7. PICK x, y \in A : x # y /\ f[x] = f[y]
  <2> HIDE DEF A, f
  <2>1. Cardinality(A \ {0}) < Cardinality(A)
    BY <1>4, <1>5
  <2>2. QED
    BY <1>2, <1>4, <1>6, <2>1, FS_PigeonHole
<1>8. QED
  BY <1>7

(* A function may be defined by what it is at 0 and how each of its values  *)
(* follows from the one before.                                             *)
Iterates(S, a, F, N) ==
  {f \in [0 .. N -> S] : f[0] = a /\ \A n \in 1 .. N : f[n] = F[n][f[n - 1]]}

LEMMA Iteration ==
  ASSUME NEW S, NEW a \in S, NEW N \in Nat,
         NEW F \in [1 .. N -> [S -> S]]
  PROVE  Iterates(S, a, F, N) # {}
<1> DEFINE Up(f, m) == f \in [0 .. m -> S] /\ f[0] = a /\ \A n \in 1 .. m : f[n] = F[n][f[n - 1]]
           T == {m \in 0 .. N : \E f : Up(f, m)}
<1>1. 0 \in T
  <2> DEFINE f == [n \in 0 .. 0 |-> a]
  <2>1. f \in [0 .. 0 -> S] /\ f[0] = a
    OBVIOUS
  <2> HIDE DEF f
  <2>2. Up(f, 0)
    BY <2>1
  <2> HIDE DEF Up
  <2>3. QED
    BY <2>2
<1>2. ASSUME NEW m \in 0 .. N - 1, m \in T PROVE m + 1 \in T
  <2>1. PICK f : Up(f, m)
    BY <1>2
  <2>2. /\ f \in [0 .. m -> S] /\ f[0] = a
        /\ \A n \in 1 .. m : f[n] = F[n][f[n - 1]]
    BY <2>1
  <2> DEFINE y == F[m + 1][f[m]]
             g == [n \in 0 .. m + 1 |-> IF n = m + 1 THEN y ELSE f[n]]
  <2>3. /\ m \in Nat /\ m + 1 \in 1 .. N /\ f[m] \in S /\ 0 # m + 1
        /\ \A n \in 0 .. m : n # m + 1 /\ f[n] \in S /\ n \in 0 .. m + 1
        /\ \A n \in 0 .. m + 1 : n = m + 1 \/ n \in 0 .. m
        /\ m + 1 \in 0 .. m + 1 /\ 0 \in 0 .. m + 1
    BY <2>2
  <2>4. y \in S
    BY <2>3
  <2> HIDE DEF y
  <2>5. g \in [0 .. m + 1 -> S]
    BY <2>3, <2>4
  <2>6. \A n \in 0 .. m : g[n] = f[n]
    BY <2>3
  <2>7. g[0] = a /\ g[m + 1] = y
    BY <2>2, <2>3
  <2> HIDE DEF g
  <2>8. ASSUME NEW n \in 1 .. m + 1 PROVE g[n] = F[n][g[n - 1]]
    <3>1. CASE n = m + 1
      <4>1. n - 1 = m /\ m \in 0 .. m
        BY <2>3, <3>1
      <4>2. g[n - 1] = f[m]
        BY <2>6, <4>1
      <4>3. QED
        BY <2>7, <3>1, <4>2 DEF y
    <3>2. CASE n \in 1 .. m
      <4>1. n - 1 \in 0 .. m /\ n \in 0 .. m
        BY <3>2
      <4>2. QED
        BY <2>2, <2>6, <3>2, <4>1
    <3>3. QED
      BY <2>3, <3>1, <3>2
  <2>9. Up(g, m + 1)
    BY <2>5, <2>7, <2>8
  <2>10. m + 1 \in 0 .. N
    OBVIOUS
  <2> HIDE DEF Up
  <2>11. QED
    BY <2>9, <2>10
<1> HIDE DEF T
<1>3. N \in T
  BY <1>1, <1>2, SetInduction
<1>4. PICK f : Up(f, N)
  BY <1>3 DEF T
<1>5. f \in Iterates(S, a, F, N)
  BY <1>4 DEF Iterates
<1>6. QED
  BY <1>5

(* A block of ciphertext and the value chained into it decide the text.     *)
LEMMA BlockDecidesText ==
  ASSUME NEW mode \in Mode, NEW key \in Key, NEW N \in Nat,
         NEW iv, NEW P \in [1 .. N -> Block], NEW C \in [1 .. N -> Block],
         NEW iv2, NEW P2 \in [1 .. N -> Block], NEW C2 \in [1 .. N -> Block],
         NEW n \in 1 .. N, C2[n] = C[n],
         Encrypts(mode, key, iv, P, C, n), Encrypts(mode, key, iv2, P2, C2, n),
         \/ mode = "ECB"
         \/ /\ Chained(mode, key, iv, P, C, n - 1) \in Block
            /\ Chained(mode, key, iv2, P2, C2, n - 1)
                 = Chained(mode, key, iv, P, C, n - 1)
  PROVE  P2[n] = P[n]
<1> DEFINE c == Chained(mode, key, iv, P, C, n - 1)
           c2 == Chained(mode, key, iv2, P2, C2, n - 1)
<1>1. P[n] \in Block /\ P2[n] \in Block
  OBVIOUS
<1>2. CASE mode = "ECB"
  <2>1. Enc(key, P[n]) = Enc(key, P2[n])
    BY <1>2 DEF Encrypts
  <2>2. QED
    BY <1>1, <2>1, CipherAssumption
<1>3. CASE mode = "CBC"
  <2>1. Enc(key, XorBlocks(P[n], c)) = Enc(key, XorBlocks(P2[n], c)) /\ c \in Block
    BY <1>3 DEF Encrypts
  <2>2. XorBlocks(P[n], c) \in Block /\ XorBlocks(P2[n], c) \in Block
    BY <1>1, <2>1, XorBlocksType
  <2>3. XorBlocks(P[n], c) = XorBlocks(P2[n], c)
    BY <2>1, <2>2, CipherAssumption
  <2>4. QED
    BY <1>1, <2>1, <2>3, XorBlocksCancel
<1>4. CASE mode \in {"CFB", "OFB", "CTR"}
  <2>1. c \in Block /\ XorBlocks(Enc(key, c), P[n]) = XorBlocks(Enc(key, c), P2[n])
    BY <1>4 DEF Encrypts
  <2> HIDE DEF c
  <2>2. Enc(key, c) \in Block
    BY <2>1, CipherAssumption
  <2>3. XorBlocks(P[n], Enc(key, c)) = XorBlocks(P2[n], Enc(key, c))
    BY <1>1, <2>1, <2>2, XorBlocksCommute
  <2>4. QED
    BY <1>1, <2>2, <2>3, XorBlocksCancel
<1>5. QED
  BY <1>2, <1>3, <1>4 DEF Mode

(* The first m blocks of two sequences are the same; those of C are those   *)
(* of P encrypted.                                                          *)
Agree(A, B, m) == \A n \in 1 .. m : A[n] = B[n]

EncryptsFirst(mode, key, iv, P, C, m) ==
  \A n \in 1 .. m : Encrypts(mode, key, iv, P, C, n)

(* Decryption is determined: one key, one iv and one ciphertext have one    *)
(* text.                                                                    *)
LEMMA CiphertextDecidesText ==
  ASSUME NEW mode \in Mode, NEW key \in Key, NEW iv \in Block, NEW N \in Nat,
         NEW P \in [1 .. N -> Block], NEW C \in [1 .. N -> Block],
         NEW P2 \in [1 .. N -> Block], NEW C2 \in [1 .. N -> Block],
         NEW m \in 0 .. N,
         Agree(C2, C, m),
         EncryptsFirst(mode, key, iv, P, C, m),
         EncryptsFirst(mode, key, iv, P2, C2, m)
  PROVE  Agree(P2, P, m)
<1> DEFINE T == {n \in 0 .. m : \A k \in 1 .. n : P2[k] = P[k]}
<1>1. 0 \in T
  OBVIOUS
<1>2. ASSUME NEW n \in 0 .. m - 1, n \in T
      PROVE  n + 1 \in T
  <2>1. /\ mode \in Mode /\ n \in Nat
        /\ \A k \in 1 .. n : P2[k] = P[k] /\ C2[k] = C[k]
    BY <1>2 DEF Agree
  <2>2. Chained(mode, key, iv, P2, C2, n) = Chained(mode, key, iv, P, C, n)
    <3>1. n # 0 => P2[n] = P[n] /\ C2[n] = C[n]
      BY <2>1
    <3>2. QED
      BY <2>1, <3>1 DEF Chained, Mode
  <2>3. Chained(mode, key, iv, P, C, n) \in Block
    <3>1. n \in 0 .. N
      OBVIOUS
    <3>2. QED
      BY <3>1, ChainedType
  <2>4. (n + 1) - 1 = n /\ n + 1 \in 1 .. m /\ n + 1 \in 1 .. N
    OBVIOUS
  <2>5. P2[n + 1] = P[n + 1]
    <3>1. /\ C2[n + 1] = C[n + 1]
          /\ Encrypts(mode, key, iv, P, C, n + 1)
          /\ Encrypts(mode, key, iv, P2, C2, n + 1)
      BY <2>4 DEF Agree, EncryptsFirst
    <3>2. QED
      BY <2>2, <2>3, <2>4, <3>1, BlockDecidesText
  <2>6. QED
    BY <2>1, <2>5
<1> HIDE DEF T
<1>3. m \in T
  BY <1>1, <1>2, SetInduction
<1>4. QED
  BY <1>3 DEF T, Agree

-----------------------------------------------------------------------------
LEMMA Division ==
  ASSUME NEW d \in Nat \ {0}, NEW q \in Int, NEW r \in 0 .. d - 1
  PROVE  (q * d + r) \div d = q /\ (q * d + r) % d = r
  OBVIOUS

(* A size that wraps may be subtracted from before or after it does.        *)
LEMMA RemainderOfDifference ==
  ASSUME NEW m \in Nat \ {0}, NEW a \in Int, NEW b \in Int
  PROVE  ((a % m) - b) % m = (a - b) % m
<1> DEFINE q == a \div m
           r == a % m
           p == (r - b) \div m
           t == (r - b) % m
<1>1. /\ a = q * m + r /\ q \in Int /\ r \in 0 .. m - 1
      /\ r - b = p * m + t /\ p \in Int /\ t \in 0 .. m - 1
  OBVIOUS
<1> HIDE DEF q, r, p, t
<1>2. a - b = (q + p) * m + t
  BY <1>1
<1>3. ((q + p) * m + t) % m = t
  BY <1>1, Division
<1>4. (a - b) % m = t
  BY <1>2, <1>3
<1>5. QED
  BY <1>4 DEF t, r

(* aes_extract_padding_size finds what aes_fill_with_padding has written.   *)
LEMMA FilledPaddingIsFound ==
  ASSUME NEW cells, NEW n \in Nat \ {0}, NEW b, NEW rest \in 0 .. BlockSize - 1,
         cells[n] = FillWithPadding(b, rest)
  PROVE  ClaimedPadding(cells, n) = BlockSize - rest /\ ~ PaddingRejected(cells, n)
<1>1. BlockSize \in Nat \ {0}
  BY BlockSizeAssumption
<1>2. ClaimedPadding(cells, n) = BlockSize - rest
  BY <1>1 DEF ClaimedPadding, FillWithPadding
<1>3. ASSUME NEW i \in 1 .. BlockSize - rest - 1
      PROVE  ByteAt(cells, n * BlockSize - 1 - i) = BlockSize - rest
  <2> DEFINE q == n - 1
             k == BlockSize - 1 - i
  <2>1. /\ k \in 0 .. BlockSize - 1 /\ k + 1 \in 1 .. BlockSize /\ k + 1 > rest
        /\ q \in Int /\ q + 1 = n
    BY <1>1
  <2>2. n * BlockSize - 1 - i = q * BlockSize + k
    BY <1>1
  <2> HIDE DEF q, k
  <2>3. (q * BlockSize + k) \div BlockSize = q /\ (q * BlockSize + k) % BlockSize = k
    BY <1>1, <2>1, Division
  <2>4. ByteAt(cells, n * BlockSize - 1 - i) = cells[n][k + 1]
    BY <2>1, <2>2, <2>3 DEF ByteAt
  <2>5. FillWithPadding(b, rest)[k + 1] = BlockSize - rest
    BY <2>1 DEF FillWithPadding
  <2>6. QED
    BY <2>4, <2>5
<1>4. ~ ScanMismatch(cells, n)
  BY <1>1, <1>2, <1>3 DEF ScanMismatch
<1>5. BlockSize - rest <= n * BlockSize
  BY <1>1
<1>6. ~ ScanLeavesBuffer(cells, n)
  BY <1>1, <1>2, <1>5 DEF ScanLeavesBuffer
<1>7. QED
  BY <1>2, <1>4, <1>6 DEF PaddingRejected

(* The output of a decryption is the text that was encrypted.               *)
LEMMA DecryptUndoesEncrypt ==
  ASSUME NEW m \in Mode, NEW k \in Key, NEW c \in Block, NEW b \in Block
  PROVE  DecryptBlock(m, k, c, EncryptBlock(m, k, c, b).output).output = b
<1>1. /\ Enc(k, c) \in Block /\ XorBlocks(b, c) \in Block
      /\ Dec(k, Enc(k, b)) = b /\ Dec(k, Enc(k, XorBlocks(b, c))) = XorBlocks(b, c)
  BY CipherAssumption, XorBlocksType
<1>2. /\ XorBlocks(XorBlocks(b, c), c) = b
      /\ XorBlocks(Enc(k, c), XorBlocks(Enc(k, c), b)) = b
  BY <1>1, XorBlocksType, XorBlocksCommute, XorBlocksCancel
<1>3. QED
  BY <1>1, <1>2
     DEF Mode, EncryptBlock, EncryptBlockEcb, EncryptBlockCbc, EncryptBlockCfb,
         EncryptBlockOfb, EncryptBlockCtr,
         DecryptBlock, DecryptBlockEcb, DecryptBlockCbc, DecryptBlockCfb

-----------------------------------------------------------------------------
(* Where the bytes of a block lie in memory.                                *)
LEMMA Multiples ==
  ASSUME NEW d \in Nat, NEW a \in Nat, NEW b \in Nat, a <= b
  PROVE  a * d <= b * d /\ a * d \in Nat /\ b * d \in Nat
<1>1. PICK e \in Nat : b = a + e
  BY b = a + (b - a)
<1>2. e * d \in Nat /\ a * d \in Nat /\ b * d = a * d + e * d
  BY <1>1
<1>3. QED
  BY <1>2

LEMMA PlaceOf ==
  ASSUME NEW N \in Nat, NEW n \in 1 .. N, NEW i \in 1 .. BlockSize
  PROVE  /\ (n - 1) * BlockSize + i \in 1 .. N * BlockSize
         /\ (n - 1) * BlockSize + i <= n * BlockSize
<1>1. BlockSize \in Nat \ {0} /\ n - 1 \in Nat /\ n \in Nat /\ n <= N
  BY BlockSizeAssumption
<1>2. n * BlockSize = (n - 1) * BlockSize + BlockSize
  BY <1>1
<1>3. n * BlockSize <= N * BlockSize /\ N * BlockSize \in Nat
  BY <1>1, Multiples
<1>4. (n - 1) * BlockSize \in Nat
  BY <1>1
<1>5. QED
  BY <1>1, <1>2, <1>3, <1>4

(* Every byte of a whole number of blocks has a place in one of them.       *)
LEMMA PlaceIn ==
  ASSUME NEW N \in Nat, NEW j \in 1 .. N * BlockSize
  PROVE  \E n \in 1 .. N, i \in 1 .. BlockSize : j = (n - 1) * BlockSize + i
<1>1. BlockSize \in Nat \ {0} /\ j - 1 \in Nat /\ N * BlockSize \in Nat
  BY BlockSizeAssumption
<1> DEFINE q == (j - 1) \div BlockSize
           r == (j - 1) % BlockSize
<1>2. q \in Nat /\ r \in 0 .. BlockSize - 1 /\ j - 1 = q * BlockSize + r
  BY <1>1
<1> HIDE DEF q, r
<1>3. q + 1 \in 1 .. N
  <2> SUFFICES ASSUME N <= q PROVE FALSE
    BY <1>2
  <2>1. N * BlockSize <= q * BlockSize /\ q * BlockSize \in Nat
    BY <1>1, <1>2, Multiples
  <2>2. QED
    BY <1>1, <1>2, <2>1
<1>4. j = ((q + 1) - 1) * BlockSize + (r + 1) /\ r + 1 \in 1 .. BlockSize
  <2>1. (q + 1) - 1 = q
    BY <1>2
  <2>2. QED
    BY <1>1, <1>2, <2>1
<1>5. QED
  BY <1>3, <1>4

LEMMA BlockIsText ==
  ASSUME NEW b \in Block
  PROVE  b \in Seq(Byte) /\ Len(b) = BlockSize
<1>1. BlockSize \in Nat /\ b \in [1 .. BlockSize -> Byte]
  BY BlockSizeAssumption DEF Block
<1>2. b \in Seq(Byte)
  BY <1>1, SeqDef
<1>3. Len(b) = BlockSize
  BY <1>1, <1>2, LenProperties
<1>4. QED
  BY <1>2, <1>3

-----------------------------------------------------------------------------
(* Texts and their cuts.                                                    *)
LEMMA CutFacts ==
  ASSUME NEW a \in Seq(Byte), NEW b \in Seq(Byte)
  PROVE  IsPrefix(a, b) <=> /\ Len(a) <= Len(b)
                            /\ \A j \in 1 .. Len(a) : a[j] = b[j]
<1>1. Len(a) \in Nat /\ Len(b) \in Nat
  BY LenProperties
<1>2. ASSUME Len(a) <= Len(b)
      PROVE  SubSeq(a, 1, Len(a)) = SubSeq(b, 1, Len(a)) <=> \A j \in 1 .. Len(a) : a[j] = b[j]
  <2> DEFINE x == SubSeq(a, 1, Len(a))
             y == SubSeq(b, 1, Len(a))
  <2>1. /\ \A j \in 1 .. Len(a) : a[j] \in Byte
        /\ \A j \in 1 .. Len(a) : b[j] \in Byte
    <3>1. \A j \in 1 .. Len(a) : j \in 1 .. Len(b)
      BY <1>1, <1>2
    <3>2. QED
      BY <3>1, ElementOfSeq
  <2>2. /\ x \in Seq(Byte) /\ Len(x) = IF 1 <= Len(a) THEN Len(a) - 1 + 1 ELSE 0
        /\ \A j \in 1 .. Len(a) - 1 + 1 : x[j] = a[1 + j - 1]
    BY <1>1, <2>1, SubSeqProperties
  <2>3. /\ y \in Seq(Byte) /\ Len(y) = IF 1 <= Len(a) THEN Len(a) - 1 + 1 ELSE 0
        /\ \A j \in 1 .. Len(a) - 1 + 1 : y[j] = b[1 + j - 1]
    BY <1>1, <2>1, SubSeqProperties
  <2>4. /\ Len(x) = Len(a) /\ Len(y) = Len(a)
        /\ \A j \in 1 .. Len(a) : j \in 1 .. Len(a) - 1 + 1 /\ 1 + j - 1 = j
    BY <1>1, <2>2, <2>3
  <2>5. \A j \in 1 .. Len(a) : x[j] = a[j] /\ y[j] = b[j]
    BY <2>2, <2>3, <2>4
  <2> HIDE DEF x, y
  <2>6. x = y <=> \A j \in 1 .. Len(a) : a[j] = b[j]
    BY <2>2, <2>3, <2>4, <2>5, SeqEqual
  <2>7. QED
    BY <2>6 DEF x, y
<1>3. QED
  BY <1>2 DEF IsPrefix

LEMMA CutTo ==
  ASSUME NEW a \in Seq(Byte), NEW k \in 0 .. Len(a)
  PROVE  /\ SubSeq(a, 1, k) \in Seq(Byte) /\ Len(SubSeq(a, 1, k)) = k
         /\ \A j \in 1 .. k : SubSeq(a, 1, k)[j] = a[j]
<1>1. Len(a) \in Nat /\ k \in Nat /\ k <= Len(a)
  BY LenProperties
<1>2. \A j \in 1 .. k : a[j] \in Byte
  <2>1. \A j \in 1 .. k : j \in 1 .. Len(a)
    BY <1>1
  <2>2. QED
    BY <2>1, ElementOfSeq
<1>3. /\ SubSeq(a, 1, k) \in Seq(Byte) /\ Len(SubSeq(a, 1, k)) = IF 1 <= k THEN k - 1 + 1 ELSE 0
      /\ \A j \in 1 .. k - 1 + 1 : SubSeq(a, 1, k)[j] = a[1 + j - 1]
  BY <1>1, <1>2, SubSeqProperties
<1>4. /\ (IF 1 <= k THEN k - 1 + 1 ELSE 0) = k
      /\ \A j \in 1 .. k : j \in 1 .. k - 1 + 1 /\ 1 + j - 1 = j
  BY <1>1
<1>5. QED
  BY <1>3, <1>4

(* What lies behind the first k bytes.                                      *)
LEMMA BytesBehind ==
  ASSUME NEW a \in Seq(Byte), NEW k \in 0 .. Len(a)
  PROVE  /\ SubSeq(a, k + 1, Len(a)) \in Seq(Byte)
         /\ Len(SubSeq(a, k + 1, Len(a))) = Len(a) - k
         /\ \A j \in 1 .. Len(a) - k : SubSeq(a, k + 1, Len(a))[j] = a[k + j]
<1>1. Len(a) \in Nat /\ k \in Nat /\ k <= Len(a)
  BY LenProperties
<1>2. \A j \in k + 1 .. Len(a) : a[j] \in Byte
  <2>1. \A j \in k + 1 .. Len(a) : j \in 1 .. Len(a)
    BY <1>1
  <2>2. QED
    BY <2>1, ElementOfSeq
<1> DEFINE m == k + 1
           n == Len(a)
<1>3. /\ SubSeq(a, m, n) \in Seq(Byte) /\ Len(SubSeq(a, m, n)) = IF m <= n THEN n - m + 1 ELSE 0
      /\ \A j \in 1 .. n - m + 1 : SubSeq(a, m, n)[j] = a[m + j - 1]
  <2>1. m \in Int /\ n \in Int
    BY <1>1
  <2>2. \A j \in m .. n : a[j] \in Byte
    BY <1>2
  <2> HIDE DEF m, n
  <2>3. QED
    BY <2>1, <2>2, SubSeqProperties
<1>4. /\ (IF m <= n THEN n - m + 1 ELSE 0) = n - k
      /\ \A j \in 1 .. n - k : j \in 1 .. n - m + 1 /\ m + j - 1 = k + j
  BY <1>1
<1>5. QED
  BY <1>3, <1>4

-----------------------------------------------------------------------------
(* A set of positions has a first one.                                      *)
LEMMA FirstPosition ==
  ASSUME NEW n \in Nat, NEW I \in SUBSET (1 .. n), I # {}
  PROVE  Min(I) \in I /\ \A y \in I : Min(I) <= y
<1> DEFINE T == {m \in 0 .. n : I \cap 1 .. m = {}}
<1>1. \E x \in I : \A y \in I : x <= y
  <2> SUFFICES ASSUME \A x \in I : \E y \in I : ~ (x <= y) PROVE FALSE
    OBVIOUS
  <2>1. 0 \in T
    OBVIOUS
  <2>2. ASSUME NEW m \in 0 .. n - 1, m \in T PROVE m + 1 \in T
    <3>1. \A y \in I : y > m
      BY <2>2
    <3>2. m + 1 \notin I
      BY <3>1
    <3>3. QED
      BY <3>1, <3>2
  <2> HIDE DEF T
  <2>3. n \in T
    BY <2>1, <2>2, SetInduction
  <2>4. QED
    BY <2>3, Zenon DEF T
<1>2. QED
  BY <1>1, Zenon DEF Min

(* The function that FlattenSeq is the last value of.                       *)
Partial(s) ==
  CHOOSE g : g = [i \in 1 .. Len(s) |-> IF i = 1 THEN s[i] ELSE g[i - 1] \o s[i]]

LEMMA PartialSteps ==
  ASSUME NEW S, NEW s \in Seq(Seq(S)), Len(s) # 0
  PROVE  /\ FlattenSeq(s) = Partial(s)[Len(s)]
         /\ Partial(s)[1] = s[1]
         /\ \A i \in 2 .. Len(s) : Partial(s)[i] = Partial(s)[i - 1] \o s[i]
         /\ \A i \in 1 .. Len(s) : Partial(s)[i] \in Seq(S)
<1> DEFINE N == Len(s)
           P(g) == g = [i \in 1 .. N |-> IF i = 1 THEN s[i] ELSE g[i - 1] \o s[i]]
           F == [n \in 1 .. N - 1 |-> [x \in Seq(S) |-> x \o s[n + 1]]]
           p == Partial(s)
<1>1. N \in Nat \ {0} /\ \A i \in 1 .. N : s[i] \in Seq(S)
  BY LenProperties, ElementOfSeq
<1>2. FlattenSeq(s) = p[N]
  BY DEF FlattenSeq, Partial
<1>3. p = CHOOSE g : P(g)
  BY DEF Partial
<1> HIDE DEF N, p, F
<1>4. \A n \in 1 .. N - 1, x \in Seq(S) : x \o s[n + 1] \in Seq(S)
  <2> SUFFICES ASSUME NEW n \in 1 .. N - 1, NEW x \in Seq(S) PROVE x \o s[n + 1] \in Seq(S)
    OBVIOUS
  <2>1. s[n + 1] \in Seq(S)
    BY <1>1
  <2>2. QED
    BY <2>1, ConcatProperties
<1>5. /\ F \in [1 .. N - 1 -> [Seq(S) -> Seq(S)]]
      /\ \A n \in 1 .. N - 1, x \in Seq(S) : F[n][x] = x \o s[n + 1]
  BY <1>4, Zenon DEF F
<1>6. PICK f \in [0 .. N - 1 -> Seq(S)] :
        f[0] = s[1] /\ \A n \in 1 .. N - 1 : f[n] = F[n][f[n - 1]]
  <2>1. N - 1 \in Nat /\ s[1] \in Seq(S)
    BY <1>1
  <2>2. Iterates(Seq(S), s[1], F, N - 1) # {}
    BY <1>5, <2>1, Iteration, Zenon
  <2>3. QED
    BY <2>2 DEF Iterates
<1> DEFINE h == [i \in 1 .. N |-> f[i - 1]]
<1>7. P(h)
  <2>1. \A i \in 1 .. N : h[i] = IF i = 1 THEN s[i] ELSE h[i - 1] \o s[i]
    <3> SUFFICES ASSUME NEW i \in 1 .. N PROVE h[i] = IF i = 1 THEN s[i] ELSE h[i - 1] \o s[i]
      OBVIOUS
    <3>1. h[i] = f[i - 1] /\ (i # 1 => i - 1 \in 1 .. N /\ h[i - 1] = f[i - 2] /\ i - 1 \in 1 .. N - 1)
      BY <1>1
    <3>2. CASE i = 1
      BY <1>6, <3>1, <3>2
    <3>3. CASE i # 1
      <4>0. /\ i - 1 \in 1 .. N - 1 /\ (i - 1) - 1 = i - 2 /\ (i - 1) + 1 = i
            /\ i - 2 \in 0 .. N - 1
        BY <1>1, <3>3
      <4>1. f[i - 1] = F[i - 1][f[i - 2]]
        BY <1>6, <4>0
      <4>2. f[i - 2] \in Seq(S)
        BY <1>6, <4>0
      <4>3. F[i - 1][f[i - 2]] = f[i - 2] \o s[(i - 1) + 1]
        BY <1>5, <4>0, <4>2, Zenon
      <4>4. QED
        BY <3>1, <3>3, <4>0, <4>1, <4>3, Zenon
    <3>4. QED
      BY <3>2, <3>3
  <2>2. h = [i \in 1 .. N |-> h[i]]
    OBVIOUS
  <2> HIDE DEF h
  <2>3. QED
    BY <2>1, <2>2, Zenon
<1> HIDE DEF P, h
<1>8. P(p)
  BY <1>3, <1>7
<1>9. /\ p[1] = s[1]
      /\ \A i \in 2 .. N : p[i] = p[i - 1] \o s[i]
  <2>1. \A i \in 1 .. N : p[i] = IF i = 1 THEN s[i] ELSE p[i - 1] \o s[i]
    BY <1>8, Zenon DEF P
  <2>2. 1 \in 1 .. N /\ \A i \in 2 .. N : i \in 1 .. N /\ i # 1
    BY <1>1
  <2>3. QED
    BY <2>1, <2>2, Zenon
<1>10. \A q \in 1 .. N : p[q] \in Seq(S)
  <2> SUFFICES ASSUME NEW q \in 1 .. N PROVE p[q] \in Seq(S)
    OBVIOUS
  <2> DEFINE T == {n \in 0 .. q - 1 : p[n + 1] \in Seq(S)}
  <2>1. 0 \in T
    BY <1>1, <1>9
  <2>2. ASSUME NEW n \in 0 .. (q - 1) - 1, n \in T PROVE n + 1 \in T
    <3>1. /\ n + 2 \in 2 .. N /\ (n + 2) - 1 = n + 1 /\ (n + 1) + 1 = n + 2
          /\ p[n + 1] \in Seq(S) /\ n + 1 \in 0 .. q - 1
      BY <1>1, <2>2
    <3>2. p[n + 2] = p[(n + 2) - 1] \o s[n + 2]
      BY <1>9, <3>1, Zenon
    <3>4. s[n + 2] \in Seq(S)
      BY <1>1, <3>1
    <3>3. p[n + 2] \in Seq(S)
      BY <3>1, <3>2, <3>4, ConcatProperties
    <3>5. QED
      BY <3>1, <3>3
  <2> HIDE DEF T
  <2>3. q - 1 \in T
    <3>1. q - 1 \in Nat
      BY <1>1
    <3>2. QED
      BY <2>1, <2>2, <3>1, SetInduction
  <2>4. QED
    BY <1>1, <2>3 DEF T
<1>11. QED
  BY <1>2, <1>9, <1>10, Zenon DEF N, p

LEMMA FlattenType ==
  ASSUME NEW S, NEW s \in Seq(Seq(S))
  PROVE  FlattenSeq(s) \in Seq(S) /\ (s = <<>> => FlattenSeq(s) = <<>>)
<1>1. CASE s = <<>>
  <2>1. FlattenSeq(s) = <<>>
    BY <1>1 DEF FlattenSeq
  <2>2. QED
    BY <1>1, <2>1, EmptySeq, Zenon
<1>2. CASE s # <<>>
  <2>1. Len(s) \in Nat \ {0}
    BY <1>2, EmptySeq
  <2>2. FlattenSeq(s) = Partial(s)[Len(s)] /\ \A i \in 1 .. Len(s) : Partial(s)[i] \in Seq(S)
    BY <2>1, PartialSteps, Zenon
  <2>3. QED
    BY <1>2, <2>1, <2>2
<1>3. QED
  BY <1>1, <1>2

(* A sequence put behind the others comes out behind what they come out as. *)
LEMMA FlattenAppend ==
  ASSUME NEW S, NEW s \in Seq(Seq(S)), NEW x \in Seq(S)
  PROVE  FlattenSeq(Append(s, x)) = FlattenSeq(s) \o x
<1> DEFINE t == Append(s, x)
           n == Len(s)
<1>1. /\ t \in Seq(Seq(S)) /\ Len(t) = n + 1 /\ n \in Nat /\ t[n + 1] = x
      /\ \A i \in 1 .. n : t[i] = s[i]
  BY AppendProperties, LenProperties
<1> HIDE DEF t
<1>0. /\ FlattenSeq(t) = Partial(t)[n + 1] /\ Partial(t)[1] = t[1]
      /\ \A i \in 2 .. n + 1 : Partial(t)[i] = Partial(t)[i - 1] \o t[i]
  <2>1. Len(t) # 0
    BY <1>1
  <2>2. /\ FlattenSeq(t) = Partial(t)[Len(t)] /\ Partial(t)[1] = t[1]
        /\ \A i \in 2 .. Len(t) : Partial(t)[i] = Partial(t)[i - 1] \o t[i]
    BY <1>1, <2>1, PartialSteps, Zenon
  <2>3. QED
    BY <1>1, <2>2, Zenon
<1>2. CASE s = <<>>
  <2>1. n = 0
    BY <1>2
  <2>2. FlattenSeq(t) = t[1]
    BY <1>0, <2>1
  <2>3. FlattenSeq(s) = <<>>
    BY <1>2, FlattenType, Zenon
  <2>4. QED
    BY <1>1, <2>1, <2>2, <2>3, ConcatEmptySeq DEF t
<1>3. CASE s # <<>>
  <2>1. n \in Nat \ {0}
    BY <1>3, EmptySeq
  <2>2. /\ FlattenSeq(s) = Partial(s)[n] /\ Partial(s)[1] = s[1]
        /\ \A i \in 2 .. n : Partial(s)[i] = Partial(s)[i - 1] \o s[i]
    BY <2>1, PartialSteps, Zenon
  <2>3. /\ FlattenSeq(t) = Partial(t)[n + 1] /\ Partial(t)[1] = t[1]
        /\ \A i \in 2 .. n + 1 : Partial(t)[i] = Partial(t)[i - 1] \o t[i]
    BY <1>0, Zenon
  <2> DEFINE T == {i \in 0 .. n - 1 : Partial(t)[i + 1] = Partial(s)[i + 1]}
  <2>4. 0 \in T
    BY <1>1, <2>1, <2>2, <2>3
  <2>5. ASSUME NEW i \in 0 .. (n - 1) - 1, i \in T PROVE i + 1 \in T
    <3>1. /\ i + 2 \in 2 .. n /\ i + 2 \in 2 .. n + 1 /\ i + 2 \in 1 .. n /\ (i + 2) - 1 = i + 1
          /\ (i + 1) + 1 = i + 2 /\ i + 1 \in 0 .. n - 1
          /\ Partial(t)[i + 1] = Partial(s)[i + 1]
      BY <1>1, <2>5
    <3>2. /\ Partial(t)[i + 2] = Partial(t)[i + 1] \o t[i + 2]
          /\ Partial(s)[i + 2] = Partial(s)[i + 1] \o s[i + 2]
          /\ t[i + 2] = s[i + 2]
      BY <1>1, <2>2, <2>3, <3>1, Zenon
    <3>3. QED
      BY <3>1, <3>2, Zenon
  <2> HIDE DEF T
  <2>6. n - 1 \in T
    <3>1. n - 1 \in Nat
      BY <2>1
    <3>2. QED
      BY <2>4, <2>5, <3>1, SetInduction
  <2>7. Partial(t)[n] = Partial(s)[n]
    BY <2>1, <2>6 DEF T
  <2>8. Partial(t)[n + 1] = Partial(t)[n] \o x
    <3>1. n + 1 \in 2 .. n + 1 /\ (n + 1) - 1 = n
      BY <2>1
    <3>2. Partial(t)[n + 1] = Partial(t)[(n + 1) - 1] \o t[n + 1]
      BY <2>3, <3>1, Zenon
    <3>3. QED
      BY <1>1, <3>1, <3>2, Zenon
  <2>9. QED
    BY <2>2, <2>3, <2>7, <2>8 DEF t
<1>4. QED
  BY <1>2, <1>3

(* A part of a sequence and the element behind it.                          *)
LEMMA PartAppend ==
  ASSUME NEW S, NEW s \in Seq(S), NEW m \in 1 .. Len(s), NEW n \in m - 1 .. Len(s) - 1
  PROVE  /\ SubSeq(s, m, n) \in Seq(S)
         /\ SubSeq(s, m, n + 1) = Append(SubSeq(s, m, n), s[n + 1])
<1>1. /\ Len(s) \in Nat /\ m \in Int /\ n \in Int /\ n + 1 \in Int /\ n + 1 \in 1 .. Len(s)
      /\ n + 1 \in m .. Len(s) /\ (n + 1) - 1 = n
  BY LenProperties
<1>2. s[n + 1] \in S /\ \A i \in m .. n : s[i] \in S
  BY <1>1, ElementOfSeq
<1>3. SubSeq(s, m, n) \in Seq(S)
  BY <1>1, <1>2, SubSeqProperties
<1>4. SubSeq(s, m, n + 1) = SubSeq(s, m, n) \o <<s[n + 1]>>
  BY <1>1, SubSeqRecursiveSecond
<1>5. QED
  BY <1>2, <1>3, <1>4, AppendIsConcat

Associates(S) == \A u, v, w \in Seq(S) : (u \o v) \o w = u \o (v \o w)

LEMMA Regroup ==
  ASSUME NEW S PROVE Associates(S)
  BY ConcatAssociative DEF Associates

(* The first sequence comes out in front of what the others come out as.    *)
LEMMA FlattenFirst ==
  ASSUME NEW S, NEW s \in Seq(Seq(S)), s # <<>>
  PROVE  FlattenSeq(s) = Head(s) \o FlattenSeq(Tail(s))
<1> DEFINE N == Len(s)
           T == {i \in 0 .. N - 1 :
                   FlattenSeq(SubSeq(s, 1, i + 1)) = s[1] \o FlattenSeq(SubSeq(s, 2, i + 1))}
<1>1. N \in Nat \ {0} /\ s[1] \in Seq(S) /\ \A i \in 1 .. N : s[i] \in Seq(S)
  BY EmptySeq, ElementOfSeq
<1>2. 0 \in T
  <2>1. SubSeq(s, 2, 1) = <<>>
    BY SubSeqEmpty
  <2>2. SubSeq(s, 1, 1) = Append(<<>>, s[1])
    <3>1. 1 \in 1 .. N /\ 0 \in 1 - 1 .. N - 1
      BY <1>1
    <3> DEFINE e == 0
    <3>2. SubSeq(s, 1, e + 1) = Append(SubSeq(s, 1, e), s[e + 1])
      BY <3>1, PartAppend
    <3>3. e + 1 = 1 /\ SubSeq(s, 1, e) = <<>>
      BY SubSeqEmpty
    <3> HIDE DEF e
    <3>4. QED
      BY <3>2, <3>3, Zenon
  <2>3. <<>> \in Seq(Seq(S)) /\ FlattenSeq(<<>>) = <<>>
    BY FlattenType, EmptySeq, Zenon
  <2>4. FlattenSeq(Append(<<>>, s[1])) = <<>> \o s[1]
    BY <1>1, <2>3, FlattenAppend, Zenon
  <2>5. <<>> \o s[1] = s[1] \o <<>>
    BY <1>1, ConcatEmptySeq
  <2>6. 0 \in 0 .. N - 1 /\ 0 + 1 = 1
    BY <1>1
  <2>7. QED
    BY <2>1, <2>2, <2>3, <2>4, <2>5, <2>6, Zenon
<1>3. ASSUME NEW i \in 0 .. (N - 1) - 1, i \in T PROVE i + 1 \in T
  <2> DEFINE a == SubSeq(s, 1, i + 1)
             b == SubSeq(s, 2, i + 1)
             x == s[i + 2]
  <2>1. i + 1 \in 0 .. N - 1 /\ i + 2 \in 1 .. N /\ (i + 1) + 1 = i + 2 /\ N \in Nat
    BY <1>1
  <2>2. FlattenSeq(a) = s[1] \o FlattenSeq(b)
    BY <1>3, Zenon
  <2>3. a \in Seq(Seq(S)) /\ SubSeq(s, 1, i + 2) = Append(a, x)
    <3>1. 1 \in 1 .. Len(s) /\ i + 1 \in 1 - 1 .. Len(s) - 1
      BY <1>1, <2>1
    <3>2. SubSeq(s, 1, (i + 1) + 1) = Append(SubSeq(s, 1, i + 1), s[(i + 1) + 1])
          /\ SubSeq(s, 1, i + 1) \in Seq(Seq(S))
      BY <3>1, PartAppend
    <3>3. QED
      BY <2>1, <3>2
  <2>4. b \in Seq(Seq(S)) /\ SubSeq(s, 2, i + 2) = Append(b, x)
    <3>1. 2 \in 1 .. Len(s) /\ i + 1 \in 2 - 1 .. Len(s) - 1
      BY <1>1, <2>1
    <3>2. SubSeq(s, 2, (i + 1) + 1) = Append(SubSeq(s, 2, i + 1), s[(i + 1) + 1])
          /\ SubSeq(s, 2, i + 1) \in Seq(Seq(S))
      BY <3>1, PartAppend
    <3>3. QED
      BY <2>1, <3>2
  <2>5. x \in Seq(S)
    BY <1>1, <2>1
  <2> HIDE DEF a, b, x
  <2>6. /\ FlattenSeq(Append(a, x)) = FlattenSeq(a) \o x
        /\ FlattenSeq(Append(b, x)) = FlattenSeq(b) \o x
        /\ FlattenSeq(b) \in Seq(S)
    BY <2>3, <2>4, <2>5, FlattenAppend, FlattenType, Zenon
  <2>7. (s[1] \o FlattenSeq(b)) \o x = s[1] \o (FlattenSeq(b) \o x)
    <3>1. s[1] \in Seq(S) /\ FlattenSeq(b) \in Seq(S) /\ x \in Seq(S)
      BY <1>1, <2>5, <2>6
    <3>2. Associates(S)
      BY Regroup
    <3>3. QED
      BY <3>1, <3>2, Zenon DEF Associates
  <2>8. FlattenSeq(SubSeq(s, 1, i + 2)) = s[1] \o FlattenSeq(SubSeq(s, 2, i + 2))
    BY <2>2, <2>3, <2>4, <2>6, <2>7, Zenon
  <2>9. QED
    BY <2>1, <2>8, Zenon
<1> HIDE DEF T
<1>4. N - 1 \in T
  <2>1. N - 1 \in Nat
    BY <1>1
  <2>2. QED
    BY <1>2, <1>3, <2>1, SetInduction
<1>5. FlattenSeq(SubSeq(s, 1, N)) = s[1] \o FlattenSeq(SubSeq(s, 2, N))
  <2>1. (N - 1) + 1 = N
    BY <1>1
  <2>2. FlattenSeq(SubSeq(s, 1, (N - 1) + 1)) = s[1] \o FlattenSeq(SubSeq(s, 2, (N - 1) + 1))
    BY <1>4, Zenon DEF T
  <2>3. QED
    BY <2>1, <2>2, Zenon
<1>6. SubSeq(s, 1, N) = s /\ SubSeq(s, 2, N) = Tail(s) /\ Head(s) = s[1]
  BY SubSeqFull, TailIsSubSeq
<1>7. QED
  BY <1>5, <1>6, Zenon
=============================================================================
