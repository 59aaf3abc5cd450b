------------------------- MODULE Primitives_proofs --------------------------
(***************************************************************************)
(* Proofs about what the boxes are built on: the block cipher (Rounds), the*)
(* counter of CTR (Counter) and keys as text (Parsing).  Modes assumes of  *)
(* Enc, Dec and Inc what the first two show of the code.  The three modules*)
(* have no variable in common, and each theorem names its specification.   *)
(***************************************************************************)
EXTENDS Rounds, Counter, Parsing, SequenceTheorems, WellFoundedInduction, TLAPS

-----------------------------------------------------------------------------
(***************************************************************************)
(* The block cipher, for any number of rounds, any round keys and any four *)
(* transformations with the laws assumed of them.                          *)
(***************************************************************************)
(* What the decryption keys are.                                            *)
LEMMA DecryptionKeysType ==
  ASSUME NEW keys \in [0 .. Rounds -> State]
  PROVE  /\ DecryptionKeys(keys) \in [0 .. Rounds -> State]
         /\ DecryptionKeys(keys)[0] = keys[Rounds]
         /\ DecryptionKeys(keys)[Rounds] = keys[0]
         /\ \A r \in 1 .. Rounds - 1 :
              DecryptionKeys(keys)[r] = InvMixColumns(keys[Rounds - r])
<1>1. ASSUME NEW r \in 0 .. Rounds
      PROVE  /\ Rounds - r \in 0 .. Rounds
             /\ keys[Rounds - r] \in State
             /\ AesImc(keys[Rounds - r]) \in State
  BY RoundsAssumption, MixColumnsLaws DEF AesImc
<1>2. DecryptionKeys(keys) \in [0 .. Rounds -> State]
  BY <1>1 DEF DecryptionKeys
<1>3. /\ 0 \in 0 .. Rounds /\ Rounds \in 0 .. Rounds /\ Rounds # 0
      /\ Rounds - 0 = Rounds /\ Rounds - Rounds = 0
  BY RoundsAssumption
<1>4. DecryptionKeys(keys)[0] = keys[Rounds] /\ DecryptionKeys(keys)[Rounds] = keys[0]
  BY <1>3 DEF DecryptionKeys
<1>5. ASSUME NEW r \in 1 .. Rounds - 1
      PROVE  DecryptionKeys(keys)[r] = InvMixColumns(keys[Rounds - r])
  <2>1. r \in 0 .. Rounds /\ r \notin {0, Rounds}
    BY RoundsAssumption
  <2>2. QED
    BY <2>1 DEF DecryptionKeys, AesImc
<1>6. QED
  BY <1>2, <1>4, <1>5

(* Two instructions of opposite directions, seen through the register.      *)
LEMMA InstructionTypes ==
  ASSUME NEW b \in State, NEW k \in State
  PROVE  /\ AesEnc(b, k) \in State /\ AesEncLast(b, k) \in State
         /\ AesDec(b, k) \in State /\ AesDecLast(b, k) \in State
         /\ ShiftRows(SubBytes(b)) \in State /\ InvSubBytes(InvShiftRows(b)) \in State
  BY XorLaws, SubBytesLaws, ShiftRowsLaws, MixColumnsLaws
     DEF AesEnc, AesEncLast, AesDec, AesDecLast

LEMMA HalfRounds ==
  ASSUME NEW b \in State
  PROVE  /\ InvSubBytes(InvShiftRows(ShiftRows(SubBytes(b)))) = b
         /\ ShiftRows(SubBytes(InvSubBytes(InvShiftRows(b)))) = b
         /\ SubBytes(ShiftRows(b)) = ShiftRows(SubBytes(b))
<1>1. SubBytes(b) \in State /\ InvShiftRows(b) \in State
  BY SubBytesLaws, ShiftRowsLaws
<1>2. QED
  BY <1>1, SubBytesLaws, ShiftRowsLaws, CommutingLaws

(* A decryption round takes the middle of one encryption round to the       *)
(* middle of the one before.                                                *)
LEMMA DecryptionRetraces ==
  ASSUME NEW b \in State, NEW k \in State
  PROVE  AesDec(ShiftRows(SubBytes(AesEnc(b, k))), InvMixColumns(k))
           = ShiftRows(SubBytes(b))
<1> DEFINE mid == ShiftRows(SubBytes(b))
           e == Xor(MixColumns(mid), k)
<1>1. mid \in State /\ SubBytes(ShiftRows(b)) = mid
  BY InstructionTypes, HalfRounds
<1>2. MixColumns(mid) \in State /\ InvMixColumns(MixColumns(mid)) = mid
  BY <1>1, MixColumnsLaws
<1>3. e \in State /\ Xor(e, k) = MixColumns(mid)
  BY <1>2, XorLaws
<1>4. InvSubBytes(InvShiftRows(ShiftRows(SubBytes(e)))) = e
  BY <1>3, HalfRounds
<1>5. Xor(InvMixColumns(e), InvMixColumns(k)) = mid
  BY <1>2, <1>3, CommutingLaws
<1>6. AesEnc(b, k) = e
  BY <1>1 DEF AesEnc
<1>7. QED
  BY <1>4, <1>5, <1>6 DEF AesDec

(* And an encryption round takes back what a decryption round came from.    *)
LEMMA EncryptionRetraces ==
  ASSUME NEW b \in State, NEW k \in State
  PROVE  AesEnc(InvSubBytes(InvShiftRows(AesDec(b, InvMixColumns(k)))), k)
           = InvSubBytes(InvShiftRows(b))
<1> DEFINE back == InvSubBytes(InvShiftRows(b))
           d == Xor(InvMixColumns(back), InvMixColumns(k))
<1>1. back \in State /\ InvMixColumns(k) \in State /\ InvMixColumns(back) \in State
  BY InstructionTypes, MixColumnsLaws
<1>2. d \in State /\ d = InvMixColumns(Xor(back, k)) /\ Xor(back, k) \in State
  BY <1>1, XorLaws, CommutingLaws
<1>3. MixColumns(d) = Xor(back, k)
  BY <1>2, MixColumnsLaws
<1>4. Xor(MixColumns(d), k) = back
  BY <1>1, <1>3, XorLaws
<1>5. /\ InvSubBytes(InvShiftRows(d)) \in State
      /\ ShiftRows(SubBytes(InvSubBytes(InvShiftRows(d)))) = d
  BY <1>2, InstructionTypes, HalfRounds
<1>6. SubBytes(ShiftRows(InvSubBytes(InvShiftRows(d)))) = d
  BY <1>5, HalfRounds
<1>7. AesDec(b, InvMixColumns(k)) = d
  BY DEF AesDec
<1>8. QED
  BY <1>4, <1>6, <1>7 DEF AesEnc

-----------------------------------------------------------------------------
(* The path is one an encryption takes, as far as it has been recorded.     *)
Chain(lo, hi) ==
  \A r \in lo .. hi : path[r] = AesEnc(path[r - 1], encryption_keys[r])

PathStarts == path[0] = Xor(given, encryption_keys[0])

PathEnds == given = AesEncLast(path[Rounds - 1], encryption_keys[Rounds])

(* Where the block is, on the way out and on the way back.                  *)
WayOut ==
  /\ phase = "expanded" => round = 0
  /\ (phase \in {"expanded", first} /\ round = 0) => reg = given
  /\ (phase = first /\ first = "encrypt" /\ round > 0) => PathStarts /\ Chain(1, round - 1)
  /\ (phase = first /\ first = "decrypt" /\ round > 0) =>
       PathEnds /\ Chain(Rounds - round + 1, Rounds - 1)

WayBack ==
  /\ (phase = "decrypt" /\ first = "encrypt") =>
       /\ PathStarts /\ Chain(1, Rounds - 1)
       /\ round = 0 => reg = AesEncLast(path[Rounds - 1], encryption_keys[Rounds])
  /\ (phase = "encrypt" /\ first = "decrypt") =>
       /\ PathEnds /\ Chain(1, Rounds - 1)
       /\ round = 0 => reg = Xor(path[0], encryption_keys[0])

KeysDerived ==
  phase # "expanded" => decryption_keys = DecryptionKeys(encryption_keys)

RoundsInv == RoundsTypeOK /\ KeysDerived /\ WayOut /\ WayBack /\ Retraces /\ ComesBack

LEMMA RoundsInvInit == RoundsInit => RoundsInv
<1> SUFFICES ASSUME RoundsInit PROVE RoundsInv
  OBVIOUS
<1>1. RoundsTypeOK
  BY RoundsAssumption DEF RoundsInit, RoundsTypeOK
<1>2. QED
  BY <1>1 DEF RoundsInit, RoundsInv, KeysDerived, WayOut, WayBack, Retraces, ComesBack

LEMMA DerivePreservesInv ==
  ASSUME RoundsInv, DeriveDecryptionKeys
  PROVE  RoundsInv'
<1>1. RoundsTypeOK'
  BY DecryptionKeysType DEF RoundsInv, RoundsTypeOK, DeriveDecryptionKeys
<1>2. QED
  BY <1>1, RoundsAssumption
     DEF RoundsInv, RoundsTypeOK, DeriveDecryptionKeys, KeysDerived, WayOut, WayBack, Retraces,
         ComesBack

LEMMA FirstKeyPreservesInv ==
  ASSUME RoundsInv, XorFirstKey
  PROVE  RoundsInv'
<1> DEFINE b == Xor(reg, encryption_keys[0])
<1>1. /\ RoundsTypeOK /\ 0 \in 0 .. Rounds /\ 0 \in 0 .. Rounds - 1 /\ 1 \in 0 .. Rounds
      /\ b \in State /\ phase = "encrypt" /\ round = 0 /\ encryption_keys[0] \in State
  BY RoundsAssumption, XorLaws DEF RoundsInv, RoundsTypeOK, XorFirstKey
<1>2. /\ RoundsTypeOK' /\ reg' = b /\ round' = 1
      /\ UNCHANGED <<encryption_keys, decryption_keys, phase, first, given>>
  BY <1>1 DEF RoundsTypeOK, XorFirstKey, Reached
<1>3. CASE first = "encrypt"
  <2>1. path' = [path EXCEPT ![0] = b] /\ path'[0] = b
    BY <1>1, <1>3 DEF XorFirstKey, Reached, RoundsTypeOK
  <2>2. reg = given
    BY <1>1, <1>3 DEF RoundsInv, WayOut
  <2>3. PathStarts' /\ Chain(1, 0)'
    BY <1>2, <2>1, <2>2 DEF PathStarts, Chain
  <2>4. QED
    BY <1>1, <1>2, <1>3, <2>1, <2>3
       DEF RoundsInv, KeysDerived, WayOut, WayBack, Retraces, ComesBack
<1>4. CASE first = "decrypt"
  <2>1. path' = path
    BY <1>4 DEF XorFirstKey, Reached
  <2>2. reg = Xor(path[0], encryption_keys[0]) /\ PathEnds /\ Chain(1, Rounds - 1)
    BY <1>1, <1>4 DEF RoundsInv, WayBack
  <2>3. b = path[0]
    BY <1>1, <2>2, XorLaws DEF RoundsTypeOK
  <2>4. PathEnds' /\ Chain(1, Rounds - 1)'
    BY <1>2, <2>1, <2>2 DEF PathEnds, Chain
  <2>5. QED
    BY <1>1, <1>2, <1>4, <2>1, <2>3, <2>4
       DEF RoundsInv, KeysDerived, WayOut, WayBack, Retraces, ComesBack
<1>5. QED
  BY <1>1, <1>3, <1>4 DEF RoundsTypeOK

LEMMA EncryptRoundPreservesInv ==
  ASSUME RoundsInv, EncryptRound
  PROVE  RoundsInv'
<1> DEFINE b == AesEnc(reg, encryption_keys[round])
<1>1. /\ RoundsTypeOK /\ round \in 1 .. Rounds - 1 /\ round \in 0 .. Rounds
      /\ round \in 0 .. Rounds - 1 /\ round + 1 \in 0 .. Rounds
      /\ phase = "encrypt" /\ encryption_keys[round] \in State /\ reg = path[round - 1]
  BY RoundsAssumption DEF RoundsInv, RoundsTypeOK, EncryptRound, Retraces
<1>2. b \in State
  BY <1>1, InstructionTypes DEF RoundsTypeOK
<1>3. /\ RoundsTypeOK' /\ reg' = b /\ round' = round + 1
      /\ UNCHANGED <<encryption_keys, decryption_keys, phase, first, given>>
  BY <1>1, <1>2 DEF RoundsTypeOK, EncryptRound, Reached
<1>4. CASE first = "encrypt"
  <2>1. /\ path' = [path EXCEPT ![round] = b] /\ path'[round] = b
        /\ \A r \in 0 .. round - 1 : path'[r] = path[r]
    BY <1>1, <1>4, RoundsAssumption DEF EncryptRound, Reached, RoundsTypeOK
  <2>2. PathStarts /\ Chain(1, round - 1)
    BY <1>1, <1>4 DEF RoundsInv, WayOut
  <2>3. PathStarts'
    BY <1>1, <1>3, <2>1, <2>2 DEF PathStarts
  <2>4. Chain(1, round - 1)'
    <3>1. ASSUME NEW r \in 1 .. round
          PROVE  path'[r] = AesEnc(path'[r - 1], encryption_keys[r])
      <4>1. path'[r - 1] = path[r - 1]
        BY <1>1, <2>1
      <4>2. CASE r = round
        BY <1>1, <2>1, <4>1, <4>2
      <4>3. CASE r # round
        BY <1>1, <2>1, <2>2, <4>1, <4>3 DEF Chain
      <4>4. QED
        BY <4>2, <4>3
    <3>2. \A r \in 1 .. round' - 1 : path'[r] = AesEnc(path'[r - 1], encryption_keys[r])
      BY <1>1, <1>3, <3>1
    <3>3. QED
      BY <1>1, <1>3, <3>2 DEF Chain
  <2>5. QED
    BY <1>1, <1>3, <1>4, <2>1, <2>3, <2>4
       DEF RoundsInv, KeysDerived, WayOut, WayBack, Retraces, ComesBack, Chain
<1>5. CASE first = "decrypt"
  <2>1. path' = path
    BY <1>5 DEF EncryptRound, Reached
  <2>2. PathEnds /\ Chain(1, Rounds - 1)
    BY <1>1, <1>5 DEF RoundsInv, WayBack
  <2>3. b = path[round]
    BY <1>1, <2>2 DEF Chain
  <2>4. PathEnds' /\ Chain(1, Rounds - 1)'
    BY <1>3, <2>1, <2>2 DEF PathEnds, Chain
  <2>5. QED
    BY <1>1, <1>3, <1>5, <2>1, <2>3, <2>4
       DEF RoundsInv, KeysDerived, WayOut, WayBack, Retraces, ComesBack
<1>6. QED
  BY <1>1, <1>4, <1>5 DEF RoundsTypeOK

LEMMA EncryptLastPreservesInv ==
  ASSUME RoundsInv, EncryptLastRound
  PROVE  RoundsInv'
<1> DEFINE b == AesEncLast(reg, encryption_keys[Rounds])
<1>1. /\ RoundsTypeOK /\ Rounds \in 0 .. Rounds /\ round = Rounds /\ round > 0
      /\ phase = "encrypt" /\ encryption_keys[Rounds] \in State /\ b \in State
      /\ reg = path[Rounds - 1]
  <2>1. /\ RoundsTypeOK /\ Rounds \in 0 .. Rounds /\ round = Rounds /\ round > 0
        /\ phase = "encrypt" /\ reg = path[Rounds - 1]
    BY RoundsAssumption DEF RoundsInv, EncryptLastRound, Retraces
  <2>2. reg \in State /\ encryption_keys[Rounds] \in State
    BY <2>1 DEF RoundsTypeOK
  <2>3. QED
    BY <2>1, <2>2, InstructionTypes
<1>2. /\ reg' = b /\ round' = 0 /\ phase' = Turn("encrypt")
      /\ UNCHANGED <<encryption_keys, decryption_keys, first, given, path>>
  BY DEF EncryptLastRound
<1>3. RoundsTypeOK'
  BY <1>1, <1>2, RoundsAssumption DEF RoundsTypeOK, Turn
<1>4. CASE first = "encrypt"
  <2>1. phase' = "decrypt" /\ PathStarts /\ Chain(1, Rounds - 1)
    BY <1>1, <1>2, <1>4 DEF Turn, RoundsInv, WayOut
  <2>2. PathStarts' /\ Chain(1, Rounds - 1)'
    BY <1>2, <2>1 DEF PathStarts, Chain
  <2>3. QED
    BY <1>1, <1>2, <1>3, <1>4, <2>1, <2>2
       DEF RoundsInv, KeysDerived, WayOut, WayBack, Retraces, ComesBack
<1>5. CASE first = "decrypt"
  <2>1. phase' = "done" /\ PathEnds
    BY <1>1, <1>2, <1>5 DEF Turn, RoundsInv, WayBack
  <2>2. b = given
    BY <1>1, <2>1 DEF PathEnds
  <2>3. QED
    BY <1>1, <1>2, <1>3, <1>5, <2>1, <2>2
       DEF RoundsInv, KeysDerived, WayOut, WayBack, Retraces, ComesBack
<1>6. QED
  BY <1>1, <1>4, <1>5 DEF RoundsTypeOK

LEMMA LastKeyPreservesInv ==
  ASSUME RoundsInv, XorLastKey
  PROVE  RoundsInv'
<1> DEFINE b == Xor(reg, decryption_keys[0])
           k == encryption_keys[Rounds]
<1>1. /\ RoundsTypeOK /\ 0 \in 0 .. Rounds /\ 1 \in 0 .. Rounds /\ Rounds - 1 \in 0 .. Rounds - 1
      /\ phase = "decrypt" /\ round = 0 /\ k \in State /\ decryption_keys[0] = k
      /\ b \in State
  <2>1. /\ RoundsTypeOK /\ phase = "decrypt" /\ round = 0 /\ Rounds \in 0 .. Rounds
        /\ 0 \in 0 .. Rounds /\ 1 \in 0 .. Rounds /\ Rounds - 1 \in 0 .. Rounds - 1
    BY RoundsAssumption DEF RoundsInv, XorLastKey
  <2>2. k \in State /\ decryption_keys[0] = k
    BY <2>1, DecryptionKeysType DEF RoundsInv, KeysDerived, RoundsTypeOK
  <2>3. QED
    BY <2>1, <2>2, XorLaws DEF RoundsTypeOK
<1>2. InvSubBytes(InvShiftRows(b)) \in State
  BY <1>1, InstructionTypes
<1>3. /\ RoundsTypeOK' /\ reg' = b /\ round' = 1
      /\ UNCHANGED <<encryption_keys, decryption_keys, phase, first, given>>
  BY <1>1, <1>2 DEF RoundsTypeOK, XorLastKey, Retraced
<1>4. CASE first = "encrypt"
  <2>1. /\ path' = path /\ PathStarts /\ Chain(1, Rounds - 1)
        /\ reg = AesEncLast(path[Rounds - 1], k)
    BY <1>1, <1>4 DEF XorLastKey, Retraced, RoundsInv, WayBack
  <2>2. path[Rounds - 1] \in State
    BY <1>1 DEF RoundsTypeOK
  <2>3. b = ShiftRows(SubBytes(path[Rounds - 1]))
    BY <1>1, <2>1, <2>2, HalfRounds, InstructionTypes, XorLaws DEF AesEncLast
  <2>4. PathStarts' /\ Chain(1, Rounds - 1)'
    BY <1>3, <2>1 DEF PathStarts, Chain
  <2>5. QED
    BY <1>1, <1>3, <1>4, <2>1, <2>3, <2>4
       DEF RoundsInv, KeysDerived, WayOut, WayBack, Retraces, ComesBack
<1>5. CASE first = "decrypt"
  <2>1. reg = given
    BY <1>1, <1>5 DEF RoundsInv, WayOut
  <2>2. path'[Rounds - 1] = InvSubBytes(InvShiftRows(b))
    BY <1>1, <1>5, RoundsAssumption DEF XorLastKey, Retraced, RoundsTypeOK
  <2>3. b = ShiftRows(SubBytes(path'[Rounds - 1]))
    BY <1>1, <2>2, HalfRounds
  <2>4. AesEncLast(path'[Rounds - 1], k) = given
    <3>1. SubBytes(ShiftRows(path'[Rounds - 1])) = b
      BY <1>1, <1>2, <2>2, <2>3, HalfRounds
    <3>2. Xor(b, k) = given
      BY <1>1, <2>1, XorLaws DEF RoundsTypeOK
    <3>3. QED
      BY <3>1, <3>2 DEF AesEncLast
  <2>5. PathEnds' /\ Chain(Rounds - round + 1, Rounds - 1)'
    BY <1>3, <2>4, RoundsAssumption DEF PathEnds, Chain
  <2>6. QED
    BY <1>1, <1>3, <1>5, <2>3, <2>5
       DEF RoundsInv, KeysDerived, WayOut, WayBack, Retraces, ComesBack
<1>6. QED
  BY <1>1, <1>4, <1>5 DEF RoundsTypeOK

LEMMA DecryptRoundPreservesInv ==
  ASSUME RoundsInv, DecryptRound
  PROVE  RoundsInv'
<1> DEFINE b == AesDec(reg, decryption_keys[round])
           m == Rounds - round
           k == encryption_keys[m]
<1>1. /\ RoundsTypeOK /\ round \in 1 .. Rounds - 1 /\ round + 1 \in 0 .. Rounds
      /\ m \in 1 .. Rounds - 1 /\ m - 1 \in 0 .. Rounds - 1 /\ m \in 0 .. Rounds - 1
      /\ m \in 0 .. Rounds /\ Rounds - 1 - round = m - 1 /\ round \in 0 .. Rounds
      /\ phase = "decrypt"
  <2>1. RoundsTypeOK /\ round \in 1 .. Rounds - 1 /\ phase = "decrypt"
    BY DEF RoundsInv, DecryptRound
  <2>2. Rounds \in Nat /\ round \in Nat
    BY <2>1, RoundsAssumption
  <2>3. QED
    BY <2>1, <2>2
<1>2. k \in State /\ decryption_keys[round] = InvMixColumns(k) /\ InvMixColumns(k) \in State
  <2>1. decryption_keys = DecryptionKeys(encryption_keys)
    BY <1>1 DEF RoundsInv, KeysDerived
  <2>2. k \in State
    BY <1>1 DEF RoundsTypeOK
  <2>3. decryption_keys[round] = InvMixColumns(k)
    BY <1>1, <2>1, RoundsAssumption DEF DecryptionKeys, AesImc
  <2>4. QED
    BY <2>2, <2>3, MixColumnsLaws
<1>3. b \in State /\ InvSubBytes(InvShiftRows(b)) \in State
  BY <1>1, <1>2, InstructionTypes DEF RoundsTypeOK
<1>4. reg = ShiftRows(SubBytes(path[m]))
  BY <1>1 DEF RoundsInv, Retraces
<1>5. /\ RoundsTypeOK' /\ reg' = b /\ round' = round + 1
      /\ UNCHANGED <<encryption_keys, decryption_keys, phase, first, given>>
  BY <1>1, <1>3 DEF RoundsTypeOK, DecryptRound, Retraced
<1>6. CASE first = "encrypt"
  <2>1. path' = path /\ PathStarts /\ Chain(1, Rounds - 1)
    BY <1>1, <1>6 DEF DecryptRound, Retraced, RoundsInv, WayBack
  <2>2. path[m] = AesEnc(path[m - 1], k) /\ path[m - 1] \in State
    BY <1>1, <2>1 DEF Chain, RoundsTypeOK
  <2>3. b = ShiftRows(SubBytes(path[m - 1]))
    BY <1>2, <1>4, <2>2, DecryptionRetraces
  <2>4. PathStarts' /\ Chain(1, Rounds - 1)'
    BY <1>5, <2>1 DEF PathStarts, Chain
  <2>5. Rounds - round' = m - 1
    BY <1>1, <1>5, RoundsAssumption
  <2>6. QED
    BY <1>1, <1>5, <1>6, <2>1, <2>3, <2>4, <2>5
       DEF RoundsInv, KeysDerived, WayOut, WayBack, Retraces, ComesBack
<1>7. CASE first = "decrypt"
  <2>1. PathEnds /\ Chain(m + 1, Rounds - 1)
    BY <1>1, <1>7 DEF RoundsInv, WayOut
  <2>2. /\ path'[m - 1] = InvSubBytes(InvShiftRows(b))
        /\ \A r \in m .. Rounds - 1 : path'[r] = path[r]
    BY <1>1, <1>7, RoundsAssumption DEF DecryptRound, Retraced, RoundsTypeOK
  <2>3. b = ShiftRows(SubBytes(path'[m - 1]))
    BY <1>3, <2>2, HalfRounds
  <2>4. path'[m] = AesEnc(path'[m - 1], k)
    <3>1. path[m] \in State /\ m \in m .. Rounds - 1 /\ reg \in State
      BY <1>1, RoundsAssumption DEF RoundsTypeOK
    <3>2. InvSubBytes(InvShiftRows(reg)) = path[m]
      BY <1>4, <3>1, HalfRounds
    <3>3. AesEnc(InvSubBytes(InvShiftRows(b)), k) = InvSubBytes(InvShiftRows(reg))
      BY <1>2, <3>1, EncryptionRetraces
    <3>4. QED
      BY <2>2, <3>1, <3>2, <3>3
  <2>5. Chain(Rounds - round + 1, Rounds - 1)'
    <3>1. ASSUME NEW r \in m .. Rounds - 1
          PROVE  path'[r] = AesEnc(path'[r - 1], encryption_keys[r])
      <4>1. CASE r = m
        BY <2>4, <4>1
      <4>2. CASE r # m
        BY <1>1, <2>1, <2>2, <4>2, RoundsAssumption DEF Chain
      <4>3. QED
        BY <4>1, <4>2
    <3>2. Rounds - round' + 1 = m
      BY <1>1, <1>5, RoundsAssumption
    <3>3. QED
      BY <1>5, <3>1, <3>2 DEF Chain
  <2>6. PathEnds'
    BY <1>1, <1>5, <2>1, <2>2, RoundsAssumption DEF PathEnds
  <2>7. Rounds - round' = m - 1
    BY <1>1, <1>5, RoundsAssumption
  <2>8. QED
    BY <1>1, <1>5, <1>7, <2>3, <2>5, <2>6, <2>7
       DEF RoundsInv, KeysDerived, WayOut, WayBack, Retraces, ComesBack
<1>8. QED
  BY <1>1, <1>6, <1>7 DEF RoundsTypeOK

LEMMA DecryptLastPreservesInv ==
  ASSUME RoundsInv, DecryptLastRound
  PROVE  RoundsInv'
<1> DEFINE b == AesDecLast(reg, decryption_keys[Rounds])
           k == encryption_keys[0]
<1>1. /\ RoundsTypeOK /\ 0 \in 0 .. Rounds /\ 0 \in 0 .. Rounds - 1 /\ phase = "decrypt"
      /\ round = Rounds /\ round > 0 /\ Rounds - round = 0
  BY RoundsAssumption DEF RoundsInv, DecryptLastRound
<1>2. k \in State /\ decryption_keys[Rounds] = k /\ path[0] \in State
  BY <1>1, DecryptionKeysType DEF RoundsInv, KeysDerived, RoundsTypeOK
<1>3. reg = ShiftRows(SubBytes(path[0]))
  BY <1>1 DEF RoundsInv, Retraces
<1>4. b = Xor(path[0], k)
  BY <1>2, <1>3, HalfRounds DEF AesDecLast
<1>5. /\ reg' = b /\ round' = 0 /\ phase' = Turn("decrypt") /\ b \in State
      /\ UNCHANGED <<encryption_keys, decryption_keys, first, given, path>>
  BY <1>2, <1>4, XorLaws DEF DecryptLastRound
<1>6. RoundsTypeOK'
  BY <1>1, <1>5 DEF RoundsTypeOK, Turn
<1>7. CASE first = "encrypt"
  <2>1. phase' = "done" /\ PathStarts
    BY <1>1, <1>5, <1>7 DEF Turn, RoundsInv, WayBack
  <2>2. b = given
    BY <1>1, <1>2, <1>4, <2>1, XorLaws DEF PathStarts, RoundsTypeOK
  <2>3. QED
    BY <1>1, <1>5, <1>6, <1>7, <2>1, <2>2
       DEF RoundsInv, KeysDerived, WayOut, WayBack, Retraces, ComesBack
<1>8. CASE first = "decrypt"
  <2>1. phase' = "encrypt" /\ PathEnds /\ Chain(1, Rounds - 1)
    BY <1>1, <1>5, <1>8 DEF Turn, RoundsInv, WayOut
  <2>2. PathEnds' /\ Chain(1, Rounds - 1)'
    BY <1>5, <2>1 DEF PathEnds, Chain
  <2>3. QED
    BY <1>1, <1>4, <1>5, <1>6, <1>8, <2>1, <2>2
       DEF RoundsInv, KeysDerived, WayOut, WayBack, Retraces, ComesBack
<1>9. QED
  BY <1>1, <1>7, <1>8 DEF RoundsTypeOK

LEMMA RoundsInvAlways == RoundsSpec => []RoundsInv
<1>1. RoundsInv /\ [RoundsNext]_roundsVars => RoundsInv'
  <2> SUFFICES ASSUME RoundsInv, [RoundsNext]_roundsVars PROVE RoundsInv'
    OBVIOUS
  <2>1. CASE RoundsNext
    BY <2>1, DerivePreservesInv, FirstKeyPreservesInv, EncryptRoundPreservesInv,
       EncryptLastPreservesInv, LastKeyPreservesInv, DecryptRoundPreservesInv,
       DecryptLastPreservesInv DEF RoundsNext
  <2>2. CASE UNCHANGED roundsVars
    BY <2>2 DEF roundsVars, RoundsInv, RoundsTypeOK, KeysDerived, WayOut, WayBack, Retraces, ComesBack,
                PathStarts, PathEnds, Chain
  <2>3. QED
    BY <2>1, <2>2
<1>2. QED
  BY RoundsInvInit, <1>1, PTL DEF RoundsSpec

(* Types: in particular no round key past the last is read.                 *)
THEOREM RoundsTypes == RoundsSpec => []RoundsTypeOK
  BY RoundsInvAlways, PTL DEF RoundsInv

(* One function comes, round by round, through the blocks of the other.     *)
THEOREM RoundsRetrace == RoundsSpec => []Retraces
  BY RoundsInvAlways, PTL DEF RoundsInv

(* Decryption undoes encryption and encryption decryption, for any number   *)
(* of rounds and any round keys: CipherAssumption of Blocks holds of the    *)
(* functions in aes128.c, aes192.c and aes256.c.                            *)
THEOREM CipherIsInvertible == RoundsSpec => []ComesBack
  BY RoundsInvAlways, PTL DEF RoundsInv

-----------------------------------------------------------------------------
(***************************************************************************)
(* The counter: for every base, the 32-bit lane counts.                    *)
(***************************************************************************)
(* Numbers in a base: one more digit, and its range.                        *)
LEMMA DigitRange ==
  ASSUME NEW m \in Nat, NEW a \in 0 .. m - 1, NEW x \in ByteValue
  PROVE  /\ a * Base + x \in 0 .. m * Base - 1
         /\ a * Base \in Nat
<1>1. Base \in Nat /\ Base > 1 /\ x \in Int /\ 0 <= x /\ x < Base
  BY CounterAssumption DEF ByteValue
<1>2. a \in Nat /\ a + 1 <= m /\ m - (a + 1) \in Nat
  OBVIOUS
<1>3. (m - (a + 1)) * Base \in Nat /\ a * Base \in Nat /\ m * Base \in Nat
  BY <1>1, <1>2
<1>4. (m - (a + 1)) * Base = m * Base - a * Base - Base
  BY <1>1, <1>2
<1>5. QED
  BY <1>1, <1>3, <1>4

(* Quotient and remainder are unique.                                       *)
LEMMA Unique ==
  ASSUME NEW d \in Nat, d > 0, NEW a \in Int, NEW b \in Int,
         NEW x \in 0 .. d - 1, NEW y \in 0 .. d - 1, a * d + x = b * d + y
  PROVE  a = b /\ x = y
<1>1. (a - b) * d = y - x
  OBVIOUS
<1>2. ASSUME a > b PROVE FALSE
  <2>1. a - b - 1 \in Nat
    BY <1>2
  <2>2. (a - b - 1) * d \in Nat
    BY <2>1
  <2>3. (a - b - 1) * d = (a - b) * d - d
    OBVIOUS
  <2>4. QED
    BY <1>1, <2>2, <2>3
<1>3. ASSUME b > a PROVE FALSE
  <2>1. b - a - 1 \in Nat
    BY <1>3
  <2>2. (b - a - 1) * d \in Nat
    BY <2>1
  <2>3. (b - a - 1) * d = (b - a) * d - d /\ (b - a) * d = x - y
    BY <1>1
  <2>4. QED
    BY <2>2, <2>3
<1>4. a = b
  BY <1>2, <1>3
<1>5. QED
  BY <1>4

LEMMA Remainder ==
  ASSUME NEW d \in Nat, d > 0, NEW a \in Nat, NEW x \in 0 .. d - 1
  PROVE  (a * d + x) % d = x
<1> DEFINE s == a * d + x
<1>1. s \in Nat
  OBVIOUS
<1>2. s = (s \div d) * d + (s % d) /\ s \div d \in Int /\ s % d \in 0 .. d - 1
  BY <1>1
<1>3. QED
  BY <1>2, Unique

-----------------------------------------------------------------------------
(* The bytes that the three statements together write.                      *)
Advanced(b) == Reversed(IncLane(Reversed(b)))

LEMMA AdvancedBytes ==
  ASSUME NEW b \in Block
  PROVE  /\ Advanced(b) \in Block
         /\ \A i \in 1 .. 12 : Advanced(b)[i] = b[i]
         /\ Advanced(b)[16] = (b[16] + 1) % Base
         /\ Advanced(b)[15] = IF b[16] = Base - 1 THEN (b[15] + 1) % Base ELSE b[15]
         /\ Advanced(b)[14] = IF b[16] = Base - 1 /\ b[15] = Base - 1
                              THEN (b[14] + 1) % Base ELSE b[14]
         /\ Advanced(b)[13] = IF b[16] = Base - 1 /\ b[15] = Base - 1 /\ b[14] = Base - 1
                              THEN (b[13] + 1) % Base ELSE b[13]
<1> DEFINE r == Reversed(b)
<1>1. Base \in Nat /\ Base > 1
  BY CounterAssumption
<1>2. r \in Block /\ \A i \in 1 .. 16 : r[i] = b[17 - i]
  BY DEF Reversed, Block
<1>3. \A x \in ByteValue : (x + 1) % Base \in ByteValue
  BY <1>1 DEF ByteValue
<1>4. /\ IncLane(r) \in Block
      /\ \A i \in 5 .. 16 : IncLane(r)[i] = r[i]
      /\ IncLane(r)[1] = (r[1] + 1) % Base
      /\ IncLane(r)[2] = IF r[1] = Base - 1 THEN (r[2] + 1) % Base ELSE r[2]
      /\ IncLane(r)[3] = IF r[1] = Base - 1 /\ r[2] = Base - 1
                         THEN (r[3] + 1) % Base ELSE r[3]
      /\ IncLane(r)[4] = IF r[1] = Base - 1 /\ r[2] = Base - 1 /\ r[3] = Base - 1
                         THEN (r[4] + 1) % Base ELSE r[4]
  <2>1. \A i \in 1 .. 16 : r[i] \in ByteValue
    BY <1>2 DEF Block
  <2>2. IncLane(r) \in Block
    BY <1>3, <2>1 DEF IncLane, Block
  <2>3. \A i \in 5 .. 16 : IncLane(r)[i] = r[i]
    BY DEF IncLane
  <2>4. /\ 1 .. (1 - 1) = {} /\ 1 .. (2 - 1) = {1}
        /\ 1 .. (3 - 1) = {1, 2} /\ 1 .. (4 - 1) = {1, 2, 3}
    OBVIOUS
  <2>5. QED
    BY <2>2, <2>3, <2>4 DEF IncLane
<1>5. \A i \in 1 .. 16 : Advanced(b)[i] = IncLane(r)[17 - i]
  BY DEF Advanced, Reversed
<1>6. Advanced(b) \in Block
  BY <1>4 DEF Advanced, Reversed, Block
<1>7. \A i \in 1 .. 12 : Advanced(b)[i] = b[i]
  BY <1>2, <1>4, <1>5
<1>8. r[1] = b[16] /\ r[2] = b[15] /\ r[3] = b[14] /\ r[4] = b[13]
  BY <1>2
<1>9. /\ Advanced(b)[16] = IncLane(r)[1] /\ Advanced(b)[15] = IncLane(r)[2]
      /\ Advanced(b)[14] = IncLane(r)[3] /\ Advanced(b)[13] = IncLane(r)[4]
  BY <1>5
<1> HIDE DEF r
<1>10. QED
  BY <1>4, <1>6, <1>7, <1>8, <1>9

(* A number that ends in digit x, one more: with a carry or without.        *)
LEMMA DigitCounts ==
  ASSUME NEW x \in ByteValue
  PROVE  (x + 1) % Base = IF x = Base - 1 THEN 0 ELSE x + 1
<1>1. Base \in Nat /\ Base > 1
  BY CounterAssumption
<1>2. CASE x = Base - 1
  <2>1. (1 * Base + 0) % Base = 0
    BY <1>1, Remainder
  <2>2. QED
    BY <1>1, <1>2, <2>1
<1>3. CASE x # Base - 1
  <2>1. x + 1 \in 0 .. Base - 1
    BY <1>1, <1>3 DEF ByteValue
  <2>2. (0 * Base + (x + 1)) % Base = x + 1
    BY <1>1, <2>1, Remainder
  <2>3. 0 * Base + (x + 1) = x + 1
    BY <1>1, <2>1
  <2>4. QED
    BY <1>3, <2>2, <2>3
<1>4. QED
  BY <1>2, <1>3

LEMMA LastWordRange ==
  ASSUME NEW b \in Block
  PROVE  /\ LastWord(b) \in 0 .. Period - 1
         /\ Period \in Nat /\ Period > 0
<1>1. Base \in Nat /\ Base > 1
  BY CounterAssumption
<1>2. b[13] \in 0 .. Base - 1 /\ b[14] \in ByteValue /\ b[15] \in ByteValue /\ b[16] \in ByteValue
  BY DEF Block, ByteValue
<1>3. Base * Base \in Nat /\ Base * Base * Base \in Nat /\ Period \in Nat
  BY <1>1 DEF Period
<1>4. b[13] * Base + b[14] \in 0 .. Base * Base - 1
  BY <1>1, <1>2, DigitRange
<1>5. (b[13] * Base + b[14]) * Base + b[15] \in 0 .. Base * Base * Base - 1
  BY <1>2, <1>3, <1>4, DigitRange
<1>6. LastWord(b) \in 0 .. Base * Base * Base * Base - 1
  BY <1>2, <1>3, <1>5, DigitRange DEF LastWord
<1>7. QED
  BY <1>3, <1>6 DEF Period

(* The last word counts, modulo the period.                                 *)
LEMMA AdvancedCounts ==
  ASSUME NEW b \in Block
  PROVE  \/ LastWord(Advanced(b)) = LastWord(b) + 1
         \/ LastWord(Advanced(b)) = 0 /\ LastWord(b) + 1 = Period
<1> DEFINE w == b[13]
           x == b[14]
           y == b[15]
           z == b[16]
           c == Advanced(b)
<1>1. Base \in Nat /\ Base > 1 /\ Base \in Int
  BY CounterAssumption
<1>2. w \in ByteValue /\ x \in ByteValue /\ y \in ByteValue /\ z \in ByteValue
  BY DEF Block
<1>3. w \in Int /\ x \in Int /\ y \in Int /\ z \in Int
  BY <1>1, <1>2 DEF ByteValue
<1>4. /\ c[16] = IF z = Base - 1 THEN 0 ELSE z + 1
      /\ c[15] = IF z = Base - 1 THEN (IF y = Base - 1 THEN 0 ELSE y + 1) ELSE y
      /\ c[14] = IF z = Base - 1 /\ y = Base - 1
                 THEN (IF x = Base - 1 THEN 0 ELSE x + 1) ELSE x
      /\ c[13] = IF z = Base - 1 /\ y = Base - 1 /\ x = Base - 1
                 THEN (IF w = Base - 1 THEN 0 ELSE w + 1) ELSE w
  BY <1>2, AdvancedBytes, DigitCounts
<1>5. /\ LastWord(b) = ((w * Base + x) * Base + y) * Base + z
      /\ LastWord(c) = ((c[13] * Base + c[14]) * Base + c[15]) * Base + c[16]
  BY DEF LastWord
<1> HIDE DEF w, x, y, z
<1>6. CASE z # Base - 1
  BY <1>1, <1>3, <1>4, <1>5, <1>6
<1>7. CASE z = Base - 1 /\ y # Base - 1
  <2> DEFINE h == (w * Base + x) * Base
  <2>1. h \in Int
    BY <1>1, <1>3
  <2>2. LastWord(c) = (h + (y + 1)) * Base + 0 /\ LastWord(b) = (h + y) * Base + z
    BY <1>4, <1>5, <1>7
  <2> HIDE DEF h
  <2>3. QED
    BY <1>1, <1>3, <1>7, <2>1, <2>2
<1>8. CASE z = Base - 1 /\ y = Base - 1 /\ x # Base - 1
  <2> DEFINE h == w * Base
  <2>1. h \in Int
    BY <1>1, <1>3
  <2>2. LastWord(c) = ((h + (x + 1)) * Base + 0) * Base + 0
        /\ LastWord(b) = ((h + x) * Base + y) * Base + z
    BY <1>4, <1>5, <1>8
  <2> HIDE DEF h
  <2>3. (h + (x + 1)) * Base + 0 = (h + x) * Base + y + 1
    BY <1>1, <1>3, <1>8, <2>1
  <2>4. (h + x) * Base \in Int
    BY <1>1, <1>3, <2>1
  <2>5. QED
    BY <1>1, <1>3, <1>8, <2>2, <2>3, <2>4
<1>9. CASE z = Base - 1 /\ y = Base - 1 /\ x = Base - 1
  <2>1. CASE w # Base - 1
    <3>1. LastWord(c) = (((w + 1) * Base + 0) * Base + 0) * Base + 0
      BY <1>4, <1>5, <1>9, <2>1
    <3>2. (w + 1) * Base + 0 = w * Base + x + 1 /\ w * Base \in Int
      BY <1>1, <1>3, <1>9
    <3>3. /\ ((w + 1) * Base + 0) * Base + 0 = (w * Base + x) * Base + y + 1
          /\ (w * Base + x) * Base \in Int
      BY <1>1, <1>3, <1>9, <3>2
    <3>4. QED
      BY <1>1, <1>3, <1>5, <1>9, <3>1, <3>3
  <2>2. CASE w = Base - 1
    <3>1. LastWord(c) = ((0 * Base + 0) * Base + 0) * Base + 0
      BY <1>4, <1>5, <1>9, <2>2
    <3>2. LastWord(c) = 0
      BY <1>1, <3>1
    <3>3. w * Base + x + 1 = Base * Base /\ Base * Base \in Int
      BY <1>1, <1>9, <2>2
    <3>4. (w * Base + x) * Base + y + 1 = Base * Base * Base
          /\ Base * Base * Base \in Int
      <4>1. w * Base + x = Base * Base - 1
        BY <1>1, <1>3, <3>3
      <4>2. QED
        BY <1>1, <1>9, <3>3, <4>1
    <3>5. LastWord(b) + 1 = Period
      <4>1. (w * Base + x) * Base + y = Base * Base * Base - 1
        BY <1>1, <1>3, <3>3, <3>4
      <4>2. QED
        BY <1>1, <1>5, <1>9, <3>4, <4>1 DEF Period
    <3>6. QED
      BY <3>2, <3>5
  <2>3. QED
    BY <2>1, <2>2
<1>10. QED
  BY <1>6, <1>7, <1>8, <1>9

-----------------------------------------------------------------------------
(* The block that the steps of the function work on, before they began.     *)
Before(b) == /\ b \in Block
             /\ step = "ready" => iv = b
             /\ step = "reversed" => iv = Reversed(b)
             /\ step = "added" => iv = IncLane(Reversed(b))

(* The counter has gone round some number q of times.                       *)
Counted(b) ==
  /\ \A i \in 1 .. 12 : b[i] = start[i]
  /\ \E q \in Nat : LastWord(start) + advances = q * Period + LastWord(b)

CounterInv ==
  /\ CounterTypeOK
  /\ step # "ready" => advances < MaxBlocks
  /\ \E b \in Block : Before(b) /\ Counted(b)

LEMMA CounterInvInit == CounterInit => CounterInv
<1> SUFFICES ASSUME CounterInit PROVE CounterInv
  OBVIOUS
<1>1. CounterTypeOK
  BY CounterAssumption DEF CounterInit, CounterTypeOK
<1>2. LastWord(start) + advances = 0 * Period + LastWord(start)
  <2>1. start \in Block
    BY <1>1 DEF CounterTypeOK
  <2>2. LastWord(start) \in Nat /\ Period \in Nat
    BY <2>1, LastWordRange
  <2>3. QED
    BY <2>2 DEF CounterInit
<1>3. Before(start) /\ Counted(start)
  BY <1>1, <1>2 DEF CounterInit, Before, Counted, CounterTypeOK
<1>4. QED
  BY <1>1, <1>3 DEF CounterInv, CounterInit, CounterTypeOK

LEMMA ReversedType ==
  ASSUME NEW b \in Block
  PROVE  Reversed(b) \in Block
BY DEF Reversed, Block

LEMMA IncLaneType ==
  ASSUME NEW b \in Block
  PROVE  IncLane(b) \in Block
<1>1. \A x \in ByteValue : (x + 1) % Base \in ByteValue
  BY CounterAssumption DEF ByteValue
<1>2. QED
  BY <1>1 DEF IncLane, Block

LEMMA CounterInvNext == CounterInv /\ [CounterNext]_counterVars => CounterInv'
<1> SUFFICES ASSUME CounterInv, [CounterNext]_counterVars PROVE CounterInv'
  OBVIOUS
<1>1. PICK b \in Block : Before(b) /\ Counted(b)
  BY DEF CounterInv
<1>2. CounterTypeOK /\ iv \in Block
  BY DEF CounterInv, CounterTypeOK
<1>3. CASE ReverseBytes
  <2>1. iv' = Reversed(b)
    BY <1>1, <1>3 DEF ReverseBytes, Before
  <2>2. Before(b)' /\ Counted(b)'
    BY <1>1, <1>3, <2>1 DEF ReverseBytes, Before, Counted
  <2>3. QED
    BY <1>1, <1>2, <1>3, <2>1, <2>2, ReversedType DEF CounterInv, CounterTypeOK, ReverseBytes
<1>4. CASE AddOne
  <2>1. iv' = IncLane(Reversed(b))
    BY <1>1, <1>4 DEF AddOne, Before
  <2>2. Before(b)' /\ Counted(b)'
    BY <1>1, <1>4, <2>1 DEF AddOne, Before, Counted
  <2>3. QED
    BY <1>1, <1>2, <1>4, <2>1, <2>2, ReversedType, IncLaneType DEF CounterInv, CounterTypeOK, AddOne
<1>5. CASE ReverseBack
  <2>1. iv' = Advanced(b) /\ Advanced(b) \in Block
    BY <1>1, <1>5, AdvancedBytes DEF ReverseBack, Before, Advanced
  <2>2. Before(Advanced(b))'
    BY <1>5, <2>1 DEF ReverseBack, Before
  <2>3. \A i \in 1 .. 12 : Advanced(b)[i] = start[i]
    BY <1>1, AdvancedBytes DEF Counted
  <2>4. PICK q \in Nat : LastWord(start) + advances = q * Period + LastWord(b)
    BY <1>1 DEF Counted
  <2>5. /\ LastWord(b) \in Nat /\ LastWord(Advanced(b)) \in Nat /\ Period \in Nat
        /\ LastWord(start) \in Nat /\ advances \in Nat
    BY <1>1, <1>2, <2>1, LastWordRange, CounterAssumption DEF CounterTypeOK
  <2>6. /\ q * Period \in Nat
        /\ (q + 1) * Period = q * Period + Period
    BY <2>5
  <2>7. \/ LastWord(start) + (advances + 1) = q * Period + LastWord(Advanced(b))
        \/ LastWord(start) + (advances + 1) = (q + 1) * Period + LastWord(Advanced(b))
    BY <1>1, <2>4, <2>5, <2>6, AdvancedCounts
  <2>8. \E p \in Nat : LastWord(start) + (advances + 1) = p * Period + LastWord(Advanced(b))
    BY <2>7
  <2>9. Counted(Advanced(b))'
    BY <1>5, <2>3, <2>8 DEF ReverseBack, Counted
  <2>10. CounterTypeOK' /\ (step # "ready" => advances < MaxBlocks)'
    BY <1>2, <1>5, <2>1, CounterAssumption DEF CounterInv, CounterTypeOK, ReverseBack
  <2>11. QED
    BY <2>1, <2>2, <2>9, <2>10 DEF CounterInv
<1>6. CASE UNCHANGED counterVars
  BY <1>6 DEF CounterInv, CounterTypeOK, Before, Counted, counterVars
<1>7. QED
  BY <1>3, <1>4, <1>5, <1>6 DEF CounterNext

LEMMA CounterInvAlways == CounterSpec => []CounterInv
BY CounterInvInit, CounterInvNext, PTL DEF CounterSpec

(* The variables keep their types: the bytes of a counter block wrap.       *)
THEOREM CounterTypes == CounterSpec => []CounterTypeOK
<1>1. CounterInv => CounterTypeOK
  BY DEF CounterInv
<1>2. QED
  BY <1>1, CounterInvAlways, PTL

LEMMA InvCounts == CounterInv => CountsLastWord
<1> SUFFICES ASSUME CounterInv, step = "ready" PROVE
      /\ LastWord(iv) = (LastWord(start) + advances) % Period
      /\ \A i \in 1 .. 12 : iv[i] = start[i]
  BY DEF CountsLastWord
<1>1. PICK b \in Block : Before(b) /\ Counted(b)
  BY DEF CounterInv
<1>2. iv = b
  BY <1>1 DEF Before
<1>3. PICK q \in Nat : LastWord(start) + advances = q * Period + LastWord(iv)
  BY <1>1, <1>2 DEF Counted
<1>4. (q * Period + LastWord(iv)) % Period = LastWord(iv)
  BY <1>1, <1>2, LastWordRange, Remainder
<1>5. QED
  BY <1>1, <1>2, <1>3, <1>4 DEF Counted

(* aes_AES_inc_block counts in the last four bytes of the block, big-endian, *)
(* for any number of calls.                                                 *)
THEOREM LastWordCounts == CounterSpec => []CountsLastWord
BY InvCounts, CounterInvAlways, PTL

(* The digits of a word are determined by it.                               *)
LEMMA SameLastWord ==
  ASSUME NEW a \in Block, NEW b \in Block, LastWord(a) = LastWord(b)
  PROVE  a[13] = b[13] /\ a[14] = b[14] /\ a[15] = b[15] /\ a[16] = b[16]
<1>1. Base \in Nat /\ Base > 0
  BY CounterAssumption
<1>2. \A i \in 1 .. 16 : a[i] \in 0 .. Base - 1 /\ b[i] \in 0 .. Base - 1
  BY DEF Block, ByteValue
<1>3. \A i \in 13 .. 16 : a[i] \in 0 .. Base - 1 /\ b[i] \in 0 .. Base - 1
                          /\ a[i] \in Int /\ b[i] \in Int
  BY <1>1, <1>2
<1> DEFINE a2 == a[13] * Base + a[14]
           b2 == b[13] * Base + b[14]
           a3 == a2 * Base + a[15]
           b3 == b2 * Base + b[15]
<1>4. a2 \in Int /\ b2 \in Int
  BY <1>1, <1>3
<1>5. a3 \in Int /\ b3 \in Int
  <2> HIDE DEF a2, b2
  <2>1. QED
    BY <1>1, <1>3, <1>4
<1>6. a3 * Base + a[16] = b3 * Base + b[16]
  BY DEF LastWord
<1>7. a3 = b3 /\ a[16] = b[16]
  <2> HIDE DEF a3, b3
  <2>1. QED
    BY <1>1, <1>3, <1>5, <1>6, Unique
<1>8. a2 = b2 /\ a[15] = b[15]
  <2> DEFINE x == a[15]
             y == b[15]
  <2>1. a2 * Base + x = b2 * Base + y
    BY <1>7
  <2>2. x \in 0 .. Base - 1 /\ y \in 0 .. Base - 1
    BY <1>3
  <2> HIDE DEF a2, b2, a3, b3, x, y
  <2>3. a2 = b2 /\ x = y
    BY <1>1, <1>4, <2>1, <2>2, Unique
  <2>4. QED
    BY <2>3 DEF x, y
<1>9. a[13] = b[13] /\ a[14] = b[14]
  <2>1. a[13] * Base + a[14] = b[13] * Base + b[14]
    BY <1>8
  <2>2. QED
    BY <1>1, <1>3, <2>1, Unique
<1>10. QED
  BY <1>7, <1>8, <1>9

LEMMA InvRepeats == CounterInv => RepeatsAfterPeriod
<1> SUFFICES ASSUME CounterInv, step = "ready" PROVE iv = start <=> advances % Period = 0
  BY DEF RepeatsAfterPeriod
<1>1. PICK b \in Block : Before(b) /\ Counted(b)
  BY DEF CounterInv
<1>2. iv = b /\ iv \in Block /\ start \in Block /\ advances \in Nat
  BY <1>1, CounterAssumption DEF Before, CounterInv, CounterTypeOK
<1>3. PICK q \in Nat : LastWord(start) + advances = q * Period + LastWord(iv)
  BY <1>1, <1>2 DEF Counted
<1>4. /\ LastWord(iv) \in 0 .. Period - 1 /\ LastWord(start) \in 0 .. Period - 1
      /\ Period \in Nat /\ Period > 0
  BY <1>2, LastWordRange
<1>5. ASSUME iv = start PROVE advances % Period = 0
  <2>1. advances = q * Period + 0
    BY <1>2, <1>3, <1>4, <1>5
  <2>2. 0 \in 0 .. Period - 1
    BY <1>4
  <2>3. (q * Period + 0) % Period = 0
    BY <1>4, <2>2, Remainder
  <2>4. QED
    BY <2>1, <2>3
<1>6. ASSUME advances % Period = 0 PROVE iv = start
  <2>1. advances = (advances \div Period) * Period + (advances % Period) /\ advances \div Period \in Int
    BY <1>2, <1>4
  <2>2. (advances \div Period) * Period + LastWord(start) = q * Period + LastWord(iv)
    BY <1>2, <1>3, <1>4, <1>6, <2>1
  <2>3. LastWord(start) = LastWord(iv)
    <3> DEFINE k == advances \div Period
               x == LastWord(start)
               y == LastWord(iv)
    <3>1. k * Period + x = q * Period + y /\ k \in Int /\ q \in Int
      BY <2>1, <2>2
    <3>2. x \in 0 .. Period - 1 /\ y \in 0 .. Period - 1
      BY <1>4
    <3> HIDE DEF k, x, y
    <3>3. x = y
      BY <1>4, <3>1, <3>2, Unique
    <3>4. QED
      BY <3>3 DEF x, y
  <2>4. \A i \in 1 .. 12 : iv[i] = start[i]
    BY <1>1, <1>2 DEF Counted
  <2>5. \A i \in 1 .. 16 : iv[i] = start[i]
    BY <1>2, <2>3, <2>4, SameLastWord
  <2>6. QED
    BY <1>2, <2>5 DEF Block
<1>7. QED
  BY <1>5, <1>6

(* The counter blocks of a message of up to Period blocks are all different *)
(* from the first -- and so, as any of them may be the first, from each     *)
(* other -- and then they come again.                                       *)
THEOREM KeyStreamPeriod == CounterSpec => []RepeatsAfterPeriod
BY InvRepeats, CounterInvAlways, PTL

-----------------------------------------------------------------------------
(***************************************************************************)
(* Keys as text, for every base, size of a key and text.                   *)
(***************************************************************************)
LEMMA Least ==
  ASSUME NEW T, T \subseteq Nat, T # {}
  PROVE  \E x \in T : \A y \in T : x <= y
<1>1. PICK x \in T : \A y \in T : ~ (<<y, x>> \in OpToRel(<, Nat))
  BY NatLessThanWellFounded, WFMin
<1>2. \A y \in T : ~ (y < x)
  BY <1>1 DEF OpToRel
<1>3. QED
  BY <1>2

LEMMA SizeFacts ==
  /\ Radix \in Nat /\ Radix > 1 /\ Radix * Radix \in Nat /\ Radix * Radix > Radix
  /\ HalfSize \in Nat /\ HalfSize > 1
  /\ HiSize \in Nat /\ 1 <= HiSize /\ HiSize <= HalfSize
<1>1. /\ Radix \in Nat /\ Radix > 1 
      /\ HalfSize \in Nat /\ HalfSize > 1
  BY ParsingAssumption
<1>2. HalfSize \div 2 \in Nat /\ 1 <= HalfSize \div 2 /\ HalfSize \div 2 <= HalfSize
  BY <1>1
<1>3. (Radix - 1) * Radix = Radix * Radix - Radix /\ Radix * Radix \in Nat
  BY <1>1
<1>4. (Radix - 2) * Radix \in Nat /\ (Radix - 2) * Radix = Radix * Radix - Radix - Radix
  <2>1. Radix - 2 \in Nat
    BY <1>1
  <2>2. (Radix - 2) * Radix \in Nat
    BY <2>1, <1>1
  <2>3. QED
    BY <2>2, <1>1
<1>5. QED
  BY <1>1, <1>2, <1>3, <1>4 DEF HiSize

LEMMA DigitPair ==
  ASSUME NEW a \in 0 .. Radix - 1, NEW b \in 0 .. Radix - 1
  PROVE  a * Radix + b \in Byte
<1>1. (Radix - 1 - a) * Radix \in Nat /\ a * Radix \in Nat
  <2>1. Radix - 1 - a \in Nat /\ a \in Nat /\ Radix \in Nat
    BY SizeFacts
  <2>2. QED
    BY <2>1
<1>2. (Radix - 1 - a) * Radix = Radix * Radix - Radix - a * Radix
  BY SizeFacts
<1>3. QED
  BY <1>1, <1>2, SizeFacts DEF Byte

LEMMA PairDigits ==
  ASSUME NEW b \in Byte
  PROVE  /\ b \div Radix \in 0 .. Radix - 1 /\ b % Radix \in 0 .. Radix - 1
         /\ ((b \div Radix) * Radix) + (b % Radix) = b
<1>1. /\ b \in Nat /\ b < Radix * Radix /\ Radix \in Nat /\ Radix > 1
  BY SizeFacts DEF Byte
<1> DEFINE q == b \div Radix
           r == b % Radix
<1>2. q \in Int /\ r \in 0 .. Radix - 1 /\ b = q * Radix + r
  BY <1>1
<1> HIDE DEF q, r
<1>3. q >= 0
  <2>1. SUFFICES ASSUME q < 0 PROVE FALSE
    BY <1>2
  <2>2. - q - 1 \in Nat
    BY <2>1, <1>2
  <2>3. (- q - 1) * Radix \in Nat /\ (- q - 1) * Radix = - (q * Radix) - Radix
    BY <2>2, <1>1, <1>2
  <2>4. QED
    BY <2>3, <1>1, <1>2
<1>4. q < Radix
  <2>1. SUFFICES ASSUME q >= Radix PROVE FALSE
    BY <1>1, <1>2
  <2>2. q - Radix \in Nat
    BY <2>1, <1>1, <1>2
  <2>3. (q - Radix) * Radix \in Nat /\ (q - Radix) * Radix = q * Radix - Radix * Radix
    BY <2>2, <1>1, <1>2
  <2>4. QED
    BY <2>3, <1>1, <1>2
<1>5. QED
  BY <1>1, <1>2, <1>3, <1>4 DEF q, r

-----------------------------------------------------------------------------
LEMMA CharacterFacts ==
  ASSUME NEW c \in Character
  PROVE  /\ c.class \in {"digit", "space", "plus", "minus", "x", "other"}
         /\ c.value \in 0 .. Radix - 1
BY SizeFacts DEF Character

LEMMA ClassFacts ==
  ASSUME text \in Seq(Character), NEW p \in Int
  PROVE  Class(p) # "end" => p \in 1 .. Len(text) /\ text[p].value \in 0 .. Radix - 1
                             /\ Class(p) = text[p].class
BY CharacterFacts DEF Class

(* White space is skipped to the next character that is not, or the end.    *)
LEMMA SpaceEnds ==
  ASSUME text \in Seq(Character), NEW p \in 1 .. Len(text) + 1
  PROVE  /\ AfterSpace(p) \in p .. Len(text) + 1
         /\ Class(AfterSpace(p)) # "space"
         /\ \A r \in p .. AfterSpace(p) - 1 : Class(r) = "space"
<1> DEFINE T == {q \in p .. Len(text) + 1 : Class(q) # "space"}
<1>1. Len(text) \in Nat /\ Len(text) + 1 \in T
  BY DEF Class
<1>2. PICK q \in T : \A r \in T : q <= r
  <2>1. T \subseteq Nat /\ T # {}
    BY <1>1
  <2>2. QED
    BY <2>1, Least
<1>3. \A r \in p .. q - 1 : Class(r) = "space"
  BY <1>1, <1>2
<1>4. q \in p .. Len(text) + 1 /\ Class(q) # "space"
  OBVIOUS
<1>5. QED
  BY <1>3, <1>4 DEF AfterSpace

LEMMA ScanTypes ==
  ASSUME text \in Seq(Character), NEW p \in 1 .. Len(text) + 1, NEW r \in Scans(p)
  PROVE  r.value \in Byte /\ r.next \in p + 1 .. Len(text) + 1
<1> DEFINE q == AfterSpace(p)
<1>1. q \in p .. Len(text) + 1 /\ Len(text) \in Nat
  BY SpaceEnds
<1>2. \A s \in {q, q + 1} : Class(s) # "end" =>
        s \in 1 .. Len(text) /\ text[s].value \in 0 .. Radix - 1
  <2>1. q \in Int /\ q + 1 \in Int
    BY <1>1
  <2>2. QED
    BY <2>1, ClassFacts
<1>3. \A v \in 0 .. Radix - 1 : v \in Byte /\ (- v) % (Radix * Radix) \in Byte
  <2>1. TAKE v \in 0 .. Radix - 1
  <2> DEFINE d == Radix * Radix
  <2>2. d \in Nat /\ d > 0 /\ v \in Int /\ v < d /\ 0 <= v
    BY SizeFacts
  <2> HIDE DEF d
  <2>3. (- v) % d \in 0 .. d - 1
    BY <2>2
  <2>4. QED
    BY <2>2, <2>3 DEF Byte, d
<1>4. 0 \in Byte
  BY SizeFacts DEF Byte
<1> HIDE DEF q
<1>5. CASE IsDigit(q) /\ IsDigit(q + 1)
  <2>1. r = [value |-> text[q].value * Radix + text[q + 1].value, next |-> q + 2]
    BY <1>5 DEF Scans, Converted, q, IsDigit, IsSigned, IsPrefix
  <2>2. q + 1 \in 1 .. Len(text) /\ text[q].value \in 0 .. Radix - 1
        /\ text[q + 1].value \in 0 .. Radix - 1
    BY <1>2, <1>5 DEF IsDigit
  <2>3. QED
    BY <1>1, <2>1, <2>2, DigitPair
<1>6. CASE IsPrefix(q)
  <2>1. r = [value |-> 0, next |-> q + 2]
    BY <1>6 DEF Scans, Converted, q, IsPrefix, IsDigit
  <2>2. q + 1 \in 1 .. Len(text)
    BY <1>2, <1>6 DEF IsPrefix
  <2>3. QED
    BY <1>1, <1>4, <2>1, <2>2
<1>7. CASE IsDigit(q) /\ ~ IsDigit(q + 1) /\ ~ IsPrefix(q)
  <2>1. r = [value |-> text[q].value, next |-> q + 1]
    BY <1>7 DEF Scans, Converted, q, IsDigit, IsSigned
  <2>2. q \in 1 .. Len(text) /\ text[q].value \in Byte
    BY <1>2, <1>3, <1>7 DEF IsDigit
  <2>3. QED
    BY <1>1, <2>1, <2>2
<1>8. CASE IsSigned(q)
  <2>1. /\ r.next = q + 2
        /\ r.value = text[q + 1].value \/ r.value = (- text[q + 1].value) % (Radix * Radix)
    BY <1>8 DEF Scans, Converted, q, IsDigit, IsSigned, IsPrefix
  <2>2. q + 1 \in 1 .. Len(text) /\ text[q + 1].value \in 0 .. Radix - 1
    BY <1>2, <1>8 DEF IsDigit, IsSigned
  <2>3. QED
    BY <1>1, <1>3, <2>1, <2>2
<1>9. QED
  BY <1>5, <1>6, <1>7, <1>8 DEF Scans, q, IsDigit, IsSigned

-----------------------------------------------------------------------------
(* The number of bytes in the text of a key.                                *)
Size == HalfSize + (IF HasHi THEN HiSize ELSE 0)

LEMMA KeyBytes ==
  ASSUME NEW k \in Key
  PROVE  /\ BytesOf(k) \in Seq(Byte)
         /\ Len(BytesOf(k)) = Size /\ Size \in Nat
         /\ \A i \in 1 .. Size :
              BytesOf(k)[i] = IF i <= HalfSize THEN k.lo[i] ELSE k.hi[i - HalfSize]
<1>1. /\ k.lo \in Seq(Byte) /\ Len(k.lo) = HalfSize
      /\ k.hi \in Seq(Byte) /\ Len(k.hi) = HalfSize
  BY SizeFacts, IsASeq, LenProperties DEF Key, Half
<1> DEFINE upper == IF HasHi THEN SubSeq(k.hi, 1, HiSize) ELSE <<>>
<1>2. /\ upper \in Seq(Byte)
      /\ Len(upper) = IF HasHi THEN HiSize ELSE 0
      /\ \A i \in 1 .. Len(upper) : upper[i] = k.hi[i]
  BY <1>1, SizeFacts, SubSeqProperties
<1> HIDE DEF upper
<1>3. /\ BytesOf(k) = k.lo \o upper
      /\ k.lo \o upper \in Seq(Byte)
      /\ Len(k.lo \o upper) = Len(k.lo) + Len(upper)
      /\ \A i \in 1 .. Len(k.lo) + Len(upper) :
           (k.lo \o upper)[i] = IF i <= Len(k.lo) THEN k.lo[i] ELSE upper[i - Len(k.lo)]
  <2>1. BytesOf(k) = k.lo \o upper
    BY DEF BytesOf, upper
  <2>2. QED
    BY <1>1, <1>2, <2>1, ConcatProperties
<1>4. /\ BytesOf(k) \in Seq(Byte)
      /\ Len(BytesOf(k)) = Len(k.lo) + Len(upper)
      /\ \A i \in 1 .. Len(k.lo) + Len(upper) :
           BytesOf(k)[i] = IF i <= Len(k.lo) THEN k.lo[i] ELSE upper[i - Len(k.lo)]
  BY <1>3
<1>5. Size = Len(k.lo) + Len(upper) /\ Size \in Nat /\ Len(upper) \in Nat
  BY <1>1, <1>2, SizeFacts DEF Size
<1>6. ASSUME NEW i \in 1 .. Size
      PROVE  BytesOf(k)[i] = IF i <= HalfSize THEN k.lo[i] ELSE k.hi[i - HalfSize]
  <2>1. BytesOf(k)[i] = IF i <= HalfSize THEN k.lo[i] ELSE upper[i - HalfSize]
    BY <1>1, <1>4, <1>5
  <2>2. CASE i <= HalfSize
    BY <2>1, <2>2
  <2>3. CASE ~ (i <= HalfSize)
    <3>1. i - HalfSize \in 1 .. Len(upper)
      BY <1>1, <1>5, <2>3, SizeFacts
    <3>2. upper[i - HalfSize] = k.hi[i - HalfSize]
      BY <1>2, <3>1
    <3>3. QED
      BY <2>1, <2>3, <3>2
  <2>4. QED
    BY <2>2, <2>3
<1>7. BytesOf(k) \in Seq(Byte) /\ Len(BytesOf(k)) = Size /\ Size \in Nat
  BY <1>4, <1>5
<1>8. QED
  BY <1>6, <1>7

LEMMA FormattedText ==
  ASSUME NEW bytes \in Seq(Byte)
  PROVE  /\ Formatted(bytes) \in Seq(Character)
         /\ Len(Formatted(bytes)) = 2 * Len(bytes)
         /\ \A p \in 1 .. 2 * Len(bytes) : Formatted(bytes)[p].class = "digit"
         /\ \A i \in 1 .. Len(bytes) :
              /\ Formatted(bytes)[2 * i - 1].value = bytes[i] \div Radix
              /\ Formatted(bytes)[2 * i].value = bytes[i] % Radix
<1>1. Len(bytes) \in Nat /\ 2 * Len(bytes) \in Nat
  OBVIOUS
<1> DEFINE F(p) == Digit(IF p % 2 = 1 THEN bytes[(p + 1) \div 2] \div Radix
                         ELSE bytes[(p + 1) \div 2] % Radix)
<1>2. Formatted(bytes) = [p \in 1 .. 2 * Len(bytes) |-> F(p)]
  BY DEF Formatted
<1>3. \A p \in 1 .. 2 * Len(bytes) : F(p) \in Character /\ F(p).class = "digit"
  <2>1. TAKE p \in 1 .. 2 * Len(bytes)
  <2>2. (p + 1) \div 2 \in 1 .. Len(bytes)
    BY <1>1
  <2>3. bytes[(p + 1) \div 2] \in Byte
    BY <2>2
  <2>4. QED
    BY <2>3, PairDigits DEF Digit, Character
<1>4. Formatted(bytes) \in [1 .. 2 * Len(bytes) -> Character]
  BY <1>2, <1>3
<1>5. Formatted(bytes) \in Seq(Character) /\ Len(Formatted(bytes)) = 2 * Len(bytes)
  BY <1>1, <1>4, IsASeq, LenProperties
<1>6. ASSUME NEW i \in 1 .. Len(bytes)
      PROVE  /\ Formatted(bytes)[2 * i - 1].value = bytes[i] \div Radix
             /\ Formatted(bytes)[2 * i].value = bytes[i] % Radix
  <2>1. /\ 2 * i - 1 \in 1 .. 2 * Len(bytes) /\ 2 * i \in 1 .. 2 * Len(bytes)
        /\ (2 * i - 1) % 2 = 1 /\ (2 * i) % 2 = 0
        /\ ((2 * i - 1) + 1) \div 2 = i /\ (2 * i + 1) \div 2 = i
    BY <1>1
  <2>2. QED
    BY <1>2, <2>1 DEF Digit
<1>7. QED
  BY <1>2, <1>3, <1>5, <1>6

-----------------------------------------------------------------------------
(* Updates of an activation record.                                          *)
LEMMA RecordUpdates ==
  ASSUME NEW S, NEW C, NEW D, NEW B, NEW c \in [step : S, cursor : C, bytes : B],
         NEW st \in S, NEW n \in D, NEW b \in B
  PROVE  /\ [c EXCEPT !.bytes = b, !.cursor = n] \in [step : S, cursor : D, bytes : B]
         /\ [c EXCEPT !.bytes = b, !.cursor = n].step = c.step
         /\ [c EXCEPT !.bytes = b, !.cursor = n].cursor = n
         /\ [c EXCEPT !.bytes = b, !.cursor = n].bytes = b
         /\ [c EXCEPT !.step = st, !.bytes = b] \in [step : S, cursor : C, bytes : B]
         /\ [c EXCEPT !.step = st, !.bytes = b].step = st
         /\ [c EXCEPT !.step = st, !.bytes = b].cursor = c.cursor
         /\ [c EXCEPT !.step = st, !.bytes = b].bytes = b
OBVIOUS

(* What a call has written and how far it has read, at least.               *)
ParsingInv ==
  /\ ParsingTypeOK
  /\ call.step = "idle" => call.cursor = 1 /\ call.bytes = <<>>
  /\ call.step # "idle" => calls > 0
  /\ call.step = "lo" => dest = entry /\ call.cursor > Len(call.bytes)
  /\ call.step = "hi" =>
       /\ HasHi
       /\ dest.hi = entry.hi
       /\ Len(call.bytes) <= HiSize
       /\ call.cursor > HalfSize + Len(call.bytes)
  /\ OnlyWholeHalvesChange

LEMMA ParsingInvInit == ParsingInit => ParsingInv
<1>1. SUFFICES ASSUME ParsingInit PROVE ParsingInv
  OBVIOUS
<1>2. /\ text \in Seq(Character) /\ dest \in Key /\ MaxCalls \in Nat
      /\ Len(text) \in Nat /\ <<>> \in Seq(Byte) /\ Len(<<>>) = 0
  <2>1. text \in Seq(Character) /\ dest \in Key /\ MaxCalls \in Nat
    BY <1>1, ParsingAssumption DEF ParsingInit
  <2>2. QED
    BY <2>1, EmptySeq
<1>3. ParsingTypeOK
  BY <1>1, <1>2, SizeFacts DEF ParsingInit, ParsingTypeOK
<1>4. QED
  BY <1>1, <1>3 DEF ParsingInit, ParsingInv, OnlyWholeHalvesChange, Returned

LEMMA ReturnTypes ==
  ASSUME ParsingTypeOK, NEW st, Return(st)
  PROVE  /\ call'.step = "idle" /\ call'.cursor = 1 /\ call'.bytes = <<>>
         /\ status' = st
         /\ text' = text =>
              /\ call' \in [step : {"idle", "lo", "hi"}, cursor : 1 .. Len(text') + 1,
                            bytes : Seq(Byte)]
              /\ Len(call'.bytes) <= HalfSize
<1>1. <<>> \in Seq(Byte) /\ Len(<<>>) = 0 /\ Len(text) \in Nat
  BY DEF ParsingTypeOK
<1>2. QED
  BY <1>1, SizeFacts DEF Return

LEMMA ParsingInvStep == ParsingInv /\ [ParsingNext]_parsingVars => ParsingInv'
<1>1. SUFFICES ASSUME ParsingInv, [ParsingNext]_parsingVars PROVE ParsingInv'
  OBVIOUS
<1>2. /\ ParsingTypeOK /\ Len(text) \in Nat /\ Len(call.bytes) \in Nat
      /\ <<>> \in Seq(Byte) /\ Len(<<>>) = 0
      /\ MaxCalls \in Nat /\ calls \in Nat
  BY <1>1, ParsingAssumption DEF ParsingInv, ParsingTypeOK
<1>3. CASE RefuseNull
  <2>1. ParsingTypeOK'
    <3>1. /\ Return("NULL_ARGUMENT_ERROR") /\ calls' = calls + 1 /\ calls < MaxCalls
          /\ entry' = dest /\ UNCHANGED <<algorithm, text, dest, origin>>
      BY <1>3 DEF RefuseNull, Called
    <3>2. QED
      BY <1>2, <3>1, ReturnTypes DEF ParsingTypeOK
  <2>2. QED
    BY <1>1, <1>2, <1>3, <2>1, ReturnTypes
       DEF RefuseNull, Called, ParsingInv, OnlyWholeHalvesChange, Returned
<1>4. ASSUME NEW k \in Keys, Parse(k) PROVE ParsingInv'
  <2>1. k \in Key
    BY ParsingAssumption
  <2>2. ParsingTypeOK'
    BY <1>2, <1>4, <2>1, SizeFacts DEF Parse, Called, ParsingTypeOK
  <2>3. QED
    BY <1>1, <1>2, <1>4, <2>2 DEF Parse, Called, ParsingInv, OnlyWholeHalvesChange, Returned
<1>5. CASE ReadByte
  <2>1. PICK r \in Scans(call.cursor) :
          call' = [call EXCEPT !.bytes = Append(@, r.value), !.cursor = r.next]
    BY <1>5 DEF ReadByte
  <2>2. r.value \in Byte /\ r.next \in call.cursor + 1 .. Len(text) + 1
    BY <1>2, ScanTypes DEF ParsingTypeOK
  <2>3. /\ call'.step = call.step /\ call'.cursor = r.next
        /\ call'.bytes \in Seq(Byte) /\ Len(call'.bytes) = Len(call.bytes) + 1
        /\ call' \in [step : {"idle", "lo", "hi"}, cursor : 1 .. Len(text) + 1,
                      bytes : Seq(Byte)]
    <3> DEFINE b == Append(call.bytes, r.value)
    <3>1. b \in Seq(Byte) /\ Len(b) = Len(call.bytes) + 1
      BY <1>2, <2>2, AppendProperties DEF ParsingTypeOK
    <3>2. call' = [call EXCEPT !.bytes = b, !.cursor = r.next]
      BY <2>1
    <3>3. r.next \in 1 .. Len(text) + 1
      BY <1>2, <2>2 DEF ParsingTypeOK
    <3> HIDE DEF b
    <3>4. QED
      BY <1>2, <3>1, <3>2, <3>3, RecordUpdates DEF ParsingTypeOK
  <2>4. call.step # "idle" /\ Len(call.bytes) < Wanted
    BY <1>5 DEF ReadByte, Reading
  <2>5. UNCHANGED <<algorithm, text, dest, status, calls, entry, origin>>
    BY <1>5 DEF ReadByte
  <2>6. Wanted <= HalfSize /\ Wanted \in Nat
    BY SizeFacts DEF Wanted
  <2>7. ParsingTypeOK'
    <3>1. text' = text /\ Len(call'.bytes) <= HalfSize
      BY <1>2, <2>3, <2>4, <2>5, <2>6, SizeFacts
    <3>2. QED
      BY <1>2, <2>3, <2>5, <3>1 DEF ParsingTypeOK
  <2>8. /\ call'.step = "lo" => dest' = entry' /\ call'.cursor > Len(call'.bytes)
        /\ call'.step = "hi" =>
             /\ HasHi'
             /\ dest'.hi = entry'.hi
             /\ Len(call'.bytes) <= HiSize'
             /\ call'.cursor > HalfSize + Len(call'.bytes)
    <3>1. HasHi' = HasHi /\ HiSize' = HiSize /\ HiSize \in Nat /\ HalfSize \in Nat
      BY <2>5, SizeFacts DEF HasHi, HiSize
    <3>2. r.next > call.cursor /\ r.next \in Int /\ call.cursor \in Int
      BY <1>2, <2>2 DEF ParsingTypeOK
    <3>3. QED
      BY <1>1, <1>2, <2>3, <2>4, <2>5, <3>1, <3>2 DEF Wanted, ParsingInv
  <2>9. OnlyWholeHalvesChange'
    BY <1>1, <1>5, <2>3, <2>4 DEF ReadByte, ParsingInv, OnlyWholeHalvesChange, Returned
  <2>10. QED
    BY <1>1, <2>3, <2>4, <2>5, <2>7, <2>8, <2>9 DEF ParsingInv
<1>6. CASE ReadFails
  <2>1. /\ call.step \in {"lo", "hi"} /\ Return("PARSE_ERROR")
        /\ UNCHANGED <<algorithm, text, dest, calls, entry, origin>>
    BY <1>2, <1>6 DEF ReadFails, Reading, ParsingTypeOK
  <2>2. ParsingTypeOK'
    BY <1>2, <2>1, ReturnTypes DEF ParsingTypeOK
  <2>3. dest.hi = entry.hi /\ (~ HasHi => dest = entry)
        /\ (dest # entry => Len(text) >= HalfSize)
    BY <1>1, <1>2, <2>1, SizeFacts DEF ParsingInv, ParsingTypeOK
  <2>4. OnlyWholeHalvesChange'
    BY <1>2, <2>1, <2>3, ReturnTypes DEF OnlyWholeHalvesChange, Returned, HasHi
  <2>5. QED
    BY <1>2, <2>1, <2>2, <2>4, ReturnTypes DEF ParsingInv
<1>7. CASE StoreLo
  <2>1. /\ call.step = "lo" /\ Len(call.bytes) = HalfSize
        /\ dest' = [dest EXCEPT !.lo = call.bytes]
        /\ UNCHANGED <<algorithm, text, calls, entry, origin>>
    BY <1>2, <1>7, SizeFacts DEF StoreLo, Reading, Wanted, ParsingTypeOK
  <2>2. call.bytes \in Half
    BY <1>2, <2>1 DEF ParsingTypeOK, Half
  <2>3. dest' \in Key /\ dest'.hi = dest.hi
    BY <1>2, <2>1, <2>2 DEF ParsingTypeOK, Key
  <2>4. CASE HasHi
    <3>1. call' = [call EXCEPT !.step = "hi", !.bytes = <<>>] /\ UNCHANGED status
      BY <1>7, <2>4 DEF StoreLo
    <3>2. ParsingTypeOK'
      <4>1. /\ call' \in [step : {"idle", "lo", "hi"}, cursor : 1 .. Len(text) + 1,
                          bytes : Seq(Byte)]
            /\ call'.bytes = <<>>
        BY <1>2, <3>1, RecordUpdates DEF ParsingTypeOK
      <4>2. QED
        BY <1>2, <2>1, <2>3, <3>1, <4>1, SizeFacts DEF ParsingTypeOK
    <3>3. QED
      BY <1>1, <1>2, <2>1, <2>3, <2>4, <3>1, <3>2, SizeFacts
         DEF ParsingTypeOK, ParsingInv, OnlyWholeHalvesChange, Returned, HasHi, HiSize
  <2>5. CASE ~ HasHi
    <3>1. Return("SUCCESS")
      BY <1>7, <2>5 DEF StoreLo
    <3>2. ParsingTypeOK'
      BY <1>2, <2>1, <2>3, <3>1, ReturnTypes DEF ParsingTypeOK
    <3>3. QED
      BY <1>1, <1>2, <2>1, <2>3, <2>5, <3>1, <3>2, ReturnTypes
         DEF ParsingInv, OnlyWholeHalvesChange, Returned, HasHi
  <2>6. QED
    BY <2>4, <2>5
<1>8. CASE StoreHi
  <2> DEFINE hi == [i \in 1 .. HalfSize |-> IF i <= HiSize THEN call.bytes[i] ELSE 0]
  <2>1. /\ call.step = "hi" /\ Len(call.bytes) = HiSize
        /\ dest' = [dest EXCEPT !.hi = hi]
        /\ Return("SUCCESS")
        /\ UNCHANGED <<algorithm, text, calls, entry, origin>>
    BY <1>1, <1>2, <1>8, SizeFacts DEF StoreHi, Reading, Wanted, ParsingInv
  <2>2. hi \in Half
    <3>1. \A i \in 1 .. HalfSize : i <= HiSize => call.bytes[i] \in Byte
      BY <1>2, <2>1, SizeFacts DEF ParsingTypeOK
    <3>2. 0 \in Byte
      BY SizeFacts DEF Byte
    <3>3. QED
      BY <3>1, <3>2 DEF Half
  <2> HIDE DEF hi
  <2>3. dest' \in Key /\ dest'.hi = hi
    BY <1>2, <2>1, <2>2 DEF ParsingTypeOK, Key
  <2>4. ParsingTypeOK'
    BY <1>2, <2>1, <2>3, ReturnTypes DEF ParsingTypeOK
  <2>5. \A i \in HiSize + 1 .. HalfSize : hi[i] = 0
    BY SizeFacts DEF hi
  <2>6. OnlyWholeHalvesChange'
    BY <1>1, <1>2, <2>1, <2>3, <2>5, ReturnTypes
       DEF ParsingInv, OnlyWholeHalvesChange, Returned, HiSize, HasHi
  <2>7. QED
    BY <1>2, <2>1, <2>4, <2>6, ReturnTypes DEF ParsingInv
<1>9. CASE Format
  <2>1. /\ call.step = "idle" /\ calls > 0 /\ status = "SUCCESS"
        /\ text' = Formatted(BytesOf(dest)) /\ origin' = {dest}
        /\ UNCHANGED <<algorithm, dest, call, status, calls, entry>>
    BY <1>9 DEF Format
  <2>2. text' \in Seq(Character) /\ Len(text') \in Nat
    BY <1>2, <2>1, KeyBytes, FormattedText DEF ParsingTypeOK
  <2>3. ParsingTypeOK'
    BY <1>1, <1>2, <2>1, <2>2 DEF ParsingTypeOK, ParsingInv
  <2>4. OnlyWholeHalvesChange'
    BY <1>1, <2>1 DEF ParsingInv, OnlyWholeHalvesChange, Returned, HasHi, HiSize
  <2>5. QED
    BY <1>1, <2>1, <2>3, <2>4 DEF ParsingInv
<1>10. CASE UNCHANGED parsingVars
  BY <1>1, <1>10 DEF parsingVars, ParsingInv, ParsingTypeOK, OnlyWholeHalvesChange, Returned, HasHi, HiSize
<1>11. QED
  BY <1>1, <1>3, <1>4, <1>5, <1>6, <1>7, <1>8, <1>9, <1>10 DEF ParsingNext

-----------------------------------------------------------------------------
(* How far a call has read a text of pairs, and what it made of them.       *)
Count == IF call.step = "hi" THEN HalfSize + Len(call.bytes) ELSE Len(call.bytes)

DigitsRead ==
  Paired =>
    /\ call.step # "idle" =>
         /\ 2 * Count - 1 <= Len(text)
         /\ call.cursor = IF 2 * Count <= Len(text) THEN 2 * Count + 1 ELSE Len(text) + 1
    /\ call.step = "lo" =>
         \A i \in 1 .. Len(call.bytes) : call.bytes[i] = PairByte(i)
    /\ call.step = "hi" =>
         /\ \A i \in 1 .. HalfSize : dest.lo[i] = PairByte(i)
         /\ \A i \in 1 .. Len(call.bytes) : call.bytes[i] = PairByte(HalfSize + i)

WrittenText == \A k \in origin : text = Formatted(BytesOf(k))

ReadInv == DigitsRead /\ DigitsMakeBytes /\ WrittenText

LEMMA OddPlaces == \A n \in Nat : (2 * n + 1) % 2 = 1
OBVIOUS

LEMMA ScanOfPairs ==
  ASSUME text \in Seq(Character), Paired, NEW p \in 1 .. Len(text) + 1,
         p % 2 = 1 \/ p = Len(text) + 1
  PROVE  /\ \A r \in Scans(p) :
              /\ p <= Len(text)
              /\ r.value = PairAt(p)
              /\ r.next = IF p + 1 <= Len(text) THEN p + 2 ELSE Len(text) + 1
         /\ MayFail(p) => p = Len(text) + 1
<1>1. Len(text) \in Nat /\ DOMAIN text = 1 .. Len(text)
  OBVIOUS
<1>2. \A q \in Int : /\ q \in 1 .. Len(text) => Class(q) = text[q].class /\ Value(q) = text[q].value
                     /\ q \notin 1 .. Len(text) => Class(q) = "end"
  BY <1>1 DEF Class, Value
<1>3. p <= Len(text) => IsDigit(p) \/ IsSigned(p)
  BY <1>1 DEF Paired
<1>4. p + 1 <= Len(text) /\ p % 2 = 1 => IsDigit(p + 1) /\ Class(p + 1) = "digit"
  <2>1. \A q \in Nat : q % 2 = 1 => (q + 1) % 2 # 1
    OBVIOUS
  <2>2. QED
    BY <1>1, <2>1 DEF Paired, IsDigit
<1>5. AfterSpace(p) = p
  <2>1. Class(p) # "space"
    BY <1>1, <1>2, <1>3 DEF IsDigit, IsSigned
  <2>2. QED
    BY <2>1, <1>1, SpaceEnds
<1>6. \A q \in Int : IsDigit(q) => q \in 1 .. Len(text)
  BY <1>2 DEF IsDigit
<1>7. ~ IsPrefix(p)
  <2>1. CASE p + 1 <= Len(text)
    BY <1>1, <1>4, <2>1 DEF IsPrefix
  <2>2. CASE ~ (p + 1 <= Len(text))
    <3>1. Class(p + 1) = "end"
      BY <1>1, <1>2, <2>2
    <3>2. QED
      BY <3>1 DEF IsPrefix
  <2>3. QED
    BY <2>1, <2>2
<1>8. MayFail(p) => p = Len(text) + 1
  BY <1>1, <1>3, <1>5, <1>7 DEF MayFail
<1>9. ASSUME NEW r \in Scans(p)
      PROVE  /\ p <= Len(text)
             /\ r.value = PairAt(p)
             /\ r.next = IF p + 1 <= Len(text) THEN p + 2 ELSE Len(text) + 1
  <2>1. CASE IsDigit(p) /\ IsDigit(p + 1)
    <3>1. r = [value |-> text[p].value * Radix + text[p + 1].value, next |-> p + 2]
      <4>1. Class(p) # "plus" /\ Class(p) # "minus"
        BY <2>1 DEF IsDigit
      <4>2. QED
        BY <1>5, <1>7, <1>9, <2>1, <4>1 DEF Scans, Converted
    <3>2. p \in 1 .. Len(text) /\ p + 1 \in 1 .. Len(text)
      BY <1>6, <2>1
    <3>3. Value(p) = text[p].value /\ Value(p + 1) = text[p + 1].value /\ Class(p) = "digit"
      BY <1>2, <2>1, <3>2 DEF IsDigit
    <3>4. PairAt(p) = text[p].value * Radix + text[p + 1].value
      BY <3>2, <3>3 DEF PairAt
    <3>5. QED
      BY <1>1, <3>1, <3>2, <3>4
  <2>2. CASE IsDigit(p) /\ ~ IsDigit(p + 1)
    <3>1. p \in 1 .. Len(text) /\ Class(p) = "digit" /\ Value(p) = text[p].value
      BY <1>2, <1>6, <2>2 DEF IsDigit
    <3>2. r = [value |-> text[p].value, next |-> p + 1]
      BY <1>5, <1>7, <1>9, <2>2, <3>1 DEF Scans, Converted
    <3>3. p % 2 = 1
      <4>1. p # Len(text) + 1
        BY <1>1, <3>1
      <4>2. QED
        BY <4>1
    <3>4. ~ (p + 1 <= Len(text))
      BY <1>4, <2>2, <3>3
    <3>5. p = Len(text) /\ p <= Len(text)
      <4>1. \A n \in Nat : \A q \in 1 .. n : q + 1 <= n \/ (q = n /\ q <= n)
        OBVIOUS
      <4>2. QED
        BY <1>1, <3>1, <3>4, <4>1
    <3>6. PairAt(p) = text[p].value
      BY <3>1, <3>4 DEF PairAt
    <3>7. r.value = PairAt(p) /\ r.next = Len(text) + 1
      BY <3>2, <3>5, <3>6
    <3>8. QED
      BY <3>4, <3>5, <3>7
  <2>3. CASE ~ IsDigit(p)
    <3>1. p # Len(text) + 1
      <4>1. ASSUME p = Len(text) + 1 PROVE FALSE
        <5>1. Class(p) = "end"
          BY <1>1, <1>2, <4>1
        <5>2. Scans(p) = {}
          BY <1>5, <1>7, <2>3, <5>1 DEF Scans, IsSigned
        <5>3. QED
          BY <1>9, <5>2
      <4>2. QED
        BY <4>1
    <3>2. p \in 1 .. Len(text)
      BY <1>1, <3>1
    <3>3. IsSigned(p) /\ Class(p) \in {"plus", "minus"} /\ p + 1 \in 1 .. Len(text)
      BY <1>3, <1>6, <2>3, <3>2 DEF IsSigned
    <3>4. r = [value |-> PairAt(p), next |-> p + 2]
      <4>1. Value(p + 1) = text[p + 1].value
        BY <1>2, <3>3
      <4>2. CASE Class(p) = "plus"
        BY <1>5, <1>7, <2>3, <3>3, <4>1, <4>2 DEF Scans, Converted, PairAt
      <4>3. CASE Class(p) = "minus"
        BY <1>5, <1>7, <2>3, <3>3, <4>1, <4>3 DEF Scans, Converted, PairAt
      <4>4. QED
        BY <3>3, <4>2, <4>3
    <3>5. QED
      BY <1>1, <3>2, <3>3, <3>4
  <2>4. QED
    BY <2>1, <2>2, <2>3
<1>10. QED
  BY <1>8, <1>9

LEMMA ReadInvInit == ParsingInit => ReadInv
BY DEF ParsingInit, ReadInv, DigitsRead, DigitsMakeBytes, WrittenText, Returned

LEMMA ReadInvStep == ParsingInv /\ ReadInv /\ [ParsingNext]_parsingVars => ReadInv'
<1>1. SUFFICES ASSUME ParsingInv, ReadInv, [ParsingNext]_parsingVars PROVE ReadInv'
  OBVIOUS
<1>2. /\ ParsingTypeOK /\ Len(text) \in Nat /\ Len(call.bytes) \in Nat /\ Count \in Nat
      /\ calls \in Nat /\ text \in Seq(Character) /\ dest \in Key
      /\ HalfSize \in Nat /\ HiSize \in Nat
  BY <1>1, SizeFacts DEF ParsingInv, ParsingTypeOK, Count
<1>3. ASSUME algorithm' = algorithm, origin' = origin, text' = text
      PROVE  /\ WrittenText'
             /\ Paired' <=> Paired
             /\ HasHi' = HasHi /\ HiSize' = HiSize /\ Size' = Size
             /\ \A i \in Nat : PairByte(i)' = PairByte(i)
  <2>1. WrittenText'
    BY <1>1, <1>3 DEF ReadInv, WrittenText, BytesOf, HasHi, HiSize
  <2>2. Paired' <=> Paired
    BY <1>3 DEF Paired, IsDigit, IsSigned, Class
  <2>3. HasHi' = HasHi /\ HiSize' = HiSize /\ Size' = Size
    BY <1>3 DEF HasHi, HiSize, Size
  <2>4. \A i \in Nat : PairByte(i)' = PairByte(i)
    BY <1>3 DEF PairByte, PairAt, Value, Class
  <2>5. QED
    BY <2>1, <2>2, <2>3, <2>4
<1>4. CASE RefuseNull
  <2>1. call'.step = "idle" /\ status' = "NULL_ARGUMENT_ERROR"
        /\ UNCHANGED <<algorithm, text, dest, origin>>
    BY <1>4 DEF RefuseNull, Return
  <2>2. QED
    BY <1>3, <2>1 DEF ReadInv, DigitsRead, DigitsMakeBytes, Returned
<1>5. ASSUME NEW k \in Keys, Parse(k) PROVE ReadInv'
  <2>1. /\ call' = [step |-> "lo", cursor |-> 1, bytes |-> <<>>]
        /\ UNCHANGED <<algorithm, text, status, origin>>
    BY <1>5 DEF Parse
  <2>2. Count' = 0 /\ Len(call'.bytes) = 0
    BY <2>1 DEF Count
  <2>3. DigitsRead'
    BY <1>2, <2>1, <2>2 DEF DigitsRead
  <2>4. QED
    BY <1>3, <2>1, <2>3 DEF ReadInv, DigitsMakeBytes, Returned
<1>6. CASE ReadByte
  <2>1. PICK r \in Scans(call.cursor) :
          call' = [call EXCEPT !.bytes = Append(@, r.value), !.cursor = r.next]
    BY <1>6 DEF ReadByte
  <2>2. /\ call.step # "idle" /\ UNCHANGED <<algorithm, text, dest, status, calls, origin>>
    BY <1>6 DEF ReadByte, Reading
  <2>3. /\ call'.step = call.step /\ call'.cursor = r.next
        /\ Len(call'.bytes) = Len(call.bytes) + 1
        /\ \A i \in 1 .. Len(call.bytes) : call'.bytes[i] = call.bytes[i]
        /\ call'.bytes[Len(call.bytes) + 1] = r.value
    <3> DEFINE b == Append(call.bytes, r.value)
    <3>1. call.bytes \in Seq(Byte) /\ r.value \in Byte /\ r.next \in Int
      BY <1>2, ScanTypes DEF ParsingTypeOK
    <3>2. /\ b \in Seq(Byte) /\ Len(b) = Len(call.bytes) + 1
          /\ \A i \in 1 .. Len(call.bytes) : b[i] = call.bytes[i]
          /\ b[Len(call.bytes) + 1] = r.value
      BY <3>1, AppendProperties
    <3>3. call' = [call EXCEPT !.bytes = b, !.cursor = r.next]
      BY <2>1
    <3>4. call'.step = call.step /\ call'.cursor = r.next /\ call'.bytes = b
      <4> HIDE DEF b
      <4>1. QED
        BY <1>2, <3>1, <3>2, <3>3, RecordUpdates DEF ParsingTypeOK
    <3>5. QED
      BY <3>2, <3>4
  <2>4. Count' = Count + 1
    BY <1>2, <2>3 DEF Count
  <2>5. ASSUME Paired
        PROVE  /\ 2 * (Count + 1) - 1 <= Len(text)
               /\ r.next = IF 2 * (Count + 1) <= Len(text) THEN 2 * (Count + 1) + 1
                           ELSE Len(text) + 1
               /\ r.value = PairByte(Count + 1)
    <3>1. call.cursor = IF 2 * Count <= Len(text) THEN 2 * Count + 1 ELSE Len(text) + 1
      BY <1>1, <2>2, <2>5 DEF ReadInv, DigitsRead
    <3>2. /\ call.cursor <= Len(text)
          /\ r.value = PairAt(call.cursor)
          /\ r.next = IF call.cursor + 1 <= Len(text) THEN call.cursor + 2 ELSE Len(text) + 1
      <4>1. call.cursor \in 1 .. Len(text) + 1
        BY <1>2 DEF ParsingTypeOK
      <4>2. call.cursor % 2 = 1 \/ call.cursor = Len(text) + 1
        BY <1>2, <3>1, OddPlaces
      <4>3. QED
        BY <1>2, <2>5, <4>1, <4>2, ScanOfPairs
    <3>3. call.cursor = 2 * Count + 1 /\ 2 * (Count + 1) - 1 = 2 * Count + 1
          /\ 2 * (Count + 1) = 2 * Count + 2
      BY <1>2, <3>1, <3>2
    <3>4. QED
      BY <1>2, <3>2, <3>3 DEF PairByte
  <2>6. DigitsRead'
    <3>1. SUFFICES ASSUME Paired PROVE DigitsRead'
      BY <1>3, <2>2 DEF DigitsRead
    <3>2. /\ 2 * Count' - 1 <= Len(text')
          /\ call'.cursor = IF 2 * Count' <= Len(text') THEN 2 * Count' + 1
                            ELSE Len(text') + 1
      BY <2>2, <2>3, <2>4, <2>5, <3>1
    <3>3. call'.step = "lo" =>
            \A i \in 1 .. Len(call'.bytes) : call'.bytes[i] = PairByte(i)'
      <4>1. ASSUME call.step = "lo", NEW i \in 1 .. Len(call.bytes) + 1
            PROVE  call'.bytes[i] = PairByte(i)
        <5>1. CASE i = Len(call.bytes) + 1
          BY <2>3, <2>5, <3>1, <4>1, <5>1 DEF Count
        <5>2. CASE i \in 1 .. Len(call.bytes)
          BY <1>1, <2>3, <3>1, <4>1, <5>2 DEF ReadInv, DigitsRead
        <5>3. QED
          BY <1>2, <5>1, <5>2
      <4>2. QED
        BY <1>2, <1>3, <2>2, <2>3, <4>1
    <3>4. call'.step = "hi" =>
            /\ \A i \in 1 .. HalfSize : dest'.lo[i] = PairByte(i)'
            /\ \A i \in 1 .. Len(call'.bytes) : call'.bytes[i] = PairByte(HalfSize + i)'
      <4>1. ASSUME call.step = "hi", NEW i \in 1 .. Len(call.bytes) + 1
            PROVE  call'.bytes[i] = PairByte(HalfSize + i)
        <5>1. CASE i = Len(call.bytes) + 1
          <6>1. Count + 1 = HalfSize + i
            BY <1>2, <4>1, <5>1 DEF Count
          <6>2. QED
            BY <2>3, <2>5, <3>1, <5>1, <6>1
        <5>2. CASE i \in 1 .. Len(call.bytes)
          BY <1>1, <2>3, <3>1, <4>1, <5>2 DEF ReadInv, DigitsRead
        <5>3. QED
          BY <1>2, <5>1, <5>2
      <4>2. call.step = "hi" => \A i \in 1 .. HalfSize : dest.lo[i] = PairByte(i)
        BY <1>1, <3>1 DEF ReadInv, DigitsRead
      <4>3. \A i \in Nat : HalfSize + i \in Nat
        BY <1>2
      <4>4. call'.step = "hi" =>
              /\ call.step = "hi" /\ Len(call'.bytes) = Len(call.bytes) + 1
              /\ dest' = dest
        BY <1>2, <2>2, <2>3
      <4>5. \A i \in 1 .. HalfSize : i \in Nat
        BY <1>2
      <4>6. SUFFICES ASSUME call'.step = "hi"
            PROVE  /\ \A i \in 1 .. HalfSize : dest'.lo[i] = PairByte(i)'
                   /\ \A i \in 1 .. Len(call'.bytes) : call'.bytes[i] = PairByte(HalfSize + i)'
        OBVIOUS
      <4>7. \A i \in 1 .. HalfSize : dest'.lo[i] = PairByte(i)'
        BY <1>3, <2>2, <4>2, <4>4, <4>5, <4>6
      <4>8. ASSUME NEW i \in 1 .. Len(call'.bytes)
            PROVE  call'.bytes[i] = PairByte(HalfSize + i)'
        BY <1>2, <1>3, <2>2, <4>1, <4>3, <4>4, <4>6
      <4>9. QED
        BY <4>7, <4>8
    <3>5. QED
      BY <3>2, <3>3, <3>4 DEF DigitsRead
  <2>7. QED
    BY <1>3, <2>2, <2>3, <2>6 DEF ReadInv, DigitsMakeBytes, Returned
<1>7. CASE ReadFails
  <2>1. /\ call.step \in {"lo", "hi"} /\ Len(call.bytes) < Wanted /\ MayFail(call.cursor)
        /\ call'.step = "idle" /\ status' = "PARSE_ERROR"
        /\ UNCHANGED <<algorithm, text, dest, calls, entry, origin>>
    BY <1>2, <1>7 DEF ReadFails, Reading, Return, ParsingTypeOK
  <2>2. Count + 1 <= Size /\ Size \in Nat
    BY <1>1, <1>2, <2>1 DEF Count, Size, Wanted, ParsingInv
  <2>3. ASSUME Paired PROVE Len(text) < 2 * Size - 1
    <3>1. call.cursor = IF 2 * Count <= Len(text) THEN 2 * Count + 1 ELSE Len(text) + 1
      BY <1>1, <2>1, <2>3 DEF ReadInv, DigitsRead
    <3>2. call.cursor = Len(text) + 1
      <4>1. call.cursor \in 1 .. Len(text) + 1
        BY <1>2 DEF ParsingTypeOK
      <4>2. call.cursor % 2 = 1 \/ call.cursor = Len(text) + 1
        BY <1>2, <3>1, OddPlaces
      <4>3. QED
        BY <1>2, <2>1, <2>3, <4>1, <4>2, ScanOfPairs
    <3>3. Len(text) <= 2 * Count
      BY <1>2, <3>1, <3>2
    <3>4. QED
      BY <1>2, <2>2, <3>3
  <2>4. BytesOf(dest)' = BytesOf(dest) /\ Len(BytesOf(dest)) = Size
    BY <1>2, <2>1, KeyBytes DEF BytesOf, HasHi, HiSize
  <2>5. DigitsMakeBytes'
    BY <1>3, <2>1, <2>3, <2>4 DEF DigitsMakeBytes, Returned
  <2>6. QED
    BY <1>3, <2>1, <2>5 DEF ReadInv, DigitsRead
<1>8. CASE StoreLo
  <2>1. /\ call.step = "lo" /\ Len(call.bytes) = HalfSize /\ Count = HalfSize
        /\ dest' = [dest EXCEPT !.lo = call.bytes]
        /\ UNCHANGED <<algorithm, text, calls, origin>>
    BY <1>2, <1>8 DEF StoreLo, Reading, Wanted, ParsingTypeOK, Count
  <2>2. call.bytes \in Half /\ dest' \in Key /\ dest'.lo = call.bytes
    <3>1. call.bytes \in Half
      BY <1>2, <2>1 DEF ParsingTypeOK, Half
    <3>2. QED
      BY <1>2, <2>1, <3>1 DEF Key
  <2>3. ASSUME Paired
        PROVE  /\ 2 * HalfSize - 1 <= Len(text)
               /\ call.cursor = IF 2 * HalfSize <= Len(text) THEN 2 * HalfSize + 1
                                ELSE Len(text) + 1
               /\ \A i \in 1 .. HalfSize : dest'.lo[i] = PairByte(i)
    BY <1>1, <2>1, <2>2, <2>3 DEF ReadInv, DigitsRead
  <2>4. CASE HasHi
    <3>1. call' = [call EXCEPT !.step = "hi", !.bytes = <<>>] /\ UNCHANGED status
      BY <1>8, <2>4 DEF StoreLo
    <3>2. /\ call'.step = "hi" /\ call'.bytes = <<>> /\ call'.cursor = call.cursor
          /\ Len(<<>>) = 0
      BY <1>2, <3>1, RecordUpdates DEF ParsingTypeOK
    <3>3. Count' = HalfSize
      BY <1>2, <3>2 DEF Count
    <3>4. DigitsRead'
      BY <1>2, <1>3, <2>1, <2>3, <3>2, <3>3 DEF DigitsRead
    <3>5. QED
      BY <1>3, <2>1, <3>2, <3>4 DEF ReadInv, DigitsMakeBytes, Returned
  <2>5. CASE ~ HasHi
    <3>1. call'.step = "idle" /\ status' = "SUCCESS"
      BY <1>8, <2>5 DEF StoreLo, Return
    <3>2. /\ BytesOf(dest)' = BytesOf(dest') /\ Len(BytesOf(dest')) = HalfSize
          /\ \A i \in 1 .. HalfSize : BytesOf(dest')[i] = dest'.lo[i]
          /\ DOMAIN BytesOf(dest') = 1 .. HalfSize
      <4>1. BytesOf(dest)' = BytesOf(dest')
        BY <2>1 DEF BytesOf, HasHi, HiSize
      <4>2. Size = HalfSize
        BY <1>2, <2>5 DEF Size
      <4>3. QED
        BY <1>2, <2>2, <4>1, <4>2, KeyBytes
    <3>3. DigitsMakeBytes'
      <4>1. Paired' => Paired
        BY <1>3, <2>1
      <4>2. ASSUME Paired, NEW i \in 1 .. HalfSize
            PROVE  BytesOf(dest')[i] = PairByte(i)'
        <5>1. PairByte(i)' = PairByte(i)
          BY <1>2, <1>3, <2>1
        <5>2. dest'.lo[i] = PairByte(i)
          BY <2>3, <4>2
        <5>3. BytesOf(dest')[i] = dest'.lo[i]
          BY <3>2
        <5>4. QED
          BY <5>1, <5>2, <5>3
      <4>3. QED
        BY <1>2, <2>1, <2>3, <3>1, <3>2, <4>1, <4>2 DEF DigitsMakeBytes, Returned
    <3>4. QED
      BY <1>3, <2>1, <3>1, <3>3 DEF ReadInv, DigitsRead
  <2>6. QED
    BY <2>4, <2>5
<1>9. CASE StoreHi
  <2> DEFINE hi == [i \in 1 .. HalfSize |-> IF i <= HiSize THEN call.bytes[i] ELSE 0]
  <2>1. /\ call.step = "hi" /\ Len(call.bytes) = HiSize /\ Count = HalfSize + HiSize
        /\ dest' = [dest EXCEPT !.hi = hi] /\ HasHi
        /\ call'.step = "idle" /\ status' = "SUCCESS"
        /\ UNCHANGED <<algorithm, text, calls, origin>>
    BY <1>1, <1>2, <1>9 DEF StoreHi, Reading, Wanted, ParsingInv, Count, Return
  <2>2. hi \in Half
    <3>1. \A i \in 1 .. HalfSize : i <= HiSize => call.bytes[i] \in Byte
      BY <1>2, <2>1 DEF ParsingTypeOK
    <3>2. 0 \in Byte
      BY SizeFacts DEF Byte
    <3>3. QED
      BY <3>1, <3>2 DEF Half
  <2>3. \A i \in 1 .. HiSize : hi[i] = call.bytes[i]
    BY <1>2, SizeFacts
  <2> HIDE DEF hi
  <2>4. dest' \in Key /\ dest'.lo = dest.lo /\ dest'.hi = hi
    BY <1>2, <2>1, <2>2 DEF Key
  <2>5. /\ BytesOf(dest)' = BytesOf(dest') /\ Len(BytesOf(dest')) = HalfSize + HiSize
        /\ DOMAIN BytesOf(dest') = 1 .. HalfSize + HiSize
        /\ \A i \in 1 .. HalfSize + HiSize :
             BytesOf(dest')[i] = IF i <= HalfSize THEN dest.lo[i] ELSE call.bytes[i - HalfSize]
    <3>1. BytesOf(dest)' = BytesOf(dest')
      BY <2>1 DEF BytesOf, HasHi, HiSize
    <3>2. Size = HalfSize + HiSize
      BY <2>1 DEF Size
    <3>3. /\ BytesOf(dest') \in Seq(Byte) /\ Len(BytesOf(dest')) = HalfSize + HiSize
          /\ \A i \in 1 .. HalfSize + HiSize :
               BytesOf(dest')[i] = IF i <= HalfSize THEN dest.lo[i] ELSE hi[i - HalfSize]
      BY <2>4, <3>2, KeyBytes
    <3>4. \A i \in 1 .. HalfSize + HiSize : i <= HalfSize \/ i - HalfSize \in 1 .. HiSize
      BY <1>2
    <3>5. QED
      BY <2>3, <3>1, <3>3, <3>4
  <2>6. ASSUME Paired
        PROVE  /\ 2 * (HalfSize + HiSize) - 1 <= Len(text)
               /\ \A i \in 1 .. HalfSize + HiSize : BytesOf(dest')[i] = PairByte(i)
    <3>1. /\ 2 * (HalfSize + HiSize) - 1 <= Len(text)
          /\ \A i \in 1 .. HalfSize : dest.lo[i] = PairByte(i)
          /\ \A i \in 1 .. HiSize : call.bytes[i] = PairByte(HalfSize + i)
      BY <1>1, <2>1, <2>6 DEF ReadInv, DigitsRead
    <3>2. ASSUME NEW i \in 1 .. HalfSize + HiSize
          PROVE  BytesOf(dest')[i] = PairByte(i)
      <4>1. CASE i <= HalfSize
        <5>1. i \in 1 .. HalfSize
          BY <1>2, <4>1
        <5>2. QED
          BY <2>5, <3>1, <4>1, <5>1
      <4>2. CASE ~ (i <= HalfSize)
        <5>1. i - HalfSize \in 1 .. HiSize /\ HalfSize + (i - HalfSize) = i
          BY <1>2, <4>2
        <5>2. call.bytes[i - HalfSize] = PairByte(i)
          BY <3>1, <5>1
        <5>3. QED
          BY <2>5, <4>2, <5>2
      <4>3. QED
        BY <4>1, <4>2
    <3>3. QED
      BY <3>1, <3>2
  <2>7. DigitsMakeBytes'
    <3>1. Paired' => Paired
      BY <1>3, <2>1
    <3>2. Paired => \A i \in 1 .. HalfSize + HiSize : BytesOf(dest')[i] = PairByte(i)'
      <4>1. HalfSize + HiSize \in Nat
        BY <1>2
      <4>2. QED
        BY <1>3, <2>1, <2>6, <4>1
    <3>3. QED
      BY <1>2, <2>1, <2>5, <2>6, <3>1, <3>2 DEF DigitsMakeBytes, Returned
  <2>8. QED
    BY <1>3, <2>1, <2>7 DEF ReadInv, DigitsRead
<1>10. CASE Format
  <2> DEFINE bytes == BytesOf(dest)
  <2>1. /\ call.step = "idle" /\ calls > 0 /\ status = "SUCCESS"
        /\ text' = Formatted(bytes) /\ origin' = {dest}
        /\ UNCHANGED <<algorithm, dest, call, status, calls>>
    BY <1>10 DEF Format
  <2>2. bytes \in Seq(Byte) /\ BytesOf(dest)' = bytes
    BY <1>2, <2>1, KeyBytes DEF BytesOf, HasHi, HiSize
  <2> HIDE DEF bytes
  <2>3. Len(text') = 2 * Len(bytes) /\ Len(bytes) \in Nat /\ text' \in Seq(Character)
    BY <2>1, <2>2, FormattedText
  <2>4. \A i \in 1 .. Len(bytes) :
          /\ 2 * i <= Len(text') /\ 2 * i \in 1 .. Len(text') /\ 2 * i - 1 \in 1 .. Len(text')
          /\ ((bytes[i] \div Radix) * Radix) + (bytes[i] % Radix) = bytes[i]
    BY <2>2, <2>3, PairDigits
  <2>5. \A i \in 1 .. Len(bytes) :
          /\ Value(2 * i - 1)' = bytes[i] \div Radix /\ Value(2 * i)' = bytes[i] % Radix
          /\ Class(2 * i - 1)' = "digit"
    <3>1. \A p \in 1 .. Len(text') : text'[p].class = "digit"
      BY <2>1, <2>2, FormattedText
    <3>2. DOMAIN text' = 1 .. Len(text')
      BY <2>3
    <3>3. \A i \in 1 .. Len(bytes) : Class(2 * i - 1)' = "digit"
      BY <2>4, <3>1, <3>2 DEF Class
    <3>4. \A i \in 1 .. Len(bytes) :
            Value(2 * i - 1)' = bytes[i] \div Radix /\ Value(2 * i)' = bytes[i] % Radix
      BY <2>1, <2>2, <2>3, <2>4, FormattedText DEF Value
    <3>5. QED
      BY <2>4, <3>3, <3>4
  <2>6. \A i \in 1 .. Len(bytes) : PairByte(i)' = bytes[i]
    <3>1. \A i \in 1 .. Len(bytes) : (2 * i - 1) + 1 = 2 * i
      BY <2>3
    <3>2. QED
      BY <2>4, <2>5, <3>1 DEF PairByte, PairAt
  <2>7. DigitsMakeBytes'
    <3>1. ~ Returned("PARSE_ERROR")' /\ DOMAIN bytes = 1 .. Len(bytes)
      BY <2>1, <2>2 DEF Returned
    <3>2. QED
      BY <2>2, <2>3, <2>6, <3>1 DEF DigitsMakeBytes
  <2>8. WrittenText'
    BY <2>1 DEF WrittenText, BytesOf, HasHi, HiSize, Formatted, bytes
  <2>9. QED
    BY <2>1, <2>7, <2>8 DEF ReadInv, DigitsRead
<1>11. CASE UNCHANGED parsingVars
  <2>1. UNCHANGED <<algorithm, origin, text, dest, call, status, calls>>
    BY <1>11 DEF parsingVars
  <2>2. Count' = Count /\ BytesOf(dest)' = BytesOf(dest)
    BY <2>1 DEF Count, BytesOf, HasHi, HiSize
  <2>3. DigitsRead'
    BY <1>1, <2>1, <2>2
       DEF ReadInv, DigitsRead, Paired, IsDigit, IsSigned, Class, PairByte, PairAt, Value
  <2>4. QED
    BY <1>1, <1>3, <2>1, <2>2, <2>3
       DEF ReadInv, DigitsMakeBytes, Returned, Paired, IsDigit, IsSigned, Class, PairByte, PairAt, Value
<1>12. QED
  BY <1>1, <1>4, <1>5, <1>6, <1>7, <1>8, <1>9, <1>10, <1>11 DEF ParsingNext

-----------------------------------------------------------------------------
(***************************************************************************)
(* Theorems.                                                               *)
(***************************************************************************)
LEMMA ParsingInvAlways == ParsingSpec => []ParsingInv /\ []ReadInv
<1>1. ParsingInit => ParsingInv /\ ReadInv
  BY ParsingInvInit, ReadInvInit
<1>2. ParsingInv /\ ReadInv /\ [ParsingNext]_parsingVars => (ParsingInv /\ ReadInv)'
  BY ParsingInvStep, ReadInvStep
<1>3. QED
  BY <1>1, <1>2, PTL DEF ParsingSpec

(* Every byte of a key, read or written, stays a byte, and the cursor       *)
(* never leaves the text.                                                   *)
THEOREM ParsingTypes == ParsingSpec => []ParsingTypeOK
<1>1. ParsingInv => ParsingTypeOK
  BY DEF ParsingInv
<1>2. QED
  BY <1>1, ParsingInvAlways, PTL

(* Two digits, or a sign and a digit, are read as a byte, in any base and    *)
(* for any length of a key, and a text of such pairs is refused only if more *)
(* than one digit is missing.                                               *)
THEOREM DigitsAreRead == ParsingSpec => []DigitsMakeBytes
<1>1. ReadInv => DigitsMakeBytes
  BY DEF ReadInv
<1>2. QED
  BY <1>1, ParsingInvAlways, PTL

(* What aes_..._format_key wrote, aes_..._parse_key reads back.              *)
THEOREM KeysAreReadBack == ParsingSpec => []RoundTrip
<1>1. ParsingInv /\ ReadInv => RoundTrip
  <2>1. SUFFICES ASSUME ParsingInv, ReadInv, NEW k \in origin
                 PROVE  /\ ~ Returned("PARSE_ERROR")
                        /\ Returned("SUCCESS") => BytesOf(dest) = BytesOf(k)
    BY DEF RoundTrip
  <2>2. k \in Key /\ dest \in Key /\ text = Formatted(BytesOf(k))
    BY <2>1 DEF ParsingInv, ParsingTypeOK, ReadInv, WrittenText
  <2>3. /\ BytesOf(k) \in Seq(Byte) /\ Len(BytesOf(k)) = Size /\ Size \in Nat
        /\ BytesOf(dest) \in Seq(Byte) /\ Len(BytesOf(dest)) = Size
    BY <2>2, KeyBytes
  <2> DEFINE b == BytesOf(k)
  <2> HIDE DEF b
  <2>4. b \in Seq(Byte) /\ Len(b) = Size /\ text = Formatted(b)
    BY <2>2, <2>3 DEF b
  <2>5. /\ Len(text) = 2 * Size /\ DOMAIN text = 1 .. Len(text)
        /\ \A p \in 1 .. Len(text) : text[p].class = "digit"
        /\ \A i \in 1 .. Size : /\ text[2 * i - 1].value = b[i] \div Radix
                                /\ text[2 * i].value = b[i] % Radix
    BY <2>4, FormattedText
  <2>6. Paired
    BY <2>5 DEF Paired, IsDigit, Class
  <2>7. \A i \in 1 .. Size : PairByte(i) = b[i]
    <3>1. \A i \in 1 .. Size :
            2 * i <= Len(text) /\ 2 * i \in DOMAIN text /\ 2 * i - 1 \in DOMAIN text
      <4>1. \A n \in Nat : \A i \in 1 .. n :
              2 * i <= 2 * n /\ 2 * i \in 1 .. 2 * n /\ 2 * i - 1 \in 1 .. 2 * n
        OBVIOUS
      <4>2. QED
        BY <2>3, <2>5, <4>1
    <3>2. \A i \in 1 .. Size : b[i] \in Byte
      BY <2>3, <2>4
    <3>3. \A i \in 1 .. Size : ((b[i] \div Radix) * Radix) + (b[i] % Radix) = b[i]
      BY <3>2, PairDigits
    <3>4. \A i \in 1 .. Size : (2 * i - 1) + 1 = 2 * i
      BY <2>3
    <3>5. \A i \in 1 .. Size : Class(2 * i - 1) = "digit"
      BY <2>5, <3>1 DEF Class
    <3>6. QED
      BY <2>5, <3>1, <3>3, <3>4, <3>5 DEF PairByte, PairAt, Value
  <2>8. ~ Returned("PARSE_ERROR")
    BY <2>1, <2>3, <2>5, <2>6 DEF ReadInv, DigitsMakeBytes
  <2>9. Returned("SUCCESS") => \A i \in 1 .. Size : BytesOf(dest)[i] = BytesOf(k)[i]
    <3>1. DOMAIN BytesOf(dest) = 1 .. Size
      BY <2>3
    <3>2. QED
      BY <2>1, <2>6, <2>7, <3>1 DEF ReadInv, DigitsMakeBytes, b
  <2>10. QED
    BY <2>3, <2>8, <2>9, SeqEqual
<1>2. QED
  BY <1>1, ParsingInvAlways, PTL

(* A call that fails leaves whole halves of the key behind.                  *)
THEOREM HalvesAreWhole == ParsingSpec => []OnlyWholeHalvesChange
<1>1. ParsingInv => OnlyWholeHalvesChange
  BY DEF ParsingInv
<1>2. QED
  BY <1>1, ParsingInvAlways, PTL
=============================================================================
