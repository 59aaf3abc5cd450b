------------------------------- MODULE Assembly -------------------------------
(***************************************************************************)
(* The key functions of aes128.asm, aes192.asm and aes256.asm, instruction  *)
(* by instruction: 32-bit words in the registers, and the two arrays of      *)
(* round keys in memory.  aes192.asm makes six words in a call and stores    *)
(* them straight behind one another, across the bounds of the round keys.   *)
(*                                                                         *)
(* A register or a word never written is Unset, which no instruction can    *)
(* be applied to.                                                           *)
(***************************************************************************)
EXTENDS Words

CONSTANTS
  Imc(_)   \* aesimc, on a register

VARIABLES
  key,                     \* the key given
  xmm0, xmm1, xmm4, xmm5,
  ecx,                     \* the word ecx points at
  encryption_keys,         \* [ecx]: the words of the key schedule
  decryption_keys,         \* [edx]: the round keys of the decryption
  step,                    \* where the program stands
  shifts,                  \* the shifts made in this call of ..._keygen_assist
  calls,                   \* the calls of ..._keygen_assist that returned
  pairs                    \* the pairs of decryption keys made

registers == <<xmm0, xmm1, xmm4, xmm5, ecx>>
vars == <<key, registers, encryption_keys, decryption_keys, step, shifts, calls, pairs>>

-----------------------------------------------------------------------------
Schedule == INSTANCE Schedule WITH words <- encryption_keys

Nk == Schedule!Nk
Rounds == Schedule!Rounds
Index == Schedule!Index

LastCall == CASE key.algorithm = "AES128" -> 10
              [] key.algorithm = "AES192" -> 8
              [] key.algorithm = "AES256" -> 13

Steps == {"entry", "generate", "copy", "shift", "upper", "store", "store upper",
          "exchange", "derive"}

(* The immediate operands of aeskeygenassist.                                *)
Rcon == <<1, 2, 4, 8, 16, 32, 64, 128, 27, 54>>

(* The first n lanes of a register, written to memory at a word.             *)
Stored(at, reg, n) ==
  [i \in Index |-> IF i \in at .. at + n - 1 THEN reg[i - at] ELSE encryption_keys[i]]

-----------------------------------------------------------------------------
Init ==
  /\ key \in BoxKeys
  /\ xmm0 = key.lo
  /\ xmm1 = IF key.algorithm = "AES128" THEN Unset ELSE key.hi
  /\ xmm4 = Unset
  /\ xmm5 = Unset
  /\ ecx = 0
  /\ encryption_keys = [i \in Index |-> Unset]
  /\ decryption_keys = [r \in 0 .. Rounds |-> Unset]
  /\ step = "entry"
  /\ shifts = 0
  /\ calls = 0
  /\ pairs = 0

At(algorithm, from, to) ==
  /\ key.algorithm = algorithm
  /\ step = from
  /\ step' = to
  /\ UNCHANGED <<key, decryption_keys, pairs>>

StoreKey128 ==
  /\ At("AES128", "entry", "generate")
  /\ encryption_keys' = Stored(0, xmm0, 4)
  /\ ecx' = 4
  /\ UNCHANGED <<xmm0, xmm1, xmm4, xmm5, shifts, calls>>

(* movq stores the lower half of xmm1; ecx stays.                            *)
StoreKey192 ==
  /\ At("AES192", "entry", "generate")
  /\ encryption_keys' = [i \in Index |-> IF i \in 4 .. 5 THEN xmm1[i - 4]
                                         ELSE Stored(0, xmm0, 4)[i]]
  /\ UNCHANGED <<registers, shifts, calls>>

StoreKey256 ==
  /\ At("AES256", "entry", "generate")
  /\ encryption_keys' = [i \in Index |-> IF i \in 4 .. 7 THEN xmm1[i - 4]
                                         ELSE Stored(0, xmm0, 4)[i]]
  /\ ecx' = 8
  /\ UNCHANGED <<xmm0, xmm1, xmm4, xmm5, shifts, calls>>

(* aeskeygenassist and the call behind it.                                   *)
Generate(algorithm, word) ==
  /\ At(algorithm, "generate", "copy")
  /\ calls < LastCall
  /\ xmm5' = word
  /\ UNCHANGED <<xmm0, xmm1, xmm4, ecx, encryption_keys, shifts, calls>>

Generate128 == Generate("AES128", KeygenAssist(xmm0, Rcon[calls + 1]))

Generate192 == Generate("AES192", KeygenAssist(xmm1, Rcon[calls + 1]))

(* Rotated and with a constant, or neither, in turn; here it is the caller   *)
(* that copies the word to all the lanes.                                   *)
Generate256 ==
  Generate("AES256",
           IF calls % 2 = 0 THEN Broadcast(KeygenAssist(xmm1, Rcon[calls \div 2 + 1]), 3)
           ELSE Broadcast(KeygenAssist(xmm1, 0), 2))

-----------------------------------------------------------------------------
(* The first seven instructions of ..._keygen_assist.                       *)
Copy ==
  /\ At(key.algorithm, "copy", "shift")
  /\ xmm4' = xmm0
  /\ shifts' = 0
  /\ UNCHANGED <<xmm0, xmm1, xmm5, ecx, encryption_keys, calls>>

ShiftAndAdd ==
  /\ At(key.algorithm, "shift", "shift")
  /\ shifts < 3
  /\ shifts' = shifts + 1
  /\ xmm4' = ShiftedLeft(xmm4, 1)
  /\ xmm0' = XorRegister(xmm0, xmm4')
  /\ UNCHANGED <<xmm1, xmm5, ecx, encryption_keys, calls>>

AddGenerated128 ==
  /\ At("AES128", "shift", "store")
  /\ shifts = 3
  /\ xmm4' = Broadcast(xmm5, 3)
  /\ xmm0' = XorRegister(xmm0, xmm4')
  /\ UNCHANGED <<xmm1, xmm5, ecx, encryption_keys, shifts, calls>>

AddGenerated192 ==
  /\ At("AES192", "shift", "upper")
  /\ shifts = 3
  /\ xmm4' = Broadcast(xmm5, 1)
  /\ xmm0' = XorRegister(xmm0, xmm4')
  /\ UNCHANGED <<xmm1, xmm5, ecx, encryption_keys, shifts, calls>>

(* A slip, the one that the comment at pxor xmm1, xmm4 makes: xmm1 ^= xmm5.   *)
AddUpperOfXmm5 ==
  LET sum == XorRegister(xmm1, xmm5)
  IN  /\ At("AES192", "upper", "store")
      /\ xmm4' = ShiftedRight(Broadcast(xmm0, 3), 2)
      /\ xmm1' = XorRegister(sum, xmm4')
      /\ calls' = calls + 1
      /\ UNCHANGED <<xmm0, xmm5, ecx, encryption_keys, shifts>>

(* The upper half of xmm1 is zero, and adds as zero what is shuffled from it. *)
AddUpper192 ==
  LET sum == XorRegister(xmm1, Shuffled(xmm1, <<3, 0, 3, 3>>))
  IN  /\ At("AES192", "upper", "store")
      /\ xmm4' = ShiftedRight(Broadcast(xmm0, 3), 2)
      /\ xmm1' = XorRegister(sum, xmm4')
      /\ calls' = calls + 1
      /\ UNCHANGED <<xmm0, xmm5, ecx, encryption_keys, shifts>>

AddGenerated256 ==
  /\ At("AES256", "shift", "store")
  /\ shifts = 3
  /\ xmm0' = XorRegister(xmm0, xmm5)
  /\ UNCHANGED <<xmm1, xmm4, xmm5, ecx, encryption_keys, shifts, calls>>

-----------------------------------------------------------------------------
StoreAndAdvance ==
  /\ encryption_keys' = Stored(ecx, xmm0, 4)
  /\ ecx' = ecx + 4

Store128 ==
  /\ At("AES128", "store", "generate")
  /\ StoreAndAdvance
  /\ calls' = calls + 1
  /\ UNCHANGED <<xmm0, xmm1, xmm4, xmm5, shifts>>

(* Back in the caller, which knows by itself where the six words go.        *)
StoreLower192 ==
  /\ At("AES192", "store", IF calls = LastCall THEN "generate" ELSE "store upper")
  /\ encryption_keys' = Stored(ecx + 6 * calls, xmm0, 4)
  /\ UNCHANGED <<registers, shifts, calls>>

(* A slip: movdqa in the place of movq stores the zeroes too.                *)
StoreUpper192Whole ==
  /\ At("AES192", "store upper", "generate")
  /\ encryption_keys' = Stored(ecx + 6 * calls + 4, xmm1, 4)
  /\ UNCHANGED <<registers, shifts, calls>>

StoreUpper192 ==
  /\ At("AES192", "store upper", "generate")
  /\ encryption_keys' = Stored(ecx + 6 * calls + 4, xmm1, 2)
  /\ UNCHANGED <<registers, shifts, calls>>

Store256 ==
  /\ At("AES256", "store", "exchange")
  /\ StoreAndAdvance
  /\ UNCHANGED <<xmm0, xmm1, xmm4, xmm5, shifts, calls>>

(* By three exclusive ors.                                                  *)
Exchange256 ==
  LET mixed == XorRegister(xmm0, xmm1)
  IN  /\ At("AES256", "exchange", "generate")
      /\ xmm1' = XorRegister(xmm1, mixed)
      /\ xmm0' = XorRegister(mixed, xmm1')
      /\ calls' = calls + 1
      /\ UNCHANGED <<xmm4, xmm5, ecx, encryption_keys, shifts>>

-----------------------------------------------------------------------------
(* aes_AES..._derive_decryption_keys_: ecx points at the encryption keys     *)
(* again, and the outermost pair of keys changes places first.              *)
CallDerive ==
  /\ At(key.algorithm, "generate", "derive")
  /\ calls = LastCall
  /\ ecx' = 0
  /\ UNCHANGED <<xmm0, xmm1, xmm4, xmm5, encryption_keys, shifts, calls>>

RoundKey(r) == [i \in 0 .. 3 |-> encryption_keys[ecx + 4 * r + i]]

(* Both are loaded before either is stored.                                  *)
DerivePair(low, high) ==
  /\ step = "derive"
  /\ xmm5' = low
  /\ xmm4' = high
  /\ decryption_keys' = [decryption_keys EXCEPT ![pairs] = high, ![Rounds - pairs] = low]
  /\ pairs' = pairs + 1
  /\ UNCHANGED <<key, xmm0, xmm1, ecx, encryption_keys, step, shifts, calls>>

DeriveOuterPair ==
  /\ pairs = 0
  /\ DerivePair(RoundKey(0), RoundKey(Rounds))

(* A slip: the second of a pair is moved and not transformed.                *)
DeriveInnerPairHalf ==
  /\ pairs \in 1 .. Rounds \div 2 - 1
  /\ DerivePair(Imc(RoundKey(pairs)), RoundKey(Rounds - pairs))

DeriveInnerPair ==
  /\ pairs \in 1 .. Rounds \div 2 - 1
  /\ DerivePair(Imc(RoundKey(pairs)), Imc(RoundKey(Rounds - pairs)))

DeriveMiddleKey ==
  /\ step = "derive"
  /\ pairs = Rounds \div 2
  /\ xmm5' = Imc(RoundKey(pairs))
  /\ decryption_keys' = [decryption_keys EXCEPT ![pairs] = xmm5']
  /\ pairs' = pairs + 1
  /\ UNCHANGED <<key, xmm0, xmm1, xmm4, ecx, encryption_keys, step, shifts, calls>>

-----------------------------------------------------------------------------
Next ==
  \/ StoreKey128 \/ Generate128 \/ AddGenerated128 \/ Store128
  \/ StoreKey192 \/ Generate192 \/ AddGenerated192 \/ AddUpper192
  \/ StoreLower192 \/ StoreUpper192
  \/ StoreKey256 \/ Generate256 \/ AddGenerated256 \/ Store256 \/ Exchange256
  \/ Copy \/ ShiftAndAdd
  \/ CallDerive \/ DeriveOuterPair \/ DeriveInnerPair \/ DeriveMiddleKey

Spec == Init /\ [][Next]_vars

-----------------------------------------------------------------------------
(***************************************************************************)
(* Properties.                                                             *)
(***************************************************************************)
(* The words are stored without a gap, all of them by the return, and ecx    *)
(* points behind them wherever ..._keygen_assist advances it.               *)
TypeOK ==
  /\ key \in BoxKeys
  /\ xmm0 \in Register
  /\ {xmm1, xmm4, xmm5} \subseteq Register \cup {Unset}
  /\ encryption_keys \in [Index -> Word \cup {Unset}]
  /\ decryption_keys \in [0 .. Rounds -> Register \cup {Unset}]
  /\ step \in Steps
  /\ shifts \in 0 .. 3
  /\ calls \in 0 .. LastCall
  /\ pairs \in 0 .. Rounds \div 2 + 1
  /\ \E n \in 0 .. 4 * Rounds + 4 :
       /\ Schedule!Made(n)
       /\ step = "derive" => n = 4 * Rounds + 4
       /\ key.algorithm # "AES192" /\ step # "derive" => ecx = n

(* Each store makes the next words of the schedule, as FIPS-197 says them,   *)
(* and leaves the words before alone.                                       *)
ImplementsSchedule == Schedule!Spec

-----------------------------------------------------------------------------
(* RotWord(SubWord(w[n]))^Rcon, or the HWGEN of aes256.asm, in the c-th call. *)
Generated(c, n) ==
  LET sub == SubWord(encryption_keys[n])
  IN  CASE key.algorithm # "AES256" -> XorWord(RotWord(sub), RconWord(FipsRcon[c + 1]))
        [] key.algorithm = "AES256" /\ c % 2 = 0 ->
             XorWord(RotWord(sub), RconWord(FipsRcon[c \div 2 + 1]))
        [] OTHER -> sub

(* g^w[i+j]^...^w[i], as the comments write it.                              *)
Sum(g, i, j) ==
  LET s[k \in 0 .. j] == XorWord(IF k = 0 THEN g ELSE s[k - 1], encryption_keys[i + k])
  IN  s[j]

Holds(reg, i) == \A j \in 0 .. 3 : reg[j] = encryption_keys[i + j]

Precondition ==
  LET i == (IF key.algorithm = "AES192" THEN 6 ELSE 4) * calls
      g == Generated(calls, i + Nk - 1)
  IN  /\ Holds(xmm0, i)
      /\ CASE key.algorithm = "AES128" -> xmm5[3] = g /\ ecx = i + 4
           [] key.algorithm = "AES192" ->
                /\ \A j \in 0 .. 1 : xmm1[j] = encryption_keys[i + 4 + j]
                /\ xmm1[2] = ZeroWord /\ xmm1[3] = ZeroWord
                /\ xmm5[1] = g
           [] key.algorithm = "AES256" ->
                /\ Holds(xmm1, i + 4)
                /\ \A j \in 0 .. 3 : xmm5[j] = g
                /\ ecx = i + 8

Postcondition ==
  LET i == (IF key.algorithm = "AES192" THEN 6 ELSE 4) * (calls - 1)
      g == Generated(calls - 1, i + Nk - 1)
  IN  CASE key.algorithm = "AES128" ->
             /\ \A j \in 0 .. 3 : xmm0[j] = Sum(g, i, j) /\ Holds(xmm0, i + 4)
             /\ ecx = i + 8
        [] key.algorithm = "AES192" ->
             /\ \A j \in 0 .. 3 : xmm0[j] = Sum(g, i, j)
             /\ \A j \in 0 .. 1 : xmm1[j] = Sum(g, i, 4 + j)
             /\ xmm1[2] = ZeroWord /\ xmm1[3] = ZeroWord
        [] key.algorithm = "AES256" ->
             /\ \A j \in 0 .. 3 : xmm1[j] = Sum(g, i, j)
             /\ Holds(xmm1, i + 8) /\ Holds(xmm0, i + 4)
             /\ ecx = i + 12

(* What ..._keygen_assist requires and ensures by the comments in front of   *)
(* it, when it is called and when it has returned.                          *)
KeepsItsPromises ==
  /\ step = "copy" => Precondition
  /\ calls > 0 /\ step = (IF key.algorithm = "AES192" THEN "store" ELSE "generate")
       => Postcondition

(* The pairs, from the outside to the middle, make the decryption keys that  *)
(* the C functions make one by one, and overwrite none.                     *)
DerivesTheKeysOfC ==
  LET Derived == {r \in 0 .. Rounds : r < pairs \/ r > Rounds - pairs}
      DecryptionKey(r) == IF r \in {0, Rounds} THEN RoundKey(Rounds - r)
                          ELSE Imc(RoundKey(Rounds - r))
  IN  \A r \in 0 .. Rounds :
        decryption_keys[r] = IF r \in Derived THEN DecryptionKey(r) ELSE Unset
=============================================================================
