-------------------------------- MODULE Rounds --------------------------------
(***************************************************************************)
(* The block cipher as aes128.c, aes192.c and aes256.c compute it: one      *)
(* AES-NI instruction after another, with the round keys of the encryption  *)
(* or those derived from them for decryption.  The three files differ only  *)
(* in the number of rounds: 10, 12 and 14.                                  *)
(*                                                                         *)
(* A block is put through the cipher one way and then back, so that what    *)
(* Blocks assumes of Enc and Dec can be seen to hold of the code.           *)
(***************************************************************************)
EXTENDS Integers

CONSTANTS
  Rounds,        \* the index of the last round key
  State,         \* values of a 128-bit register
  Xor(_, _),     \* exclusive or of two registers
  SubBytes(_), ShiftRows(_), MixColumns(_),
  InvSubBytes(_), InvShiftRows(_), InvMixColumns(_),
  RoundKeys      \* the key schedules considered

ASSUME RoundsAssumption ==
  /\ Rounds \in Nat \ {0}
  /\ RoundKeys \subseteq [0 .. Rounds -> State]

ASSUME XorLaws ==
  \A a, b \in State : Xor(a, b) \in State /\ Xor(Xor(a, b), b) = a

ASSUME SubBytesLaws ==
  \A a \in State : /\ SubBytes(a) \in State /\ InvSubBytes(a) \in State
                   /\ InvSubBytes(SubBytes(a)) = a /\ SubBytes(InvSubBytes(a)) = a

ASSUME ShiftRowsLaws ==
  \A a \in State : /\ ShiftRows(a) \in State /\ InvShiftRows(a) \in State
                   /\ InvShiftRows(ShiftRows(a)) = a /\ ShiftRows(InvShiftRows(a)) = a

ASSUME MixColumnsLaws ==
  \A a \in State : /\ MixColumns(a) \in State /\ InvMixColumns(a) \in State
                   /\ InvMixColumns(MixColumns(a)) = a /\ MixColumns(InvMixColumns(a)) = a

(* SubBytes works byte by byte and ShiftRows moves bytes; MixColumns is      *)
(* linear.  Nothing else is used of how the four are defined.               *)
ASSUME CommutingLaws ==
  /\ \A a \in State : SubBytes(ShiftRows(a)) = ShiftRows(SubBytes(a))
  /\ \A a, b \in State :
       InvMixColumns(Xor(a, b)) = Xor(InvMixColumns(a), InvMixColumns(b))

VARIABLES
  encryption_keys,  \* the round keys, keys[0 .. Rounds]
  decryption_keys,  \* those of the decryption
  phase,            \* where the program stands
  first,            \* the direction taken first
  round,            \* the number of instructions executed on the block
  reg,              \* the register the block is in
  given,            \* history: the block that was given first
  path              \* history: path[r] is the block after r encryption rounds

roundsVars == <<encryption_keys, decryption_keys, phase, first, round, reg, given, path>>

-----------------------------------------------------------------------------
(* The instructions, as the processor manual defines them.                  *)
AesEnc(b, k)     == Xor(MixColumns(SubBytes(ShiftRows(b))), k)
AesEncLast(b, k) == Xor(SubBytes(ShiftRows(b)), k)
AesDec(b, k)     == Xor(InvMixColumns(InvSubBytes(InvShiftRows(b))), k)
AesDecLast(b, k) == Xor(InvSubBytes(InvShiftRows(b)), k)
AesImc(b)        == InvMixColumns(b)

(* A slip: the first key is transformed like those between.                 *)
DecryptionKeysAllMixed(keys) ==
  [r \in 0 .. Rounds |-> IF r = Rounds THEN keys[0] ELSE AesImc(keys[Rounds - r])]

(* aes_AES..._derive_decryption_keys_: the keys in reverse order, all but   *)
(* the outer two transformed.                                               *)
DecryptionKeys(keys) ==
  [r \in 0 .. Rounds |-> IF r \in {0, Rounds} THEN keys[Rounds - r]
                         ELSE AesImc(keys[Rounds - r])]

RoundsInit ==
  /\ encryption_keys \in RoundKeys
  /\ decryption_keys = encryption_keys
  /\ phase = "expanded"
  /\ first \in {"encrypt", "decrypt"}
  /\ round = 0
  /\ given \in State
  /\ reg = given
  /\ path = [r \in 0 .. Rounds - 1 |-> given]

(* aes_box_derive_params_...: the second half, after the key expansion.      *)
DeriveDecryptionKeys ==
  /\ phase = "expanded"
  /\ decryption_keys' = DecryptionKeys(encryption_keys)
  /\ phase' = first
  /\ UNCHANGED <<encryption_keys, first, round, reg, given, path>>

Reached(b) ==
  path' = IF first = "encrypt" THEN [path EXCEPT ![round] = b] ELSE path

XorFirstKey ==
  LET b == Xor(reg, encryption_keys[0])
  IN  /\ phase = "encrypt"
      /\ round = 0
      /\ reg' = b
      /\ round' = 1
      /\ Reached(b)
      /\ UNCHANGED <<encryption_keys, decryption_keys, phase, first, given>>

EncryptRound ==
  LET b == AesEnc(reg, encryption_keys[round])
  IN  /\ phase = "encrypt"
      /\ round \in 1 .. Rounds - 1
      /\ reg' = b
      /\ round' = round + 1
      /\ Reached(b)
      /\ UNCHANGED <<encryption_keys, decryption_keys, phase, first, given>>

(* The block that comes out is then given to the other function.            *)
Turn(direction) ==
  IF first = direction THEN IF direction = "encrypt" THEN "decrypt" ELSE "encrypt"
  ELSE "done"

EncryptLastRound ==
  /\ phase = "encrypt"
  /\ round = Rounds
  /\ reg' = AesEncLast(reg, encryption_keys[Rounds])
  /\ round' = 0
  /\ phase' = Turn("encrypt")
  /\ UNCHANGED <<encryption_keys, decryption_keys, first, given, path>>

(* Decryption starts behind the last encryption round: the block in reg,    *)
(* its last round undone, is one the encryption would have come through.    *)
Retraced(b, r) ==
  path' = IF first = "decrypt"
          THEN [path EXCEPT ![Rounds - 1 - r] = InvSubBytes(InvShiftRows(b))]
          ELSE path

XorLastKey ==
  LET b == Xor(reg, decryption_keys[0])
  IN  /\ phase = "decrypt"
      /\ round = 0
      /\ reg' = b
      /\ round' = 1
      /\ Retraced(b, 0)
      /\ UNCHANGED <<encryption_keys, decryption_keys, phase, first, given>>

DecryptRound ==
  LET b == AesDec(reg, decryption_keys[round])
  IN  /\ phase = "decrypt"
      /\ round \in 1 .. Rounds - 1
      /\ reg' = b
      /\ round' = round + 1
      /\ Retraced(b, round)
      /\ UNCHANGED <<encryption_keys, decryption_keys, phase, first, given>>

(* A slip: the last round is one like the others.                           *)
DecryptLastRoundMixed ==
  /\ phase = "decrypt"
  /\ round = Rounds
  /\ reg' = AesDec(reg, decryption_keys[Rounds])
  /\ round' = 0
  /\ phase' = Turn("decrypt")
  /\ UNCHANGED <<encryption_keys, decryption_keys, first, given, path>>

DecryptLastRound ==
  /\ phase = "decrypt"
  /\ round = Rounds
  /\ reg' = AesDecLast(reg, decryption_keys[Rounds])
  /\ round' = 0
  /\ phase' = Turn("decrypt")
  /\ UNCHANGED <<encryption_keys, decryption_keys, first, given, path>>

RoundsNext ==
  \/ DeriveDecryptionKeys
  \/ XorFirstKey \/ EncryptRound \/ EncryptLastRound
  \/ XorLastKey \/ DecryptRound \/ DecryptLastRound

RoundsSpec == RoundsInit /\ [][RoundsNext]_roundsVars

-----------------------------------------------------------------------------
(***************************************************************************)
(* Properties.                                                             *)
(***************************************************************************)
RoundsTypeOK ==
  /\ encryption_keys \in [0 .. Rounds -> State]
  /\ decryption_keys \in [0 .. Rounds -> State]
  /\ phase \in {"expanded", "encrypt", "decrypt", "done"}
  /\ first \in {"encrypt", "decrypt"}
  /\ round \in 0 .. Rounds
  /\ reg \in State
  /\ given \in State
  /\ path \in [0 .. Rounds - 1 -> State]

(* Encrypting and decrypting meet: after every instruction of the decryption *)
(* the register holds what the encryption held in the middle of a round,    *)
(* and the other way round.  It takes all of the round keys in the right    *)
(* order, with the right ones transformed.                                  *)
Retraces ==
  /\ (phase = "decrypt" /\ round > 0) =>
       reg = ShiftRows(SubBytes(path[Rounds - round]))
  /\ (phase = "encrypt" /\ round > 0) => reg = path[round - 1]

(* aes_AES..._decrypt_block_ undoes aes_AES..._encrypt_block_ with the keys *)
(* derived from the same key, and is undone by it.                          *)
ComesBack == phase = "done" => reg = given
=============================================================================
