--------------------------------- MODULE Words ---------------------------------
(***************************************************************************)
(* What the key expansions are made of, in C and in assembly: 32-bit words,  *)
(* four of them in a 128-bit register, and the instructions on registers.   *)
(***************************************************************************)
EXTENDS Integers

CONSTANTS
  Word,            \* values of a 32-bit lane
  ZeroWord,
  XorWord(_, _),
  SubWord(_),      \* the S-box on each of the four bytes
  RotWord(_),      \* the bytes rotated by one
  RconWord(_),     \* the word of a round constant
  Doubled(_),      \* multiplication by x in GF(2^8)
  FipsRcon,        \* the round constants of FIPS-197
  BoxKeys,         \* the keys considered: algorithm, lo and hi
  Unset            \* a round key, or a word of one, not yet written

Algorithm == {"AES128", "AES192", "AES256"}

(* A 128-bit register: lane 0 is the word at the lowest address.            *)
Register == [0 .. 3 -> Word]

(* The constructors of an AES-192 key clear the upper half of hi.           *)
ASSUME KeysAssumption ==
  /\ BoxKeys \subseteq [algorithm : Algorithm, lo : Register, hi : Register]
  /\ \A k \in BoxKeys :
       k.algorithm = "AES192" => k.hi[2] = ZeroWord /\ k.hi[3] = ZeroWord
  /\ Unset \notin Register /\ Unset \notin Word

ASSUME XorWordLaws ==
  /\ ZeroWord \in Word
  /\ \A a \in Word : XorWord(a, ZeroWord) = a /\ XorWord(a, a) = ZeroWord
  /\ \A a, b \in Word : XorWord(a, b) \in Word /\ XorWord(a, b) = XorWord(b, a)
  /\ \A a, b, c \in Word : XorWord(XorWord(a, b), c) = XorWord(a, XorWord(b, c))

ASSUME SubWordLaws ==
  \A a \in Word : /\ SubWord(a) \in Word /\ RotWord(a) \in Word
                  /\ SubWord(RotWord(a)) = RotWord(SubWord(a))

ASSUME RconLaws ==
  /\ \A c \in 0 .. 255 : RconWord(c) \in Word
  /\ RconWord(0) = ZeroWord
  /\ FipsRcon[1] = 1
  /\ \A n \in 1 .. 9 : FipsRcon[n + 1] = Doubled(FipsRcon[n])
  /\ \A c \in 1 .. 127 : Doubled(c) = 2 * c
  /\ Doubled(128) = 27

-----------------------------------------------------------------------------
(* The instructions, by lanes.                                              *)
XorRegister(a, b) == [i \in 0 .. 3 |-> XorWord(a[i], b[i])]

ShiftedLeft(a, n) == [i \in 0 .. 3 |-> IF i >= n THEN a[i - n] ELSE ZeroWord]

ShiftedRight(a, n) == [i \in 0 .. 3 |-> IF i + n <= 3 THEN a[i + n] ELSE ZeroWord]

Shuffled(a, s) == [i \in 0 .. 3 |-> a[s[i + 1]]]

Broadcast(a, n) == [i \in 0 .. 3 |-> a[n]]

(* shuffle_pd: a half of a below a half of b.                               *)
LowLow(a, b)  == [i \in 0 .. 3 |-> IF i < 2 THEN a[i] ELSE b[i - 2]]
HighLow(a, b) == [i \in 0 .. 3 |-> IF i < 2 THEN a[i + 2] ELSE b[i - 2]]

KeygenAssist(a, rcon) ==
  LET Rotated(w) == XorWord(RotWord(SubWord(w)), RconWord(rcon))
  IN  [i \in 0 .. 3 |-> CASE i = 0 -> SubWord(a[1]) [] i = 1 -> Rotated(a[1])
                          [] i = 2 -> SubWord(a[3]) [] i = 3 -> Rotated(a[3])]

(* Each lane is added to all the lanes above it, by three shifts.           *)
Accumulated(a) ==
  XorRegister(XorRegister(XorRegister(a,
    ShiftedLeft(a, 1)), ShiftedLeft(a, 2)), ShiftedLeft(a, 3))
=============================================================================
