---------------------------- MODULE Assembly_proofs ----------------------------
(***************************************************************************)
(* Proofs about Assembly, for every S-box and every key: the three key       *)
(* functions implement Schedule, ..._keygen_assist keeps the promises of     *)
(* its comments, and the decryption keys are those of the C functions.       *)
(***************************************************************************)
EXTENDS Assembly, TLAPS

(* What is known of words and registers does not depend on the variables.    *)
KE == INSTANCE KeyExpansion_proofs WITH
        lo <- xmm0, hi <- xmm1, keys <- encryption_keys

LEMMA WordLaws ==
  /\ KE!KeysAssumption /\ KE!XorWordLaws /\ KE!SubWordLaws /\ KE!RconLaws
<1>1. KE!Register = Register /\ KE!Algorithm = Algorithm
  BY DEF KE!Register, Register, KE!Algorithm, Algorithm
<1>2. QED
  BY <1>1, KeysAssumption, XorWordLaws, SubWordLaws, RconLaws
     DEF KE!KeysAssumption, KE!XorWordLaws, KE!SubWordLaws, KE!RconLaws

LEMMA RconIsFips ==
  ASSUME NEW n \in 1 .. 10
  PROVE  Rcon[n] = FipsRcon[n] /\ Rcon[n] \in 0 .. 255 /\ RconWord(Rcon[n]) \in Word
<1>1. KE!Rcon[n] = FipsRcon[n] /\ KE!Rcon[n] \in 0 .. 255
  BY WordLaws, KE!RconIsFips
<1>2. Rcon[n] = KE!Rcon[n]
  BY DEF Rcon, KE!Rcon
<1>3. QED
  BY <1>1, <1>2, RconLaws

LEMMA KeygenAssistLanes ==
  ASSUME NEW a \in Register, NEW c \in 0 .. 255
  PROVE  LET k == KeygenAssist(a, c)
         IN  /\ k \in Register
             /\ k[1] = XorWord(RotWord(SubWord(a[1])), RconWord(c))
             /\ k[2] = SubWord(a[3])
             /\ k[3] = XorWord(RotWord(SubWord(a[3])), RconWord(c))
<1>1. a[1] \in Word /\ a[3] \in Word /\ RconWord(c) \in Word
  BY RconLaws DEF Register
<1>2. /\ SubWord(a[1]) \in Word /\ RotWord(SubWord(a[1])) \in Word
      /\ SubWord(a[3]) \in Word /\ RotWord(SubWord(a[3])) \in Word
  BY <1>1, SubWordLaws
<1>3. /\ XorWord(RotWord(SubWord(a[1])), RconWord(c)) \in Word
      /\ XorWord(RotWord(SubWord(a[3])), RconWord(c)) \in Word
  BY <1>1, <1>2, XorWordLaws
<1>4. QED
  BY <1>2, <1>3 DEF KeygenAssist, Register

(* The instructions give registers.                                         *)
LEMMA RegisterTypes ==
  ASSUME NEW a \in Register, NEW b \in Register, NEW n \in 0 .. 3
  PROVE  /\ XorRegister(a, b) \in Register /\ ShiftedLeft(a, n) \in Register
         /\ ShiftedRight(a, n) \in Register /\ Broadcast(a, n) \in Register
<1>1. \A i \in 0 .. 3 : a[i] \in Word /\ b[i] \in Word /\ XorWord(a[i], b[i]) \in Word
  BY XorWordLaws DEF Register
<1>2. ZeroWord \in Word
  BY XorWordLaws
<1>3. XorRegister(a, b) \in Register
  BY <1>1 DEF XorRegister, Register
<1>4. ShiftedLeft(a, n) \in Register
  BY <1>1, <1>2 DEF ShiftedLeft, Register
<1>5. ShiftedRight(a, n) \in Register
  BY <1>1, <1>2 DEF ShiftedRight, Register
<1>6. Broadcast(a, n) \in Register
  BY <1>1 DEF Broadcast, Register
<1>7. QED
  BY <1>3, <1>4, <1>5, <1>6

(* One shift more.                                                          *)
LEMMA ShiftOnce ==
  ASSUME NEW a \in Register, NEW n \in 0 .. 2
  PROVE  ShiftedLeft(ShiftedLeft(a, n), 1) = ShiftedLeft(a, n + 1)
  BY DEF ShiftedLeft, Register

LEMMA AccumulationChains ==
  ASSUME NEW a \in Register, NEW t \in Word
  PROVE  LET s == XorRegister(Accumulated(a), [i \in 0 .. 3 |-> t])
         IN  /\ s \in Register
             /\ s[0] = XorWord(a[0], t)
             /\ \A j \in 1 .. 3 : s[j] = XorWord(a[j], s[j - 1])
<1> DEFINE s == XorRegister(Accumulated(a), [i \in 0 .. 3 |-> t])
           k == KE!XorRegister(KE!Accumulated(a), [i \in 0 .. 3 |-> t])
<1>1. KE!Register = Register
  BY DEF KE!Register, Register
<1>2. /\ k \in Register
      /\ k[0] = XorWord(a[0], t)
      /\ k[1] = XorWord(a[1], k[0])
      /\ k[2] = XorWord(a[2], k[1])
      /\ k[3] = XorWord(a[3], k[2])
  <2>1. a \in KE!Register
    BY <1>1
  <2>2. /\ k \in KE!Register
        /\ k[0] = XorWord(a[0], t)
        /\ k[1] = XorWord(a[1], k[0])
        /\ k[2] = XorWord(a[2], k[1])
        /\ k[3] = XorWord(a[3], k[2])
    BY <2>1, WordLaws, KE!AccumulationChains, Zenon
  <2>3. QED
    BY <1>1, <2>2
<1>3. s = k
  BY DEF XorRegister, Accumulated, ShiftedLeft, KE!XorRegister, KE!Accumulated,
         KE!ShiftedLeft
<1> HIDE DEF s
<1>4. /\ s \in Register /\ s[0] = XorWord(a[0], t)
      /\ \A j \in 1 .. 3 : s[j] = XorWord(a[j], s[j - 1])
  <2>1. \A j \in 1 .. 3 : j = 1 \/ j = 2 \/ j = 3
    OBVIOUS
  <2> HIDE DEF k
  <2>2. QED
    BY <1>2, <1>3, <2>1
<1>5. QED
  BY <1>4, Zenon DEF s

-----------------------------------------------------------------------------
(***************************************************************************)
(* The inductive invariant: what is in the registers and in memory wherever  *)
(* the program stands.                                                      *)
(***************************************************************************)
(* The calls of ..._keygen_assist whose words are all stored.  In AES-192    *)
(* the caller stores the words of a call that has been counted.             *)
Turn ==
  IF key.algorithm = "AES192" /\ step \in {"store", "store upper"}
  THEN calls - 1 ELSE calls

(* The first of the words that the call in progress makes others from.      *)
PerCall == IF key.algorithm = "AES192" THEN 6 ELSE 4

First == PerCall * Turn

(* The number of words stored.                                              *)
Count ==
  CASE step = "entry" -> 0
    [] step # "entry" /\ key.algorithm = "AES128" -> First + 4
    [] step # "entry" /\ key.algorithm = "AES192" ->
         CASE step = "store upper" -> First + 10
           [] step \in {"generate", "derive"} /\ calls = LastCall -> 52
           [] OTHER -> First + 6
    [] step # "entry" /\ key.algorithm = "AES256" ->
         IF step = "exchange" THEN First + 12 ELSE First + 8

(* What a register can hold, whatever aesimc makes of one.                  *)
Loaded == Register \cup {Imc(a) : a \in Register} \cup {Unset}

(* The types of the variables, and where each program can stand with how     *)
(* many calls behind it.                                                    *)
Shape ==
  /\ key \in BoxKeys
  /\ encryption_keys \in [Index -> Word \cup {Unset}]
  /\ decryption_keys \in [0 .. Rounds -> Loaded]
  /\ xmm0 \in Register
  /\ IF key.algorithm = "AES128" THEN xmm1 = Unset ELSE xmm1 \in Register
  /\ xmm4 \in Loaded /\ xmm5 \in Loaded
  /\ shifts \in 0 .. 3
  /\ calls \in 0 .. LastCall
  /\ pairs \in 0 .. Rounds \div 2 + 1

Standing ==
  /\ step \in Steps
  /\ step = "entry" => calls = 0
  /\ step = "derive" => calls = LastCall
  /\ step # "derive" => pairs = 0
  /\ step \in {"copy", "shift", "upper", "store upper", "exchange"} => calls < LastCall
  /\ step = "store" => IF key.algorithm = "AES192" THEN calls > 0 ELSE calls < LastCall
  /\ step = "upper" => key.algorithm = "AES192"
  /\ step = "store upper" => key.algorithm = "AES192" /\ calls > 0
  /\ step = "exchange" => key.algorithm = "AES256"

(* The words stored so far are those of FIPS-197.                           *)
Expanded ==
  /\ Schedule!Made(Count)
  /\ \A i \in 0 .. Count - 1 :
       encryption_keys[i] = Schedule!FipsWord(encryption_keys, i)

Old == [j \in 0 .. 3 |-> encryption_keys[First + j]]

Gen == Generated(Turn, First + Nk - 1)

(* A register after n times shift and add.                                  *)
Summed(a, n) ==
  CASE n = 0 -> a
    [] n = 1 -> XorRegister(a, ShiftedLeft(a, 1))
    [] n = 2 -> XorRegister(XorRegister(a, ShiftedLeft(a, 1)), ShiftedLeft(a, 2))
    [] n = 3 -> Accumulated(a)

Lower ==
  /\ step = "entry" => xmm0 = key.lo
  /\ step \in {"generate", "copy"} => xmm0 = Old
  /\ step = "shift" => xmm0 = Summed(Old, shifts) /\ xmm4 = ShiftedLeft(Old, shifts)
  /\ step \in {"upper", "store", "store upper", "exchange"} =>
       /\ xmm0[0] = XorWord(Old[0], Gen)
       /\ \A j \in 1 .. 3 : xmm0[j] = XorWord(Old[j], xmm0[j - 1])
  /\ step \in {"store upper", "exchange"} => Holds(xmm0, First + Nk)

(* In AES-192 the upper half of xmm1 stays zero.                            *)
Upper192 ==
  /\ xmm1[2] = ZeroWord /\ xmm1[3] = ZeroWord
  /\ step \in {"generate", "copy", "shift", "upper"} /\ calls < LastCall =>
       xmm1[0] = encryption_keys[First + 4] /\ xmm1[1] = encryption_keys[First + 5]
  /\ step \in {"store", "store upper"} =>
       /\ xmm1[0] = XorWord(encryption_keys[First + 4], xmm0[3])
       /\ xmm1[1] = XorWord(encryption_keys[First + 5], xmm1[0])

Upper ==
  /\ step = "entry" /\ key.algorithm # "AES128" => xmm1 = key.hi
  /\ key.algorithm = "AES192" => Upper192
  /\ key.algorithm = "AES256" /\ step \notin {"entry", "derive"} =>
       Holds(xmm1, First + 4)

(* What aeskeygenassist has left in xmm5, in the lanes that are used.       *)
Assisted ==
  /\ step \in {"copy", "shift", "upper"} => xmm5 \in Register
  /\ step \in {"copy", "shift"} =>
       CASE key.algorithm = "AES128" -> xmm5[3] = Gen
         [] key.algorithm = "AES192" -> xmm5[1] = Gen
         [] key.algorithm = "AES256" -> \A j \in 0 .. 3 : xmm5[j] = Gen

Pointed ==
  ecx = IF step \in {"entry", "derive"} \/ key.algorithm = "AES192" THEN 0 ELSE Count

Inv ==
  Shape /\ Standing /\ Expanded /\ Lower /\ Upper /\ Assisted /\ Pointed
    /\ DerivesTheKeysOfC

-----------------------------------------------------------------------------
(***************************************************************************)
(* The schedule.                                                           *)
(***************************************************************************)
LEMMA Figures ==
  ASSUME Shape
  PROVE  /\ key.algorithm \in {"AES128", "AES192", "AES256"}
         /\ key.lo \in Register /\ key.hi \in Register
         /\ key.algorithm = "AES192" => key.hi[2] = ZeroWord /\ key.hi[3] = ZeroWord
         /\ key.algorithm = "AES128" =>
              Nk = 4 /\ Rounds = 10 /\ LastCall = 10 /\ Index = 0 .. 43 /\ PerCall = 4
         /\ key.algorithm = "AES192" =>
              Nk = 6 /\ Rounds = 12 /\ LastCall = 8 /\ Index = 0 .. 51 /\ PerCall = 6
         /\ key.algorithm = "AES256" =>
              Nk = 8 /\ Rounds = 14 /\ LastCall = 13 /\ Index = 0 .. 59 /\ PerCall = 4
         /\ Nk = Schedule!Nk /\ Rounds = Schedule!Rounds /\ Index = Schedule!Index
         /\ calls \in Nat /\ calls <= LastCall
<1>1. /\ key.algorithm \in {"AES128", "AES192", "AES256"}
      /\ key.lo \in Register /\ key.hi \in Register
      /\ key.algorithm = "AES192" => key.hi[2] = ZeroWord /\ key.hi[3] = ZeroWord
  BY KeysAssumption DEF Shape, Algorithm
<1>2. CASE key.algorithm = "AES128"
  BY <1>1, <1>2
     DEF Shape, Nk, Rounds, Index, LastCall, PerCall, Schedule!Nk, Schedule!Rounds, Schedule!Index
<1>3. CASE key.algorithm = "AES192"
  BY <1>1, <1>3
     DEF Shape, Nk, Rounds, Index, LastCall, PerCall, Schedule!Nk, Schedule!Rounds, Schedule!Index
<1>4. CASE key.algorithm = "AES256"
  BY <1>1, <1>4
     DEF Shape, Nk, Rounds, Index, LastCall, PerCall, Schedule!Nk, Schedule!Rounds, Schedule!Index
<1>5. QED
  BY <1>1, <1>2, <1>3, <1>4

LEMMA GeneratedType ==
  ASSUME Shape, NEW c \in 0 .. LastCall - 1, NEW n, encryption_keys[n] \in Word
  PROVE  Generated(c, n) \in Word
<1> DEFINE sub == SubWord(encryption_keys[n])
<1>1. sub \in Word /\ RotWord(sub) \in Word
  BY SubWordLaws
<1>2. /\ key.algorithm # "AES256" => c + 1 \in 1 .. 10
      /\ key.algorithm = "AES256" /\ c % 2 = 0 => c \div 2 + 1 \in 1 .. 10
  BY Figures
<1>3. \A k \in 1 .. 10 : RconWord(FipsRcon[k]) \in Word
  BY RconIsFips
<1> HIDE DEF sub
<1>4. \A k \in 1 .. 10 : XorWord(RotWord(sub), RconWord(FipsRcon[k])) \in Word
  BY <1>1, <1>3, XorWordLaws
<1>5. QED
  BY <1>1, <1>2, <1>4 DEF Generated, sub

(* The words that a call makes, from those before it.                       *)
LEMMA Recurrence ==
  ASSUME Shape, NEW c \in 0 .. LastCall - 1, NEW f,
         NEW n \in Nat, n = PerCall * c + Nk,
         encryption_keys[n - 1] \in Word, f[n - 1] = encryption_keys[n - 1]
  PROVE  /\ Schedule!FipsWord(f, n) = XorWord(f[n - Nk], Generated(c, n - 1))
         /\ \A j \in 1 .. PerCall - 1 :
              Schedule!FipsWord(f, n + j) = XorWord(f[n + j - Nk], f[n + j - 1])
<1> DEFINE v == encryption_keys[n - 1]
<1>1. SubWord(RotWord(v)) = RotWord(SubWord(v))
  BY SubWordLaws
<1>2. CASE key.algorithm = "AES128"
  <2>1. Nk = 4 /\ Schedule!Nk = 4 /\ PerCall = 4 /\ n = 4 * c + 4
    BY <1>2, Figures
  <2>2. n % 4 = 0 /\ n \div 4 = c + 1 /\ n >= 4
    BY <2>1
  <2>3. \A j \in 1 .. 3 : (n + j) % 4 = j /\ n + j >= 4
    BY <2>1
  <2>4. Schedule!FipsWord(f, n)
          = XorWord(f[n - 4], XorWord(RotWord(SubWord(v)), RconWord(FipsRcon[c + 1])))
    BY <1>1, <2>1, <2>2 DEF Schedule!FipsWord
  <2>5. \A j \in 1 .. 3 :
          Schedule!FipsWord(f, n + j) = XorWord(f[n + j - 4], f[n + j - 1])
    BY <2>1, <2>3 DEF Schedule!FipsWord
  <2>6. Generated(c, n - 1) = XorWord(RotWord(SubWord(v)), RconWord(FipsRcon[c + 1]))
    BY <1>2 DEF Generated
  <2> HIDE DEF v
  <2>7. QED
    BY <2>1, <2>4, <2>5, <2>6
<1>3. CASE key.algorithm = "AES192"
  <2>1. Nk = 6 /\ Schedule!Nk = 6 /\ PerCall = 6 /\ n = 6 * c + 6
    BY <1>3, Figures
  <2>2. n % 6 = 0 /\ n \div 6 = c + 1 /\ n >= 6
    BY <2>1
  <2>3. \A j \in 1 .. 5 : (n + j) % 6 = j /\ n + j >= 6
    BY <2>1
  <2>4. Schedule!FipsWord(f, n)
          = XorWord(f[n - 6], XorWord(RotWord(SubWord(v)), RconWord(FipsRcon[c + 1])))
    BY <1>1, <2>1, <2>2 DEF Schedule!FipsWord
  <2>5. \A j \in 1 .. 5 :
          Schedule!FipsWord(f, n + j) = XorWord(f[n + j - 6], f[n + j - 1])
    BY <2>1, <2>3 DEF Schedule!FipsWord
  <2>6. Generated(c, n - 1) = XorWord(RotWord(SubWord(v)), RconWord(FipsRcon[c + 1]))
    BY <1>3 DEF Generated
  <2> HIDE DEF v
  <2>7. QED
    BY <2>1, <2>4, <2>5, <2>6
<1>4. CASE key.algorithm = "AES256"
  <2>1. Nk = 8 /\ Schedule!Nk = 8 /\ PerCall = 4 /\ n = 4 * c + 8
    BY <1>4, Figures
  <2>2. \A j \in 1 .. 3 : (n + j) % 8 # 0 /\ (n + j) % 8 # 4 /\ n + j >= 8
    BY <2>1
  <2>3. \A j \in 1 .. 3 :
          Schedule!FipsWord(f, n + j) = XorWord(f[n + j - 8], f[n + j - 1])
    BY <2>1, <2>2 DEF Schedule!FipsWord
  <2>4. Schedule!FipsWord(f, n) = XorWord(f[n - 8], Generated(c, n - 1))
    <3>1. CASE c % 2 = 0
      <4>1. n % 8 = 0 /\ n \div 8 = c \div 2 + 1 /\ n >= 8
        BY <2>1, <3>1
      <4>2. Schedule!FipsWord(f, n)
              = XorWord(f[n - 8],
                        XorWord(RotWord(SubWord(v)), RconWord(FipsRcon[c \div 2 + 1])))
        BY <1>1, <2>1, <4>1 DEF Schedule!FipsWord
      <4>3. QED
        BY <1>4, <3>1, <4>2 DEF Generated
    <3>2. CASE c % 2 # 0
      <4>1. n % 8 = 4 /\ n >= 8
        BY <2>1, <3>2
      <4>2. Schedule!FipsWord(f, n) = XorWord(f[n - 8], SubWord(v))
        BY <2>1, <4>1 DEF Schedule!FipsWord
      <4>3. QED
        BY <1>4, <3>2, <4>2 DEF Generated
    <3>3. QED
      BY <3>1, <3>2
  <2>5. QED
    BY <2>1, <2>3, <2>4
<1>5. QED
  BY <1>2, <1>3, <1>4, Figures

-----------------------------------------------------------------------------
(* Where a call is in progress, all the words it is made from are stored.   *)
Calling ==
  \/ step \in {"copy", "shift", "upper", "store", "store upper", "exchange"}
  \/ step = "generate" /\ calls < LastCall

LEMMA Counts ==
  ASSUME Shape, Standing
  PROVE  /\ Turn \in Nat /\ First \in Nat /\ Count \in Nat
         /\ Count <= 4 * Rounds + 4
         /\ \A i \in 0 .. Count - 1 : i \in Index
         /\ Calling => Turn \in 0 .. LastCall - 1 /\ First + Nk <= Count
         /\ step # "entry" => First + 4 <= Count
         /\ step = "derive" => Count = 4 * Rounds + 4
<1>1. calls \in Nat /\ calls <= LastCall /\ LastCall \in {8, 10, 13}
  BY Figures
<1>2. /\ Turn \in Nat /\ Turn <= LastCall
      /\ Calling => Turn < LastCall
      /\ step = "derive" => Turn = LastCall
  <2>1. CASE key.algorithm = "AES192" /\ step \in {"store", "store upper"}
    <3>1. calls > 0 /\ Turn = calls - 1 /\ step # "derive"
      BY <2>1 DEF Turn, Standing
    <3>2. QED
      BY <1>1, <3>1
  <2>2. CASE ~ (key.algorithm = "AES192" /\ step \in {"store", "store upper"})
    <3>1. Turn = calls
      BY <2>2 DEF Turn
    <3>2. step # "derive" \/ calls = LastCall
      BY DEF Standing
    <3>3. Calling => calls < LastCall
      <4>1. step = "store" => calls < LastCall
        BY <2>2 DEF Standing
      <4>2. step = "store upper" => calls < LastCall
        BY DEF Standing
      <4>3. QED
        BY <1>1, <4>1, <4>2 DEF Calling, Standing
    <3>4. QED
      BY <1>1, <3>1, <3>2, <3>3
  <2>3. QED
    BY <2>1, <2>2
<1>3. CASE key.algorithm = "AES128"
  <2>1. /\ Nk = 4 /\ LastCall = 10 /\ Rounds = 10 /\ Index = 0 .. 43 /\ First = 4 * Turn
    BY <1>3, Figures DEF First
  <2>2. Count = IF step = "entry" THEN 0 ELSE First + 4
    BY <1>3 DEF Count
  <2>3. step = "entry" => ~ Calling
    BY DEF Calling
  <2>4. QED
    BY <1>2, <2>1, <2>2, <2>3
<1>4. CASE key.algorithm = "AES192"
  <2>1. /\ Nk = 6 /\ LastCall = 8 /\ Rounds = 12 /\ Index = 0 .. 51 /\ First = 6 * Turn
    BY <1>4, Figures DEF First
  <2>2. CASE step = "entry"
    <3>1. Count = 0 /\ ~ Calling /\ step # "derive"
      BY <2>2 DEF Count, Calling
    <3>2. QED
      BY <1>2, <2>1, <2>2, <3>1
  <2>3. CASE step = "store upper"
    <3>1. Turn <= 6 /\ Count = First + 10 /\ step # "derive"
      <4>1. calls < LastCall /\ Turn = calls - 1
        BY <1>4, <2>3 DEF Turn, Standing
      <4>2. Count = First + 10 /\ step # "derive"
        BY <1>4, <2>3 DEF Count
      <4>3. QED
        BY <1>1, <2>1, <4>1, <4>2
    <3>2. QED
      BY <1>2, <2>1, <3>1
  <2>4. CASE step \in {"generate", "derive"} /\ calls = LastCall
    <3>1. Turn = 8 /\ Count = 52 /\ ~ Calling
      <4>1. Turn = calls
        BY <2>4 DEF Turn
      <4>2. Count = 52
        BY <1>4, <2>4 DEF Count
      <4>3. ~ Calling
        <5>1. ~ (calls < LastCall)
          BY <1>1, <2>4
        <5>2. step = "generate" \/ step = "derive"
          BY <2>4
        <5>3. QED
          BY <5>1, <5>2 DEF Calling
      <4>4. QED
        BY <2>1, <2>4, <4>1, <4>2, <4>3
    <3>2. QED
      BY <2>1, <3>1
  <2>5. CASE /\ step # "entry" /\ step # "store upper"
             /\ ~ (step \in {"generate", "derive"} /\ calls = LastCall)
    <3>1. Count = First + 6
      BY <1>4, <2>5 DEF Count
    <3>2. Calling /\ step # "derive"
      <4>1. step # "derive"
        BY <2>5 DEF Standing
      <4>2. step = "generate" => calls < LastCall
        BY <1>1, <2>5
      <4>3. QED
        BY <2>5, <4>1, <4>2 DEF Calling, Standing, Steps
    <3>3. QED
      BY <1>2, <2>1, <3>1, <3>2
  <2>6. QED
    BY <2>2, <2>3, <2>4, <2>5
<1>5. CASE key.algorithm = "AES256"
  <2>1. /\ Nk = 8 /\ LastCall = 13 /\ Rounds = 14 /\ Index = 0 .. 59 /\ First = 4 * Turn
    BY <1>5, Figures DEF First
  <2>2. Count = IF step = "entry" THEN 0
                ELSE IF step = "exchange" THEN First + 12 ELSE First + 8
    BY <1>5 DEF Count
  <2>3. /\ step = "entry" => ~ Calling
        /\ step = "exchange" => Calling
    BY DEF Calling
  <2>4. QED
    BY <1>2, <2>1, <2>2, <2>3
<1>6. QED
  BY <1>3, <1>4, <1>5, Figures

(* The words stored are words.                                              *)
LEMMA StoredWords ==
  ASSUME Inv
  PROVE  /\ \A i \in 0 .. Count - 1 : i \in Index /\ encryption_keys[i] \in Word
         /\ \A i \in Index : i >= Count => encryption_keys[i] = Unset
         /\ step # "entry" => Old \in Register
         /\ Calling => Gen \in Word
<1>1. Shape /\ Standing /\ Schedule!Made(Count) /\ Schedule!Index = Index
  BY Figures DEF Inv, Expanded
<1>2. \A i \in 0 .. Count - 1 : i \in Index /\ encryption_keys[i] \in Word
  <2>1. \A i \in 0 .. Count - 1 : i \in Index /\ i < Count
    BY <1>1, Counts
  <2>2. QED
    BY <1>1, <2>1 DEF Schedule!Made, Shape
<1>3. \A i \in Index : i >= Count => encryption_keys[i] = Unset
  <2>1. \A i \in Index : i \in Nat
    BY <1>1, Figures
  <2>2. Count \in Nat
    BY <1>1, Counts
  <2>3. QED
    BY <1>1, <2>1, <2>2 DEF Schedule!Made
<1>4. step # "entry" => Old \in Register
  <2> SUFFICES ASSUME step # "entry"
               PROVE  Old \in Register
    OBVIOUS
  <2>1. First \in Nat /\ Count \in Nat /\ First + 4 <= Count
    BY <1>1, Counts
  <2>2. \A j \in 0 .. 3 : First + j \in 0 .. Count - 1
    BY <2>1
  <2>3. QED
    BY <1>2, <2>2 DEF Old, Register
<1>5. Calling => Gen \in Word
  <2> SUFFICES ASSUME Calling
               PROVE  Gen \in Word
    OBVIOUS
  <2>1. /\ First \in Nat /\ Count \in Nat /\ First + Nk <= Count /\ Nk \in {4, 6, 8}
        /\ Turn \in 0 .. LastCall - 1
    BY <1>1, Counts, Figures
  <2>2. First + Nk - 1 \in 0 .. Count - 1
    BY <2>1
  <2>3. QED
    BY <1>1, <1>2, <2>1, <2>2, GeneratedType DEF Gen
<1>6. QED
  BY <1>2, <1>3, <1>4, <1>5

(* A step that stores nothing.                                              *)
LEMMA NothingStored ==
  ASSUME UNCHANGED <<key, encryption_keys>>
  PROVE  /\ Nk' = Nk /\ Rounds' = Rounds /\ LastCall' = LastCall /\ Index' = Index
         /\ PerCall' = PerCall
         /\ Expanded /\ Count' = Count => Expanded'
         /\ Turn' = Turn => First' = First /\ Old' = Old /\ Gen' = Gen
<1>1. /\ Nk' = Nk /\ Rounds' = Rounds /\ LastCall' = LastCall /\ Index' = Index
      /\ PerCall' = PerCall
  BY DEF Nk, Rounds, LastCall, Index, PerCall, Schedule!Nk, Schedule!Rounds,
         Schedule!Index
<1>2. Expanded /\ Count' = Count => Expanded'
  BY DEF Expanded, Schedule!Made, Schedule!Index, Schedule!Rounds, Schedule!Nk,
         Schedule!FipsWord, Schedule!KeyWord
<1>3. Turn' = Turn => First' = First /\ Old' = Old /\ Gen' = Gen
  <2> SUFFICES ASSUME Turn' = Turn
               PROVE  First' = First /\ Old' = Old /\ Gen' = Gen
    OBVIOUS
  <2>1. First' = First
    BY <1>1 DEF First
  <2>2. Old' = Old
    BY <2>1 DEF Old
  <2>3. Gen' = Gen
    BY <1>1, <2>1 DEF Gen, Generated
  <2>4. QED
    BY <2>1, <2>2, <2>3
<1>4. QED
  BY <1>1, <1>2, <1>3

(* A step that stores the next words.                                       *)
LEMMA WordsStored ==
  ASSUME Inv, key' = key, NEW m \in Nat, Count' = m, Count < m,
         \A i \in 0 .. m - 1 : i \in Index,
         encryption_keys' = [i \in Index |-> encryption_keys'[i]],
         \A i \in Index : i \notin Count .. m - 1 =>
                            encryption_keys'[i] = encryption_keys[i],
         \A i \in Count .. m - 1 :
           /\ encryption_keys'[i] \in Word
           /\ encryption_keys'[i] = Schedule!FipsWord(encryption_keys', i)
  PROVE  /\ Expanded' /\ Schedule!Next
         /\ encryption_keys' \in [Index' -> Word \cup {Unset}]
         /\ Nk' = Nk /\ Rounds' = Rounds /\ LastCall' = LastCall /\ Index' = Index
         /\ PerCall' = PerCall
<1>1. /\ Nk' = Nk /\ Rounds' = Rounds /\ LastCall' = LastCall /\ Index' = Index
      /\ PerCall' = PerCall
  BY DEF Nk, Rounds, LastCall, Index, PerCall, Schedule!Nk, Schedule!Rounds,
         Schedule!Index
<1>2. PICK n \in Nat : n = Count /\ n < m
  BY Counts DEF Inv
<1>3. /\ Schedule!Made(n) /\ Schedule!Index = Index /\ Schedule!Nk = Nk
      /\ Nk \in {4, 6, 8} /\ Rounds \in {10, 12, 14} /\ Schedule!Rounds = Rounds
      /\ Index = 0 .. 4 * Rounds + 3
      /\ \A i \in 0 .. n - 1 :
           encryption_keys[i] = Schedule!FipsWord(encryption_keys, i)
  <2>1. /\ Schedule!Made(n) /\ \A i \in 0 .. n - 1 :
                                encryption_keys[i] = Schedule!FipsWord(encryption_keys, i)
    BY <1>2 DEF Inv, Expanded
  <2>2. /\ Schedule!Index = Index /\ Schedule!Nk = Nk /\ Schedule!Rounds = Rounds
        /\ Nk \in {4, 6, 8} /\ Rounds \in {10, 12, 14} /\ Index = 0 .. 4 * Rounds + 3
    <3>1. Shape
      BY DEF Inv
    <3>2. CASE key.algorithm = "AES128"
      BY <3>1, <3>2, Figures
    <3>3. CASE key.algorithm = "AES192"
      BY <3>1, <3>3, Figures
    <3>4. CASE key.algorithm = "AES256"
      BY <3>1, <3>4, Figures
    <3>5. QED
      BY <3>1, <3>2, <3>3, <3>4, Figures
  <2>3. QED
    BY <2>1, <2>2
<1>4. encryption_keys' \in [Index -> Word \cup {Unset}]
  <2>1. \A i \in Index : encryption_keys'[i] \in Word \cup {Unset}
    BY <1>2 DEF Inv, Shape
  <2>2. QED
    BY <2>1
<1>5. Schedule!Made(m)'
  <2>1. \A i \in Index : encryption_keys[i] # Unset <=> i < n
    BY <1>3 DEF Schedule!Made
  <2>2. \A i \in Index : encryption_keys'[i] # Unset <=> i < m
    <3>1. ASSUME NEW i \in Index
          PROVE  encryption_keys'[i] # Unset <=> i < m
      <4>1. i \in Nat
        BY <1>3
      <4>2. CASE i \in n .. m - 1
        BY <1>2, <4>1, <4>2, KeysAssumption
      <4>3. CASE i \notin n .. m - 1
        BY <1>2, <2>1, <4>1, <4>3
      <4>4. QED
        BY <4>2, <4>3
    <3>2. QED
      BY <3>1
  <2>3. Schedule!Index' = Index
    BY <1>1, <1>3 DEF Index
  <2>4. QED
    BY <2>2, <2>3 DEF Schedule!Made
<1>6. \A i \in 0 .. m - 1 :
        encryption_keys'[i] = Schedule!FipsWord(encryption_keys', i)
  <2> SUFFICES ASSUME NEW i \in 0 .. m - 1
               PROVE  encryption_keys'[i] = Schedule!FipsWord(encryption_keys', i)
    OBVIOUS
  <2>1. CASE i \in n .. m - 1
    BY <1>2, <2>1
  <2>2. CASE i \notin n .. m - 1
    <3>1. i \in 0 .. n - 1 /\ i \in Index
      BY <1>2, <2>2
    <3>2. encryption_keys'[i] = encryption_keys[i]
      BY <1>2, <2>2, <3>1
    <3>3. CASE i < Nk
      BY <1>3, <3>1, <3>2, <3>3 DEF Schedule!FipsWord
    <3>4. CASE i >= Nk
      <4>1. /\ i - 1 \in 0 .. m - 1 /\ i - Nk \in 0 .. m - 1
            /\ i - 1 \notin n .. m - 1 /\ i - Nk \notin n .. m - 1
        BY <1>2, <1>3, <3>1, <3>4
      <4>2. /\ encryption_keys'[i - 1] = encryption_keys[i - 1]
            /\ encryption_keys'[i - Nk] = encryption_keys[i - Nk]
        BY <1>2, <4>1
      <4>3. Schedule!FipsWord(encryption_keys', i) = Schedule!FipsWord(encryption_keys, i)
        BY <1>3, <3>4, <4>2 DEF Schedule!FipsWord
      <4>4. QED
        BY <1>3, <3>1, <3>2, <4>3
    <3>5. QED
      BY <1>3, <3>3, <3>4
  <2>3. QED
    BY <2>1, <2>2
<1>7. Expanded'
  <2>1. \A i \in 0 .. m - 1 :
          Schedule!FipsWord(encryption_keys, i)' = Schedule!FipsWord(encryption_keys', i)
    BY DEF Schedule!FipsWord, Schedule!Nk, Schedule!KeyWord
  <2>2. QED
    BY <1>5, <1>6, <2>1 DEF Expanded
<1>8. Schedule!Next
  <2>1. n \in 0 .. 4 * Rounds + 4 /\ m \in 0 .. 4 * Rounds + 4
    <3>1. m - 1 \in Index
      BY <1>2
    <3>2. QED
      BY <1>2, <1>3, <3>1
  <2>2. \A i \in Index :
          IF i \in n .. m - 1
          THEN encryption_keys'[i] = Schedule!FipsWord(encryption_keys', i)
          ELSE encryption_keys'[i] = encryption_keys[i]
    BY <1>2
  <2>3. Schedule!Make(n, m)
    BY <1>3, <2>2 DEF Schedule!Make
  <2>4. QED
    BY <1>2, <1>3, <2>1, <2>3 DEF Schedule!Next
<1>9. QED
  BY <1>1, <1>4, <1>7, <1>8

-----------------------------------------------------------------------------
(***************************************************************************)
(* The steps that store nothing.                                           *)
(***************************************************************************)
(* Up to the derivation, no decryption key is there.                        *)
LEMMA ShapeKept ==
  ASSUME Inv, step # "derive", UNCHANGED <<key, decryption_keys, pairs>>,
         encryption_keys' \in [Index -> Word \cup {Unset}],
         xmm0' \in Register,
         IF key.algorithm = "AES128" THEN xmm1' = Unset ELSE xmm1' \in Register,
         xmm4' \in Register \/ xmm4' = xmm4, xmm5' \in Register \/ xmm5' = xmm5,
         shifts' \in 0 .. 3, calls' \in 0 .. LastCall
  PROVE  Shape' /\ DerivesTheKeysOfC'
<1>1. Rounds' = Rounds /\ LastCall' = LastCall /\ Index' = Index
  BY DEF Rounds, LastCall, Index, Schedule!Nk, Schedule!Rounds, Schedule!Index
<1>2. Shape'
  <2>1. xmm4' \in Loaded /\ xmm5' \in Loaded
    BY DEF Inv, Shape, Loaded
  <2>2. Loaded' = Loaded
    BY DEF Loaded
  <2>3. QED
    BY <1>1, <2>1, <2>2 DEF Inv, Shape
<1>3. pairs = 0 /\ Rounds \in {10, 12, 14}
  <2>1. pairs = 0
    BY DEF Inv, Standing
  <2>2. Rounds \in {10, 12, 14}
    BY Figures DEF Inv
  <2>3. QED
    BY <2>1, <2>2
<1>4. {r \in 0 .. Rounds : r < pairs \/ r > Rounds - pairs} = {}
  BY <1>3
<1>5. \A r \in 0 .. Rounds : decryption_keys[r] = Unset
  BY <1>4 DEF Inv, DerivesTheKeysOfC
<1>6. DerivesTheKeysOfC'
  BY <1>1, <1>4, <1>5 DEF DerivesTheKeysOfC
<1>7. QED
  BY <1>2, <1>6

LEMMA GenerateStep ==
  ASSUME Inv, NEW word \in Register, Generate(key.algorithm, word),
         CASE key.algorithm = "AES128" -> word[3] = Gen
           [] key.algorithm = "AES192" -> word[1] = Gen
           [] key.algorithm = "AES256" -> \A j \in 0 .. 3 : word[j] = Gen
  PROVE  Inv'
<1>1. /\ step = "generate" /\ step' = "copy" /\ calls < LastCall /\ xmm5' = word
      /\ UNCHANGED <<key, xmm0, xmm1, xmm4, ecx, encryption_keys, decryption_keys,
                     shifts, calls, pairs>>
  BY DEF Generate, At
<1>2. Turn' = Turn
  BY <1>1 DEF Turn
<1>3. LastCall' = LastCall /\ First' = First /\ Old' = Old /\ Gen' = Gen /\ Nk' = Nk
  BY <1>1, <1>2, NothingStored
<1>4. calls # LastCall
  BY <1>1, Figures DEF Inv
<1>5. Count' = Count
  BY <1>1, <1>3, <1>4 DEF Count
<1>6. Shape' /\ DerivesTheKeysOfC'
  BY <1>1, ShapeKept DEF Inv, Shape
<1>7. Standing'
  BY <1>1, <1>3 DEF Inv, Standing, Steps
<1>8. Expanded'
  BY <1>1, <1>5, NothingStored DEF Inv
<1>9. Lower'
  BY <1>1, <1>3 DEF Inv, Lower
<1>10. Upper'
  BY <1>1, <1>3 DEF Inv, Upper, Upper192, Holds
<1>11. Assisted'
  BY <1>1, <1>3 DEF Assisted
<1>12. Pointed'
  BY <1>1, <1>5 DEF Inv, Pointed
<1>13. QED
  BY <1>6, <1>7, <1>8, <1>9, <1>10, <1>11, <1>12 DEF Inv

(* Where the program generates, the words of the call in progress are in the *)
(* registers.                                                              *)
LEMMA Generating ==
  ASSUME Inv, step = "generate", calls < LastCall
  PROVE  /\ Turn = calls /\ First = PerCall * calls /\ calls \in 0 .. LastCall - 1
         /\ Gen = Generated(calls, First + Nk - 1)
         /\ xmm0 \in Register
         /\ \A j \in 0 .. 3 : xmm0[j] = encryption_keys[First + j]
         /\ key.algorithm = "AES192" =>
              xmm1 \in Register /\ xmm1[1] = encryption_keys[First + 5]
         /\ key.algorithm = "AES256" => xmm1 \in Register /\ Holds(xmm1, First + 4)
<1>1. Turn = calls
  BY DEF Turn
<1>2. xmm0 = Old
  BY DEF Inv, Lower
<1>3. \A j \in 0 .. 3 : Old[j] = encryption_keys[First + j]
  BY DEF Old
<1>4. calls \in 0 .. LastCall - 1
  BY Figures DEF Inv
<1>5. key.algorithm = "AES192" => xmm1[1] = encryption_keys[First + 5]
  BY DEF Inv, Upper, Upper192
<1>6. key.algorithm = "AES256" => Holds(xmm1, First + 4)
  BY DEF Inv, Upper
<1>7. xmm0 \in Register /\ (key.algorithm # "AES128" => xmm1 \in Register)
  BY DEF Inv, Shape
<1>8. First = PerCall * calls /\ Gen = Generated(calls, First + Nk - 1)
  BY <1>1 DEF First, Gen
<1>9. QED
  BY <1>1, <1>2, <1>3, <1>4, <1>5, <1>6, <1>7, <1>8

LEMMA Generate128Step ==
  ASSUME Inv, Generate128
  PROVE  Inv'
<1> DEFINE k == KeygenAssist(xmm0, Rcon[calls + 1])
<1>1. key.algorithm = "AES128" /\ step = "generate" /\ calls < LastCall
  BY DEF Generate128, Generate, At
<1>2. calls + 1 \in 1 .. 10 /\ Nk = 4 /\ First \in Nat
  BY <1>1, Figures, Counts DEF Inv
<1>3. /\ k \in Register
      /\ k[3] = XorWord(RotWord(SubWord(xmm0[3])), RconWord(Rcon[calls + 1]))
  BY <1>1, <1>2, RconIsFips, Generating, KeygenAssistLanes
<1>4. xmm0[3] = encryption_keys[First + 3] /\ Gen = Generated(calls, First + 3)
  BY <1>1, <1>2, Generating
<1>5. k[3] = Gen
  <2>1. Rcon[calls + 1] = FipsRcon[calls + 1]
    BY <1>2, RconIsFips
  <2> HIDE DEF k
  <2>2. QED
    BY <1>1, <1>3, <1>4, <2>1 DEF Generated
<1>6. Generate(key.algorithm, k)
  BY <1>1 DEF Generate128
<1> HIDE DEF k
<1>7. QED
  BY <1>1, <1>3, <1>5, <1>6, GenerateStep

LEMMA Generate192Step ==
  ASSUME Inv, Generate192
  PROVE  Inv'
<1> DEFINE k == KeygenAssist(xmm1, Rcon[calls + 1])
<1>1. key.algorithm = "AES192" /\ step = "generate" /\ calls < LastCall
  BY DEF Generate192, Generate, At
<1>2. calls + 1 \in 1 .. 10 /\ Nk = 6 /\ First \in Nat
  BY <1>1, Figures, Counts DEF Inv
<1>3. /\ k \in Register
      /\ k[1] = XorWord(RotWord(SubWord(xmm1[1])), RconWord(Rcon[calls + 1]))
  BY <1>1, <1>2, RconIsFips, Generating, KeygenAssistLanes
<1>4. xmm1[1] = encryption_keys[First + 5] /\ Gen = Generated(calls, First + 5)
  BY <1>1, <1>2, Generating
<1>5. k[1] = Gen
  <2>1. Rcon[calls + 1] = FipsRcon[calls + 1]
    BY <1>2, RconIsFips
  <2> HIDE DEF k
  <2>2. QED
    BY <1>1, <1>3, <1>4, <2>1 DEF Generated
<1>6. Generate(key.algorithm, k)
  BY <1>1 DEF Generate192
<1> HIDE DEF k
<1>7. QED
  BY <1>1, <1>3, <1>5, <1>6, GenerateStep

LEMMA Generate256Step ==
  ASSUME Inv, Generate256
  PROVE  Inv'
<1> DEFINE k(c) == KeygenAssist(xmm1, c)
           word == IF calls % 2 = 0 THEN Broadcast(k(Rcon[calls \div 2 + 1]), 3)
                   ELSE Broadcast(k(0), 2)
<1>1. key.algorithm = "AES256" /\ step = "generate" /\ calls < LastCall
  BY DEF Generate256, Generate, At
<1>2. calls \in Nat /\ calls \div 2 + 1 \in 1 .. 10 /\ Nk = 8 /\ First \in Nat
  BY <1>1, Figures, Counts DEF Inv
<1>3. xmm1[3] = encryption_keys[First + 7] /\ Gen = Generated(calls, First + 7)
  <2>1. Holds(xmm1, First + 4) /\ Gen = Generated(calls, First + 7)
    BY <1>1, <1>2, Generating
  <2>2. QED
    BY <1>2, <2>1 DEF Holds
<1>4. xmm1 \in Register
  BY <1>1, Generating
<1>5. word \in Register /\ \A j \in 0 .. 3 : word[j] = Gen
  <2>1. CASE calls % 2 = 0
    <3>1. /\ Rcon[calls \div 2 + 1] = FipsRcon[calls \div 2 + 1]
          /\ Rcon[calls \div 2 + 1] \in 0 .. 255
      BY <1>2, RconIsFips
    <3>2. /\ k(Rcon[calls \div 2 + 1]) \in Register
          /\ k(Rcon[calls \div 2 + 1])[3]
               = XorWord(RotWord(SubWord(xmm1[3])), RconWord(Rcon[calls \div 2 + 1]))
      BY <1>4, <3>1, KeygenAssistLanes
    <3>3. Gen = XorWord(RotWord(SubWord(xmm1[3])), RconWord(Rcon[calls \div 2 + 1]))
      BY <1>1, <1>3, <2>1, <3>1 DEF Generated
    <3> HIDE DEF k
    <3>4. word \in Register
      BY <2>1, <3>2, RegisterTypes
    <3>5. \A j \in 0 .. 3 : word[j] = Gen
      BY <2>1, <3>2, <3>3 DEF Broadcast
    <3>6. QED
      BY <3>4, <3>5
  <2>2. CASE calls % 2 # 0
    <3>1. k(0) \in Register /\ k(0)[2] = SubWord(xmm1[3])
      BY <1>4, KeygenAssistLanes
    <3>2. Gen = SubWord(xmm1[3])
      BY <1>1, <1>3, <2>2 DEF Generated
    <3> HIDE DEF k
    <3>3. word \in Register
      BY <2>2, <3>1, RegisterTypes
    <3>4. \A j \in 0 .. 3 : word[j] = Gen
      BY <2>2, <3>1, <3>2 DEF Broadcast
    <3>5. QED
      BY <3>3, <3>4
  <2>3. QED
    BY <2>1, <2>2
<1>6. Generate(key.algorithm, word)
  BY <1>1 DEF Generate256
<1> HIDE DEF word
<1>7. QED
  BY <1>1, <1>5, <1>6, GenerateStep

LEMMA CopyStep ==
  ASSUME Inv, Copy
  PROVE  Inv'
<1>1. /\ step = "copy" /\ step' = "shift" /\ xmm4' = xmm0 /\ shifts' = 0
      /\ UNCHANGED <<key, xmm0, xmm1, xmm5, ecx, encryption_keys, decryption_keys,
                     calls, pairs>>
  BY DEF Copy, At
<1>2. Turn' = Turn
  BY <1>1 DEF Turn
<1>3. LastCall' = LastCall /\ First' = First /\ Old' = Old /\ Gen' = Gen
  BY <1>1, <1>2, NothingStored
<1>4. Count' = Count
  BY <1>1, <1>3 DEF Count
<1>5. Shape' /\ DerivesTheKeysOfC'
  BY <1>1, ShapeKept DEF Inv, Shape
<1>6. Standing'
  BY <1>1, <1>3 DEF Inv, Standing, Steps
<1>7. Expanded'
  BY <1>1, <1>4, NothingStored DEF Inv
<1>8. Lower'
  <2>1. xmm0 = Old /\ Old \in Register
    BY <1>1 DEF Inv, Lower, Shape
  <2>2. ShiftedLeft(Old, 0) = Old /\ Summed(Old, 0) = Old
    BY <2>1 DEF ShiftedLeft, Summed, Register
  <2>3. QED
    BY <1>1, <1>3, <2>1, <2>2 DEF Lower
<1>9. Upper'
  BY <1>1, <1>3 DEF Inv, Upper, Upper192, Holds
<1>10. Assisted'
  BY <1>1, <1>3 DEF Inv, Assisted
<1>11. Pointed'
  BY <1>1, <1>4 DEF Inv, Pointed
<1>12. QED
  BY <1>5, <1>6, <1>7, <1>8, <1>9, <1>10, <1>11 DEF Inv

LEMMA ShiftAndAddStep ==
  ASSUME Inv, ShiftAndAdd
  PROVE  Inv'
<1>1. /\ step = "shift" /\ step' = "shift" /\ shifts < 3 /\ shifts' = shifts + 1
      /\ xmm4' = ShiftedLeft(xmm4, 1) /\ xmm0' = XorRegister(xmm0, xmm4')
      /\ UNCHANGED <<key, xmm1, xmm5, ecx, encryption_keys, decryption_keys,
                     calls, pairs>>
  BY DEF ShiftAndAdd, At
<1>2. Turn' = Turn
  BY <1>1 DEF Turn
<1>3. LastCall' = LastCall /\ First' = First /\ Old' = Old /\ Gen' = Gen
  BY <1>1, <1>2, NothingStored
<1>4. Count' = Count
  BY <1>1, <1>3 DEF Count
<1>5. /\ shifts \in 0 .. 2 /\ Old \in Register
      /\ xmm0 = Summed(Old, shifts) /\ xmm4 = ShiftedLeft(Old, shifts)
  <2>1. shifts \in 0 .. 2
    BY <1>1 DEF Inv, Shape
  <2>2. Old \in Register
    BY <1>1, StoredWords
  <2>3. QED
    BY <1>1, <2>1, <2>2 DEF Inv, Lower
<1>6. xmm4' = ShiftedLeft(Old, shifts') /\ xmm4' \in Register
  <2>1. xmm4' = ShiftedLeft(Old, shifts')
    BY <1>1, <1>5, ShiftOnce
  <2>2. shifts' \in 0 .. 3
    BY <1>1, <1>5
  <2>3. QED
    BY <1>5, <2>1, <2>2, RegisterTypes
<1>7. xmm0' = Summed(Old, shifts')
  <2>1. CASE shifts = 0
    BY <1>1, <1>5, <1>6, <2>1 DEF Summed
  <2>2. CASE shifts = 1
    BY <1>1, <1>5, <1>6, <2>2 DEF Summed
  <2>3. CASE shifts = 2
    BY <1>1, <1>5, <1>6, <2>3 DEF Summed, Accumulated
  <2>4. QED
    BY <1>5, <2>1, <2>2, <2>3
<1>8. xmm0' \in Register
  BY <1>1, <1>6, RegisterTypes DEF Inv, Shape
<1>9. shifts' \in 0 .. 3
  BY <1>1, <1>5
<1>10. Shape' /\ DerivesTheKeysOfC'
  BY <1>1, <1>6, <1>8, <1>9, ShapeKept DEF Inv, Shape
<1>11. Standing'
  BY <1>1, <1>3 DEF Inv, Standing, Steps
<1>12. Expanded'
  BY <1>1, <1>4, NothingStored DEF Inv
<1>13. Lower'
  BY <1>1, <1>3, <1>6, <1>7 DEF Lower
<1>14. Upper'
  BY <1>1, <1>3 DEF Inv, Upper, Upper192, Holds
<1>15. Assisted'
  BY <1>1, <1>3 DEF Inv, Assisted
<1>16. Pointed'
  BY <1>1, <1>4 DEF Inv, Pointed
<1>17. QED
  BY <1>10, <1>11, <1>12, <1>13, <1>14, <1>15, <1>16 DEF Inv

(* The shifts made, the word generated makes the four words of the call.    *)
LEMMA AddGeneratedStep ==
  ASSUME Inv, step = "shift", shifts = 3, step' \in {"store", "upper"},
         step' = "store" <=> key.algorithm # "AES192",
         xmm0' = XorRegister(xmm0, [i \in 0 .. 3 |-> Gen]),
         xmm4' \in Register \/ xmm4' = xmm4,
         UNCHANGED <<key, xmm1, xmm5, ecx, encryption_keys, decryption_keys,
                     shifts, calls, pairs>>
  PROVE  Inv'
<1>1. Turn' = Turn
  BY DEF Turn
<1>2. LastCall' = LastCall /\ First' = First /\ Old' = Old /\ Gen' = Gen
  BY <1>1, NothingStored
<1>3. Count' = Count
  BY <1>2 DEF Count
<1>4. /\ xmm0' \in Register
      /\ xmm0'[0] = XorWord(Old[0], Gen)
      /\ \A j \in 1 .. 3 : xmm0'[j] = XorWord(Old[j], xmm0'[j - 1])
  <2>1. Old \in Register /\ Gen \in Word
    BY StoredWords DEF Calling
  <2>2. xmm0 = Accumulated(Old)
    BY DEF Inv, Lower, Summed
  <2>3. QED
    BY <2>1, <2>2, AccumulationChains
<1>5. Shape' /\ DerivesTheKeysOfC'
  BY <1>4, ShapeKept DEF Inv, Shape
<1>6. Standing'
  BY <1>2 DEF Inv, Standing, Steps
<1>7. Expanded'
  BY <1>3, NothingStored DEF Inv
<1>8. Lower'
  BY <1>2, <1>4 DEF Lower
<1>9. Upper'
  <2>1. key.algorithm = "AES192" => Upper192'
    BY <1>2 DEF Inv, Upper, Upper192
  <2>2. key.algorithm = "AES256" => Holds(xmm1, First + 4)'
    BY <1>2 DEF Inv, Upper, Holds
  <2>3. QED
    BY <2>1, <2>2 DEF Upper
<1>10. Assisted'
  BY DEF Inv, Assisted
<1>11. Pointed'
  BY <1>3 DEF Inv, Pointed
<1>12. QED
  BY <1>5, <1>6, <1>7, <1>8, <1>9, <1>10, <1>11 DEF Inv

LEMMA AddGenerated128Step ==
  ASSUME Inv, AddGenerated128
  PROVE  Inv'
<1>1. /\ key.algorithm = "AES128" /\ step = "shift" /\ step' = "store" /\ shifts = 3
      /\ xmm4' = Broadcast(xmm5, 3) /\ xmm0' = XorRegister(xmm0, xmm4')
      /\ UNCHANGED <<key, xmm1, xmm5, ecx, encryption_keys, decryption_keys,
                     shifts, calls, pairs>>
  BY DEF AddGenerated128, At
<1>2. xmm5 \in Register /\ xmm5[3] = Gen
  BY <1>1 DEF Inv, Assisted
<1>3. xmm4' = [i \in 0 .. 3 |-> Gen] /\ xmm4' \in Register
  <2>1. xmm4' \in Register
    BY <1>1, <1>2, RegisterTypes
  <2>2. QED
    BY <1>1, <1>2, <2>1 DEF Broadcast
<1>4. QED
  BY <1>1, <1>3, AddGeneratedStep

LEMMA AddGenerated192Step ==
  ASSUME Inv, AddGenerated192
  PROVE  Inv'
<1>1. /\ key.algorithm = "AES192" /\ step = "shift" /\ step' = "upper" /\ shifts = 3
      /\ xmm4' = Broadcast(xmm5, 1) /\ xmm0' = XorRegister(xmm0, xmm4')
      /\ UNCHANGED <<key, xmm1, xmm5, ecx, encryption_keys, decryption_keys,
                     shifts, calls, pairs>>
  BY DEF AddGenerated192, At
<1>2. xmm5 \in Register /\ xmm5[1] = Gen
  BY <1>1 DEF Inv, Assisted
<1>3. xmm4' = [i \in 0 .. 3 |-> Gen] /\ xmm4' \in Register
  <2>1. xmm4' \in Register
    BY <1>1, <1>2, RegisterTypes
  <2>2. QED
    BY <1>1, <1>2, <2>1 DEF Broadcast
<1>4. QED
  BY <1>1, <1>3, AddGeneratedStep

LEMMA AddGenerated256Step ==
  ASSUME Inv, AddGenerated256
  PROVE  Inv'
<1>1. /\ key.algorithm = "AES256" /\ step = "shift" /\ step' = "store" /\ shifts = 3
      /\ xmm0' = XorRegister(xmm0, xmm5)
      /\ UNCHANGED <<key, xmm1, xmm4, xmm5, ecx, encryption_keys, decryption_keys,
                     shifts, calls, pairs>>
  BY DEF AddGenerated256, At
<1>2. xmm5 \in Register /\ \A j \in 0 .. 3 : xmm5[j] = Gen
  BY <1>1 DEF Inv, Assisted
<1>3. xmm5 = [i \in 0 .. 3 |-> Gen]
  BY <1>2 DEF Register
<1>4. QED
  BY <1>1, <1>3, AddGeneratedStep

(* The two words more that a call makes for AES-192.                        *)
LEMMA UpperChains ==
  ASSUME NEW a \in Register, a[2] = ZeroWord, a[3] = ZeroWord, NEW b \in Register
  PROVE  LET u == XorRegister(XorRegister(a, Shuffled(a, <<3, 0, 3, 3>>)),
                              ShiftedRight(Broadcast(b, 3), 2))
         IN  /\ u \in Register
             /\ u[0] = XorWord(a[0], b[3]) /\ u[1] = XorWord(a[1], u[0])
             /\ u[2] = ZeroWord /\ u[3] = ZeroWord
<1> DEFINE s == Shuffled(a, <<3, 0, 3, 3>>)
           h == ShiftedRight(Broadcast(b, 3), 2)
           u == XorRegister(XorRegister(a, s), h)
<1>1. a[0] \in Word /\ a[1] \in Word /\ b[3] \in Word /\ ZeroWord \in Word
  BY XorWordLaws DEF Register
<1>2. /\ s[0] = ZeroWord /\ s[1] = a[0] /\ s[2] = ZeroWord /\ s[3] = ZeroWord
      /\ h[0] = b[3] /\ h[1] = b[3] /\ h[2] = ZeroWord /\ h[3] = ZeroWord
  BY DEF Shuffled, ShiftedRight, Broadcast
<1> HIDE DEF s, h
<1>3. /\ u[0] = XorWord(XorWord(a[0], ZeroWord), b[3])
      /\ u[1] = XorWord(XorWord(a[1], a[0]), b[3])
      /\ u[2] = XorWord(XorWord(ZeroWord, ZeroWord), ZeroWord)
      /\ u[3] = XorWord(XorWord(ZeroWord, ZeroWord), ZeroWord)
      /\ u = [i \in 0 .. 3 |-> u[i]]
  BY <1>2 DEF XorRegister
<1> HIDE DEF u
<1>4. u[0] = XorWord(a[0], b[3]) /\ u[2] = ZeroWord /\ u[3] = ZeroWord
  BY <1>1, <1>3, XorWordLaws
<1>5. u[0] \in Word /\ u[1] = XorWord(a[1], u[0]) /\ u[1] \in Word
  <2>1. u[0] \in Word /\ XorWord(a[1], u[0]) \in Word
    BY <1>1, <1>4, XorWordLaws
  <2>2. XorWord(XorWord(a[1], a[0]), b[3]) = XorWord(a[1], XorWord(a[0], b[3]))
    BY <1>1, XorWordLaws
  <2>3. QED
    BY <1>3, <1>4, <2>1, <2>2
<1>6. u \in Register
  <2>1. \A i \in 0 .. 3 : u[i] \in Word
    BY <1>1, <1>4, <1>5
  <2>2. QED
    BY <1>3, <2>1 DEF Register
<1>7. QED
  BY <1>4, <1>5, <1>6 DEF u, s, h

LEMMA AddUpper192Step ==
  ASSUME Inv, AddUpper192
  PROVE  Inv'
<1>1. /\ key.algorithm = "AES192" /\ step = "upper" /\ step' = "store"
      /\ calls' = calls + 1
      /\ xmm4' = ShiftedRight(Broadcast(xmm0, 3), 2)
      /\ xmm1' = XorRegister(XorRegister(xmm1, Shuffled(xmm1, <<3, 0, 3, 3>>)), xmm4')
      /\ UNCHANGED <<key, xmm0, xmm5, ecx, encryption_keys, decryption_keys,
                     shifts, pairs>>
  BY DEF AddUpper192, At
<1>2. /\ xmm0 \in Register /\ xmm1 \in Register
      /\ xmm1[2] = ZeroWord /\ xmm1[3] = ZeroWord
      /\ xmm1[0] = encryption_keys[First + 4] /\ xmm1[1] = encryption_keys[First + 5]
  BY <1>1 DEF Inv, Shape, Standing, Upper, Upper192
<1>3. calls \in Nat /\ calls < LastCall /\ LastCall = 8
  BY <1>1, Figures DEF Inv, Standing
<1>4. Turn' = Turn
  <2>1. Turn = calls /\ Turn' = calls' - 1
    BY <1>1 DEF Turn
  <2>2. QED
    BY <1>1, <1>3, <2>1
<1>5. LastCall' = LastCall /\ First' = First /\ Old' = Old /\ Gen' = Gen
  BY <1>1, <1>4, NothingStored
<1>6. Count' = Count
  BY <1>1, <1>5 DEF Count
<1>7. /\ xmm1' \in Register
      /\ xmm1'[0] = XorWord(xmm1[0], xmm0[3]) /\ xmm1'[1] = XorWord(xmm1[1], xmm1'[0])
      /\ xmm1'[2] = ZeroWord /\ xmm1'[3] = ZeroWord
  BY <1>1, <1>2, UpperChains
<1>8. xmm4' \in Register
  BY <1>1, <1>2, RegisterTypes
<1>9. calls' \in 0 .. LastCall
  BY <1>1, <1>3
<1>10. Shape' /\ DerivesTheKeysOfC'
  BY <1>1, <1>2, <1>7, <1>8, <1>9, ShapeKept DEF Inv, Shape
<1>11. Standing'
  <2>1. calls' > 0
    BY <1>1, <1>3
  <2>2. QED
    BY <1>1, <2>1 DEF Inv, Standing, Steps
<1>12. Expanded'
  BY <1>1, <1>6, NothingStored DEF Inv
<1>13. Lower'
  BY <1>1, <1>5 DEF Inv, Lower
<1>14. Upper'
  BY <1>1, <1>2, <1>5, <1>7 DEF Upper, Upper192
<1>15. Assisted'
  BY <1>1 DEF Assisted
<1>16. Pointed'
  BY <1>1 DEF Inv, Pointed
<1>17. QED
  BY <1>10, <1>11, <1>12, <1>13, <1>14, <1>15, <1>16 DEF Inv

-----------------------------------------------------------------------------
(***************************************************************************)
(* The steps that store words.                                             *)
(***************************************************************************)
(* The key is the first words of the schedule.                              *)
LEMMA KeyStored ==
  ASSUME Inv, step = "entry", step' = "generate",
         encryption_keys' = [i \in Index |-> IF i < Nk THEN Schedule!KeyWord(i)
                                             ELSE encryption_keys[i]],
         ecx' = (IF key.algorithm = "AES192" THEN 0 ELSE Nk),
         UNCHANGED <<key, xmm0, xmm1, xmm4, xmm5, decryption_keys, shifts, calls, pairs>>
  PROVE  Inv' /\ Schedule!Next
<1>1. /\ calls = 0 /\ xmm0 = key.lo /\ (key.algorithm # "AES128" => xmm1 = key.hi)
      /\ Shape /\ Turn' = 0 /\ Count = 0
  BY DEF Inv, Standing, Lower, Upper, Turn, Count
<1>2. /\ Nk' = Nk /\ Rounds' = Rounds /\ LastCall' = LastCall /\ Index' = Index
      /\ PerCall' = PerCall
  BY DEF Nk, Rounds, LastCall, Index, PerCall, Schedule!Nk, Schedule!Rounds,
         Schedule!Index
<1>3. PerCall \in Nat /\ Nk \in {4, 6, 8} /\ LastCall > 0 /\ Schedule!Nk = Nk
  <2>1. CASE key.algorithm = "AES128"
    BY <1>1, <2>1, Figures
  <2>2. CASE key.algorithm = "AES192"
    BY <1>1, <2>2, Figures
  <2>3. CASE key.algorithm = "AES256"
    BY <1>1, <2>3, Figures
  <2>4. QED
    BY <1>1, <2>1, <2>2, <2>3, Figures
<1>4. First' = 0
  BY <1>1, <1>2, <1>3 DEF First
<1>5. Count' = Nk
  <2>1. CASE key.algorithm = "AES128"
    BY <1>1, <1>4, <2>1, Figures DEF Count
  <2>2. CASE key.algorithm = "AES192"
    <3>1. calls # LastCall /\ Nk = 6
      BY <1>1, <1>3, <2>2, Figures
    <3>2. Count' = First' + 6
      BY <1>2, <2>2, <3>1 DEF Count
    <3>3. QED
      BY <1>4, <3>1, <3>2
  <2>3. CASE key.algorithm = "AES256"
    BY <1>1, <1>4, <2>3, Figures DEF Count
  <2>4. QED
    BY <1>1, <2>1, <2>2, <2>3, Figures
<1>6. \A i \in 0 .. Nk - 1 : i \in Index
  <2>1. CASE key.algorithm = "AES128"
    BY <1>1, <2>1, Figures
  <2>2. CASE key.algorithm = "AES192"
    BY <1>1, <2>2, Figures
  <2>3. CASE key.algorithm = "AES256"
    BY <1>1, <2>3, Figures
  <2>4. QED
    BY <1>1, <2>1, <2>2, <2>3, Figures
<1>7. \A i \in 0 .. Nk - 1 :
        /\ encryption_keys'[i] = Schedule!KeyWord(i)
        /\ encryption_keys'[i] \in Word
        /\ encryption_keys'[i] = Schedule!FipsWord(encryption_keys', i)
  <2> SUFFICES ASSUME NEW i \in 0 .. Nk - 1
               PROVE  /\ encryption_keys'[i] = Schedule!KeyWord(i)
                      /\ encryption_keys'[i] \in Word
                      /\ encryption_keys'[i] = Schedule!FipsWord(encryption_keys', i)
    OBVIOUS
  <2>1. i \in Index /\ i < Nk /\ i \in 0 .. 7
    BY <1>3, <1>6
  <2>2. encryption_keys'[i] = Schedule!KeyWord(i)
    BY <2>1
  <2>3. Schedule!KeyWord(i) \in Word
    <3>1. key.lo \in Register /\ key.hi \in Register
      BY <1>1, Figures
    <3>2. QED
      BY <2>1, <3>1 DEF Schedule!KeyWord, Register
  <2>4. Schedule!FipsWord(encryption_keys', i) = Schedule!KeyWord(i)
    BY <1>3, <2>1 DEF Schedule!FipsWord
  <2>5. QED
    BY <2>2, <2>3, <2>4
<1>8. /\ Expanded' /\ Schedule!Next
      /\ encryption_keys' \in [Index' -> Word \cup {Unset}]
  <2>1. /\ Nk \in Nat /\ Count < Nk /\ \A i \in Index : i \in Nat
        /\ encryption_keys' = [i \in Index |-> encryption_keys'[i]]
    BY <1>1, <1>3, Figures
  <2>2. \A i \in Index : i \notin Count .. Nk - 1 =>
                           encryption_keys'[i] = encryption_keys[i]
    BY <1>1, <1>3, <2>1
  <2>3. QED
    BY <1>1, <1>5, <1>6, <1>7, <2>1, <2>2, WordsStored
<1>9. Shape' /\ DerivesTheKeysOfC'
  BY <1>1, <1>2, <1>8, ShapeKept DEF Shape
<1>10. Standing'
  BY DEF Inv, Standing, Steps
<1>11. Lower'
  <2>1. key.lo \in Register
    BY <1>1, Figures
  <2>2. \A j \in 0 .. 3 : encryption_keys'[0 + j] = key.lo[j]
    <3>1. \A j \in 0 .. 3 : j \in 0 .. Nk - 1 /\ j < 4 /\ 0 + j = j
      BY <1>3
    <3>2. QED
      BY <1>7, <3>1 DEF Schedule!KeyWord
  <2>3. key.lo = [j \in 0 .. 3 |-> encryption_keys'[0 + j]]
    BY <2>1, <2>2 DEF Register
  <2>4. xmm0' = Old'
    BY <1>1, <1>4, <2>3 DEF Old
  <2>5. QED
    BY <2>4 DEF Lower
<1>12. Upper'
  <2>1. CASE key.algorithm = "AES128"
    BY <2>1 DEF Upper
  <2>2. CASE key.algorithm = "AES192"
    <3>1. Nk = 6 /\ xmm1[2] = ZeroWord /\ xmm1[3] = ZeroWord
      BY <1>1, <2>2, Figures
    <3>2. Schedule!KeyWord(4) = xmm1[0] /\ Schedule!KeyWord(5) = xmm1[1]
      BY <1>1, <2>2 DEF Schedule!KeyWord
    <3>3. encryption_keys'[4] = xmm1[0] /\ encryption_keys'[5] = xmm1[1]
      BY <1>7, <3>1, <3>2
    <3>4. QED
      BY <1>4, <2>2, <3>1, <3>3 DEF Upper, Upper192
  <2>3. CASE key.algorithm = "AES256"
    <3>1. \A j \in 0 .. 3 : 4 + j \in 0 .. Nk - 1 /\ ~ (4 + j < 4) /\ 4 + j - 4 = j
      BY <1>1, <2>3, Figures
    <3>2. ASSUME NEW j \in 0 .. 3
          PROVE  encryption_keys'[4 + j] = xmm1[j]
      <4>1. encryption_keys'[4 + j] = Schedule!KeyWord(4 + j)
        BY <1>7, <3>1
      <4>2. Schedule!KeyWord(4 + j) = key.hi[j]
        BY <3>1 DEF Schedule!KeyWord
      <4>3. QED
        BY <1>1, <2>3, <4>1, <4>2
    <3>3. QED
      BY <1>4, <2>3, <3>2 DEF Upper, Holds
  <2>4. QED
    BY <1>1, <2>1, <2>2, <2>3, Figures
<1>13. Assisted'
  BY DEF Assisted
<1>14. Pointed'
  BY <1>5 DEF Pointed
<1>15. QED
  BY <1>8, <1>9, <1>10, <1>11, <1>12, <1>13, <1>14 DEF Inv

LEMMA StoreKeySteps ==
  ASSUME Inv, StoreKey128 \/ StoreKey192 \/ StoreKey256
  PROVE  Inv' /\ Schedule!Next
<1>1. /\ step = "entry" /\ step' = "generate"
      /\ UNCHANGED <<key, xmm0, xmm1, xmm4, xmm5, decryption_keys, shifts, calls, pairs>>
  BY DEF StoreKey128, StoreKey192, StoreKey256, At, registers
<1>2. /\ Shape /\ xmm0 = key.lo /\ (key.algorithm # "AES128" => xmm1 = key.hi) /\ ecx = 0
  BY <1>1 DEF Inv, Lower, Upper, Pointed
<1>3. /\ encryption_keys' = [i \in Index |-> IF i < Nk THEN Schedule!KeyWord(i)
                                             ELSE encryption_keys[i]]
      /\ ecx' = (IF key.algorithm = "AES192" THEN 0 ELSE Nk)
  <2>1. CASE StoreKey128
    <3>1. Nk = 4 /\ Index = 0 .. 43 /\ key.algorithm = "AES128"
      BY <1>2, <2>1, Figures DEF StoreKey128, At
    <3>2. \A i \in Index : (IF i \in 0 .. 0 + 4 - 1 THEN xmm0[i - 0] ELSE encryption_keys[i])
                             = IF i < 4 THEN Schedule!KeyWord(i) ELSE encryption_keys[i]
      BY <1>2, <3>1 DEF Schedule!KeyWord
    <3>3. QED
      BY <2>1, <3>1, <3>2 DEF StoreKey128, Stored
  <2>2. CASE StoreKey192
    <3>1. Nk = 6 /\ Index = 0 .. 51 /\ key.algorithm = "AES192"
      BY <1>2, <2>2, Figures DEF StoreKey192, At
    <3>2. \A i \in Index : (IF i \in 4 .. 5 THEN xmm1[i - 4] ELSE
                            IF i \in 0 .. 0 + 4 - 1 THEN xmm0[i - 0] ELSE encryption_keys[i])
                             = IF i < 6 THEN Schedule!KeyWord(i) ELSE encryption_keys[i]
      BY <1>2, <3>1 DEF Schedule!KeyWord
    <3>3. QED
      BY <1>2, <2>2, <3>1, <3>2 DEF StoreKey192, Stored, registers
  <2>3. CASE StoreKey256
    <3>1. Nk = 8 /\ Index = 0 .. 59 /\ key.algorithm = "AES256"
      BY <1>2, <2>3, Figures DEF StoreKey256, At
    <3>2. \A i \in Index : (IF i \in 4 .. 7 THEN xmm1[i - 4] ELSE
                            IF i \in 0 .. 0 + 4 - 1 THEN xmm0[i - 0] ELSE encryption_keys[i])
                             = IF i < 8 THEN Schedule!KeyWord(i) ELSE encryption_keys[i]
      BY <1>2, <3>1 DEF Schedule!KeyWord
    <3>3. QED
      BY <2>3, <3>1, <3>2 DEF StoreKey256, Stored
  <2>4. QED
    BY <2>1, <2>2, <2>3
<1>4. QED
  BY <1>1, <1>3, KeyStored

(* The four words of a call, behind those it was made from.                 *)
LEMMA FourStored ==
  ASSUME Inv, step = "store", key' = key,
         encryption_keys' = Stored(First + Nk, xmm0, 4), Count' = First + Nk + 4
  PROVE  /\ Expanded' /\ Schedule!Next
         /\ encryption_keys' \in [Index' -> Word \cup {Unset}]
         /\ LastCall' = LastCall /\ Nk' = Nk /\ PerCall' = PerCall /\ Index' = Index
         /\ First \in Nat /\ First + Nk + 3 \in Index
         /\ \A j \in 0 .. Nk - 1 : encryption_keys'[First + j] = encryption_keys[First + j]
         /\ \A j \in 0 .. 3 : encryption_keys'[First + Nk + j] = xmm0[j]
         /\ Turn' = Turn => First' = First /\ Old' = Old /\ Gen' = Gen
<1>1. /\ Shape /\ Standing /\ Calling /\ xmm0 \in Register
      /\ xmm0[0] = XorWord(Old[0], Gen)
      /\ \A j \in 1 .. 3 : xmm0[j] = XorWord(Old[j], xmm0[j - 1])
  BY DEF Inv, Shape, Lower, Calling
<1>2. PICK n \in Nat : n = First + Nk
  <2>1. First \in Nat /\ Nk \in {4, 6, 8}
    BY <1>1, Counts, Figures
  <2>2. QED
    BY <2>1
<1>3. /\ First \in Nat /\ Turn \in 0 .. LastCall - 1 /\ First = PerCall * Turn
      /\ Nk \in {4, 6, 8} /\ PerCall \in {4, 6} /\ Count = n
      /\ \A i \in 0 .. n + 3 : i \in Index
      /\ \A i \in Index : i \in Nat
  <2>1. First \in Nat /\ Turn \in 0 .. LastCall - 1 /\ First = PerCall * Turn
    BY <1>1, Counts DEF First
  <2>2. CASE key.algorithm = "AES128"
    <3>1. Count = First + 4
      BY <2>2 DEF Count
    <3>2. /\ Nk = 4 /\ PerCall = 4 /\ LastCall = 10 /\ Index = 0 .. 43
      BY <1>1, <2>2, Figures
    <3>3. QED
      BY <1>2, <2>1, <3>1, <3>2
  <2>3. CASE key.algorithm = "AES192"
    <3>1. Count = First + 6
      BY <2>3 DEF Count
    <3>2. /\ Nk = 6 /\ PerCall = 6 /\ LastCall = 8 /\ Index = 0 .. 51
      BY <1>1, <2>3, Figures
    <3>3. QED
      BY <1>2, <2>1, <3>1, <3>2
  <2>4. CASE key.algorithm = "AES256"
    <3>1. Count = First + 8
      BY <2>4 DEF Count
    <3>2. /\ Nk = 8 /\ PerCall = 4 /\ LastCall = 13 /\ Index = 0 .. 59
      BY <1>1, <2>4, Figures
    <3>3. QED
      BY <1>2, <2>1, <3>1, <3>2
  <2>5. QED
    BY <1>1, <2>2, <2>3, <2>4, Figures
<1>4. encryption_keys' = [i \in Index |-> IF i \in n .. n + 3 THEN xmm0[i - n]
                                          ELSE encryption_keys[i]]
  BY <1>2, <1>3 DEF Stored
<1>5. \A j \in 0 .. 3 : encryption_keys'[n + j] = xmm0[j] /\ xmm0[j] \in Word
  <2>1. \A j \in 0 .. 3 : n + j \in Index /\ n + j \in n .. n + 3 /\ n + j - n = j
    BY <1>3
  <2>2. QED
    BY <1>1, <1>4, <2>1 DEF Register
<1>6. \A i \in Index : i \notin n .. n + 3 => encryption_keys'[i] = encryption_keys[i]
  BY <1>4
<1>7. \A j \in 0 .. Nk - 1 : encryption_keys'[First + j] = encryption_keys[First + j]
  <2>1. \A j \in 0 .. Nk - 1 : First + j \in Index /\ First + j \notin n .. n + 3
    BY <1>2, <1>3
  <2>2. QED
    BY <1>6, <2>1
<1>8. \A j \in 0 .. 3 : Old[j] = encryption_keys'[First + j]
  <2>1. \A j \in 0 .. 3 : j \in 0 .. Nk - 1
    BY <1>3
  <2>2. QED
    BY <1>7, <2>1 DEF Old
<1>9. /\ encryption_keys[n - 1] \in Word /\ encryption_keys'[n - 1] = encryption_keys[n - 1]
      /\ Gen = Generated(Turn, n - 1)
  <2>1. n - 1 \in 0 .. Count - 1 /\ n - 1 = First + (Nk - 1) /\ Nk - 1 \in 0 .. Nk - 1
    BY <1>2, <1>3
  <2>2. First + Nk - 1 = n - 1
    BY <1>2, <1>3
  <2>3. Gen = Generated(Turn, n - 1)
    BY <2>2 DEF Gen
  <2>4. QED
    BY <1>7, <2>1, <2>3, StoredWords
<1>10. /\ Schedule!FipsWord(encryption_keys', n)
            = XorWord(encryption_keys'[n - Nk], Generated(Turn, n - 1))
       /\ \A j \in 1 .. PerCall - 1 :
            Schedule!FipsWord(encryption_keys', n + j)
              = XorWord(encryption_keys'[n + j - Nk], encryption_keys'[n + j - 1])
  <2>1. /\ Shape /\ Turn \in 0 .. LastCall - 1 /\ n \in Nat /\ n = PerCall * Turn + Nk
        /\ encryption_keys[n - 1] \in Word
        /\ encryption_keys'[n - 1] = encryption_keys[n - 1]
    BY <1>1, <1>2, <1>3, <1>9
  <2>2. QED
    BY <2>1, Recurrence
<1>11. \A j \in 0 .. 3 : xmm0[j] = Schedule!FipsWord(encryption_keys', n + j)
  <2>1. xmm0[0] = Schedule!FipsWord(encryption_keys', n)
    <3>1. n - Nk = First + 0
      BY <1>2, <1>3
    <3>2. QED
      BY <1>1, <1>8, <1>9, <1>10, <3>1
  <2>2. \A j \in 1 .. 3 : xmm0[j] = Schedule!FipsWord(encryption_keys', n + j)
    <3> SUFFICES ASSUME NEW j \in 1 .. 3
                 PROVE  xmm0[j] = Schedule!FipsWord(encryption_keys', n + j)
      OBVIOUS
    <3>1. /\ n + j - Nk = First + j /\ n + j - 1 = n + (j - 1) /\ j - 1 \in 0 .. 3
          /\ j \in 0 .. 3 /\ j \in 1 .. PerCall - 1
      BY <1>2, <1>3
    <3>2. encryption_keys'[n + j - 1] = xmm0[j - 1]
      BY <1>5, <3>1
    <3>3. QED
      BY <1>1, <1>8, <1>10, <3>1, <3>2
  <2>3. \A j \in 0 .. 3 : j = 0 \/ j \in 1 .. 3
    OBVIOUS
  <2>4. n + 0 = n
    OBVIOUS
  <2>5. QED
    BY <2>1, <2>2, <2>3, <2>4
<1>12. /\ Expanded' /\ Schedule!Next
       /\ encryption_keys' \in [Index' -> Word \cup {Unset}]
       /\ Nk' = Nk /\ LastCall' = LastCall /\ Index' = Index /\ PerCall' = PerCall
  <2>1. \A i \in n .. n + 3 : i - n \in 0 .. 3 /\ n + (i - n) = i
    BY <1>3
  <2>2. \A i \in n .. n + 3 :
          /\ encryption_keys'[i] \in Word
          /\ encryption_keys'[i] = Schedule!FipsWord(encryption_keys', i)
    <3> SUFFICES ASSUME NEW i \in n .. n + 3
                 PROVE  /\ encryption_keys'[i] \in Word
                        /\ encryption_keys'[i] = Schedule!FipsWord(encryption_keys', i)
      OBVIOUS
    <3>1. PICK j \in 0 .. 3 : n + j = i
      BY <2>1
    <3>2. /\ encryption_keys'[n + j] = xmm0[j] /\ xmm0[j] \in Word
          /\ xmm0[j] = Schedule!FipsWord(encryption_keys', n + j)
      BY <1>5, <1>11
    <3>3. QED
      BY <3>1, <3>2
  <2>3. /\ n + 4 \in Nat /\ Count' = n + 4 /\ Count < n + 4 /\ n + 4 - 1 = n + 3
    BY <1>2, <1>3
  <2>4. \A i \in 0 .. n + 4 - 1 : i \in Index
    BY <1>3, <2>3
  <2>5. \A i \in Index : i \notin Count .. n + 4 - 1 =>
                           encryption_keys'[i] = encryption_keys[i]
    BY <1>3, <1>6, <2>3
  <2>6. \A i \in Count .. n + 4 - 1 :
          /\ encryption_keys'[i] \in Word
          /\ encryption_keys'[i] = Schedule!FipsWord(encryption_keys', i)
    BY <1>3, <2>2, <2>3
  <2>7. encryption_keys' = [i \in Index |-> encryption_keys'[i]]
    BY <1>4
  <2>8. QED
    BY <2>3, <2>4, <2>5, <2>6, <2>7, WordsStored
<1>13. Turn' = Turn => First' = First /\ Old' = Old /\ Gen' = Gen
  <2> SUFFICES ASSUME Turn' = Turn
               PROVE  First' = First /\ Old' = Old /\ Gen' = Gen
    OBVIOUS
  <2>1. First' = First
    BY <1>12 DEF First
  <2>2. Old' = Old
    BY <1>8, <2>1 DEF Old
  <2>3. Gen' = Gen
    <3>1. (First + Nk - 1)' = n - 1
      BY <1>2, <1>3, <1>12, <2>1
    <3>2. QED
      BY <1>9, <3>1 DEF Gen, Generated
  <2>4. QED
    BY <2>1, <2>2, <2>3
<1>14. First + Nk + 3 \in Index
  <2>1. n + 3 \in 0 .. n + 3
    OBVIOUS
  <2>2. QED
    BY <1>2, <1>3, <2>1
<1>15. QED
  BY <1>2, <1>3, <1>5, <1>7, <1>12, <1>13, <1>14

LEMMA Store128Step ==
  ASSUME Inv, Store128
  PROVE  Inv' /\ Schedule!Next
<1>1. /\ key.algorithm = "AES128" /\ step = "store" /\ step' = "generate"
      /\ encryption_keys' = Stored(ecx, xmm0, 4) /\ ecx' = ecx + 4 /\ calls' = calls + 1
      /\ UNCHANGED <<key, xmm0, xmm1, xmm4, xmm5, decryption_keys, shifts, pairs>>
  BY DEF Store128, StoreAndAdvance, At
<1>2. /\ Nk = 4 /\ PerCall = 4 /\ LastCall = 10 /\ calls \in Nat /\ calls < LastCall
      /\ First \in Nat
  BY <1>1, Figures, Counts DEF Inv, Standing
<1>3. First = 4 * calls /\ First' = 4 * calls' /\ Count = First + 4 /\ Count' = First' + 4
  <2>1. Turn = calls /\ Turn' = calls'
    BY <1>1 DEF Turn
  <2>2. PerCall' = 4
    BY <1>1 DEF PerCall
  <2>3. Count = First + 4 /\ Count' = First' + 4
    BY <1>1 DEF Count
  <2>4. QED
    BY <1>2, <2>1, <2>2, <2>3 DEF First
<1>4. /\ First' = First + 4 /\ Count' = First + Nk + 4 /\ First + Nk = First + 4
      /\ calls' \in 0 .. LastCall
  BY <1>1, <1>2, <1>3
<1>5. ecx = First + Nk /\ ecx' = Count'
  <2>1. ecx = Count
    BY <1>1 DEF Inv, Pointed
  <2>2. QED
    BY <1>1, <1>2, <1>3, <1>4, <2>1
<1>6. /\ Expanded' /\ Schedule!Next
      /\ encryption_keys' \in [Index' -> Word \cup {Unset}]
      /\ LastCall' = LastCall /\ Index' = Index
      /\ \A j \in 0 .. 3 : encryption_keys'[First + Nk + j] = xmm0[j]
  BY <1>1, <1>4, <1>5, FourStored
<1>7. Shape' /\ DerivesTheKeysOfC'
  BY <1>1, <1>4, <1>6, ShapeKept DEF Inv, Shape
<1>8. Standing'
  BY <1>1 DEF Inv, Standing, Steps
<1>9. Lower'
  <2>1. \A j \in 0 .. 3 : encryption_keys'[First' + j] = xmm0[j]
    BY <1>4, <1>6
  <2>2. xmm0 \in Register
    BY DEF Inv, Shape
  <2>3. xmm0' = Old'
    BY <1>1, <2>1, <2>2 DEF Old, Register
  <2>4. QED
    BY <1>1, <2>3 DEF Lower
<1>10. Upper' /\ Assisted'
  BY <1>1 DEF Upper, Assisted
<1>11. Pointed'
  BY <1>1, <1>5 DEF Pointed
<1>12. QED
  BY <1>6, <1>7, <1>8, <1>9, <1>10, <1>11 DEF Inv

LEMMA Store256Step ==
  ASSUME Inv, Store256
  PROVE  Inv' /\ Schedule!Next
<1>1. /\ key.algorithm = "AES256" /\ step = "store" /\ step' = "exchange"
      /\ encryption_keys' = Stored(ecx, xmm0, 4) /\ ecx' = ecx + 4
      /\ UNCHANGED <<key, xmm0, xmm1, xmm4, xmm5, decryption_keys, shifts, calls, pairs>>
  BY DEF Store256, StoreAndAdvance, At
<1>2. /\ Nk = 8 /\ PerCall = 4 /\ LastCall = 13 /\ calls \in Nat /\ calls < LastCall
      /\ First \in Nat
  BY <1>1, Figures, Counts DEF Inv, Standing
<1>3. Turn' = Turn /\ First' = First /\ Count = First + 8 /\ Count' = First' + 12
  <2>1. Turn' = Turn /\ PerCall' = PerCall
    BY <1>1 DEF Turn, PerCall
  <2>2. Count = First + 8 /\ Count' = First' + 12
    BY <1>1 DEF Count
  <2>3. QED
    BY <2>1, <2>2 DEF First
<1>4. Count' = First + Nk + 4
  BY <1>2, <1>3
<1>5. ecx = First + Nk /\ ecx' = Count'
  <2>1. ecx = Count
    BY <1>1 DEF Inv, Pointed
  <2>2. QED
    BY <1>1, <1>2, <1>3, <2>1
<1>6. /\ Expanded' /\ Schedule!Next
      /\ encryption_keys' \in [Index' -> Word \cup {Unset}]
      /\ LastCall' = LastCall /\ Index' = Index /\ Nk' = Nk
      /\ \A j \in 0 .. Nk - 1 : encryption_keys'[First + j] = encryption_keys[First + j]
      /\ \A j \in 0 .. 3 : encryption_keys'[First + Nk + j] = xmm0[j]
      /\ Old' = Old /\ Gen' = Gen
  BY <1>1, <1>3, <1>4, <1>5, FourStored
<1>7. Shape' /\ DerivesTheKeysOfC'
  BY <1>1, <1>6, ShapeKept DEF Inv, Shape
<1>8. Standing'
  BY <1>1, <1>6 DEF Inv, Standing, Steps
<1>9. Lower'
  <2>1. Holds(xmm0, First + Nk)'
    BY <1>1, <1>3, <1>6 DEF Holds
  <2>2. /\ xmm0[0] = XorWord(Old[0], Gen)
        /\ \A j \in 1 .. 3 : xmm0[j] = XorWord(Old[j], xmm0[j - 1])
    BY <1>1 DEF Inv, Lower
  <2>3. QED
    BY <1>1, <1>6, <2>1, <2>2 DEF Lower
<1>10. Upper'
  <2>1. Holds(xmm1, First + 4)
    BY <1>1 DEF Inv, Upper
  <2>2. \A j \in 0 .. 3 : encryption_keys'[First + 4 + j] = encryption_keys[First + 4 + j]
    <3>1. \A j \in 0 .. 3 : 4 + j \in 0 .. Nk - 1 /\ First + (4 + j) = First + 4 + j
      BY <1>2
    <3>2. QED
      BY <1>6, <3>1
  <2>3. Holds(xmm1, First + 4)'
    BY <1>1, <1>3, <2>1, <2>2 DEF Holds
  <2>4. QED
    BY <1>1, <2>3 DEF Upper
<1>11. Assisted'
  BY <1>1 DEF Assisted
<1>12. Pointed'
  BY <1>1, <1>5 DEF Pointed
<1>13. QED
  BY <1>6, <1>7, <1>8, <1>9, <1>10, <1>11, <1>12 DEF Inv

(* The last call is over with its lower four words.                         *)
LEMMA StoreLower192Step ==
  ASSUME Inv, StoreLower192
  PROVE  Inv' /\ Schedule!Next
<1>1. /\ key.algorithm = "AES192" /\ step = "store"
      /\ step' = (IF calls = LastCall THEN "generate" ELSE "store upper")
      /\ encryption_keys' = Stored(ecx + 6 * calls, xmm0, 4)
      /\ UNCHANGED <<key, xmm0, xmm1, xmm4, xmm5, ecx, decryption_keys, shifts,
                     calls, pairs>>
  BY DEF StoreLower192, At, registers
<1>2. /\ Nk = 6 /\ PerCall = 6 /\ LastCall = 8 /\ calls \in Nat /\ calls <= LastCall
      /\ First \in Nat /\ calls > 0 /\ LastCall' = LastCall
  <2>1. LastCall' = LastCall
    BY <1>1 DEF LastCall
  <2>2. calls > 0
    BY <1>1 DEF Inv, Standing
  <2>3. QED
    BY <1>1, <2>1, <2>2, Figures, Counts DEF Inv
<1>3. First = 6 * (calls - 1) /\ PerCall' = 6
  BY <1>1, <1>2 DEF First, Turn, PerCall
<1>4. Count' = First + Nk + 4
  <2>1. CASE calls = LastCall
    <3>1. Count' = 52
      BY <1>1, <1>2, <2>1 DEF Count
    <3>2. QED
      BY <1>2, <1>3, <2>1, <3>1
  <2>2. CASE calls # LastCall
    <3>1. Count' = First' + 10 /\ Turn' = calls - 1
      BY <1>1, <2>2 DEF Count, Turn
    <3>2. QED
      BY <1>2, <1>3, <3>1 DEF First
  <2>3. QED
    BY <2>1, <2>2
<1>5. ecx + 6 * calls = First + Nk
  <2>1. ecx = 0
    BY <1>1 DEF Inv, Pointed
  <2>2. QED
    BY <1>2, <1>3, <2>1
<1>6. /\ Expanded' /\ Schedule!Next
      /\ encryption_keys' \in [Index' -> Word \cup {Unset}]
      /\ Index' = Index /\ Nk' = Nk
      /\ \A j \in 0 .. Nk - 1 : encryption_keys'[First + j] = encryption_keys[First + j]
      /\ \A j \in 0 .. 3 : encryption_keys'[First + Nk + j] = xmm0[j]
      /\ Turn' = Turn => First' = First /\ Old' = Old /\ Gen' = Gen
  BY <1>1, <1>4, <1>5, FourStored
<1>7. Shape' /\ DerivesTheKeysOfC'
  BY <1>1, <1>6, ShapeKept DEF Inv, Shape
<1>8. xmm0 \in Register /\ xmm1[2] = ZeroWord /\ xmm1[3] = ZeroWord
  BY <1>1 DEF Inv, Shape, Upper, Upper192
<1>9. Assisted' /\ Pointed'
  BY <1>1 DEF Inv, Assisted, Pointed
<1>10. CASE calls = LastCall
  <2>1. step' = "generate" /\ First' = First + Nk
    <3>1. step' = "generate"
      BY <1>1, <1>10
    <3>2. Turn' = calls
      BY <1>1, <3>1 DEF Turn
    <3>3. QED
      BY <1>2, <1>3, <3>1, <3>2 DEF First
  <2>2. Standing'
    BY <1>1, <2>1 DEF Inv, Standing, Steps
  <2>3. Lower'
    <3>1. xmm0' = Old'
      BY <1>1, <1>6, <1>8, <2>1 DEF Old, Register
    <3>2. QED
      BY <2>1, <3>1 DEF Lower
  <2>4. Upper'
    <3>1. ~ (calls < LastCall)'
      BY <1>1, <1>2, <1>10
    <3>2. QED
      BY <1>1, <1>8, <2>1, <3>1 DEF Upper, Upper192
  <2>5. QED
    BY <1>6, <1>7, <1>9, <2>2, <2>3, <2>4 DEF Inv
<1>11. CASE calls # LastCall
  <2>1. step' = "store upper" /\ Turn' = Turn
    BY <1>1, <1>11 DEF Turn
  <2>2. First' = First /\ Old' = Old /\ Gen' = Gen
    BY <1>6, <2>1
  <2>3. Standing'
    <3>1. calls < LastCall
      BY <1>2, <1>11
    <3>2. QED
      BY <1>1, <1>2, <2>1, <3>1 DEF Inv, Standing, Steps
  <2>4. Lower'
    <3>1. Holds(xmm0, First + Nk)'
      BY <1>1, <1>6, <2>2 DEF Holds
    <3>2. /\ xmm0[0] = XorWord(Old[0], Gen)
          /\ \A j \in 1 .. 3 : xmm0[j] = XorWord(Old[j], xmm0[j - 1])
      BY <1>1 DEF Inv, Lower
    <3>3. QED
      BY <1>1, <2>1, <2>2, <3>1, <3>2 DEF Lower
  <2>5. Upper'
    <3>1. /\ encryption_keys'[First + 4] = encryption_keys[First + 4]
          /\ encryption_keys'[First + 5] = encryption_keys[First + 5]
      <4>1. 4 \in 0 .. Nk - 1 /\ 5 \in 0 .. Nk - 1
        BY <1>2
      <4>2. QED
        BY <1>6, <4>1
    <3>2. /\ xmm1[0] = XorWord(encryption_keys[First + 4], xmm0[3])
          /\ xmm1[1] = XorWord(encryption_keys[First + 5], xmm1[0])
      BY <1>1 DEF Inv, Upper, Upper192
    <3>3. QED
      BY <1>1, <1>8, <2>1, <2>2, <3>1, <3>2 DEF Upper, Upper192
  <2>6. QED
    BY <1>6, <1>7, <1>9, <2>3, <2>4, <2>5 DEF Inv
<1>12. QED
  BY <1>10, <1>11

LEMMA StoreUpper192Step ==
  ASSUME Inv, StoreUpper192
  PROVE  Inv' /\ Schedule!Next
<1>1. /\ key.algorithm = "AES192" /\ step = "store upper" /\ step' = "generate"
      /\ encryption_keys' = Stored(ecx + 6 * calls + 4, xmm1, 2)
      /\ UNCHANGED <<key, xmm0, xmm1, xmm4, xmm5, ecx, decryption_keys, shifts,
                     calls, pairs>>
  BY DEF StoreUpper192, At, registers
<1>2. /\ Shape /\ Standing /\ Calling
      /\ xmm0 \in Register /\ xmm1 \in Register
      /\ xmm1[2] = ZeroWord /\ xmm1[3] = ZeroWord
      /\ xmm1[0] = XorWord(encryption_keys[First + 4], xmm0[3])
      /\ xmm1[1] = XorWord(encryption_keys[First + 5], xmm1[0])
      /\ \A j \in 0 .. 3 : encryption_keys[First + 6 + j] = xmm0[j]
      /\ ecx = 0
  <2>1. Nk = 6
    BY <1>1, Figures DEF Inv
  <2>2. Holds(xmm0, First + 6)
    BY <1>1, <2>1 DEF Inv, Lower
  <2>3. QED
    BY <1>1, <2>2 DEF Inv, Shape, Calling, Upper, Upper192, Pointed, Holds
<1>3. /\ Nk = 6 /\ PerCall = 6 /\ LastCall = 8 /\ Index = 0 .. 51
      /\ calls \in Nat /\ calls > 0 /\ calls < LastCall /\ LastCall' = LastCall
  <2>1. calls > 0 /\ calls < LastCall
    BY <1>1, <1>2 DEF Standing
  <2>2. LastCall' = LastCall
    BY <1>1 DEF LastCall
  <2>3. QED
    BY <1>1, <1>2, <2>1, <2>2, Figures
<1>4. /\ Turn = calls - 1 /\ First = 6 * (calls - 1)
      /\ Turn' = calls /\ First' = 6 * calls
      /\ Count = First + 10 /\ Count' = First' + 6
  <2>1. Turn = calls - 1 /\ Turn' = calls /\ PerCall' = 6
    BY <1>1 DEF Turn, PerCall
  <2>2. calls # LastCall
    BY <1>3
  <2>3. Count = First + 10 /\ Count' = First' + 6
    BY <1>1, <1>3, <2>2 DEF Count
  <2>4. QED
    BY <1>3, <2>1, <2>3 DEF First
<1>5. PICK n \in Nat : n = First + 6
  BY <1>3, <1>4
<1>6. /\ Turn \in 0 .. LastCall - 1 /\ n = 6 * Turn + 6 /\ First = n - 6 /\ n <= 42
      /\ First' = n /\ Count = n + 4 /\ Count' = n + 6
  BY <1>3, <1>4, <1>5
<1>7. encryption_keys' = [i \in Index |-> IF i \in n + 4 .. n + 5 THEN xmm1[i - (n + 4)]
                                          ELSE encryption_keys[i]]
  <2>1. ecx + 6 * calls + 4 = n + 4 /\ n + 4 + 2 - 1 = n + 5
    BY <1>2, <1>3, <1>4, <1>5
  <2>2. QED
    BY <1>1, <2>1 DEF Stored
<1>8. \A i \in Index : i \notin n + 4 .. n + 5 => encryption_keys'[i] = encryption_keys[i]
  BY <1>7
<1>9. /\ \A i \in 0 .. n + 5 : i \in Index
      /\ \A i \in Index : i \in Nat
  BY <1>3, <1>6
<1>10. encryption_keys'[n + 4] = xmm1[0] /\ encryption_keys'[n + 5] = xmm1[1]
  <2>1. /\ n + 4 \in Index /\ n + 5 \in Index /\ n + 4 \in n + 4 .. n + 5
        /\ n + 5 \in n + 4 .. n + 5 /\ n + 4 - (n + 4) = 0 /\ n + 5 - (n + 4) = 1
    BY <1>9
  <2>2. QED
    BY <1>7, <2>1
<1>11. /\ encryption_keys'[n - 1] = encryption_keys[n - 1] /\ encryption_keys[n - 1] \in Word
       /\ encryption_keys'[n - 2] = encryption_keys[First + 4]
       /\ \A j \in 0 .. 3 : encryption_keys'[n + j] = xmm0[j]
  <2>1. /\ n - 1 \in Index /\ n - 1 \notin n + 4 .. n + 5 /\ n - 1 \in 0 .. Count - 1
        /\ n - 2 \in Index /\ n - 2 \notin n + 4 .. n + 5 /\ n - 2 = First + 4
        /\ \A j \in 0 .. 3 : n + j \in Index /\ n + j \notin n + 4 .. n + 5
    BY <1>5, <1>6, <1>9
  <2>2. QED
    BY <1>2, <1>5, <1>8, <2>1, StoredWords
<1>12. /\ encryption_keys'[n + 4] = Schedule!FipsWord(encryption_keys', n + 4)
       /\ encryption_keys'[n + 5] = Schedule!FipsWord(encryption_keys', n + 5)
  <2>1. \A j \in 1 .. 5 : Schedule!FipsWord(encryption_keys', n + j)
                  = XorWord(encryption_keys'[n + j - 6], encryption_keys'[n + j - 1])
    <3>1. n = PerCall * Turn + Nk
      BY <1>3, <1>6
    <3>2. \A j \in 1 .. PerCall - 1 :
            Schedule!FipsWord(encryption_keys', n + j)
              = XorWord(encryption_keys'[n + j - Nk], encryption_keys'[n + j - 1])
      BY <1>2, <1>6, <1>11, <3>1, Recurrence
    <3>3. QED
      BY <1>3, <3>2
  <2>2. Schedule!FipsWord(encryption_keys', n + 4)
          = XorWord(encryption_keys'[n - 2], encryption_keys'[n + 3])
    <3>1. 4 \in 1 .. 5 /\ n + 4 - 6 = n - 2 /\ n + 4 - 1 = n + 3
      OBVIOUS
    <3>2. QED
      BY <2>1, <3>1
  <2>3. Schedule!FipsWord(encryption_keys', n + 5)
          = XorWord(encryption_keys'[n - 1], encryption_keys'[n + 4])
    <3>1. 5 \in 1 .. 5 /\ n + 5 - 6 = n - 1 /\ n + 5 - 1 = n + 4
      OBVIOUS
    <3>2. QED
      BY <2>1, <3>1
  <2>4. n - 1 = First + 5 /\ encryption_keys'[n + 3] = xmm0[3]
    BY <1>6, <1>11
  <2>5. QED
    BY <1>2, <1>10, <1>11, <2>2, <2>3, <2>4
<1>13. /\ Expanded' /\ Schedule!Next
       /\ encryption_keys' \in [Index' -> Word \cup {Unset}]
       /\ Nk' = Nk /\ Index' = Index
  <2>1. PICK m \in Nat : m = n + 6
    BY <1>5
  <2>2. /\ Count < m /\ Count' = m /\ m - 1 = n + 5 /\ Count = n + 4
        /\ \A i \in n + 4 .. n + 5 : i = n + 4 \/ i = n + 5
    BY <1>6, <2>1
  <2>3. \A i \in Count .. m - 1 :
          /\ encryption_keys'[i] \in Word
          /\ encryption_keys'[i] = Schedule!FipsWord(encryption_keys', i)
    <3>1. xmm1[0] \in Word /\ xmm1[1] \in Word
      BY <1>2 DEF Register
    <3>2. QED
      BY <1>10, <1>12, <2>2, <3>1
  <2>4. \A i \in Index : i \notin Count .. m - 1 =>
                           encryption_keys'[i] = encryption_keys[i]
    BY <1>8, <2>2
  <2>5. \A i \in 0 .. m - 1 : i \in Index
    BY <1>9, <2>2
  <2>6. encryption_keys' = [i \in Index |-> encryption_keys'[i]]
    BY <1>7
  <2>7. key' = key
    BY <1>1
  <2>8. QED
    BY <2>2, <2>3, <2>4, <2>5, <2>6, <2>7, WordsStored
<1>14. Shape' /\ DerivesTheKeysOfC'
  BY <1>1, <1>2, <1>13, ShapeKept DEF Shape
<1>15. Standing'
  BY <1>1, <1>2 DEF Standing, Steps
<1>16. Lower'
  <2>1. xmm0' = Old'
    BY <1>1, <1>2, <1>6, <1>11 DEF Old, Register
  <2>2. QED
    BY <1>1, <2>1 DEF Lower
<1>17. Upper'
  BY <1>1, <1>2, <1>6, <1>10 DEF Upper, Upper192
<1>18. Assisted' /\ Pointed'
  BY <1>1, <1>2 DEF Assisted, Pointed
<1>19. QED
  BY <1>13, <1>14, <1>15, <1>16, <1>17, <1>18 DEF Inv

-----------------------------------------------------------------------------
(***************************************************************************)
(* The ends of a call and of the expansion, and the decryption keys.        *)
(***************************************************************************)
LEMMA Exchange256Step ==
  ASSUME Inv, Exchange256
  PROVE  Inv'
<1>1. /\ key.algorithm = "AES256" /\ step = "exchange" /\ step' = "generate"
      /\ xmm1' = XorRegister(xmm1, XorRegister(xmm0, xmm1))
      /\ xmm0' = XorRegister(XorRegister(xmm0, xmm1), xmm1')
      /\ calls' = calls + 1
      /\ UNCHANGED <<key, xmm4, xmm5, ecx, encryption_keys, decryption_keys,
                     shifts, pairs>>
  BY DEF Exchange256, At
<1>2. /\ xmm0 \in Register /\ xmm1 \in Register
      /\ Holds(xmm0, First + Nk) /\ Holds(xmm1, First + 4)
  BY <1>1 DEF Inv, Shape, Lower, Upper
<1>3. xmm1' = xmm0 /\ xmm0' = xmm1
  <2>1. KE!Register = Register
    BY DEF KE!Register, Register
  <2>2. xmm0 \in KE!Register /\ xmm1 \in KE!Register
    BY <1>2, <2>1
  <2>3. /\ KE!XorRegister(xmm1, KE!XorRegister(xmm0, xmm1)) = xmm0
        /\ KE!XorRegister(KE!XorRegister(xmm0, xmm1), xmm0) = xmm1
    BY <2>2, WordLaws, KE!ExchangeRegisters, Zenon
  <2>4. QED
    BY <1>1, <2>3 DEF XorRegister, KE!XorRegister
<1>4. /\ Nk = 8 /\ PerCall = 4 /\ LastCall = 13 /\ calls \in Nat /\ calls < LastCall
      /\ First \in Nat
  BY <1>1, Figures, Counts DEF Inv, Standing
<1>5. First' = First + 4 /\ Count' = Count
  <2>1. Turn = calls /\ Turn' = calls + 1 /\ PerCall' = 4
    BY <1>1 DEF Turn, PerCall
  <2>2. Count = First + 12 /\ Count' = First' + 8
    BY <1>1 DEF Count
  <2>3. QED
    BY <1>4, <2>1, <2>2 DEF First
<1>6. calls' \in 0 .. LastCall
  BY <1>1, <1>4
<1>7. Shape' /\ DerivesTheKeysOfC'
  BY <1>1, <1>2, <1>3, <1>6, ShapeKept DEF Inv, Shape
<1>8. Standing'
  BY <1>1 DEF Inv, Standing, Steps
<1>9. Expanded'
  BY <1>1, <1>5, NothingStored DEF Inv
<1>10. Lower'
  <2>1. xmm1 = [j \in 0 .. 3 |-> encryption_keys[First + 4 + j]]
    BY <1>2 DEF Holds, Register
  <2>2. xmm0' = Old'
    BY <1>1, <1>3, <1>5, <2>1 DEF Old
  <2>3. QED
    BY <1>1, <2>2 DEF Lower
<1>11. Upper'
  <2>1. First' + 4 = First + Nk
    BY <1>4, <1>5
  <2>2. Holds(xmm1, First + 4)'
    BY <1>1, <1>2, <1>3, <2>1 DEF Holds
  <2>3. QED
    BY <1>1, <2>2 DEF Upper
<1>12. Assisted' /\ Pointed'
  BY <1>1, <1>5 DEF Inv, Assisted, Pointed
<1>13. QED
  BY <1>7, <1>8, <1>9, <1>10, <1>11, <1>12 DEF Inv

LEMMA CallDeriveStep ==
  ASSUME Inv, CallDerive
  PROVE  Inv'
<1>1. /\ step = "generate" /\ step' = "derive" /\ calls = LastCall /\ ecx' = 0
      /\ UNCHANGED <<key, xmm0, xmm1, xmm4, xmm5, encryption_keys, decryption_keys,
                     shifts, calls, pairs>>
  BY DEF CallDerive, At
<1>2. Turn' = Turn
  BY <1>1 DEF Turn
<1>3. LastCall' = LastCall /\ First' = First
  BY <1>1, <1>2, NothingStored
<1>4. Count' = Count
  BY <1>1, <1>3 DEF Count
<1>5. Shape' /\ DerivesTheKeysOfC'
  BY <1>1, ShapeKept DEF Inv, Shape
<1>6. Standing'
  BY <1>1, <1>3 DEF Inv, Standing, Steps
<1>7. Expanded'
  BY <1>1, <1>4, NothingStored DEF Inv
<1>8. Lower' /\ Assisted' /\ Pointed'
  BY <1>1 DEF Lower, Assisted, Pointed
<1>9. Upper'
  <2>1. calls \in Nat /\ ~ (calls' < LastCall')
    BY <1>1, <1>3, Figures DEF Inv
  <2>2. QED
    BY <1>1, <2>1 DEF Inv, Upper, Upper192
<1>10. QED
  BY <1>5, <1>6, <1>7, <1>8, <1>9 DEF Inv

LEMMA RoundKeys ==
  ASSUME Inv, step = "derive"
  PROVE  /\ ecx = 0 /\ Rounds \in {10, 12, 14} /\ pairs \in 0 .. Rounds \div 2 + 1
         /\ \A r \in 0 .. Rounds : RoundKey(r) \in Register
<1>1. /\ ecx = 0 /\ pairs \in 0 .. Rounds \div 2 + 1
      /\ Shape /\ Standing
  BY DEF Inv, Pointed, Shape
<1>2. Count = 4 * Rounds + 4 /\ Rounds \in {10, 12, 14}
  BY <1>1, Counts, Figures
<1>3. \A r \in 0 .. Rounds, i \in 0 .. 3 : encryption_keys[0 + 4 * r + i] \in Word
  <2>1. \A r \in 0 .. Rounds, i \in 0 .. 3 : 0 + 4 * r + i \in 0 .. Count - 1
    BY <1>2
  <2>2. QED
    BY <2>1, StoredWords
<1>4. QED
  BY <1>1, <1>2, <1>3 DEF RoundKey, Register

(* The round key that the C functions put at r.                             *)
DecryptionKey(r) == IF r \in {0, Rounds} THEN RoundKey(Rounds - r)
                    ELSE Imc(RoundKey(Rounds - r))

LEMMA DecryptionKeys ==
  DerivesTheKeysOfC <=>
    \A r \in 0 .. Rounds :
      decryption_keys[r] = IF r < pairs \/ r > Rounds - pairs THEN DecryptionKey(r)
                           ELSE Unset
  BY DEF DerivesTheKeysOfC, DecryptionKey

(* A step that derives keys.                                                *)
LEMMA KeysDerived ==
  ASSUME Inv, step = "derive", NEW s, s \subseteq 0 .. Rounds,
         pairs' = pairs + 1, pairs' <= Rounds \div 2 + 1,
         \A r \in 0 .. Rounds : r < pairs' \/ r > Rounds - pairs' <=>
                                (r \in s \/ r < pairs \/ r > Rounds - pairs),
         decryption_keys' = [r \in 0 .. Rounds |-> IF r \in s THEN DecryptionKey(r)
                                                   ELSE decryption_keys[r]],
         xmm4' \in Loaded, xmm5' \in Loaded,
         UNCHANGED <<key, xmm0, xmm1, ecx, encryption_keys, step, shifts, calls>>
  PROVE  Inv'
<1>1. Turn' = Turn
  BY DEF Turn
<1>2. LastCall' = LastCall /\ First' = First /\ Rounds' = Rounds /\ Index' = Index
  BY <1>1, NothingStored
<1>3. Count' = Count
  BY <1>2 DEF Count
<1>4. Shape'
  <2>1. Loaded' = Loaded
    BY DEF Loaded
  <2>2. \A r \in 0 .. Rounds : DecryptionKey(r) \in Loaded
    <3>1. \A r \in 0 .. Rounds : Rounds - r \in 0 .. Rounds
      BY RoundKeys
    <3>2. QED
      BY <3>1, RoundKeys DEF DecryptionKey, Loaded
  <2>3. decryption_keys' \in [0 .. Rounds -> Loaded]
    BY <2>2 DEF Inv, Shape
  <2>4. pairs' \in 0 .. Rounds \div 2 + 1
    BY RoundKeys
  <2>5. QED
    BY <1>2, <2>1, <2>3, <2>4 DEF Inv, Shape
<1>5. DerivesTheKeysOfC'
  <2>1. \A r \in 0 .. Rounds :
          decryption_keys'[r] = IF r < pairs' \/ r > Rounds - pairs' THEN DecryptionKey(r)
                                ELSE Unset
    <3> SUFFICES ASSUME NEW r \in 0 .. Rounds
                 PROVE  decryption_keys'[r] = IF r < pairs' \/ r > Rounds - pairs'
                                              THEN DecryptionKey(r) ELSE Unset
      OBVIOUS
    <3>1. decryption_keys[r] = IF r < pairs \/ r > Rounds - pairs THEN DecryptionKey(r)
                               ELSE Unset
      BY DecryptionKeys DEF Inv
    <3>2. CASE r \in s
      BY <3>2
    <3>3. CASE r \notin s
      <4>1. decryption_keys'[r] = decryption_keys[r]
        BY <3>3
      <4>2. (r < pairs' \/ r > Rounds - pairs') <=> (r < pairs \/ r > Rounds - pairs)
        BY <3>3
      <4>3. QED
        BY <3>1, <4>1, <4>2
    <3>4. QED
      BY <3>2, <3>3
  <2>2. \A r \in 0 .. Rounds : RoundKey(Rounds - r)' = RoundKey(Rounds - r)
    BY <1>2 DEF RoundKey
  <2>3. \A r \in 0 .. Rounds : DecryptionKey(r)' = DecryptionKey(r)
    BY <1>2, <2>2 DEF DecryptionKey
  <2>4. QED
    BY <1>2, <2>1, <2>3 DEF DerivesTheKeysOfC, DecryptionKey
<1>6. Standing'
  BY <1>2 DEF Inv, Standing
<1>7. Expanded'
  BY <1>3, NothingStored DEF Inv
<1>8. Lower' /\ Assisted'
  BY DEF Lower, Assisted
<1>9. Upper'
  BY DEF Inv, Upper, Upper192
<1>10. Pointed'
  BY DEF Inv, Pointed
<1>11. QED
  BY <1>4, <1>5, <1>6, <1>7, <1>8, <1>9, <1>10 DEF Inv

LEMMA DerivePairStep ==
  ASSUME Inv, NEW low, NEW high, pairs < Rounds \div 2, DerivePair(low, high),
         low = DecryptionKey(Rounds - pairs), high = DecryptionKey(pairs)
  PROVE  Inv'
<1>1. /\ step = "derive" /\ xmm5' = low /\ xmm4' = high /\ pairs' = pairs + 1
      /\ decryption_keys' = [decryption_keys EXCEPT ![pairs] = high, ![Rounds - pairs] = low]
      /\ UNCHANGED <<key, xmm0, xmm1, ecx, encryption_keys, step, shifts, calls>>
  BY DEF DerivePair
<1>2. /\ Rounds \in {10, 12, 14} /\ pairs \in Nat
      /\ \A r \in 0 .. Rounds : RoundKey(r) \in Register
  BY <1>1, RoundKeys
<1>3. pairs \in 0 .. Rounds /\ Rounds - pairs \in 0 .. Rounds /\ pairs # Rounds - pairs
  BY <1>2
<1>4. low \in Loaded /\ high \in Loaded
  <2>1. Rounds - (Rounds - pairs) = pairs
    BY <1>2
  <2>2. QED
    BY <1>2, <1>3, <2>1 DEF DecryptionKey, Loaded
<1>5. decryption_keys' = [r \in 0 .. Rounds |-> IF r \in {pairs, Rounds - pairs}
                                               THEN DecryptionKey(r)
                                               ELSE decryption_keys[r]]
  <2>1. decryption_keys = [r \in 0 .. Rounds |-> decryption_keys[r]]
    BY DEF Inv, Shape
  <2>2. QED
    BY <1>1, <1>3, <2>1
<1>6. \A r \in 0 .. Rounds : r < pairs' \/ r > Rounds - pairs' <=>
                     (r \in {pairs, Rounds - pairs} \/ r < pairs \/ r > Rounds - pairs)
  BY <1>1, <1>2
<1>7. pairs' <= Rounds \div 2 + 1
  BY <1>1, <1>2
<1>8. {pairs, Rounds - pairs} \subseteq 0 .. Rounds
  BY <1>3
<1>9. QED
  BY <1>1, <1>4, <1>5, <1>6, <1>7, <1>8, KeysDerived

LEMMA DeriveOuterPairStep ==
  ASSUME Inv, DeriveOuterPair
  PROVE  Inv'
<1>1. step = "derive" /\ pairs = 0 /\ DerivePair(RoundKey(0), RoundKey(Rounds))
  BY DEF DeriveOuterPair, DerivePair
<1>2. Rounds \in {10, 12, 14}
  BY <1>1, RoundKeys
<1>3. Rounds - pairs = Rounds /\ Rounds - Rounds = 0 /\ Rounds - 0 = Rounds
      /\ pairs < Rounds \div 2
  BY <1>1, <1>2
<1>4. RoundKey(0) = DecryptionKey(Rounds - pairs) /\ RoundKey(Rounds) = DecryptionKey(pairs)
  BY <1>1, <1>3 DEF DecryptionKey
<1>5. QED
  BY <1>1, <1>3, <1>4, DerivePairStep

LEMMA DeriveInnerPairStep ==
  ASSUME Inv, DeriveInnerPair
  PROVE  Inv'
<1>1. /\ step = "derive" /\ pairs \in 1 .. Rounds \div 2 - 1
      /\ DerivePair(Imc(RoundKey(pairs)), Imc(RoundKey(Rounds - pairs)))
  BY DEF DeriveInnerPair, DerivePair
<1>2. Rounds \in {10, 12, 14}
  BY <1>1, RoundKeys
<1>3. /\ Rounds - (Rounds - pairs) = pairs /\ pairs < Rounds \div 2
      /\ pairs \notin {0, Rounds} /\ Rounds - pairs \notin {0, Rounds}
  BY <1>1, <1>2
<1>4. /\ Imc(RoundKey(pairs)) = DecryptionKey(Rounds - pairs)
      /\ Imc(RoundKey(Rounds - pairs)) = DecryptionKey(pairs)
  BY <1>3 DEF DecryptionKey
<1>5. QED
  BY <1>1, <1>3, <1>4, DerivePairStep

LEMMA DeriveMiddleKeyStep ==
  ASSUME Inv, DeriveMiddleKey
  PROVE  Inv'
<1>1. /\ step = "derive" /\ pairs = Rounds \div 2 /\ xmm5' = Imc(RoundKey(pairs))
      /\ decryption_keys' = [decryption_keys EXCEPT ![pairs] = xmm5']
      /\ pairs' = pairs + 1
      /\ UNCHANGED <<key, xmm0, xmm1, xmm4, ecx, encryption_keys, step, shifts, calls>>
  BY DEF DeriveMiddleKey
<1>2. /\ Rounds \in {10, 12, 14} /\ \A r \in 0 .. Rounds : RoundKey(r) \in Register
  BY <1>1, RoundKeys
<1>3. /\ pairs \in 0 .. Rounds /\ Rounds - pairs = pairs /\ pairs \notin {0, Rounds}
      /\ pairs' <= Rounds \div 2 + 1
  BY <1>1, <1>2
<1>4. xmm5' = DecryptionKey(pairs) /\ xmm5' \in Loaded /\ xmm4' \in Loaded
  BY <1>1, <1>2, <1>3 DEF DecryptionKey, Loaded, Inv, Shape
<1>5. decryption_keys' = [r \in 0 .. Rounds |-> IF r \in {pairs} THEN DecryptionKey(r)
                                               ELSE decryption_keys[r]]
  <2>1. decryption_keys = [r \in 0 .. Rounds |-> decryption_keys[r]]
    BY DEF Inv, Shape
  <2>2. QED
    BY <1>1, <1>3, <1>4, <2>1
<1>6. \A r \in 0 .. Rounds : r < pairs' \/ r > Rounds - pairs' <=>
                             (r \in {pairs} \/ r < pairs \/ r > Rounds - pairs)
  BY <1>1, <1>2
<1>7. {pairs} \subseteq 0 .. Rounds
  BY <1>3
<1>8. QED
  BY <1>1, <1>3, <1>4, <1>5, <1>6, <1>7, KeysDerived

-----------------------------------------------------------------------------
(***************************************************************************)
(* The invariant, and what follows from it.                                *)
(***************************************************************************)
LEMMA InitInv == Init => Inv
<1> SUFFICES ASSUME Init
             PROVE  Inv
  OBVIOUS
<1>1. /\ key.algorithm \in {"AES128", "AES192", "AES256"}
      /\ key.lo \in Register /\ key.hi \in Register
      /\ key.algorithm = "AES192" => key.hi[2] = ZeroWord /\ key.hi[3] = ZeroWord
  BY KeysAssumption DEF Init, Algorithm
<1>2. LastCall \in {8, 10, 13} /\ Rounds \in {10, 12, 14} /\ Index = 0 .. 4 * Rounds + 3
  <2>1. LastCall \in {8, 10, 13}
    BY <1>1 DEF LastCall
  <2>2. Schedule!Nk \in {4, 6, 8}
    BY <1>1 DEF Schedule!Nk
  <2>3. QED
    BY <2>1, <2>2 DEF Rounds, Index, Schedule!Rounds, Schedule!Index
<1>3. Shape
  <2>1. encryption_keys \in [Index -> Word \cup {Unset}]
    BY DEF Init
  <2>2. decryption_keys \in [0 .. Rounds -> Loaded]
    BY DEF Init, Loaded
  <2>3. IF key.algorithm = "AES128" THEN xmm1 = Unset ELSE xmm1 \in Register
    BY <1>1 DEF Init
  <2>4. xmm4 \in Loaded /\ xmm5 \in Loaded
    BY DEF Init, Loaded
  <2>5. /\ key \in BoxKeys /\ xmm0 \in Register /\ shifts = 0 /\ calls = 0 /\ pairs = 0
    BY <1>1 DEF Init
  <2>6. shifts \in 0 .. 3 /\ calls \in 0 .. LastCall /\ pairs \in 0 .. Rounds \div 2 + 1
    BY <1>2, <2>5
  <2>7. QED
    BY <2>1, <2>2, <2>3, <2>4, <2>5, <2>6 DEF Shape
<1>4. Standing
  BY DEF Init, Standing, Steps
<1>5. Expanded
  <2>1. Count = 0 /\ Schedule!Index = Index
    BY DEF Init, Count, Index
  <2>2. \A i \in Index : encryption_keys[i] = Unset /\ ~ (i < 0)
    BY <1>2 DEF Init
  <2>3. QED
    BY <2>1, <2>2 DEF Expanded, Schedule!Made
<1>6. Lower /\ Upper /\ Assisted /\ Pointed
  BY <1>1 DEF Init, Lower, Upper, Upper192, Assisted, Pointed
<1>7. DerivesTheKeysOfC
  <2>1. \A r \in 0 .. Rounds : ~ (r < pairs \/ r > Rounds - pairs)
    BY <1>2 DEF Init
  <2>2. QED
    BY <2>1, DecryptionKeys DEF Init
<1>8. QED
  BY <1>3, <1>4, <1>5, <1>6, <1>7 DEF Inv

(* Only the stores of words make any of the schedule.                       *)
LEMMA NextInv ==
  ASSUME Inv, Next
  PROVE  Inv' /\ (Schedule!Next \/ UNCHANGED <<key, encryption_keys>>)
<1>1. CASE StoreKey128 \/ StoreKey192 \/ StoreKey256
  BY <1>1, StoreKeySteps
<1>2. CASE Generate128
  BY <1>2, Generate128Step DEF Generate128, Generate, At
<1>3. CASE Generate192
  BY <1>3, Generate192Step DEF Generate192, Generate, At
<1>4. CASE Generate256
  BY <1>4, Generate256Step DEF Generate256, Generate, At
<1>5. CASE Copy
  BY <1>5, CopyStep DEF Copy, At
<1>6. CASE ShiftAndAdd
  BY <1>6, ShiftAndAddStep DEF ShiftAndAdd, At
<1>7. CASE AddGenerated128
  BY <1>7, AddGenerated128Step DEF AddGenerated128, At
<1>8. CASE AddGenerated192
  BY <1>8, AddGenerated192Step DEF AddGenerated192, At
<1>9. CASE AddGenerated256
  BY <1>9, AddGenerated256Step DEF AddGenerated256, At
<1>10. CASE AddUpper192
  BY <1>10, AddUpper192Step DEF AddUpper192, At
<1>11. CASE Store128
  BY <1>11, Store128Step
<1>12. CASE Store256
  BY <1>12, Store256Step
<1>13. CASE StoreLower192
  BY <1>13, StoreLower192Step
<1>14. CASE StoreUpper192
  BY <1>14, StoreUpper192Step
<1>15. CASE Exchange256
  BY <1>15, Exchange256Step DEF Exchange256, At
<1>16. CASE CallDerive
  BY <1>16, CallDeriveStep DEF CallDerive, At
<1>17. CASE DeriveOuterPair
  BY <1>17, DeriveOuterPairStep DEF DeriveOuterPair, DerivePair
<1>18. CASE DeriveInnerPair
  BY <1>18, DeriveInnerPairStep DEF DeriveInnerPair, DerivePair
<1>19. CASE DeriveMiddleKey
  BY <1>19, DeriveMiddleKeyStep DEF DeriveMiddleKey
<1>20. QED
  BY <1>1, <1>2, <1>3, <1>4, <1>5, <1>6, <1>7, <1>8, <1>9, <1>10, <1>11, <1>12,
     <1>13, <1>14, <1>15, <1>16, <1>17, <1>18, <1>19 DEF Next

LEMMA StutterInv ==
  ASSUME Inv, UNCHANGED vars
  PROVE  Inv' /\ UNCHANGED <<key, encryption_keys>>
<1>1. UNCHANGED <<key, xmm0, xmm1, xmm4, xmm5, ecx, encryption_keys, decryption_keys,
                  step, shifts, calls, pairs>>
  BY DEF vars, registers
<1>2. Turn' = Turn
  BY <1>1 DEF Turn
<1>3. /\ LastCall' = LastCall /\ First' = First /\ Old' = Old /\ Gen' = Gen /\ Nk' = Nk
      /\ Rounds' = Rounds /\ Index' = Index
  BY <1>1, <1>2, NothingStored
<1>4. Count' = Count
  BY <1>1, <1>3 DEF Count
<1>5. Shape' /\ Standing'
  <2>1. Loaded' = Loaded
    BY DEF Loaded
  <2>2. QED
    BY <1>1, <1>3, <2>1 DEF Inv, Shape, Standing
<1>6. Expanded'
  BY <1>1, <1>4, NothingStored DEF Inv
<1>7. Lower' /\ Upper'
  BY <1>1, <1>3 DEF Inv, Lower, Upper, Upper192, Holds, Summed
<1>8. Assisted' /\ Pointed'
  BY <1>1, <1>3, <1>4 DEF Inv, Assisted, Pointed
<1>9. DerivesTheKeysOfC'
  BY <1>1, <1>3 DEF Inv, DerivesTheKeysOfC, RoundKey
<1>10. QED
  BY <1>1, <1>5, <1>6, <1>7, <1>8, <1>9 DEF Inv

LEMMA Invariance == Spec => []Inv
<1>1. Init => Inv
  BY InitInv
<1>2. Inv /\ [Next]_vars => Inv'
  BY NextInv, StutterInv
<1>3. QED
  BY <1>1, <1>2, PTL DEF Spec

-----------------------------------------------------------------------------
(***************************************************************************)
(* The promises of ..._keygen_assist.                                      *)
(***************************************************************************)
(* The sums of its comments, by the words that make them one after another.  *)
LEMMA SumsOfWords ==
  ASSUME NEW g \in Word, NEW i \in Nat, NEW j \in 0 .. 5, NEW F,
         \A k \in 0 .. j : F[k] \in Word /\ encryption_keys[i + k] \in Word,
         F[0] = XorWord(encryption_keys[i], g),
         \A k \in 1 .. j : F[k] = XorWord(encryption_keys[i + k], F[k - 1])
  PROVE  Sum(g, i, j) = F[j]
<1> DEFINE W == [k \in 0 .. j |-> F[k]]
           Made(t) == [k \in 0 .. j |-> XorWord(IF k = 0 THEN g ELSE t[k - 1],
                                                encryption_keys[i + k])]
           s == CHOOSE t : t = Made(t)
<1>1. /\ F[0] = XorWord(g, encryption_keys[i + 0])
      /\ \A k \in 1 .. j : F[k] = XorWord(F[k - 1], encryption_keys[i + k])
  <2>1. F[0] = XorWord(g, encryption_keys[i + 0])
    <3>1. 0 \in 0 .. j /\ i + 0 = i
      OBVIOUS
    <3>2. QED
      BY <3>1, XorWordLaws
  <2>2. ASSUME NEW k \in 1 .. j
        PROVE  F[k] = XorWord(F[k - 1], encryption_keys[i + k])
    <3>1. k \in 0 .. j /\ k - 1 \in 0 .. j
      OBVIOUS
    <3>2. F[k] = XorWord(encryption_keys[i + k], F[k - 1])
      OBVIOUS
    <3>3. QED
      BY <3>1, <3>2, XorWordLaws
  <2>3. QED
    BY <2>1, <2>2
<1>2. s = Made(s)
  <2>1. ASSUME NEW k \in 0 .. j
        PROVE  W[k] = XorWord(IF k = 0 THEN g ELSE W[k - 1], encryption_keys[i + k])
    <3>1. CASE k = 0
      BY <1>1, <3>1
    <3>2. CASE k # 0
      <4>1. k \in 1 .. j /\ k - 1 \in 0 .. j
        BY <3>2
      <4>2. QED
        BY <1>1, <3>2, <4>1
    <3>3. QED
      BY <3>1, <3>2
  <2>2. W = Made(W)
    BY <2>1
  <2> HIDE DEF W, Made
  <2>3. QED
    BY <2>2
<1>3. /\ s[0] = XorWord(g, encryption_keys[i + 0])
      /\ \A k \in 1 .. j : s[k] = XorWord(s[k - 1], encryption_keys[i + k])
  <2> HIDE DEF s
  <2>1. \A k \in 0 .. j :
          s[k] = XorWord(IF k = 0 THEN g ELSE s[k - 1], encryption_keys[i + k])
    BY <1>2
  <2>2. 0 \in 0 .. j /\ \A k \in 1 .. j : k \in 0 .. j /\ k # 0
    OBVIOUS
  <2>3. QED
    BY <2>1, <2>2
<1>4. Sum(g, i, j) = s[j]
  BY DEF Sum
<1> HIDE DEF s
<1>5. s[0] = F[0]
  BY <1>1, <1>3
<1>6. j >= 1 => s[1] = F[1]
  <2>1. j >= 1 => 1 \in 1 .. j /\ 1 - 1 = 0
    OBVIOUS
  <2>2. QED
    BY <1>1, <1>3, <1>5, <2>1
<1>7. j >= 2 => s[2] = F[2]
  <2>1. j >= 2 => 2 \in 1 .. j /\ 2 - 1 = 1 /\ j >= 1
    OBVIOUS
  <2>2. QED
    BY <1>1, <1>3, <1>6, <2>1
<1>8. j >= 3 => s[3] = F[3]
  <2>1. j >= 3 => 3 \in 1 .. j /\ 3 - 1 = 2 /\ j >= 2
    OBVIOUS
  <2>2. QED
    BY <1>1, <1>3, <1>7, <2>1
<1>9. j >= 4 => s[4] = F[4]
  <2>1. j >= 4 => 4 \in 1 .. j /\ 4 - 1 = 3 /\ j >= 3
    OBVIOUS
  <2>2. QED
    BY <1>1, <1>3, <1>8, <2>1
<1>10. j >= 5 => s[5] = F[5]
  <2>1. j >= 5 => 5 \in 1 .. j /\ 5 - 1 = 4 /\ j >= 4
    OBVIOUS
  <2>2. QED
    BY <1>1, <1>3, <1>9, <2>1
<1>11. s[j] = F[j]
  BY <1>5, <1>6, <1>7, <1>8, <1>9, <1>10
<1>12. QED
  BY <1>4, <1>11

LEMMA PreconditionHolds ==
  ASSUME Inv, step = "copy"
  PROVE  Precondition
<1> DEFINE i == (IF key.algorithm = "AES192" THEN 6 ELSE 4) * calls
           g == Generated(calls, i + Nk - 1)
<1>1. Shape /\ Standing
  BY DEF Inv
<1>2. i = First /\ g = Gen
  BY DEF First, PerCall, Turn, Gen
<1>3. Holds(xmm0, First)
  BY DEF Inv, Lower, Old, Holds
<1> HIDE DEF i, g
<1>4. CASE key.algorithm = "AES128"
  <2>1. xmm5[3] = Gen
    BY <1>4 DEF Inv, Assisted
  <2>2. ecx = First + 4
    BY <1>4 DEF Inv, Pointed, Count
  <2>3. QED
    BY <1>2, <1>3, <1>4, <2>1, <2>2 DEF Precondition, i, g
<1>5. CASE key.algorithm = "AES192"
  <2>1. /\ xmm5[1] = Gen /\ xmm1[2] = ZeroWord /\ xmm1[3] = ZeroWord
        /\ xmm1[0] = encryption_keys[First + 4] /\ xmm1[1] = encryption_keys[First + 5]
    BY <1>5 DEF Inv, Standing, Upper, Upper192, Assisted
  <2>2. First \in Nat
    BY <1>1, Counts
  <2>3. \A j \in 0 .. 1 : xmm1[j] = encryption_keys[First + 4 + j]
    <3>1. /\ First + 4 + 0 = First + 4 /\ First + 4 + 1 = First + 5
          /\ \A j \in 0 .. 1 : j = 0 \/ j = 1
      BY <2>2
    <3>2. QED
      BY <2>1, <3>1
  <2>4. QED
    BY <1>2, <1>3, <1>5, <2>1, <2>3 DEF Precondition, i, g
<1>6. CASE key.algorithm = "AES256"
  <2>1. Holds(xmm1, First + 4) /\ \A j \in 0 .. 3 : xmm5[j] = Gen
    BY <1>6 DEF Inv, Upper, Assisted
  <2>2. ecx = First + 8
    BY <1>6 DEF Inv, Pointed, Count
  <2>3. QED
    BY <1>2, <1>3, <1>6, <2>1, <2>2 DEF Precondition, i, g
<1>7. QED
  BY <1>1, <1>4, <1>5, <1>6, Figures

(* The words of a call that is over, by the words before them.              *)
LEMMA LastWords ==
  ASSUME Inv, key.algorithm # "AES192", step = "generate", calls > 0,
         NEW i, i = 4 * (calls - 1), NEW n, n = i + Nk
  PROVE  /\ i \in Nat /\ n \in Nat /\ First = i + 4
         /\ \A j \in 0 .. 3 : encryption_keys[n + j]
                                = Sum(Generated(calls - 1, i + Nk - 1), i, j)
<1> DEFINE g == Generated(calls - 1, i + Nk - 1)
           F == [k \in 0 .. 3 |-> encryption_keys[n + k]]
<1>1. /\ Shape /\ PerCall = 4 /\ Nk \in {4, 8} /\ calls \in Nat /\ calls <= LastCall
      /\ i \in Nat /\ n \in Nat /\ calls - 1 \in 0 .. LastCall - 1
  <2>1. Shape
    BY DEF Inv
  <2>2. CASE key.algorithm = "AES128"
    BY <2>1, <2>2, Figures
  <2>3. CASE key.algorithm = "AES256"
    BY <2>1, <2>3, Figures
  <2>4. QED
    BY <2>1, <2>2, <2>3, Figures
<1>2. First = i + 4 /\ Count = n + 4
  <2>1. First = 4 * calls
    BY <1>1 DEF First, Turn
  <2>2. Count = First + Nk
    <3>1. CASE key.algorithm = "AES128"
      BY <1>1, <3>1, Figures DEF Count
    <3>2. CASE key.algorithm = "AES256"
      BY <1>1, <3>2, Figures DEF Count
    <3>3. QED
      BY <1>1, <3>1, <3>2, Figures
  <2>3. QED
    BY <1>1, <2>1, <2>2
<1>3. \A k \in 0 .. n + 3 :
        /\ encryption_keys[k] \in Word
        /\ encryption_keys[k] = Schedule!FipsWord(encryption_keys, k)
  <2>1. Count - 1 = n + 3
    BY <1>1, <1>2
  <2>2. QED
    BY <2>1, StoredWords DEF Inv, Expanded
<1>4. n - 1 \in 0 .. n + 3 /\ n = PerCall * (calls - 1) + Nk /\ n - 1 = i + Nk - 1
  BY <1>1
<1>5. encryption_keys[n - 1] \in Word
  BY <1>3, <1>4
<1>6. /\ Schedule!FipsWord(encryption_keys, n) = XorWord(encryption_keys[n - Nk], g)
      /\ \A j \in 1 .. 3 : Schedule!FipsWord(encryption_keys, n + j)
                  = XorWord(encryption_keys[n + j - Nk], encryption_keys[n + j - 1])
  <2>1. /\ Schedule!FipsWord(encryption_keys, n)
             = XorWord(encryption_keys[n - Nk], Generated(calls - 1, n - 1))
        /\ \A j \in 1 .. PerCall - 1 : Schedule!FipsWord(encryption_keys, n + j)
                  = XorWord(encryption_keys[n + j - Nk], encryption_keys[n + j - 1])
    BY <1>1, <1>4, <1>5, Recurrence
  <2>2. PerCall - 1 = 3
    BY <1>1
  <2>3. QED
    BY <1>4, <2>1, <2>2
<1>7. g \in Word
  BY <1>1, <1>4, <1>5, GeneratedType
<1>8. /\ F[0] = XorWord(encryption_keys[i], g)
      /\ \A k \in 1 .. 3 : F[k] = XorWord(encryption_keys[i + k], F[k - 1])
      /\ \A k \in 0 .. 3 : F[k] \in Word /\ encryption_keys[i + k] \in Word
  <2>1. /\ \A k \in 0 .. 3 : n + k \in 0 .. n + 3 /\ i + k \in 0 .. n + 3
        /\ \A k \in 1 .. 3 : /\ n + k - Nk = i + k /\ n + k - 1 = n + (k - 1)
                             /\ k - 1 \in 0 .. 3 /\ n + k \in 0 .. n + 3 /\ k \in 0 .. 3
        /\ n - Nk = i /\ n + 0 = n /\ n \in 0 .. n + 3 /\ 0 \in 0 .. 3
    BY <1>1
  <2> HIDE DEF g
  <2>2. F[0] = XorWord(encryption_keys[i], g)
    BY <1>3, <1>6, <2>1
  <2>3. ASSUME NEW k \in 1 .. 3
        PROVE  F[k] = XorWord(encryption_keys[i + k], F[k - 1])
    <3>1. encryption_keys[n + k] = XorWord(encryption_keys[n + k - Nk],
                                           encryption_keys[n + k - 1])
      BY <1>3, <1>6, <2>1
    <3>2. QED
      BY <2>1, <3>1
  <2>4. \A k \in 0 .. 3 : F[k] \in Word /\ encryption_keys[i + k] \in Word
    BY <1>3, <2>1
  <2>5. QED
    BY <2>2, <2>3, <2>4
<1> HIDE DEF g, F
<1>9. ASSUME NEW j \in 0 .. 3
      PROVE  Sum(g, i, j) = F[j]
  <2>1. j \in 0 .. 5 /\ \A k \in 0 .. j : k \in 0 .. 3
    OBVIOUS
  <2>2. \A k \in 1 .. j : k \in 1 .. 3
    OBVIOUS
  <2>3. QED
    BY <1>1, <1>7, <1>8, <2>1, <2>2, SumsOfWords
<1>10. QED
  BY <1>1, <1>2, <1>9 DEF g, F

LEMMA PostconditionHolds ==
  ASSUME Inv, calls > 0,
         step = (IF key.algorithm = "AES192" THEN "store" ELSE "generate")
  PROVE  Postcondition
<1> DEFINE i == (IF key.algorithm = "AES192" THEN 6 ELSE 4) * (calls - 1)
           g == Generated(calls - 1, i + Nk - 1)
<1>1. Shape /\ Standing /\ calls \in Nat
  BY Figures DEF Inv
<1>2. CASE key.algorithm = "AES128"
  <2>1. step = "generate" /\ Nk = 4 /\ i = 4 * (calls - 1)
    BY <1>1, <1>2, Figures
  <2>2. /\ i \in Nat /\ First = i + 4
        /\ \A j \in 0 .. 3 : encryption_keys[i + 4 + j] = Sum(g, i, j)
    BY <1>2, <2>1, LastWords
  <2> HIDE DEF i, g
  <2>3. Holds(xmm0, i + 4)
    BY <2>1, <2>2 DEF Inv, Lower, Old, Holds
  <2>4. ecx = i + 8
    <3>1. ecx = First + 4
      BY <1>2, <2>1 DEF Inv, Pointed, Count
    <3>2. QED
      BY <2>2, <3>1
  <2>5. \A j \in 0 .. 3 : xmm0[j] = Sum(g, i, j)
    BY <2>2, <2>3 DEF Holds
  <2>6. QED
    BY <1>2, <2>3, <2>4, <2>5 DEF Postcondition, i, g
<1>3. CASE key.algorithm = "AES192"
  <2> DEFINE F == [k \in 0 .. 5 |-> IF k < 4 THEN xmm0[k] ELSE xmm1[k - 4]]
  <2>1. step = "store" /\ Nk = 6 /\ First = i /\ g = Gen /\ i \in Nat
    <3>1. step = "store" /\ Turn = calls - 1 /\ PerCall = 6 /\ Nk = 6
      BY <1>1, <1>3, Figures DEF Turn
    <3>2. First = i
      BY <1>3, <3>1 DEF First
    <3>3. QED
      BY <1>1, <3>1, <3>2, Counts DEF Gen
  <2>2. /\ Gen \in Word /\ xmm0 \in Register /\ xmm1 \in Register
        /\ \A k \in 0 .. 5 : encryption_keys[First + k] \in Word
    <3>1. Calling
      BY <2>1 DEF Calling
    <3>2. First \in Nat /\ Count \in Nat /\ First + 6 <= Count
      BY <1>1, <2>1, <3>1, Counts
    <3>3. \A k \in 0 .. 5 : First + k \in 0 .. Count - 1
      BY <3>2
    <3>4. QED
      BY <1>3, <3>1, <3>3, StoredWords DEF Inv, Shape
  <2>3. /\ xmm0[0] = XorWord(encryption_keys[First + 0], Gen)
        /\ \A j \in 1 .. 3 : xmm0[j] = XorWord(encryption_keys[First + j], xmm0[j - 1])
    BY <2>1 DEF Inv, Lower, Old
  <2>4. /\ xmm1[2] = ZeroWord /\ xmm1[3] = ZeroWord
        /\ xmm1[0] = XorWord(encryption_keys[First + 4], xmm0[3])
        /\ xmm1[1] = XorWord(encryption_keys[First + 5], xmm1[0])
    BY <1>3, <2>1 DEF Inv, Upper, Upper192
  <2> HIDE DEF i, g
  <2>5. /\ F[0] = XorWord(encryption_keys[i], Gen)
        /\ \A k \in 1 .. 5 : F[k] = XorWord(encryption_keys[i + k], F[k - 1])
    <3>1. F[0] = XorWord(encryption_keys[i], Gen)
      BY <2>1, <2>3
    <3>2. \A k \in 1 .. 3 : F[k] = XorWord(encryption_keys[i + k], F[k - 1])
      BY <2>1, <2>3
    <3>3. F[4] = XorWord(encryption_keys[i + 4], F[3])
      BY <2>1, <2>4
    <3>4. F[5] = XorWord(encryption_keys[i + 5], F[4])
      BY <2>1, <2>4
    <3>5. \A k \in 1 .. 5 : k \in 1 .. 3 \/ k = 4 \/ k = 5
      OBVIOUS
    <3> HIDE DEF F
    <3>6. QED
      BY <3>1, <3>2, <3>3, <3>4, <3>5
  <2>6. \A k \in 0 .. 5 : F[k] \in Word /\ encryption_keys[i + k] \in Word
    BY <2>1, <2>2 DEF Register
  <2>7. /\ \A j \in 0 .. 3 : xmm0[j] = F[j]
        /\ \A j \in 0 .. 1 : xmm1[j] = F[4 + j]
    OBVIOUS
  <2> HIDE DEF F
  <2>8. ASSUME NEW j \in 0 .. 5
        PROVE  Sum(Gen, i, j) = F[j]
    <3>1. \A k \in 0 .. j : k \in 0 .. 5
      OBVIOUS
    <3>2. \A k \in 1 .. j : k \in 1 .. 5
      OBVIOUS
    <3>3. QED
      BY <2>1, <2>2, <2>5, <2>6, <3>1, <3>2, SumsOfWords
  <2>9. /\ \A j \in 0 .. 3 : xmm0[j] = Sum(g, i, j)
        /\ \A j \in 0 .. 1 : xmm1[j] = Sum(g, i, 4 + j)
    <3>1. \A j \in 0 .. 3 : j \in 0 .. 5
      OBVIOUS
    <3>2. \A j \in 0 .. 1 : 4 + j \in 0 .. 5
      OBVIOUS
    <3>3. QED
      BY <2>1, <2>7, <2>8, <3>1, <3>2
  <2>10. QED
    BY <1>3, <2>4, <2>9 DEF Postcondition, i, g
<1>4. CASE key.algorithm = "AES256"
  <2>1. step = "generate" /\ Nk = 8 /\ i = 4 * (calls - 1)
    BY <1>1, <1>4, Figures
  <2>2. /\ i \in Nat /\ First = i + 4
        /\ \A j \in 0 .. 3 : encryption_keys[i + 8 + j] = Sum(g, i, j)
    BY <1>4, <2>1, LastWords
  <2> HIDE DEF i, g
  <2>3. Holds(xmm0, i + 4)
    BY <2>1, <2>2 DEF Inv, Lower, Old, Holds
  <2>4. Holds(xmm1, i + 8)
    <3>1. Holds(xmm1, First + 4) /\ First + 4 = i + 8
      BY <1>4, <2>1, <2>2 DEF Inv, Upper
    <3>2. QED
      BY <3>1
  <2>5. ecx = i + 12
    <3>1. ecx = First + 8
      BY <1>4, <2>1 DEF Inv, Pointed, Count
    <3>2. QED
      BY <2>2, <3>1
  <2>6. \A j \in 0 .. 3 : xmm1[j] = Sum(g, i, j)
    BY <2>2, <2>4 DEF Holds
  <2>7. QED
    BY <1>4, <2>3, <2>4, <2>5, <2>6 DEF Postcondition, i, g
<1>5. QED
  BY <1>1, <1>2, <1>3, <1>4, Figures

-----------------------------------------------------------------------------
(***************************************************************************)
(* The theorems.                                                           *)
(***************************************************************************)
(* Every word that aes_AES..._expand_key_ stores is the next one of FIPS-197, *)
(* with none left out and none written again, for the three lengths of key.  *)
THEOREM AssemblyImplementsSchedule == Spec => ImplementsSchedule
<1>1. Init => Schedule!Init
  <2> SUFFICES ASSUME Init PROVE Schedule!Init
    OBVIOUS
  <2>1. encryption_keys
          = [i \in Schedule!Index |-> IF i < 0 THEN Schedule!KeyWord(i) ELSE Unset]
    <3>1. \A i \in Schedule!Index : ~ (i < 0)
      <4>1. Schedule!Nk \in {4, 6, 8}
        BY KeysAssumption DEF Init, Schedule!Nk, Algorithm
      <4>2. QED
        BY <4>1 DEF Schedule!Index, Schedule!Rounds
    <3>2. QED
      BY <3>1 DEF Init, Index
  <2>2. QED
    BY <2>1 DEF Init, Schedule!Init
<1>2. Inv /\ [Next]_vars => [Schedule!Next]_Schedule!vars
  BY NextInv, StutterInv DEF Schedule!vars
<1>3. QED
  BY <1>1, <1>2, Invariance, PTL DEF Spec, ImplementsSchedule, Schedule!Spec

(* When the decryption keys are derived, the schedule is complete.          *)
THEOREM AssemblyScheduleIsComplete ==
  Spec => [](step = "derive" =>
               \A i \in Index : /\ encryption_keys[i] \in Word
                                /\ encryption_keys[i]
                                     = Schedule!FipsWord(encryption_keys, i))
<1>1. ASSUME Inv, step = "derive"
      PROVE  \A i \in Index : /\ encryption_keys[i] \in Word
                              /\ encryption_keys[i] = Schedule!FipsWord(encryption_keys, i)
  <2>1. Shape /\ Standing
    BY <1>1 DEF Inv
  <2>2. Count = 4 * Rounds + 4 /\ Rounds \in {10, 12, 14}
    BY <1>1, <2>1, Counts, RoundKeys
  <2>3. Index = 0 .. 4 * Rounds + 3
    BY DEF Index, Rounds, Schedule!Index
  <2>4. Index = 0 .. Count - 1
    BY <2>2, <2>3
  <2>5. QED
    BY <1>1, <2>4, StoredWords DEF Inv, Expanded
<1>2. QED
  BY <1>1, Invariance, PTL

(* ..._keygen_assist is called with what its comment requires and returns    *)
(* what its comment ensures, in every call.                                 *)
THEOREM AssistKeepsItsPromises == Spec => []KeepsItsPromises
<1>1. Inv => KeepsItsPromises
  BY PreconditionHolds, PostconditionHolds DEF KeepsItsPromises
<1>2. QED
  BY <1>1, Invariance, PTL

(* The pairs of aes_AES..._derive_decryption_keys_ are the round keys that   *)
(* the C functions derive, each at its place.                               *)
THEOREM AssemblyDerivesTheKeysOfC == Spec => []DerivesTheKeysOfC
<1>1. Inv => DerivesTheKeysOfC
  BY DEF Inv
<1>2. QED
  BY <1>1, Invariance, PTL

(* The registers and the arrays are well formed, provided that aesimc makes   *)
(* a register of a register.                                                *)
THEOREM AssemblyTypes ==
  ASSUME \A a \in Register : Imc(a) \in Register
  PROVE  Spec => []TypeOK
<1>1. Inv => TypeOK
  <2> SUFFICES ASSUME Inv
               PROVE  TypeOK
    OBVIOUS
  <2>1. Shape /\ Standing /\ Schedule!Made(Count)
    BY DEF Inv, Expanded
  <2>2. Loaded = Register \cup {Unset}
    BY DEF Loaded
  <2>3. {xmm1, xmm4, xmm5} \subseteq Register \cup {Unset}
    BY <2>1, <2>2 DEF Shape
  <2>4. /\ Count \in 0 .. 4 * Rounds + 4
        /\ step = "derive" => Count = 4 * Rounds + 4
    <3>1. Rounds \in Nat
      <4>1. CASE key.algorithm = "AES128"
        BY <2>1, <4>1, Figures
      <4>2. CASE key.algorithm = "AES192"
        BY <2>1, <4>2, Figures
      <4>3. CASE key.algorithm = "AES256"
        BY <2>1, <4>3, Figures
      <4>4. QED
        BY <2>1, <4>1, <4>2, <4>3, Figures
    <3>2. QED
      BY <2>1, <3>1, Counts
  <2>5. key.algorithm # "AES192" /\ step # "derive" => ecx = Count
    BY DEF Inv, Pointed, Count
  <2>6. QED
    BY <2>1, <2>2, <2>3, <2>4, <2>5 DEF TypeOK, Shape, Standing
<1>2. QED
  BY <1>1, Invariance, PTL
=============================================================================
