-------------------------- MODULE KeyExpansion_proofs --------------------------
(***************************************************************************)
(* Proofs about KeyExpansion, for every S-box and every key.                *)
(***************************************************************************)
EXTENDS KeyExpansion, TLAPS

(* The words of the schedule by round key and lane.                         *)
LEMMA Quarters ==
  ASSUME NEW r \in Nat, NEW j \in 0 .. 3
  PROVE  (4 * r + j) \div 4 = r /\ (4 * r + j) % 4 = j
OBVIOUS

LEMMA QuartersOf ==
  ASSUME NEW i \in Nat
  PROVE  i \div 4 \in Nat /\ i % 4 \in 0 .. 3 /\ i = 4 * (i \div 4) + (i % 4)
OBVIOUS

LEMMA Sixths ==
  ASSUME NEW n \in Nat, NEW j \in 0 .. 5
  PROVE  (6 * n + j) \div 6 = n /\ (6 * n + j) % 6 = j
OBVIOUS

LEMMA Eighths ==
  ASSUME NEW n \in Nat, NEW j \in 0 .. 7
  PROVE  (8 * n + j) \div 8 = n /\ (8 * n + j) % 8 = j
OBVIOUS

(* The immediates are the round constants of FIPS-197.                      *)
LEMMA RconIsFips ==
  ASSUME NEW n \in 1 .. 10
  PROVE  Rcon[n] = FipsRcon[n] /\ Rcon[n] \in 0 .. 255
<1>1. FipsRcon[1] = 1 /\ \A m \in 1 .. 9 : FipsRcon[m + 1] = Doubled(FipsRcon[m])
  BY RconLaws
<1>2. \A c \in 1 .. 127 : Doubled(c) = 2 * c
  BY RconLaws
<1>3. Doubled(128) = 27
  BY RconLaws
<1>4. FipsRcon[2] = 2 /\ FipsRcon[3] = 4 /\ FipsRcon[4] = 8
  BY <1>1, <1>2
<1>5. FipsRcon[5] = 16 /\ FipsRcon[6] = 32 /\ FipsRcon[7] = 64
  BY <1>1, <1>2, <1>4
<1>6. FipsRcon[8] = 128 /\ FipsRcon[9] = 27 /\ FipsRcon[10] = 54
  <2>1. FipsRcon[8] = 128
    BY <1>1, <1>2, <1>5
  <2>2. FipsRcon[9] = 27
    BY <1>1, <1>3, <2>1
  <2>3. FipsRcon[10] = 54
    BY <1>1, <1>2, <2>2
  <2>4. QED
    BY <2>1, <2>2, <2>3
<1>7. n \in {1, 2, 3, 4, 5, 6, 7, 8, 9, 10}
  OBVIOUS
<1>8. QED
  BY <1>1, <1>4, <1>5, <1>6, <1>7 DEF Rcon

-----------------------------------------------------------------------------
(* The registers.                                                           *)
LEMMA KeygenAssistLanes ==
  ASSUME NEW a \in Register, NEW c \in 0 .. 255
  PROVE  LET k == KeygenAssist(a, c)
         IN  /\ k[1] = XorWord(RotWord(SubWord(a[1])), RconWord(c)) /\ k[1] \in Word
             /\ k[2] = SubWord(a[3]) /\ k[2] \in Word
             /\ k[3] = XorWord(RotWord(SubWord(a[3])), RconWord(c)) /\ k[3] \in Word
<1>1. a[1] \in Word /\ a[3] \in Word /\ RconWord(c) \in Word
  BY RconLaws DEF Register
<1>2. /\ SubWord(a[1]) \in Word /\ RotWord(SubWord(a[1])) \in Word
      /\ SubWord(a[3]) \in Word /\ RotWord(SubWord(a[3])) \in Word
  BY <1>1, SubWordLaws
<1>3. QED
  BY <1>1, <1>2, XorWordLaws DEF KeygenAssist

(* Three shifts and exclusive ors make the chain w, w + x1, w + x1 + x2, ... *)
(* that the recurrence makes word by word.                                  *)
LEMMA AccumulationChains ==
  ASSUME NEW a \in Register, NEW t \in Word
  PROVE  LET s == XorRegister(Accumulated(a), [i \in 0 .. 3 |-> t])
         IN  /\ s \in Register
             /\ s[0] = XorWord(a[0], t)
             /\ s[1] = XorWord(a[1], s[0])
             /\ s[2] = XorWord(a[2], s[1])
             /\ s[3] = XorWord(a[3], s[2])
<1> DEFINE s == XorRegister(Accumulated(a), [i \in 0 .. 3 |-> t])
           x(p, q) == XorWord(p, q)
<1>1. a[0] \in Word /\ a[1] \in Word /\ a[2] \in Word /\ a[3] \in Word /\ ZeroWord \in Word
  BY XorWordLaws DEF Register
<1>2. \A p, q \in Word : x(p, q) \in Word /\ x(p, ZeroWord) = p
  BY XorWordLaws
<1>3. /\ ShiftedLeft(a, 1)[0] = ZeroWord /\ ShiftedLeft(a, 1)[1] = a[0]
      /\ ShiftedLeft(a, 1)[2] = a[1] /\ ShiftedLeft(a, 1)[3] = a[2]
      /\ ShiftedLeft(a, 2)[0] = ZeroWord /\ ShiftedLeft(a, 2)[1] = ZeroWord
      /\ ShiftedLeft(a, 2)[2] = a[0] /\ ShiftedLeft(a, 2)[3] = a[1]
      /\ ShiftedLeft(a, 3)[0] = ZeroWord /\ ShiftedLeft(a, 3)[1] = ZeroWord
      /\ ShiftedLeft(a, 3)[2] = ZeroWord /\ ShiftedLeft(a, 3)[3] = a[0]
  BY DEF ShiftedLeft
<1>4. \A i \in 0 .. 3 :
        Accumulated(a)[i] = x(x(x(a[i], ShiftedLeft(a, 1)[i]),
                                ShiftedLeft(a, 2)[i]), ShiftedLeft(a, 3)[i])
  BY DEF Accumulated, XorRegister
<1>5. /\ Accumulated(a)[0] = a[0]
      /\ Accumulated(a)[1] = x(a[1], a[0])
      /\ Accumulated(a)[2] = x(x(a[2], a[1]), a[0])
      /\ Accumulated(a)[3] = x(x(x(a[3], a[2]), a[1]), a[0])
  <2>1. Accumulated(a)[0] = x(x(x(a[0], ZeroWord), ZeroWord), ZeroWord)
    BY <1>3, <1>4
  <2>2. Accumulated(a)[1] = x(x(x(a[1], a[0]), ZeroWord), ZeroWord)
    BY <1>3, <1>4
  <2>3. Accumulated(a)[2] = x(x(x(a[2], a[1]), a[0]), ZeroWord)
    BY <1>3, <1>4
  <2>4. Accumulated(a)[3] = x(x(x(a[3], a[2]), a[1]), a[0])
    BY <1>3, <1>4
  <2> HIDE DEF x
  <2>5. QED
    BY <1>1, <1>2, <2>1, <2>2, <2>3, <2>4
<1>6. \A i \in 0 .. 3 : s[i] = x(Accumulated(a)[i], t)
  BY DEF XorRegister
<1>7. \A p, q, r \in Word : x(x(p, q), r) = x(p, x(q, r))
  BY XorWordLaws
<1>8. s = [i \in 0 .. 3 |-> s[i]]
  BY DEF XorRegister
<1> HIDE DEF x, s
<1>9. s[0] = x(a[0], t) /\ s[0] \in Word
  BY <1>1, <1>2, <1>5, <1>6
<1>10. s[1] = x(a[1], s[0]) /\ s[1] \in Word
  <2>1. s[1] = x(x(a[1], a[0]), t)
    BY <1>5, <1>6
  <2>2. x(x(a[1], a[0]), t) = x(a[1], x(a[0], t))
    BY <1>1, <1>7
  <2>3. QED
    BY <1>1, <1>2, <1>9, <2>1, <2>2
<1>11. s[2] = x(a[2], s[1]) /\ s[2] \in Word
  <2> DEFINE u == x(a[2], a[1])
  <2>1. s[2] = x(x(u, a[0]), t)
    BY <1>5, <1>6
  <2>2. u \in Word
    BY <1>1, <1>2
  <2>3. x(u, s[0]) = x(a[2], s[1])
    BY <1>1, <1>7, <1>9, <1>10
  <2> HIDE DEF u
  <2>4. x(x(u, a[0]), t) = x(u, x(a[0], t))
    BY <1>1, <1>7, <2>2
  <2>5. QED
    BY <1>1, <1>2, <1>9, <1>10, <2>1, <2>3, <2>4
<1>12. s[3] = x(a[3], s[2]) /\ s[3] \in Word
  <2> DEFINE u == x(a[3], a[2])
  <2>1. s[3] = x(x(x(u, a[1]), a[0]), t)
    BY <1>5, <1>6
  <2>2. u \in Word /\ x(u, a[1]) \in Word
    BY <1>1, <1>2
  <2> HIDE DEF u
  <2>3. x(x(x(u, a[1]), a[0]), t) = x(x(u, a[1]), x(a[0], t))
    BY <1>1, <1>7, <2>2
  <2>4. x(x(u, a[1]), s[0]) = x(u, x(a[1], s[0]))
    BY <1>1, <1>7, <1>9, <2>2
  <2>5. x(u, s[1]) = x(a[3], x(a[2], s[1]))
    BY <1>1, <1>7, <1>10 DEF u
  <2>6. QED
    BY <1>1, <1>2, <1>9, <1>10, <1>11, <2>1, <2>3, <2>4, <2>5
<1>13. s \in Register
  <2>1. \A i \in 0 .. 3 : s[i] \in Word
    BY <1>9, <1>10, <1>11, <1>12
  <2>2. QED
    BY <1>8, <2>1 DEF Register
<1>14. /\ s[0] = XorWord(a[0], t)    /\ s[1] = XorWord(a[1], s[0])
       /\ s[2] = XorWord(a[2], s[1]) /\ s[3] = XorWord(a[3], s[2])
  BY <1>9, <1>10, <1>11, <1>12 DEF x
<1>15. QED
  BY <1>13, <1>14, Zenon DEF s
-----------------------------------------------------------------------------
(* The upper lane of hi stays clear in AES-192: the words made of it, which  *)
(* a round key may hold for the time of one call, do not reach a final one.  *)
UpperLaneIsClear == key.algorithm = "AES192" => hi[3] = ZeroWord

Inv == TypeOK /\ FollowsFips197 /\ RegistersHoldLastWords /\ UpperLaneIsClear

Kept == \A i \in 0 .. Settled - 1 : W(i)' = W(i)

LEMMA Counts ==
  ASSUME TypeOK
  PROVE  /\ calls \in Nat
         /\ key.algorithm = "AES128" =>
              Nk = 4 /\ Rounds = 10 /\ LastCall = 10 /\ Settled = 4 * (calls + 1)
         /\ key.algorithm = "AES192" =>
              /\ Nk = 6 /\ Rounds = 12 /\ LastCall = 8
              /\ calls < 8 => Settled = 6 * (calls + 1)
              /\ calls = 8 => Settled = 52
         /\ key.algorithm = "AES256" =>
              Nk = 8 /\ Rounds = 14 /\ LastCall = 13 /\ Settled = 4 * (calls + 2)
         /\ key.algorithm \in Algorithm
         /\ Settled \in Nat /\ Nk \in Nat /\ Nk <= Settled
<1>1. key.algorithm \in Algorithm
  BY KeysAssumption DEF TypeOK
<1>2. LastCall \in Nat
  BY <1>1 DEF LastCall, Algorithm
<1>3. calls \in Nat /\ calls <= LastCall
  BY <1>2 DEF TypeOK
<1>4. CASE key.algorithm = "AES128"
  BY <1>3, <1>4 DEF Nk, Rounds, LastCall, Settled, Algorithm
<1>5. CASE key.algorithm = "AES192"
  BY <1>3, <1>5 DEF Nk, Rounds, LastCall, Settled, Algorithm
<1>6. CASE key.algorithm = "AES256"
  BY <1>3, <1>6 DEF Nk, Rounds, LastCall, Settled, Algorithm
<1>7. QED
  BY <1>1, <1>4, <1>5, <1>6 DEF Algorithm

(* The words settled before follow the recurrence as they did.              *)
LEMMA NewWordsSuffice ==
  ASSUME Inv, key' = key, Kept,
         NEW M \in Nat, Settled' = M,
         \A i \in Settled .. M - 1 : W(i)' = FipsWord(i)'
  PROVE  FollowsFips197'
<1>1. PICK N \in {4, 6, 8} : N = Nk /\ N <= Settled
  BY Counts DEF Inv, Algorithm
<1>2. Nk' = N /\ Settled \in Nat
  BY <1>1, Counts DEF Nk, Inv
<1>3. \A i \in 0 .. N - 1 : W(i)' = IF i < 4 THEN key.lo[i] ELSE key.hi[i - 4]
  BY <1>1, <1>2 DEF Inv, FollowsFips197, Kept
<1>4. ASSUME NEW i \in N .. Settled - 1
      PROVE  W(i)' = FipsWord(i)'
  <2>1. i \in 0 .. Settled - 1 /\ i - 1 \in 0 .. Settled - 1 /\ i - N \in 0 .. Settled - 1
    BY <1>1, <1>2, <1>4
  <2>2. W(i)' = W(i) /\ W(i - 1)' = W(i - 1) /\ W(i - N)' = W(i - N)
    BY <2>1 DEF Kept
  <2>3. FipsWord(i)' = FipsWord(i)
    BY <1>1, <1>2, <2>2 DEF FipsWord
  <2>4. W(i) = FipsWord(i)
    BY <1>1, <1>4 DEF Inv, FollowsFips197
  <2>5. QED
    BY <2>2, <2>3, <2>4
<1>5. ASSUME NEW i \in N .. M - 1
      PROVE  W(i)' = FipsWord(i)'
  <2>1. i \in N .. Settled - 1 \/ i \in Settled .. M - 1
    BY <1>1, <1>2
  <2>2. QED
    BY <1>4, <2>1
<1>6. QED
  BY <1>2, <1>3, <1>5 DEF FollowsFips197

-----------------------------------------------------------------------------
LEMMA Expand128Right ==
  ASSUME Inv, Expand128
  PROVE  Inv' /\ Kept
<1>1. PICK c \in 0 .. 9 :
        /\ c = calls /\ calls' = c + 1 /\ key' = key /\ key.algorithm = "AES128"
        /\ Nk = 4 /\ Nk' = 4 /\ Rounds = 10 /\ Rounds' = 10 /\ LastCall' = 10
        /\ Settled = 4 * (c + 1) /\ Settled' = 4 * (c + 2)
  BY Counts DEF Inv, Expand128, Assist, Nk, Rounds, LastCall, Settled
<1>2. lo \in Register /\ hi \in Register /\ keys \in [0 .. 10 -> Register \cup {Unset}]
  BY <1>1 DEF Inv, TypeOK
<1>3. \A j \in 0 .. 3 : lo[j] = W(4 * c + j)
  BY <1>1 DEF Inv, RegistersHoldLastWords
<1> DEFINE t == XorWord(RotWord(SubWord(lo[3])), RconWord(FipsRcon[c + 1]))
<1>4. t \in Word /\ lo' = XorRegister(Accumulated(lo), [i \in 0 .. 3 |-> t])
  <2>1. Rcon[c + 1] = FipsRcon[c + 1] /\ Rcon[c + 1] \in 0 .. 255
    BY RconIsFips
  <2>2. t \in Word /\ KeygenAssist(lo, Rcon[c + 1])[3] = t
    BY <1>2, <2>1, KeygenAssistLanes
  <2>3. Broadcast(KeygenAssist(lo, Rcon[c + 1]), 3) = [i \in 0 .. 3 |-> t]
    BY <2>2 DEF Broadcast
  <2>4. QED
    BY <1>1, <2>2, <2>3 DEF Expand128
<1> HIDE DEF t
<1>5. /\ lo' \in Register /\ lo'[0] = XorWord(lo[0], t)
      /\ \A j \in 1 .. 3 : lo'[j] = XorWord(lo[j], lo'[j - 1])
  <2>1. /\ lo' \in Register /\ lo'[0] = XorWord(lo[0], t)
        /\ lo'[1] = XorWord(lo[1], lo'[0])
        /\ lo'[2] = XorWord(lo[2], lo'[1])
        /\ lo'[3] = XorWord(lo[3], lo'[2])
    BY <1>2, <1>4, AccumulationChains
  <2>2. QED
    BY <2>1
<1>6. /\ keys' = [keys EXCEPT ![c + 1] = lo'] /\ hi' = hi
      /\ keys'[c + 1] = lo' /\ \A r \in 0 .. 10 : r # c + 1 => keys'[r] = keys[r]
      /\ keys' \in [0 .. 10 -> Register \cup {Unset}]
  BY <1>1, <1>2, <1>5 DEF Expand128
<1>7. TypeOK'
  <2>1. \A r \in 0 .. 10 : keys'[r] = Unset <=> 4 * r >= 4 * (c + 2)
    <3>1. keys'[c + 1] # Unset
      BY <1>5, <1>6, KeysAssumption
    <3>2. \A r \in 0 .. 10 : keys[r] = Unset <=> 4 * r >= 4 * (c + 1)
      BY <1>1 DEF Inv, TypeOK
    <3>3. QED
      BY <1>6, <3>1, <3>2
  <2>2. QED
    BY <1>1, <1>2, <1>5, <1>6, <2>1 DEF Inv, TypeOK
<1>8. Kept
  <2> SUFFICES ASSUME NEW i \in 0 .. 4 * (c + 1) - 1
               PROVE  W(i)' = W(i)
    BY <1>1 DEF Kept
  <2>1. i \div 4 \in 0 .. c
    BY QuartersOf
  <2>2. QED
    BY <1>6, <2>1 DEF W
<1>9. \A j \in 0 .. 3 : W(4 * (c + 1) + j)' = lo'[j]
  <2> SUFFICES ASSUME NEW j \in 0 .. 3
               PROVE  W(4 * (c + 1) + j)' = lo'[j]
    OBVIOUS
  <2>1. (4 * (c + 1) + j) \div 4 = c + 1 /\ (4 * (c + 1) + j) % 4 = j
    BY Quarters
  <2>2. QED
    BY <1>6, <2>1 DEF W
<1>10. \A j \in 0 .. 3 : W(4 * c + j)' = lo[j]
  BY <1>1, <1>3, <1>8 DEF Kept
<1>11. ASSUME NEW i \in 4 * (c + 1) .. 4 * (c + 2) - 1
       PROVE  W(i)' = FipsWord(i)'
  <2>1. PICK j \in 0 .. 3 : i = 4 * (c + 1) + j
    BY <1>11
  <2>2. i \div 4 = c + 1 /\ i % 4 = j
    BY <2>1, Quarters
  <2>3. W(i)' = lo'[j] /\ W(i - 4)' = lo[j]
    <3>1. i - 4 = 4 * c + j
      BY <2>1
    <3>2. QED
      BY <1>9, <1>10, <2>1, <3>1
  <2>4. CASE j = 0
    <3>1. i - 1 = 4 * c + 3
      BY <2>1, <2>4
    <3>2. W(i - 1)' = lo[3]
      BY <1>10, <3>1
    <3>3. XorWord(SubWord(RotWord(lo[3])), RconWord(FipsRcon[c + 1])) = t
      BY <1>2, SubWordLaws DEF Register, t
    <3>4. QED
      BY <1>1, <1>5, <2>2, <2>3, <2>4, <3>2, <3>3 DEF FipsWord
  <2>5. CASE j # 0
    <3>1. i - 1 = 4 * (c + 1) + (j - 1) /\ j - 1 \in 0 .. 3 /\ j \in 1 .. 3
      BY <2>1, <2>5
    <3>2. W(i - 1)' = lo'[j - 1]
      BY <1>9, <3>1
    <3>3. QED
      BY <1>1, <1>5, <2>2, <2>3, <2>5, <3>1, <3>2 DEF FipsWord
  <2>6. QED
    BY <2>4, <2>5
<1>12. FollowsFips197'
  BY <1>1, <1>8, <1>11, NewWordsSuffice
<1>13. RegistersHoldLastWords'
  BY <1>1, <1>9 DEF RegistersHoldLastWords
<1>14. UpperLaneIsClear'
  BY <1>1 DEF UpperLaneIsClear
<1>15. QED
  BY <1>7, <1>8, <1>12, <1>13, <1>14 DEF Inv

-----------------------------------------------------------------------------
(* Three exclusive ors exchange two registers.                              *)
LEMMA ExchangeWords ==
  ASSUME NEW p \in Word, NEW q \in Word
  PROVE  XorWord(p, XorWord(q, p)) = q
<1>1. XorWord(q, p) = XorWord(p, q)
  BY XorWordLaws
<1>2. XorWord(XorWord(p, p), q) = XorWord(p, XorWord(p, q))
  BY XorWordLaws
<1>3. XorWord(p, p) = ZeroWord /\ XorWord(ZeroWord, q) = XorWord(q, ZeroWord)
  BY XorWordLaws
<1>4. XorWord(q, ZeroWord) = q
  BY XorWordLaws
<1>5. QED
  BY <1>1, <1>2, <1>3, <1>4

LEMMA ExchangeRegisters ==
  ASSUME NEW a \in Register, NEW b \in Register
  PROVE  /\ XorRegister(b, XorRegister(a, b)) = a
         /\ XorRegister(XorRegister(a, b), a) = b
<1>1. \A i \in 0 .. 3 :
        /\ XorWord(b[i], XorWord(a[i], b[i])) = a[i]
        /\ XorWord(XorWord(a[i], b[i]), a[i]) = b[i]
  <2> SUFFICES ASSUME NEW i \in 0 .. 3
               PROVE  /\ XorWord(b[i], XorWord(a[i], b[i])) = a[i]
                      /\ XorWord(XorWord(a[i], b[i]), a[i]) = b[i]
    OBVIOUS
  <2>1. a[i] \in Word /\ b[i] \in Word
    BY DEF Register
  <2>2. XorWord(b[i], XorWord(a[i], b[i])) = a[i] /\ XorWord(a[i], XorWord(b[i], a[i])) = b[i]
    BY <2>1, ExchangeWords
  <2>3. /\ XorWord(a[i], b[i]) \in Word /\ XorWord(a[i], b[i]) = XorWord(b[i], a[i])
    BY <2>1, XorWordLaws
  <2>4. XorWord(XorWord(a[i], b[i]), a[i]) = XorWord(a[i], XorWord(a[i], b[i]))
    BY <2>1, <2>3, XorWordLaws
  <2>5. QED
    BY <2>2, <2>3, <2>4
<1>2. \A i \in 0 .. 3 :
        /\ XorRegister(b, XorRegister(a, b))[i] = a[i]
        /\ XorRegister(XorRegister(a, b), a)[i] = b[i]
  BY <1>1 DEF XorRegister
<1>3. QED
  BY <1>2 DEF XorRegister, Register

LEMMA Expand256Right ==
  ASSUME Inv, Expand256
  PROVE  Inv' /\ Kept
<1>1. PICK c \in 0 .. 12 :
        /\ c = calls /\ calls' = c + 1 /\ key' = key /\ key.algorithm = "AES256"
        /\ Nk = 8 /\ Nk' = 8 /\ Rounds = 14 /\ Rounds' = 14 /\ LastCall' = 13
        /\ Settled = 4 * (c + 2) /\ Settled' = 4 * (c + 3)
  BY Counts DEF Inv, Expand256, Assist, Nk, Rounds, LastCall, Settled
<1>2. lo \in Register /\ hi \in Register /\ keys \in [0 .. 14 -> Register \cup {Unset}]
  BY <1>1 DEF Inv, TypeOK
<1>3. \A j \in 0 .. 3 : lo[j] = W(4 * c + j) /\ hi[j] = W(4 * (c + 1) + j)
  <2>1. \A i \in 0 .. 7 : (IF i < 4 THEN lo[i] ELSE hi[i - 4]) = W(4 * c + i)
    BY <1>1 DEF Inv, RegistersHoldLastWords
  <2> SUFFICES ASSUME NEW j \in 0 .. 3
               PROVE  lo[j] = W(4 * c + j) /\ hi[j] = W(4 * (c + 1) + j)
    OBVIOUS
  <2>2. lo[j] = W(4 * c + j)
    BY <2>1
  <2>3. j + 4 \in 0 .. 7 /\ ~ (j + 4 < 4) /\ (j + 4) - 4 = j /\ 4 * c + (j + 4) = 4 * (c + 1) + j
    OBVIOUS
  <2>4. hi[(j + 4) - 4] = W(4 * c + (j + 4))
    BY <2>1, <2>3
  <2>5. QED
    BY <2>2, <2>3, <2>4
<1> DEFINE t == IF c % 2 = 0
                THEN XorWord(RotWord(SubWord(hi[3])), RconWord(FipsRcon[c \div 2 + 1]))
                ELSE SubWord(hi[3])
           sum == XorRegister(Accumulated(lo), [i \in 0 .. 3 |-> t])
<1>4. t \in Word /\ lo' = XorRegister(sum, XorRegister(hi, sum))
      /\ hi' = XorRegister(XorRegister(hi, sum), lo')
  <2>1. c \div 2 + 1 \in 1 .. 10
    OBVIOUS
  <2>2. Rcon[c \div 2 + 1] = FipsRcon[c \div 2 + 1] /\ Rcon[c \div 2 + 1] \in 0 .. 255
    BY <2>1, RconIsFips
  <2> DEFINE hwgen == IF c % 2 = 0
                      THEN Broadcast(KeygenAssist(hi, Rcon[c \div 2 + 1]), 3)
                      ELSE Broadcast(KeygenAssist(hi, 0), 2)
  <2>3. t \in Word /\ hwgen = [i \in 0 .. 3 |-> t]
    <3>1. CASE c % 2 = 0
      <4>1. LET k == KeygenAssist(hi, Rcon[c \div 2 + 1])
            IN  k[3] = t /\ k[3] \in Word
        BY <1>2, <2>2, <3>1, KeygenAssistLanes
      <4>2. QED
        BY <3>1, <4>1 DEF Broadcast
    <3>2. CASE c % 2 # 0
      <4>1. LET k == KeygenAssist(hi, 0) IN k[2] = t /\ k[2] \in Word
        BY <1>2, <3>2, KeygenAssistLanes
      <4>2. QED
        BY <3>2, <4>1 DEF Broadcast
    <3>3. QED
      BY <3>1, <3>2
  <2>4. QED
    BY <1>1, <2>3 DEF Expand256
<1> HIDE DEF t
<1>5. /\ sum \in Register /\ sum[0] = XorWord(lo[0], t)
      /\ sum[1] = XorWord(lo[1], sum[0])
      /\ sum[2] = XorWord(lo[2], sum[1])
      /\ sum[3] = XorWord(lo[3], sum[2])
  BY <1>2, <1>4, AccumulationChains
<1> HIDE DEF sum
<1>6. lo' = hi /\ hi' = sum
  BY <1>2, <1>4, <1>5, ExchangeRegisters
<1>7. /\ hi'[0] = XorWord(lo[0], t)
      /\ \A j \in 1 .. 3 : hi'[j] = XorWord(lo[j], hi'[j - 1])
  BY <1>5, <1>6
<1>8. /\ keys'[c + 2] = hi' /\ \A r \in 0 .. 14 : r # c + 2 => keys'[r] = keys[r]
      /\ keys' \in [0 .. 14 -> Register \cup {Unset}]
  BY <1>1, <1>2, <1>5, <1>6 DEF Expand256
<1>9. TypeOK'
  <2>1. \A r \in 0 .. 14 : keys'[r] = Unset <=> 4 * r >= 4 * (c + 3)
    <3>1. keys'[c + 2] # Unset
      BY <1>5, <1>6, <1>8, KeysAssumption
    <3>2. \A r \in 0 .. 14 : keys[r] = Unset <=> 4 * r >= 4 * (c + 2)
      BY <1>1 DEF Inv, TypeOK
    <3>3. QED
      BY <1>8, <3>1, <3>2
  <2>2. QED
    BY <1>1, <1>2, <1>5, <1>6, <1>8, <2>1 DEF Inv, TypeOK
<1>10. Kept
  <2> SUFFICES ASSUME NEW i \in 0 .. 4 * (c + 2) - 1
               PROVE  W(i)' = W(i)
    BY <1>1 DEF Kept
  <2>1. i \div 4 \in 0 .. c + 1
    BY QuartersOf
  <2>2. QED
    BY <1>8, <2>1 DEF W
<1>11. \A j \in 0 .. 3 : W(4 * (c + 2) + j)' = hi'[j]
  <2> SUFFICES ASSUME NEW j \in 0 .. 3
               PROVE  W(4 * (c + 2) + j)' = hi'[j]
    OBVIOUS
  <2>1. (4 * (c + 2) + j) \div 4 = c + 2 /\ (4 * (c + 2) + j) % 4 = j
    BY Quarters
  <2>2. QED
    BY <1>8, <2>1 DEF W
<1>12. \A j \in 0 .. 3 : W(4 * c + j)' = lo[j] /\ W(4 * (c + 1) + j)' = hi[j]
  BY <1>1, <1>3, <1>10 DEF Kept
<1>13. ASSUME NEW i \in 4 * (c + 2) .. 4 * (c + 3) - 1
       PROVE  W(i)' = FipsWord(i)'
  <2>1. PICK j \in 0 .. 3 : i = 4 * (c + 2) + j
    BY <1>13
  <2>2. /\ c % 2 = 0 => i \div 8 = c \div 2 + 1 /\ i % 8 = j
        /\ c % 2 # 0 => i % 8 = 4 + j
    BY <2>1
  <2>3. W(i)' = hi'[j] /\ W(i - 8)' = lo[j]
    <3>1. i - 8 = 4 * c + j
      BY <2>1
    <3>2. QED
      BY <1>11, <1>12, <2>1, <3>1
  <2>4. CASE j = 0
    <3>1. i - 1 = 4 * (c + 1) + 3
      BY <2>1, <2>4
    <3>2. W(i - 1)' = hi[3]
      BY <1>12, <3>1
    <3>3. CASE c % 2 = 0
      <4>1. XorWord(SubWord(RotWord(hi[3])), RconWord(FipsRcon[c \div 2 + 1])) = t
        BY <1>2, <3>3, SubWordLaws DEF Register, t
      <4>2. QED
        BY <1>1, <1>7, <2>2, <2>3, <2>4, <3>2, <3>3, <4>1 DEF FipsWord
    <3>4. CASE c % 2 # 0
      <4>1. SubWord(hi[3]) = t
        BY <3>4 DEF t
      <4>2. QED
        BY <1>1, <1>7, <2>2, <2>3, <2>4, <3>2, <3>4, <4>1 DEF FipsWord
    <3>5. QED
      BY <3>3, <3>4
  <2>5. CASE j # 0
    <3>1. i - 1 = 4 * (c + 2) + (j - 1) /\ j - 1 \in 0 .. 3 /\ j \in 1 .. 3
      BY <2>1, <2>5
    <3>2. W(i - 1)' = hi'[j - 1]
      BY <1>11, <3>1
    <3>3. i % 8 # 0 /\ i % 8 # 4
      BY <2>2, <3>1
    <3>4. QED
      BY <1>1, <1>7, <2>3, <3>1, <3>2, <3>3 DEF FipsWord
  <2>6. QED
    BY <2>4, <2>5
<1>14. FollowsFips197'
  BY <1>1, <1>10, <1>13, NewWordsSuffice
<1>15. RegistersHoldLastWords'
  <2>1. \A j \in 0 .. 7 : (IF j < 4 THEN lo'[j] ELSE hi'[j - 4]) = W(4 * (c + 1) + j)'
    <3> SUFFICES ASSUME NEW j \in 0 .. 7
                 PROVE  (IF j < 4 THEN lo'[j] ELSE hi'[j - 4]) = W(4 * (c + 1) + j)'
      OBVIOUS
    <3>1. CASE j < 4
      BY <1>6, <1>12, <3>1
    <3>2. CASE j >= 4
      <4>1. j - 4 \in 0 .. 3 /\ 4 * (c + 1) + j = 4 * (c + 2) + (j - 4)
        BY <3>2
      <4>2. QED
        BY <1>11, <3>2, <4>1
    <3>3. QED
      BY <3>1, <3>2
  <2>2. QED
    BY <1>1, <2>1 DEF RegistersHoldLastWords
<1>16. UpperLaneIsClear'
  BY <1>1 DEF UpperLaneIsClear
<1>17. QED
  BY <1>9, <1>10, <1>14, <1>15, <1>16 DEF Inv

-----------------------------------------------------------------------------
(* The six words an AES-192 call makes, in lo and the lower half of hi.     *)
LEMMA Assist192Chains ==
  ASSUME Assist192, lo \in Register, hi \in Register, hi[3] = ZeroWord,
         NEW c \in 0 .. 7, c = calls
  PROVE  LET t == XorWord(RotWord(SubWord(hi[1])), RconWord(FipsRcon[c + 1]))
         IN  /\ lo' \in Register /\ hi' \in Register /\ hi'[3] = ZeroWord
             /\ lo'[0] = XorWord(lo[0], t)
             /\ lo'[1] = XorWord(lo[1], lo'[0])
             /\ lo'[2] = XorWord(lo[2], lo'[1])
             /\ lo'[3] = XorWord(lo[3], lo'[2])
             /\ hi'[0] = XorWord(hi[0], lo'[3])
             /\ hi'[1] = XorWord(hi[1], hi'[0])
<1> DEFINE t == XorWord(RotWord(SubWord(hi[1])), RconWord(FipsRcon[c + 1]))
<1>1. Rcon[c + 1] = FipsRcon[c + 1] /\ Rcon[c + 1] \in 0 .. 255
  BY RconIsFips
<1>2. t \in Word /\ KeygenAssist(hi, Rcon[c + 1])[1] = t
  BY <1>1, KeygenAssistLanes
<1>3. lo' = XorRegister(Accumulated(lo), [i \in 0 .. 3 |-> t])
  <2>1. Broadcast(KeygenAssist(hi, Rcon[c + 1]), 1) = [i \in 0 .. 3 |-> t]
    BY <1>2 DEF Broadcast
  <2>2. QED
    BY <2>1 DEF Assist192
<1> HIDE DEF t
<1>4. /\ lo' \in Register
      /\ lo'[0] = XorWord(lo[0], t)     /\ lo'[1] = XorWord(lo[1], lo'[0])
      /\ lo'[2] = XorWord(lo[2], lo'[1]) /\ lo'[3] = XorWord(lo[3], lo'[2])
  BY <1>2, <1>3, AccumulationChains
<1>5. /\ hi[0] \in Word /\ hi[1] \in Word /\ hi[2] \in Word /\ hi[3] \in Word
      /\ lo'[3] \in Word /\ ZeroWord \in Word
  BY <1>4, XorWordLaws DEF Register
<1>6. /\ hi'[0] = XorWord(XorWord(hi[0], hi[3]), lo'[3])
      /\ hi'[1] = XorWord(XorWord(hi[1], hi[0]), lo'[3])
      /\ hi'[2] = XorWord(XorWord(hi[2], hi[3]), ZeroWord)
      /\ hi'[3] = XorWord(XorWord(hi[3], hi[3]), ZeroWord)
      /\ hi' = [i \in 0 .. 3 |-> hi'[i]]
  <2> DEFINE s == Shuffled(hi, <<3, 0, 3, 3>>)
             u == ShiftedRight(Broadcast(lo', 3), 2)
  <2>1. s[0] = hi[3] /\ s[1] = hi[0] /\ s[2] = hi[3] /\ s[3] = hi[3]
    BY DEF Shuffled
  <2>2. u[0] = lo'[3] /\ u[1] = lo'[3] /\ u[2] = ZeroWord /\ u[3] = ZeroWord
    BY DEF ShiftedRight, Broadcast
  <2>3. hi' = XorRegister(XorRegister(hi, s), u)
    BY DEF Assist192
  <2> HIDE DEF s, u
  <2>4. QED
    BY <2>1, <2>2, <2>3 DEF XorRegister
<1>7. hi'[0] = XorWord(hi[0], lo'[3]) /\ hi'[0] \in Word
  BY <1>5, <1>6, XorWordLaws
<1>8. hi'[1] = XorWord(hi[1], hi'[0]) /\ hi'[1] \in Word
  <2>1. XorWord(XorWord(hi[1], hi[0]), lo'[3]) = XorWord(hi[1], XorWord(hi[0], lo'[3]))
    BY <1>5, XorWordLaws
  <2>2. QED
    BY <1>5, <1>6, <1>7, <2>1, XorWordLaws
<1>9. hi'[2] \in Word
  BY <1>5, <1>6, XorWordLaws
<1>10. hi'[3] = ZeroWord
  BY <1>5, <1>6, XorWordLaws
<1>11. hi' \in Register
  <2>1. \A i \in 0 .. 3 : hi'[i] \in Word
    BY <1>5, <1>7, <1>8, <1>9, <1>10
  <2>2. QED
    BY <1>6, <2>1 DEF Register
<1>12. /\ lo'[0] = XorWord(lo[0], t)
       /\ lo' \in Register /\ hi' \in Register /\ hi'[3] = ZeroWord
  BY <1>4, <1>10, <1>11
<1>13. QED
  BY <1>4, <1>7, <1>8, <1>12 DEF t

(* What both kinds of AES-192 calls have in common.                         *)
LEMMA Step192 ==
  ASSUME Inv, Assist192, NEW c \in 0 .. 7, c = calls, Kept,
         \A j \in 0 .. 3 : W(6 * (c + 1) + j)' = lo'[j],
         c < 7 => \A j \in 0 .. 1 : W(6 * (c + 1) + (4 + j))' = hi'[j]
  PROVE  FollowsFips197' /\ RegistersHoldLastWords' /\ UpperLaneIsClear'
<1>1. /\ calls' = c + 1 /\ key' = key /\ key.algorithm = "AES192"
      /\ Nk = 6 /\ Nk' = 6 /\ LastCall = 8 /\ LastCall' = 8
      /\ Settled = 6 * (c + 1) /\ Settled' = IF c = 7 THEN 52 ELSE 6 * (c + 2)
  BY Counts DEF Inv, Assist192, Assist, Nk, LastCall, Settled
<1>2. lo \in Register /\ hi \in Register /\ hi[3] = ZeroWord
  BY <1>1 DEF Inv, TypeOK, UpperLaneIsClear
<1>3. \A i \in 0 .. 5 : W(6 * c + i)' = IF i < 4 THEN lo[i] ELSE hi[i - 4]
  <2>1. \A i \in 0 .. 5 : W(6 * c + i) = IF i < 4 THEN lo[i] ELSE hi[i - 4]
    BY <1>1 DEF Inv, RegistersHoldLastWords
  <2>2. QED
    BY <1>1, <2>1 DEF Kept
<1> DEFINE t == XorWord(RotWord(SubWord(hi[1])), RconWord(FipsRcon[c + 1]))
<1>4. /\ lo' \in Register /\ hi' \in Register /\ hi'[3] = ZeroWord
      /\ lo'[0] = XorWord(lo[0], t)     /\ lo'[1] = XorWord(lo[1], lo'[0])
      /\ lo'[2] = XorWord(lo[2], lo'[1]) /\ lo'[3] = XorWord(lo[3], lo'[2])
      /\ hi'[0] = XorWord(hi[0], lo'[3]) /\ hi'[1] = XorWord(hi[1], hi'[0])
  BY <1>2, Assist192Chains
<1>5. t = XorWord(SubWord(RotWord(hi[1])), RconWord(FipsRcon[c + 1]))
  BY <1>2, SubWordLaws DEF Register
<1> HIDE DEF t
<1>6. \A j \in 1 .. 3 : lo'[j] = XorWord(lo[j], lo'[j - 1])
  BY <1>4
<1>7. ASSUME NEW i \in Settled .. (IF c = 7 THEN 52 ELSE 6 * (c + 2)) - 1
      PROVE  W(i)' = FipsWord(i)'
  <2>1. PICK j \in 0 .. 5 : i = 6 * (c + 1) + j /\ (j < 4 \/ c < 7)
    BY <1>1, <1>7
  <2>2. i \div 6 = c + 1 /\ i % 6 = j
    BY <2>1, Sixths
  <2>3. W(i - 6)' = IF j < 4 THEN lo[j] ELSE hi[j - 4]
    <3>1. i - 6 = 6 * c + j
      BY <2>1
    <3>2. QED
      BY <1>3, <3>1
  <2>4. CASE j = 0
    <3>1. i - 1 = 6 * c + 5
      BY <2>1, <2>4
    <3>2. W(i - 1)' = hi[1]
      BY <1>3, <3>1
    <3>3. W(i)' = lo'[0]
      BY <2>1, <2>4
    <3>4. FipsWord(i)' = XorWord(W(i - 6)', t)
      <4>1. FipsWord(i)' =
              XorWord(W(i - 6)',
                      XorWord(SubWord(RotWord(W(i - 1)')), RconWord(FipsRcon[c + 1])))
        BY <1>1, <2>2, <2>4 DEF FipsWord
      <4>2. QED
        BY <1>5, <3>2, <4>1
    <3>5. QED
      BY <1>4, <2>3, <2>4, <3>3, <3>4
  <2>5. CASE j # 0
    <3>1. FipsWord(i)' = XorWord(W(i - 6)', W(i - 1)')
      BY <1>1, <2>2, <2>5 DEF FipsWord
    <3>2. CASE j \in 1 .. 3
      <4>1. i - 1 = 6 * (c + 1) + (j - 1) /\ j - 1 \in 0 .. 3 /\ j \in 0 .. 3 /\ j < 4
        BY <2>1, <3>2
      <4>2. W(i)' = lo'[j] /\ W(i - 1)' = lo'[j - 1]
        BY <2>1, <4>1
      <4>3. QED
        BY <1>6, <2>3, <3>1, <3>2, <4>1, <4>2
    <3>3. CASE j = 4
      <4>1. i - 1 = 6 * (c + 1) + 3 /\ i = 6 * (c + 1) + (4 + 0) /\ c < 7
        BY <2>1, <3>3
      <4>2. W(i)' = hi'[0] /\ W(i - 1)' = lo'[3]
        BY <4>1
      <4>3. QED
        BY <1>4, <2>3, <3>1, <3>3, <4>2
    <3>4. CASE j = 5
      <4>1. i - 1 = 6 * (c + 1) + (4 + 0) /\ i = 6 * (c + 1) + (4 + 1) /\ c < 7
        BY <2>1, <3>4
      <4>2. W(i)' = hi'[1] /\ W(i - 1)' = hi'[0]
        BY <4>1
      <4>3. QED
        BY <1>4, <2>3, <3>1, <3>4, <4>2
    <3>5. QED
      BY <2>5, <3>2, <3>3, <3>4
  <2>6. QED
    BY <2>4, <2>5
<1>8. FollowsFips197'
  <2> DEFINE M == IF c = 7 THEN 52 ELSE 6 * (c + 2)
  <2>1. M \in Nat /\ Settled' = M /\ \A i \in Settled .. M - 1 : W(i)' = FipsWord(i)'
    BY <1>1, <1>7
  <2> HIDE DEF M
  <2>2. QED
    BY <1>1, <2>1, NewWordsSuffice
<1>9. RegistersHoldLastWords'
  <2> DEFINE held(i) == IF i < 4 THEN lo'[i] ELSE hi'[i - 4]
  <2>1. ASSUME NEW i \in 0 .. 5, i < 4 \/ c < 7
        PROVE  held(i) = W(6 * (c + 1) + i)'
    <3>1. CASE i < 4
      BY <3>1
    <3>2. CASE i >= 4
      <4>1. i - 4 \in 0 .. 1 /\ 4 + (i - 4) = i /\ c < 7
        BY <2>1, <3>2
      <4>2. W(6 * (c + 1) + (4 + (i - 4)))' = hi'[i - 4]
        BY <4>1
      <4>3. QED
        BY <3>2, <4>1, <4>2
    <3>3. QED
      BY <3>1, <3>2
  <2>2. \A i \in 0 .. 5 :
          6 * (c + 1) + i < (IF c = 7 THEN 52 ELSE 6 * (c + 2)) => i < 4 \/ c < 7
    OBVIOUS
  <2>3. QED
    BY <1>1, <2>1, <2>2 DEF RegistersHoldLastWords
<1>10. UpperLaneIsClear'
  BY <1>4 DEF UpperLaneIsClear
<1>11. QED
  BY <1>8, <1>9, <1>10

(* A call that completes a round key: the words before its two are kept.    *)
LEMMA Expand192StraddlingRight ==
  ASSUME Inv, Expand192Straddling
  PROVE  Inv' /\ Kept
<1>1. PICK c \in 0 .. 7 :
        /\ c = calls /\ calls' = c + 1 /\ key' = key /\ key.algorithm = "AES192"
        /\ Rounds = 12 /\ Rounds' = 12 /\ LastCall' = 8 /\ c % 2 = 0
        /\ Settled = 6 * (c + 1) /\ Settled' = 6 * (c + 2)
  BY Counts DEF Inv, Expand192Straddling, Assist192, Assist, Rounds, Nk, LastCall, Settled
<1>2. PICK m \in 0 .. 3 : c = 2 * m
  BY <1>1
<1> DEFINE r == 3 * m + 1
<1>3. r = 3 * (c \div 2) + 1 /\ r \in 1 .. 10 /\ r + 1 \in 1 .. 11 /\ Settled = 12 * m + 6
  BY <1>1, <1>2
<1>4. /\ lo \in Register /\ hi \in Register /\ hi[3] = ZeroWord
      /\ keys \in [0 .. 12 -> Register \cup {Unset}]
  BY <1>1 DEF Inv, TypeOK, UpperLaneIsClear
<1>5. lo' \in Register /\ hi' \in Register
  BY <1>1, <1>4, Assist192Chains DEF Expand192Straddling
<1>6. \A q \in 0 .. 12 : keys[q] = Unset <=> 4 * q >= 12 * m + 6
  BY <1>1, <1>3 DEF Inv, TypeOK
<1>7. keys[r] \in Register
  BY <1>3, <1>4, <1>6
<1>8. LowLow(keys[r], lo') \in Register /\ HighLow(lo', hi') \in Register
  BY <1>5, <1>7 DEF LowLow, HighLow, Register
<1>9. keys' = [keys EXCEPT ![r] = LowLow(keys[r], lo'), ![r + 1] = HighLow(lo', hi')]
  BY <1>1, <1>3, <1>4 DEF Expand192Straddling
<1>10. /\ keys'[r] = LowLow(keys[r], lo') /\ keys'[r + 1] = HighLow(lo', hi')
       /\ \A q \in 0 .. 12 : q # r /\ q # r + 1 => keys'[q] = keys[q]
       /\ keys' \in [0 .. 12 -> Register \cup {Unset}]
  BY <1>3, <1>4, <1>8, <1>9
<1>11. TypeOK'
  <2>1. \A q \in 0 .. 12 : keys'[q] = Unset <=> 4 * q >= 12 * m + 12
    <3>1. keys'[r] # Unset /\ keys'[r + 1] # Unset
      BY <1>8, <1>10, KeysAssumption
    <3>2. QED
      BY <1>6, <1>10, <3>1
  <2>2. Settled' = 12 * m + 12
    BY <1>1, <1>2
  <2>3. QED
    BY <1>1, <1>5, <1>10, <2>1, <2>2 DEF Inv, TypeOK
<1>12. Kept
  <2> SUFFICES ASSUME NEW i \in 0 .. 12 * m + 5
               PROVE  W(i)' = W(i)
    BY <1>3 DEF Kept
  <2>1. i \div 4 \in 0 .. r /\ i % 4 \in 0 .. 3 /\ (i \div 4 = r => i % 4 < 2)
    BY QuartersOf
  <2>2. CASE i \div 4 # r
    BY <1>3, <1>10, <2>1, <2>2 DEF W
  <2>3. CASE i \div 4 = r
    <3>1. LowLow(keys[r], lo')[i % 4] = keys[r][i % 4]
      BY <2>1, <2>3 DEF LowLow
    <3>2. QED
      BY <1>10, <2>3, <3>1 DEF W
  <2>4. QED
    BY <2>2, <2>3
<1>13. \A j \in 0 .. 3 : W(6 * (c + 1) + j)' = lo'[j]
  <2>1. ASSUME NEW j \in 0 .. 1
        PROVE  W(6 * (c + 1) + j)' = lo'[j]
    <3>1. (6 * (c + 1) + j) \div 4 = r /\ (6 * (c + 1) + j) % 4 = j + 2
      BY <1>2
    <3>2. LowLow(keys[r], lo')[j + 2] = lo'[j]
      BY DEF LowLow
    <3>3. QED
      BY <1>10, <3>1, <3>2 DEF W
  <2>2. ASSUME NEW j \in 2 .. 3
        PROVE  W(6 * (c + 1) + j)' = lo'[j]
    <3>1. (6 * (c + 1) + j) \div 4 = r + 1 /\ (6 * (c + 1) + j) % 4 = j - 2
      BY <1>2
    <3>2. HighLow(lo', hi')[j - 2] = lo'[j]
      BY DEF HighLow
    <3>3. QED
      BY <1>10, <3>1, <3>2 DEF W
  <2>3. QED
    BY <2>1, <2>2
<1>14. \A j \in 0 .. 1 : W(6 * (c + 1) + (4 + j))' = hi'[j]
  <2> SUFFICES ASSUME NEW j \in 0 .. 1
               PROVE  W(6 * (c + 1) + (4 + j))' = hi'[j]
    OBVIOUS
  <2>1. /\ (6 * (c + 1) + (4 + j)) \div 4 = r + 1
        /\ (6 * (c + 1) + (4 + j)) % 4 = j + 2
    BY <1>2
  <2>2. HighLow(lo', hi')[j + 2] = hi'[j]
    BY DEF HighLow
  <2>3. QED
    BY <1>10, <2>1, <2>2 DEF W
<1>15. FollowsFips197' /\ RegistersHoldLastWords' /\ UpperLaneIsClear'
  BY <1>1, <1>12, <1>13, <1>14, Step192 DEF Expand192Straddling
<1>16. QED
  BY <1>11, <1>12, <1>15 DEF Inv

(* A call that begins a round key: the last of them stores lo alone.        *)
LEMMA Expand192AlignedRight ==
  ASSUME Inv, Expand192Aligned
  PROVE  Inv' /\ Kept
<1>1. PICK c \in 0 .. 7 :
        /\ c = calls /\ calls' = c + 1 /\ key' = key /\ key.algorithm = "AES192"
        /\ Rounds = 12 /\ Rounds' = 12 /\ LastCall = 8 /\ LastCall' = 8 /\ c % 2 = 1
        /\ Settled = 6 * (c + 1) /\ Settled' = IF c = 7 THEN 52 ELSE 6 * (c + 2)
  BY Counts DEF Inv, Expand192Aligned, Assist192, Assist, Rounds, Nk, LastCall, Settled
<1>2. PICK m \in 0 .. 3 : c = 2 * m + 1
  BY <1>1
<1> DEFINE r == 3 * m + 3
<1>3. r = 3 * (c \div 2) + 3 /\ r \in 3 .. 12 /\ Settled = 12 * m + 12 /\ (c = 7 <=> r = 12)
  BY <1>1, <1>2
<1>4. /\ lo \in Register /\ hi \in Register /\ hi[3] = ZeroWord
      /\ keys \in [0 .. 12 -> Register \cup {Unset}]
  BY <1>1 DEF Inv, TypeOK, UpperLaneIsClear
<1>5. lo' \in Register /\ hi' \in Register
  BY <1>1, <1>4, Assist192Chains DEF Expand192Aligned
<1>6. \A q \in 0 .. 12 : keys[q] = Unset <=> 4 * q >= 12 * m + 12
  BY <1>1, <1>3 DEF Inv, TypeOK
<1>7. keys' = IF c = 7 THEN [keys EXCEPT ![r] = lo']
              ELSE [keys EXCEPT ![r] = lo', ![r + 1] = hi']
  <2>1. (calls + 1 = LastCall <=> c = 7) /\ 3 * (calls \div 2) + 3 = r
    BY <1>1, <1>3
  <2> HIDE DEF r
  <2>2. keys' = IF calls + 1 = LastCall THEN [keys EXCEPT ![r] = lo']
                ELSE [keys EXCEPT ![r] = lo', ![r + 1] = hi']
    BY <2>1 DEF Expand192Aligned
  <2>3. QED
    BY <2>1, <2>2
<1>8. /\ keys'[r] = lo' /\ (c < 7 => keys'[r + 1] = hi')
      /\ \A q \in 0 .. 12 : q # r /\ q # r + 1 => keys'[q] = keys[q]
      /\ keys' \in [0 .. 12 -> Register \cup {Unset}]
  <2>1. CASE c = 7
    BY <1>3, <1>4, <1>5, <1>7, <2>1
  <2>2. CASE c < 7
    BY <1>3, <1>4, <1>5, <1>7, <2>2
  <2>3. QED
    BY <2>1, <2>2
<1>9. TypeOK'
  <2>1. \A q \in 0 .. 12 : keys'[q] = Unset <=> 4 * q >= 12 * m + (IF c = 7 THEN 16 ELSE 18)
    <3>1. keys'[r] # Unset /\ (c < 7 => keys'[r + 1] # Unset)
      BY <1>5, <1>8, KeysAssumption
    <3>2. CASE c = 7
      BY <1>2, <1>6, <1>8, <3>1, <3>2
    <3>3. CASE c < 7
      BY <1>2, <1>6, <1>8, <3>1, <3>3
    <3>4. QED
      BY <3>2, <3>3
  <2>2. Settled' = 12 * m + (IF c = 7 THEN 16 ELSE 18)
    BY <1>1, <1>2
  <2>3. QED
    BY <1>1, <1>5, <1>8, <2>1, <2>2 DEF Inv, TypeOK
<1>10. Kept
  <2> SUFFICES ASSUME NEW i \in 0 .. 12 * m + 11
               PROVE  W(i)' = W(i)
    BY <1>3 DEF Kept
  <2>1. i \div 4 \in 0 .. r - 1
    BY QuartersOf
  <2>2. QED
    BY <1>3, <1>8, <2>1 DEF W
<1>11. \A j \in 0 .. 3 : W(6 * (c + 1) + j)' = lo'[j]
  <2> SUFFICES ASSUME NEW j \in 0 .. 3
               PROVE  W(6 * (c + 1) + j)' = lo'[j]
    OBVIOUS
  <2>1. (6 * (c + 1) + j) \div 4 = r /\ (6 * (c + 1) + j) % 4 = j
    BY <1>2
  <2>2. QED
    BY <1>8, <2>1 DEF W
<1>12. c < 7 => \A j \in 0 .. 1 : W(6 * (c + 1) + (4 + j))' = hi'[j]
  <2> SUFFICES ASSUME c < 7, NEW j \in 0 .. 1
               PROVE  W(6 * (c + 1) + (4 + j))' = hi'[j]
    OBVIOUS
  <2>1. /\ (6 * (c + 1) + (4 + j)) \div 4 = r + 1
        /\ (6 * (c + 1) + (4 + j)) % 4 = j
    BY <1>2
  <2>2. QED
    BY <1>8, <2>1 DEF W
<1>13. FollowsFips197' /\ RegistersHoldLastWords' /\ UpperLaneIsClear'
  BY <1>1, <1>10, <1>11, <1>12, Step192 DEF Expand192Aligned
<1>14. QED
  BY <1>9, <1>10, <1>13 DEF Inv

-----------------------------------------------------------------------------
LEMMA InitRight ==
  ASSUME Init
  PROVE  Inv
<1>1. /\ key \in BoxKeys /\ key.algorithm \in Algorithm
      /\ key.lo \in Register /\ key.hi \in Register
      /\ lo = key.lo /\ hi = key.hi /\ calls = 0
  BY KeysAssumption DEF Init
<1>2. /\ keys[0] = key.lo /\ (key.algorithm # "AES128" => keys[1] = key.hi)
      /\ \A r \in 0 .. Rounds :
           r # 0 /\ (r # 1 \/ key.algorithm = "AES128") => keys[r] = Unset
      /\ keys \in [0 .. Rounds -> Register \cup {Unset}]
  BY <1>1 DEF Init, Rounds, Nk, Algorithm
<1>3. \A i \in 0 .. 3 : W(i) = keys[0][i] /\ W(4 + i) = keys[1][i]
  BY Quarters DEF W
<1>4. TypeOK
  BY <1>1, <1>2, KeysAssumption DEF TypeOK, LastCall, Settled, Rounds, Nk, Algorithm
<1>5. \A i \in 0 .. Nk - 1 : W(i) = IF i < 4 THEN key.lo[i] ELSE key.hi[i - 4]
  <2> SUFFICES ASSUME NEW i \in 0 .. Nk - 1
               PROVE  W(i) = IF i < 4 THEN key.lo[i] ELSE key.hi[i - 4]
    OBVIOUS
  <2>1. Nk \in {4, 6, 8} /\ (Nk = 4 <=> key.algorithm = "AES128")
    BY <1>1 DEF Nk, Algorithm
  <2>2. CASE i < 4
    BY <1>2, <1>3, <2>1, <2>2
  <2>3. CASE i >= 4
    <3>1. i - 4 \in 0 .. 3 /\ 4 + (i - 4) = i /\ key.algorithm # "AES128"
      BY <2>1, <2>3
    <3>2. QED
      BY <1>2, <1>3, <2>3, <3>1
  <2>4. QED
    BY <2>1, <2>2, <2>3
<1>6. Settled = Nk /\ Nk \in {4, 6, 8}
  BY <1>1 DEF Settled, Nk, LastCall, Algorithm
<1>7. FollowsFips197
  BY <1>5, <1>6 DEF FollowsFips197
<1>8. RegistersHoldLastWords
  BY <1>1, <1>5, <1>6 DEF RegistersHoldLastWords
<1>9. UpperLaneIsClear
  BY <1>1, KeysAssumption DEF UpperLaneIsClear
<1>10. QED
  BY <1>4, <1>7, <1>8, <1>9 DEF Inv

LEMMA NextRight ==
  ASSUME Inv, [Next]_vars
  PROVE  Inv' /\ (Kept \/ UNCHANGED vars)
<1>1. CASE Expand128
  BY <1>1, Expand128Right
<1>2. CASE Expand192Straddling
  BY <1>2, Expand192StraddlingRight
<1>3. CASE Expand192Aligned
  BY <1>3, Expand192AlignedRight
<1>4. CASE Expand256
  BY <1>4, Expand256Right
<1>5. CASE UNCHANGED vars
  BY <1>5 DEF vars, Inv, TypeOK, FollowsFips197, RegistersHoldLastWords,
              UpperLaneIsClear, Rounds, Nk, LastCall, Settled, W, FipsWord
<1>6. QED
  BY <1>1, <1>2, <1>3, <1>4, <1>5 DEF Next

LEMMA Invariance == Spec => []Inv
<1>1. Init => Inv
  BY InitRight
<1>2. Inv /\ [Next]_vars => Inv'
  BY NextRight
<1>3. QED
  BY <1>1, <1>2, PTL DEF Spec

(* The registers and the round keys are well formed at every point of the    *)
(* expansion: no round key stays unset that has words to hold.              *)
THEOREM ScheduleTypes == Spec => []TypeOK
<1>1. Inv => TypeOK
  BY DEF Inv
<1>2. QED
  BY <1>1, Invariance, PTL

(* aes_AES..._expand_key_ makes the words of FIPS-197, for each of the three *)
(* lengths of the key.                                                      *)
THEOREM ScheduleFollowsFips197 == Spec => []FollowsFips197
<1>1. Inv => FollowsFips197
  BY DEF Inv
<1>2. QED
  BY <1>1, Invariance, PTL

(* Between the calls the registers hold the last words made.                *)
THEOREM RegistersAreRight == Spec => []RegistersHoldLastWords
<1>1. Inv => RegistersHoldLastWords
  BY DEF Inv
<1>2. QED
  BY <1>1, Invariance, PTL

(* No call overwrites a word that is final.                                 *)
THEOREM SettledWordsAreKept == Spec => SettledWordsStay
<1>1. Inv /\ [Next]_vars => [\A i \in 0 .. Settled - 1 : W(i)' = W(i)]_vars
  BY NextRight DEF Kept
<1>2. QED
  BY <1>1, Invariance, PTL DEF Spec, SettledWordsStay

-----------------------------------------------------------------------------
(***************************************************************************)
(* The round keys as a key schedule.                                       *)
(***************************************************************************)
LEMMA SettledWords ==
  ASSUME Inv
  PROVE  /\ Settled \in Nat /\ Settled <= 4 * Rounds + 4 /\ Rounds \in {10, 12, 14}
         /\ Nk \in {4, 6, 8} /\ Nk <= Settled
         /\ \A i \in 0 .. Settled - 1 : W(i) \in Word
<1>1. /\ Settled \in Nat /\ Settled <= 4 * Rounds + 4 /\ Rounds \in {10, 12, 14}
      /\ Nk \in {4, 6, 8} /\ Nk <= Settled
  <2>1. calls \in 0 .. LastCall
    BY DEF Inv, TypeOK
  <2>2. QED
    BY <2>1, Counts DEF Inv, Algorithm
<1>2. ASSUME NEW i \in 0 .. Settled - 1
      PROVE  W(i) \in Word
  <2> DEFINE r == i \div 4
             j == i % 4
  <2>1. r \in Nat /\ j \in 0 .. 3 /\ i = 4 * r + j /\ i \in Nat
    BY <1>1, QuartersOf
  <2> HIDE DEF r, j
  <2>2. r \in 0 .. Rounds /\ ~ (4 * r >= Settled)
    BY <1>1, <2>1
  <2>3. keys[r] \in Register
    BY <2>2 DEF Inv, TypeOK
  <2>4. QED
    BY <2>1, <2>3 DEF W, Register, r, j
<1>3. QED
  BY <1>1, <1>2

LEMMA ScheduleFigures ==
  /\ Fips197!Nk = Nk /\ Fips197!Rounds = Rounds /\ Fips197!Index = 0 .. 4 * Rounds + 3
  BY DEF Fips197!Nk, Nk, Fips197!Rounds, Rounds, Fips197!Index

(* The words that are final are there, and are those of FIPS-197 with       *)
(* respect to one another.                                                  *)
LEMMA ScheduleIsRight ==
  Inv => /\ \A i \in Fips197!Index : ScheduleWords[i] = IF i < Settled THEN W(i) ELSE Unset
         /\ Fips197!Made(Settled)
         /\ \A i \in 0 .. Settled - 1 :
              ScheduleWords[i] = Fips197!FipsWord(ScheduleWords, i)
<1> SUFFICES ASSUME Inv
             PROVE  /\ \A i \in Fips197!Index :
                         ScheduleWords[i] = IF i < Settled THEN W(i) ELSE Unset
                    /\ Fips197!Made(Settled)
                    /\ \A i \in 0 .. Settled - 1 :
                         ScheduleWords[i] = Fips197!FipsWord(ScheduleWords, i)
  OBVIOUS
<1>1. /\ Settled \in Nat /\ Settled <= 4 * Rounds + 4 /\ Rounds \in {10, 12, 14}
      /\ Nk \in {4, 6, 8} /\ Nk <= Settled
      /\ \A i \in 0 .. Settled - 1 : W(i) \in Word
  BY SettledWords
<1>2. \A i \in Fips197!Index : ScheduleWords[i] = IF i < Settled THEN W(i) ELSE Unset
  BY ScheduleFigures DEF ScheduleWords
<1>3. \A i \in 0 .. Settled - 1 : i \in Fips197!Index /\ ScheduleWords[i] = W(i)
  BY <1>1, <1>2, ScheduleFigures
<1>4. Fips197!Made(Settled)
  <2>1. ASSUME NEW i \in Fips197!Index
        PROVE  ScheduleWords[i] # Unset <=> i < Settled
    <3>1. i \in Nat
      BY <1>1, ScheduleFigures
    <3>2. i < Settled => W(i) \in Word
      BY <1>1, <3>1
    <3>3. QED
      BY <1>2, <3>2, KeysAssumption
  <2>2. QED
    BY <2>1 DEF Fips197!Made
<1>5. ASSUME NEW i \in 0 .. Settled - 1
      PROVE  ScheduleWords[i] = Fips197!FipsWord(ScheduleWords, i)
  <2>1. CASE i < Nk
    <3>1. i \in 0 .. Nk - 1
      BY <1>1, <2>1
    <3>2. W(i) = IF i < 4 THEN key.lo[i] ELSE key.hi[i - 4]
      BY <3>1 DEF Inv, FollowsFips197
    <3>3. QED
      BY <1>3, <2>1, <3>2, ScheduleFigures DEF Fips197!FipsWord, Fips197!KeyWord
  <2>2. CASE ~ (i < Nk)
    <3>1. /\ i \in Nk .. Settled - 1
          /\ i - 1 \in 0 .. Settled - 1 /\ i - Nk \in 0 .. Settled - 1
      BY <1>1, <2>2
    <3>2. W(i) = FipsWord(i)
      BY <3>1 DEF Inv, FollowsFips197
    <3>3. /\ ScheduleWords[i] = W(i) /\ ScheduleWords[i - 1] = W(i - 1)
          /\ ScheduleWords[i - Nk] = W(i - Nk)
      BY <1>3, <3>1
    <3>4. Fips197!FipsWord(ScheduleWords, i) = FipsWord(i)
      BY <2>2, <3>3, ScheduleFigures DEF Fips197!FipsWord, FipsWord
    <3>5. QED
      BY <3>2, <3>3, <3>4
  <2>3. QED
    BY <2>1, <2>2
<1>6. QED
  BY <1>2, <1>4, <1>5

(* Each call makes words.                                                   *)
LEMMA CallsMakeWords ==
  ASSUME Inv, Inv', Next
  PROVE  key' = key /\ Settled < Settled'
<1>1. key' = key /\ calls' = calls + 1 /\ calls < LastCall
  BY DEF Next, Expand128, Expand192Straddling, Expand192Aligned, Assist192, Expand256,
         Assist
<1>2. key.algorithm \in Algorithm /\ calls \in 0 .. LastCall
  BY KeysAssumption DEF Inv, TypeOK
<1>3. CASE key.algorithm = "AES128"
  BY <1>1, <1>2, <1>3 DEF Settled, LastCall
<1>4. CASE key.algorithm = "AES192"
  BY <1>1, <1>2, <1>4 DEF Settled, LastCall
<1>5. CASE key.algorithm = "AES256"
  BY <1>1, <1>2, <1>5 DEF Settled, LastCall
<1>6. QED
  BY <1>1, <1>2, <1>3, <1>4, <1>5 DEF Algorithm

LEMMA CallIsMake ==
  ASSUME Inv, Inv', Kept, Next
  PROVE  Fips197!Next
<1>1. key' = key /\ Settled < Settled'
  BY CallsMakeWords
<1>2. /\ Settled \in Nat /\ Rounds \in {10, 12, 14} /\ Nk \in {4, 6, 8}
  BY SettledWords
<1>3. (Inv => Settled \in Nat /\ Settled <= 4 * Rounds + 4)'
  BY SettledWords, PTL
<1>4. Rounds' = Rounds /\ Settled' \in Nat /\ Settled' <= 4 * Rounds + 4
  <2>1. Rounds' = Rounds
    BY <1>1 DEF Rounds, Nk
  <2>2. QED
    BY <1>3, <2>1
<1>5. /\ \A i \in Fips197!Index : ScheduleWords[i] = IF i < Settled THEN W(i) ELSE Unset
      /\ Fips197!Made(Settled)
  BY ScheduleIsRight
<1>6. /\ \A i \in Fips197!Index' :
           ScheduleWords'[i] = IF i < Settled' THEN W(i)' ELSE Unset
      /\ \A i \in 0 .. Settled' - 1 :
           ScheduleWords'[i] = (Fips197!FipsWord(ScheduleWords, i))'
  <2>1. (Inv => /\ \A i \in Fips197!Index :
                     ScheduleWords[i] = IF i < Settled THEN W(i) ELSE Unset
                /\ \A i \in 0 .. Settled - 1 :
                     ScheduleWords[i] = Fips197!FipsWord(ScheduleWords, i))'
    BY ScheduleIsRight, PTL
  <2>2. QED
    BY <2>1
<1>7. Fips197!Index' = Fips197!Index
  BY <1>1 DEF Fips197!Index, Fips197!Rounds, Fips197!Nk
<1>8. \A i \in Fips197!Index :
        IF i \in Settled .. Settled' - 1
        THEN ScheduleWords'[i] = Fips197!FipsWord(ScheduleWords', i)
        ELSE ScheduleWords'[i] = ScheduleWords[i]
  <2> SUFFICES ASSUME NEW i \in Fips197!Index
               PROVE  IF i \in Settled .. Settled' - 1
                      THEN ScheduleWords'[i] = Fips197!FipsWord(ScheduleWords', i)
                      ELSE ScheduleWords'[i] = ScheduleWords[i]
    OBVIOUS
  <2>1. i \in Nat
    BY <1>2, ScheduleFigures
  <2> DEFINE n == Settled
             m == Settled'
  <2> n \in Nat /\ m \in Nat /\ n < m
    BY <1>1, <1>2, <1>4
  <2>0. Settled = n /\ Settled' = m
    OBVIOUS
  <2> HIDE DEF n, m
  <2>2. CASE i < Settled
    <3>1. W(i)' = W(i)
      BY <1>2, <2>1, <2>2 DEF Kept
    <3>2. i < Settled' /\ i \notin Settled .. Settled' - 1
      BY <2>0, <2>1, <2>2
    <3>3. ScheduleWords'[i] = W(i)' /\ ScheduleWords[i] = W(i)
      BY <1>5, <1>6, <1>7, <2>2, <3>2
    <3>4. QED
      BY <3>1, <3>2, <3>3
  <2>3. CASE i \in Settled .. Settled' - 1
    <3>1. i \in 0 .. Settled' - 1
      BY <2>0, <2>1, <2>3
    <3>2. ScheduleWords'[i] = (Fips197!FipsWord(ScheduleWords, i))'
      BY <1>6, <3>1
    <3>3. (Fips197!FipsWord(ScheduleWords, i))' = Fips197!FipsWord(ScheduleWords', i)
      BY <1>1 DEF Fips197!FipsWord, Fips197!Nk, Fips197!KeyWord
    <3>4. QED
      BY <2>3, <3>2, <3>3
  <2>4. CASE ~ (i < Settled')
    <3>1. ~ (i < Settled) /\ i \notin Settled .. Settled' - 1
      BY <2>0, <2>1, <2>4
    <3>2. ScheduleWords'[i] = Unset /\ ScheduleWords[i] = Unset
      BY <1>5, <1>6, <1>7, <2>4, <3>1
    <3>3. QED
      BY <3>1, <3>2
  <2>5. QED
    BY <2>0, <2>1, <2>2, <2>3, <2>4
<1>9. Fips197!Make(Settled, Settled')
  BY <1>1, <1>5, <1>8 DEF Fips197!Make
<1>10. Settled \in 0 .. 4 * Fips197!Rounds + 4 /\ Settled' \in 0 .. 4 * Fips197!Rounds + 4
  BY <1>1, <1>2, <1>4, ScheduleFigures
<1>11. QED
  BY <1>1, <1>9, <1>10 DEF Fips197!Next

(* aes_AES..._expand_key_ brings the words of FIPS-197 into being in order,  *)
(* as Schedule has it: the round keys that AES-192 writes to twice are seen  *)
(* to grow, never to change.                                                *)
THEOREM KeyExpansionImplementsSchedule == Spec => ImplementsSchedule
<1>1. Init => Fips197!Init
  <2> SUFFICES ASSUME Init PROVE Fips197!Init
    OBVIOUS
  <2>1. Inv /\ key \in BoxKeys
    BY InitRight DEF Init
  <2>2. Settled = Nk /\ Nk \in {4, 6, 8}
    BY <2>1, KeysAssumption DEF Init, Settled, Nk, LastCall, Algorithm
  <2>3. \A i \in 0 .. Nk - 1 : W(i) = Fips197!KeyWord(i)
    BY <2>1 DEF Inv, FollowsFips197, Fips197!KeyWord
  <2>4. ScheduleWords
          = [i \in Fips197!Index |-> IF i < Fips197!Nk THEN Fips197!KeyWord(i) ELSE Unset]
    <3>1. Rounds \in Nat
      BY <2>2 DEF Rounds
    <3>2. \A i \in 0 .. 4 * Rounds + 3 :
            (IF i < Settled THEN W(i) ELSE Unset)
              = (IF i < Nk THEN Fips197!KeyWord(i) ELSE Unset)
      BY <2>2, <2>3, <3>1
    <3>3. QED
      BY <3>2, ScheduleFigures DEF ScheduleWords
  <2>5. QED
    BY <2>1, <2>4 DEF Fips197!Init
<1>2. Inv /\ Inv' /\ [Next]_vars => [Fips197!Next]_Fips197!vars
  <2> SUFFICES ASSUME Inv, Inv', [Next]_vars
               PROVE  [Fips197!Next]_Fips197!vars
    OBVIOUS
  <2>1. CASE UNCHANGED vars
    BY <2>1 DEF vars, Fips197!vars, ScheduleWords, Rounds, Nk, Settled, LastCall, W
  <2>2. CASE Next /\ ~ UNCHANGED vars
    <3>1. Kept
      BY <2>2, NextRight
    <3>2. QED
      BY <2>2, <3>1, CallIsMake
  <2>3. QED
    BY <2>1, <2>2
<1>3. QED
  BY <1>1, <1>2, Invariance, PTL DEF Spec, ImplementsSchedule, Fips197!Spec

(* When the last call has been made the schedule is complete, and is one    *)
(* that the rounds of the cipher can be run with.                           *)
THEOREM ScheduleIsComplete ==
  Spec => [](calls = LastCall => keys \in [0 .. Rounds -> Register])
<1>1. Inv => (calls = LastCall => keys \in [0 .. Rounds -> Register])
  <2> SUFFICES ASSUME Inv, calls = LastCall
               PROVE  keys \in [0 .. Rounds -> Register]
    OBVIOUS
  <2>1. TypeOK
    BY DEF Inv
  <2>2. Settled = 4 * (Rounds + 1) /\ Rounds \in {10, 12, 14}
    BY <2>1, Counts DEF Algorithm
  <2>3. \A r \in 0 .. Rounds : keys[r] # Unset
    BY <2>1, <2>2 DEF TypeOK
  <2>4. QED
    BY <2>1, <2>3 DEF TypeOK
<1>2. QED
  BY <1>1, Invariance, PTL
=============================================================================
