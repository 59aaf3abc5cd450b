----------------------------- MODULE KeyExpansion -----------------------------
(***************************************************************************)
(* The key expansion of aes128.c, aes192.c and aes256.c: four 32-bit words   *)
(* at a time in 128-bit registers, one call of an ..._expand_key_assist      *)
(* after another.  FIPS-197 describes the same words one by one; AES-192     *)
(* makes six of them in a call but has four in a round key, so every other  *)
(* call completes a round key that the call before it began.                *)
(***************************************************************************)
EXTENDS Words

VARIABLES
  key,     \* the key given
  lo, hi,  \* the registers key_lo and key_hi (prev_lo and prev_hi)
  keys,    \* encryption_keys->keys
  calls    \* the calls of expand_key_assist made

vars == <<key, lo, hi, keys, calls>>

-----------------------------------------------------------------------------
(* The number of words in the key, and the index of the last round key.     *)
Nk == CASE key.algorithm = "AES128" -> 4
        [] key.algorithm = "AES192" -> 6
        [] key.algorithm = "AES256" -> 8

Rounds == Nk + 6

LastCall == CASE key.algorithm = "AES128" -> 10
              [] key.algorithm = "AES192" -> 8
              [] key.algorithm = "AES256" -> 13

(* A slip: the ninth is reduced by the wrong polynomial.                    *)
RconMisreduced == <<1, 2, 4, 8, 16, 32, 64, 128, 29, 58>>

(* The immediate operands of aeskeygenassist in the order of the calls.     *)
Rcon == <<1, 2, 4, 8, 16, 32, 64, 128, 27, 54>>

-----------------------------------------------------------------------------
Init ==
  /\ key \in BoxKeys
  /\ lo = key.lo
  /\ hi = key.hi
  /\ keys = [r \in 0 .. Rounds |-> CASE r = 0 -> key.lo
                                     [] r = 1 /\ key.algorithm # "AES128" -> key.hi
                                     [] OTHER -> Unset]
  /\ calls = 0

Assist(algorithm) ==
  /\ key.algorithm = algorithm
  /\ calls < LastCall
  /\ calls' = calls + 1
  /\ UNCHANGED key

Expand128 ==
  LET hwgen == Broadcast(KeygenAssist(lo, Rcon[calls + 1]), 3)
  IN  /\ Assist("AES128")
      /\ lo' = XorRegister(Accumulated(lo), hwgen)
      /\ keys' = [keys EXCEPT ![calls + 1] = lo']
      /\ UNCHANGED hi

(* The lower half of hi holds the fifth and the sixth word.                 *)
Assist192 ==
  LET hwgen == Broadcast(KeygenAssist(hi, Rcon[calls + 1]), 1)
  IN  /\ Assist("AES192")
      /\ lo' = XorRegister(Accumulated(lo), hwgen)
      /\ hi' = XorRegister(XorRegister(hi, Shuffled(hi, <<3, 0, 3, 3>>)),
                           ShiftedRight(Broadcast(lo', 3), 2))

(* A slip: the round key begun before is written anew.                      *)
Expand192StraddlingOverwriting ==
  LET r == 3 * (calls \div 2) + 1
  IN  /\ calls % 2 = 0
      /\ Assist192
      /\ keys' = [keys EXCEPT ![r] = lo', ![r + 1] = HighLow(lo', hi')]

(* The first, third, fifth and seventh call complete the last round key     *)
(* with two of their six words; the others fill one, and half of another.   *)
Expand192Straddling ==
  LET r == 3 * (calls \div 2) + 1
  IN  /\ calls % 2 = 0
      /\ Assist192
      /\ keys' = [keys EXCEPT ![r] = LowLow(@, lo'), ![r + 1] = HighLow(lo', hi')]

(* A slip: hi is kept for the next call, but not written.                    *)
Expand192AlignedLoOnly ==
  LET r == 3 * (calls \div 2) + 3
  IN  /\ calls % 2 = 1
      /\ Assist192
      /\ keys' = [keys EXCEPT ![r] = lo']

Expand192Aligned ==
  LET r == 3 * (calls \div 2) + 3
  IN  /\ calls % 2 = 1
      /\ Assist192
      /\ keys' = IF calls + 1 = LastCall THEN [keys EXCEPT ![r] = lo']
                 ELSE [keys EXCEPT ![r] = lo', ![r + 1] = hi']

(* A slip: the registers are not exchanged.                                 *)
Expand256Unexchanged ==
  LET hwgen == IF calls % 2 = 0
               THEN Broadcast(KeygenAssist(hi, Rcon[calls \div 2 + 1]), 3)
               ELSE Broadcast(KeygenAssist(hi, 0), 2)
      sum == XorRegister(Accumulated(lo), hwgen)
  IN  /\ Assist("AES256")
      /\ lo' = sum
      /\ keys' = [keys EXCEPT ![calls + 2] = sum]
      /\ UNCHANGED hi

(* Every other call substitutes without rotating; the registers are         *)
(* exchanged by three exclusive ors.                                        *)
Expand256 ==
  LET hwgen == IF calls % 2 = 0
               THEN Broadcast(KeygenAssist(hi, Rcon[calls \div 2 + 1]), 3)
               ELSE Broadcast(KeygenAssist(hi, 0), 2)
      sum   == XorRegister(Accumulated(lo), hwgen)
      mixed == XorRegister(hi, sum)
  IN  /\ Assist("AES256")
      /\ lo' = XorRegister(sum, mixed)
      /\ hi' = XorRegister(mixed, lo')
      /\ keys' = [keys EXCEPT ![calls + 2] = hi']

Next == Expand128 \/ Expand192Straddling \/ Expand192Aligned \/ Expand256

Spec == Init /\ [][Next]_vars

-----------------------------------------------------------------------------
(***************************************************************************)
(* Properties.                                                             *)
(***************************************************************************)
(* The words of the schedule, numbered through the round keys, and how many  *)
(* of them are final: each call makes Nk more, or four in AES-256.          *)
W(i) == keys[i \div 4][i % 4]

Settled ==
  CASE key.algorithm = "AES128" -> 4 * (calls + 1)
    [] key.algorithm = "AES192" -> IF calls = LastCall THEN 52 ELSE 6 * (calls + 1)
    [] key.algorithm = "AES256" -> 4 * (calls + 2)

FipsWord(i) ==
  LET temp == CASE i % Nk = 0 ->
                     XorWord(SubWord(RotWord(W(i - 1))), RconWord(FipsRcon[i \div Nk]))
                [] Nk = 8 /\ i % Nk = 4 -> SubWord(W(i - 1))
                [] OTHER -> W(i - 1)
  IN  XorWord(W(i - Nk), temp)

(* A round key is there from the call on that makes its first word, and     *)
(* after the last call all of them are.                                     *)
TypeOK ==
  /\ key \in BoxKeys
  /\ lo \in Register /\ hi \in Register
  /\ keys \in [0 .. Rounds -> Register \cup {Unset}]
  /\ calls \in 0 .. LastCall
  /\ \A r \in 0 .. Rounds : keys[r] = Unset <=> 4 * r >= Settled

(* Every word made so far is the one FIPS-197 says: the key itself, and     *)
(* then by its recurrence on the words before.                              *)
FollowsFips197 ==
  /\ \A i \in 0 .. Nk - 1 : W(i) = IF i < 4 THEN key.lo[i] ELSE key.hi[i - 4]
  /\ \A i \in Nk .. Settled - 1 : W(i) = FipsWord(i)

(* Between two calls the registers hold the last Nk words, wherever they     *)
(* are in the round keys; the unused half of hi does not leak into them.    *)
RegistersHoldLastWords ==
  LET firstWord == (IF key.algorithm = "AES192" THEN 6 ELSE 4) * calls
      Held(i) == IF i < 4 THEN lo[i] ELSE hi[i - 4]
  IN  \A i \in 0 .. Nk - 1 : firstWord + i < Settled => Held(i) = W(firstWord + i)

(* A word that is final is not touched by the calls that follow, not by     *)
(* those either that write to a round key a second time.                    *)
SettledWordsStay == [][\A i \in 0 .. Settled - 1 : W(i)' = W(i)]_vars

(* The round keys taken as one array, of which the words that are not final  *)
(* do not count, are a key schedule as Schedule has it: the words come in    *)
(* order, each is the one of FIPS-197 when it comes, and none is changed     *)
(* afterwards, though calls write to a round key a second time.              *)
ScheduleWords ==
  [i \in 0 .. 4 * Rounds + 3 |-> IF i < Settled THEN W(i) ELSE Unset]

Fips197 == INSTANCE Schedule WITH words <- ScheduleWords

ImplementsSchedule == Fips197!Spec
=============================================================================
