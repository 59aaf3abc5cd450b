------------------------------- MODULE Schedule -------------------------------
(***************************************************************************)
(* What a key expansion promises, whoever computes it: the words of the key  *)
(* schedule come into being in order, each is the one that FIPS-197 says,    *)
(* and none is changed once it is there.                                    *)
(***************************************************************************)
EXTENDS Words

VARIABLES
  key,    \* the key given
  words   \* the words of the schedule, in order

vars == <<key, words>>

Nk == CASE key.algorithm = "AES128" -> 4
        [] key.algorithm = "AES192" -> 6
        [] key.algorithm = "AES256" -> 8

Rounds == Nk + 6

Index == 0 .. 4 * Rounds + 3

KeyWord(i) == IF i < 4 THEN key.lo[i] ELSE key.hi[i - 4]

(* The word at i, from the words w before it.                               *)
FipsWord(w, i) ==
  IF i < Nk THEN KeyWord(i)
  ELSE XorWord(w[i - Nk],
         CASE i % Nk = 0 -> XorWord(SubWord(RotWord(w[i - 1])),
                                    RconWord(FipsRcon[i \div Nk]))
           [] Nk = 8 /\ i % Nk = 4 -> SubWord(w[i - 1])
           [] OTHER -> w[i - 1])

Made(n) == \A i \in Index : words[i] # Unset <=> i < n

(* The words of the key itself are there from the start, or are made as the  *)
(* others are.                                                              *)
Init ==
  /\ key \in BoxKeys
  /\ \E n \in {0, Nk} : words = [i \in Index |-> IF i < n THEN KeyWord(i) ELSE Unset]

(* The words from n to m - 1, at once.                                      *)
Make(n, m) ==
  /\ Made(n)
  /\ \A i \in Index : IF i \in n .. m - 1 THEN words'[i] = FipsWord(words', i)
                      ELSE words'[i] = words[i]
  /\ UNCHANGED key

Next == \E n, m \in 0 .. 4 * Rounds + 4 : n < m /\ Make(n, m)

Spec == Init /\ [][Next]_vars
=============================================================================
