-------------------------------- MODULE MCWords --------------------------------
(***************************************************************************)
(* Words of two three-bit bytes, written as numbers below 64: an S-box that  *)
(* is not linear, and round constants that stay distinct.                  *)
(***************************************************************************)
EXTENDS Words, Bitwise, Sequences

MCWord == 0 .. 63

MCXorWord(a, b) == a ^^ b

SBox == <<3, 6, 1, 4, 7, 0, 5, 2>>

MCSubWord(a) == 8 * SBox[(a \div 8) + 1] + SBox[(a % 8) + 1]

MCRotWord(a) == 8 * (a % 8) + (a \div 8)

MCRconWord(c) == c % 59

MCDoubled(c) == IF c < 128 THEN 2 * c ELSE (2 * c - 256) ^^ 27

MCFipsRcon[n \in 1 .. 10] == IF n = 1 THEN 1 ELSE MCDoubled(MCFipsRcon[n - 1])

(* Keys of words without a pattern, and keys of equal words.                *)
SampleWord(s, i) == (37 * s + 11 * s * i + 5 * i * i + 23 * i) % 64

SampleKey(algorithm, s) ==
  [algorithm |-> algorithm,
   lo |-> [i \in 0 .. 3 |-> SampleWord(s, i)],
   hi |-> [i \in 0 .. 3 |-> IF algorithm = "AES192" /\ i > 1 THEN ZeroWord
                            ELSE SampleWord(s, i + 4)]]

EqualKey(algorithm, w) ==
  [algorithm |-> algorithm,
   lo |-> [i \in 0 .. 3 |-> w],
   hi |-> [i \in 0 .. 3 |-> IF algorithm = "AES192" /\ i > 1 THEN ZeroWord ELSE w]]

MCBoxKeys ==
  {SampleKey(a, s) : a \in Algorithm, s \in 1 .. 12} \cup
  {EqualKey(a, w) : a \in Algorithm, w \in {0, 1, 63}}
=============================================================================
