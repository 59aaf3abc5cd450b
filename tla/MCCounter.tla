------------------------------- MODULE MCCounter -------------------------------
(* An instance of Counter for TLC: three values of a byte.                  *)
EXTENDS Counter

Ended(a, b, c, d) == [i \in 1 .. 16 |-> CASE i = 13 -> a [] i = 14 -> b
                                           [] i = 15 -> c [] i = 16 -> d
                                           [] OTHER -> i % 3]

MCStarts ==
  {Ended(0, 0, 0, 0), Ended(0, 0, 2, 2), Ended(1, 2, 2, 1), Ended(2, 2, 2, 2),
   Ended(2, 2, 2, 0), Ended(2, 0, 1, 1), [i \in 1 .. 16 |-> 2]}
=============================================================================
