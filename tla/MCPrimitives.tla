----------------------------- MODULE MCPrimitives -----------------------------
(***************************************************************************)
(* A small instance of the primitives for TLC: two-byte blocks of two-bit   *)
(* bytes, bytewise exclusive or, and for each key a permutation of the      *)
(* sixteen blocks without structure that any mode could profit from.        *)
(***************************************************************************)
EXTENDS Integers, Sequences

XorTable == << <<0, 1, 2, 3>>, <<1, 0, 3, 2>>, <<2, 3, 0, 1>>, <<3, 2, 1, 0>> >>

MCXor(a, b) == XorTable[a + 1][b + 1]

Number(b) == 4 * b[1] + b[2]

ToBlock(n) == <<n \div 4, n % 4>>

Permutation ==
  [k1 |-> <<7, 12, 0, 9, 14, 3, 10, 5, 1, 15, 6, 2, 11, 8, 13, 4>>,
   k2 |-> <<3, 6, 13, 1, 8, 15, 4, 11, 10, 0, 5, 14, 2, 7, 9, 12>>]

MCEnc(k, b) == ToBlock(Permutation[k][Number(b) + 1])

MCDec(k, b) ==
  ToBlock(CHOOSE n \in 0 .. 15 : Permutation[k][n + 1] = Number(b))

(* The counter is the last lane of the block and wraps without a carry.     *)
MCInc(b) == <<b[1], (b[2] + 1) % 4>>
=============================================================================
