------------------------------- MODULE MCRounds -------------------------------
(***************************************************************************)
(* Rounds on registers of two two-bit bytes, written as numbers below 16:   *)
(* a substitution of the bytes, an exchange of the two, and a linear map.   *)
(***************************************************************************)
EXTENDS Rounds, Sequences

XorTable == << <<0, 1, 2, 3>>, <<1, 0, 3, 2>>, <<2, 3, 0, 1>>, <<3, 2, 1, 0>> >>

Hi(a) == a \div 4

Lo(a) == a % 4

Pair(x, y) == 4 * x + y

MCXor(a, b) == Pair(XorTable[Hi(a) + 1][Hi(b) + 1], XorTable[Lo(a) + 1][Lo(b) + 1])

SBox == <<2, 0, 3, 1>>

InvSBox == <<1, 3, 0, 2>>

MCSubBytes(a) == Pair(SBox[Hi(a) + 1], SBox[Lo(a) + 1])

MCInvSubBytes(a) == Pair(InvSBox[Hi(a) + 1], InvSBox[Lo(a) + 1])

MCShiftRows(a) == Pair(Lo(a), Hi(a))

MCInvShiftRows(a) == MCShiftRows(a)

(* (x, y) to (x + y, x): its inverse is (x, y) to (y, x + y).                *)
MCMixColumns(a) == Pair(XorTable[Hi(a) + 1][Lo(a) + 1], Hi(a))

MCInvMixColumns(a) == Pair(Lo(a), XorTable[Hi(a) + 1][Lo(a) + 1])

MCState == 0 .. 15

MCRoundKeys ==
  {k \in [0 .. Rounds -> {0, 1, 6, 11, 13}] : k[0] # k[Rounds]}
=============================================================================
