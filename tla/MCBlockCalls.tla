------------------------------ MODULE MCBlockCalls ------------------------------
(* An instance of BlockCalls for TLC.                                       *)
EXTENDS BlockCalls, MCPrimitives

(* The round keys of the other direction make another permutation.          *)
MCMismatched(k, b) == ToBlock((Permutation[k][Number(b) + 1] + 7) % 16)

MCTexts == {<<1, 2>>, <<3, 0>>}

MCInitVectors == {<<0, 3>>, <<2, 1>>}
=============================================================================
