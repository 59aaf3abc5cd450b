---------------------------- MODULE MCBlockUtility ----------------------------
(***************************************************************************)
(* An instance of BlockUtility for TLC: keys of two, three and four bytes,  *)
(* command lines of every order of a few words, and longer ones with        *)
(* several groups.                                                          *)
(***************************************************************************)
EXTENDS BlockUtility, MCPrimitives

MCKey == UNION {[1 .. n -> Byte] : n \in 2 .. 4}

KeyNumber(k) == IF k[1] % 2 = 0 THEN "k1" ELSE "k2"

MCKeyEnc(k, b) == MCEnc(KeyNumber(k), b)
MCKeyDec(k, b) == MCDec(KeyNumber(k), b)

MCKeySize == [AES128 |-> 2, AES192 |-> 3, AES256 |-> 4]

MCLeftovers == {<<0, 3>>, <<2, 0>>}

(* A block, a text that is too long for one, and one that cannot be read    *)
(* and is longer than error details have room for.                          *)
A == <<1, 2>>
B == <<0, 3, 1>>
Bad == <<3, -2, 0, 1, 1>>

(* A key of AES-256.                                                        *)
K == <<2, 0, 1, 3>>

Words(S, n) == UNION {[1 .. m -> S] : m \in 0 .. n}

Short(algorithm) ==
  IF algorithm = "AES128" THEN Words({A, B, Bad, Separator}, 4)
  ELSE Words({K, B, Bad, Separator}, 3)

(* Groups of several blocks, the first one with a separator before it or    *)
(* not, the second one with or without a bad block.                         *)
Long ==
  {first \o <<K, B, A, K, A, A, Separator, B, A>> \o second :
     first \in {<<>>, <<Separator>>}, second \in {<<B, A, B>>, <<A, Bad, A>>, <<>>}}

MCCommands ==
  UNION {
    [op : {"encrypt", "decrypt"}, mode : Mode, algorithm : {a},
     use_boxes : BOOLEAN, verbose : BOOLEAN, args : Short(a) \cup Long] : a \in Algorithm}
=============================================================================
