------------------------------- MODULE MCParsing -------------------------------
(***************************************************************************)
(* An instance of Parsing for TLC: two digits, two bytes in half a key.     *)
(* Every text of up to three characters, and longer ones of digits or with  *)
(* one other character among the digits, up to and beyond a whole key.       *)
(***************************************************************************)
EXTENDS Parsing

Digits == {c \in Character : c.class = "digit"}

Spoilt(t) == {[t EXCEPT ![p] = c] : p \in DOMAIN t, c \in Character \ Digits}

MCTexts ==
  UNION {[1 .. n -> Character] : n \in 0 .. 3} \cup
  UNION {[1 .. n -> Digits] : n \in 4 .. 9} \cup
  UNION {Spoilt(t) : t \in UNION {[1 .. n -> Digits] : n \in 4 .. 7}}

MCKeys ==
  {[lo |-> <<3, 1>>, hi |-> <<2, 3>>]}
=============================================================================
