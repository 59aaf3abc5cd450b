------------------------------- MODULE MCSession -------------------------------
(* Instances of Session for TLC.                                            *)
EXTENDS Session, MCPrimitives

MCContents == {<< <<0, 0>>, <<0, 0>>, <<0, 0>> >>}

MCInitVectors == {<<0, 3>>}

(* Texts that are empty, a part of a block, a block, and two blocks and a   *)
(* part; one ends in a byte that could be taken for padding.                *)
MCMessages ==
  {[cells |-> << <<1, 2>>, <<0, 0>>, <<0, 0>> >>, full |-> 0, rest |-> 0],
   [cells |-> << <<3, 2>>, <<0, 0>>, <<0, 0>> >>, full |-> 0, rest |-> 1],
   [cells |-> << <<1, 1>>, <<0, 0>>, <<0, 0>> >>, full |-> 1, rest |-> 0],
   [cells |-> << <<1, 2>>, <<3, 0>>, <<2, 1>> >>, full |-> 2, rest |-> 1]}
=============================================================================
