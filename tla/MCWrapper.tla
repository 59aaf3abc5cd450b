------------------------------- MODULE MCWrapper -------------------------------
(* An instance of Wrapper for TLC.                                          *)
EXTENDS Wrapper, MCPrimitives

MCContents ==
  {<< <<1, 2>>, <<0, 1>>, <<3, 0>> >>, << <<2, 2>>, <<3, 3>>, <<1, 1>> >>,
   << <<0, 2>>, <<1, 3>>, <<2, 0>> >>}

MCInitVectors == {<<0, 3>>, <<2, 1>>}
=============================================================================
