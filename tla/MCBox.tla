-------------------------------- MODULE MCBox --------------------------------
(* Instances of Box for TLC.                                                *)
EXTENDS BoxRefinement, MCPrimitives

MCContents ==
  {<< <<1, 2>>, <<0, 1>>, <<3, 0>> >>, << <<2, 2>>, <<3, 3>>, <<1, 1>> >>}

MCContents2 ==
  {<< <<1, 2>>, <<0, 1>> >>, << <<2, 2>>, <<1, 1>> >>}

MCInitVectors1 == {<<0, 3>>}

MCInitVectors == {<<0, 3>>, <<2, 1>>}
=============================================================================
