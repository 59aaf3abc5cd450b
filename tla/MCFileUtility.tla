---------------------------- MODULE MCFileUtility ----------------------------
(***************************************************************************)
(* An instance of FileUtility for TLC: two paths, files of up to nine       *)
(* bytes, one more than a vector holds, in the second of which a bitmap     *)
(* keeps its offset.                                                        *)
(***************************************************************************)
EXTENDS FileUtility, MCPrimitives

MCMissing == <<-1>>

(* An offset of 0 stands for one shortly before a size_t wraps around.      *)
MCBfOffBits == [byte \in Byte |-> IF byte = 0 THEN 31 ELSE byte]

(* Files of no bytes, of a part of a block and of whole blocks; as bitmaps:  *)
(* shorter than the header, with an offset inside the header, at its end,   *)
(* behind it, at the end of the file, beyond that, and far beyond.  The last *)
(* two fill a vector and exceed it.                                         *)
MCFiles ==
  {<<>>, <<1>>, <<2, 3>>, <<1, 0, 2>>, <<3, 1, 1>>, <<1, 2, 0, 3>>,
   <<0, 2, 2, 1, 1>>, <<2, 3, 1>>, <<1, 3, 0, 2, 2, 1>>, <<3, 2, 2, 2, 1, 1>>,
   <<1, 1, 2, 0, 3, 1, 2, 2>>, <<1, 0, 2, 0, 3, 1, 2, 2, 1>>}

MCDisks ==
  {[p |-> file, q |-> other] : file \in MCFiles \cup {MCMissing}, other \in {MCMissing, <<0, 1, 2>>}}

MCReplacements == {<<2, 2, 1>>, <<1, 2, 1, 2, 1, 2, 1, 2, 1>>}

MCIvTexts == {<<0, 3>>, <<>>}

Proper(s) == (s.mode = "ECB") = (s.iv = <<>>)

(* What was written is decrypted into the original, in place or not.        *)
Back(s, path) == [s EXCEPT !.op = "decrypt", !.input_path = s.output_path, !.output_path = path]

MCSessions ==
  LET all == {s \in Settings : s.input_path = "p"}
      proper == {s \in all : s.key = "k1" /\ s.iv # << <<>> >> /\ Proper(s)}
  IN  {<<s>> : s \in all} \cup
      {<<s, Back(s, path)>> : s \in {t \in proper : t.op = "encrypt"}, path \in {"p", "q"}}
=============================================================================
