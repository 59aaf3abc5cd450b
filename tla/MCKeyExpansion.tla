---------------------------- MODULE MCKeyExpansion ----------------------------
(* An instance of KeyExpansion for TLC, on the words of MCWords.             *)
EXTENDS KeyExpansion, MCWords
=============================================================================
