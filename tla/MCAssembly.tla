------------------------------ MODULE MCAssembly ------------------------------
(* An instance of Assembly for TLC, on the words of MCWords.                 *)
EXTENDS Assembly, MCWords

(* Any mixing of the lanes that no exclusive or undoes.                     *)
MCImc(reg) == [i \in 0 .. 3 |-> MCXorWord(MCSubWord(reg[i]), reg[(i + 1) % 4])]
=============================================================================
