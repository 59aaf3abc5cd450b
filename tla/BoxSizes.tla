------------------------------- MODULE BoxSizes -------------------------------
(***************************************************************************)
(* The caller's buffers and the calls that fit in them.                     *)
(***************************************************************************)
EXTENDS Sizes

CONSTANTS
  Buffers,      \* the caller's buffers
  Cells,        \* blocks of memory in each of them
  Contents,     \* what the caller may fill a buffer with
  InitVectors   \* the initialization vectors the caller may pass

ASSUME SizesAssumption ==
  /\ Cells \in Nat \ {0}
  /\ Contents \subseteq [1 .. Cells -> Block]
  /\ InitVectors \subseteq Block
  /\ SizeMod \in Nat \ {0}

Memory == [1 .. Cells -> Block]

(* The memory a call reads and writes is there.                             *)
EncryptionFits(mode, full, rest) ==
  full + (IF rest # 0 \/ mode \in PaddedMode THEN 1 ELSE 0) <= Cells

DecryptionFits(full, rest) == full + (IF rest # 0 THEN 1 ELSE 0) <= Cells
=============================================================================
