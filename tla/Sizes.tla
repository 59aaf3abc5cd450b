-------------------------------- MODULE Sizes --------------------------------
(***************************************************************************)
(* The sizes the buffer functions announce.  A size in bytes is             *)
(* full * BlockSize + rest with rest < BlockSize, which is how the code     *)
(* takes it apart (src_size / block_size and src_size % block_size).        *)
(***************************************************************************)
EXTENDS Modes, Padding

CONSTANT
  SizeMod       \* 2^w, w the width of size_t

InBytes(full, rest) == (full * BlockSize + rest) % SizeMod

(* A slip: whole blocks get no padding.                                     *)
EncryptedSizeOnDemand(mode, full, rest) ==
  IF mode \in PaddedMode /\ rest # 0 THEN InBytes(full + 1, 0) ELSE InBytes(full, rest)

(* aes_box_get_encrypted_buffer_size: padding always adds at least a byte.  *)
EncryptedSize(mode, full, rest) ==
  IF mode \in PaddedMode THEN InBytes(full + 1, 0) ELSE InBytes(full, rest)

(* The sizes aes_box_get_decrypted_buffer_size refuses.                     *)
LacksPadding(mode, full, rest) ==
  mode \in PaddedMode /\ (full = 0 \/ rest # 0)
=============================================================================
