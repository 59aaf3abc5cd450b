------------------------------- MODULE Padding -------------------------------
(***************************************************************************)
(* PKCS7 padding as padding.c fills it in and takes it off.                 *)
(***************************************************************************)
EXTENDS Blocks

(* A slip: the count leaves out the byte that holds it.                     *)
FillWithPaddingLessOne(b, n) ==
  [i \in 1 .. BlockSize |-> IF i <= n THEN b[i] ELSE BlockSize - n - 1]

(* The bytes of the last block: n bytes of text, then the filling, each     *)
(* byte of it the number of bytes filled.                                   *)
FillWithPadding(b, n) ==
  [i \in 1 .. BlockSize |-> IF i <= n THEN b[i] ELSE BlockSize - n]

(* The byte at offset o (from 0) of memory that starts with the given cells. *)
ByteAt(cells, o) == cells[(o \div BlockSize) + 1][(o % BlockSize) + 1]

(* The padding size the last of n blocks claims.                            *)
ClaimedPadding(cells, n) == cells[n][BlockSize]

(* The scan of the claimed padding runs backwards from the last byte.  It    *)
(* may run past the start of the block, but what lies before the first of    *)
(* the cells is not the program's: there the comparison may go either way.  *)
ScanMismatch(cells, n) ==
  \E i \in 1 .. ClaimedPadding(cells, n) - 1 :
    /\ i <= n * BlockSize - 1
    /\ ByteAt(cells, n * BlockSize - 1 - i) # ClaimedPadding(cells, n)

ScanLeavesBuffer(cells, n) == ClaimedPadding(cells, n) > n * BlockSize

(* aes_extract_padding_size can report success ...                          *)
PaddingAccepted(cells, n) == ~ ScanMismatch(cells, n)

(* ... and can report AES_INVALID_PKCS7_PADDING_ERROR.                      *)
PaddingRejected(cells, n) == ScanMismatch(cells, n) \/ ScanLeavesBuffer(cells, n)

(* PKCS7 itself: the last 1 to BlockSize bytes all hold their number.       *)
IsPkcs7(b, pad) ==
  /\ pad \in 1 .. BlockSize
  /\ \A i \in BlockSize - pad + 1 .. BlockSize : b[i] = pad
=============================================================================
