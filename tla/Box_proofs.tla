------------------------------ MODULE Box_proofs ------------------------------
(***************************************************************************)
(* Proofs about Box, for every block size, cipher, memory and number of     *)
(* calls.                                                                   *)
(***************************************************************************)
EXTENDS BoxRefinement, Modes_proofs

-----------------------------------------------------------------------------
(***************************************************************************)
(* Types and the shape of a call.                                          *)
(***************************************************************************)
(* The remainder of a size by 2^w is a size.                                *)
LEMMA ModRange ==
  ASSUME NEW x \in Int
  PROVE  x % SizeMod \in 0 .. SizeMod - 1
  BY SizesAssumption

LEMMA SizeType ==
  ASSUME NEW full \in Nat, NEW rest \in Nat
  PROVE  /\ InBytes(full, rest) \in 0 .. SizeMod - 1
         /\ EncryptedSize(box.mode, full, rest) \in 0 .. SizeMod - 1
<1>1. ASSUME NEW n \in Nat, NEW r \in Nat
      PROVE  InBytes(n, r) \in 0 .. SizeMod - 1
  <2>1. n * BlockSize + r \in Int
    BY BlockSizeAssumption
  <2>2. QED
    BY <2>1, ModRange DEF InBytes
<1>2. InBytes(full, rest) \in 0 .. SizeMod - 1
  BY <1>1
<1>3. InBytes(full + 1, 0) \in 0 .. SizeMod - 1
  BY <1>1
<1>4. QED
  BY <1>2, <1>3 DEF EncryptedSize

(* The next block that goes through the box, and what it leaves.            *)
LEMMA CryptResultType ==
  ASSUME TypeOK, NEW op, NEW input \in Block
  PROVE  Crypt(op, input).output \in Block /\ Crypt(op, input).iv \in Block
  BY CryptType DEF TypeOK, Crypt

(* The call record between calls.                                           *)
LEMMA NoCallType ==
  ASSUME NEW b \in Buffers
  PROVE  NoCall(b) \in [op : {"none", "encrypt", "decrypt"}, step : Step,
                        src : Buffers, dest : Buffers,
                        full : 0 .. Cells, rest : 0 .. BlockSize - 1,
                        done : 0 .. Cells, cut : BOOLEAN, status : Status]
  BY SizesAssumption, BlockSizeAssumption DEF NoCall, Step, Status

-----------------------------------------------------------------------------
Inductive == TypeOK /\ CallShape

LEMMA InductiveInit == Init => Inductive
<1> SUFFICES ASSUME Init PROVE Inductive
  OBVIOUS
<1>1. PICK b \in Buffers : call = NoCall(b)
  BY DEF Init
<1>2. mem \in [Buffers -> Memory] /\ box \in [mode : Mode, key : Key, iv : Block]
  BY SizesAssumption DEF Init, Memory
<1>3. TypeOK
  BY <1>1, <1>2, NoCallType, SizesAssumption, CallsAssumption
     DEF Init, TypeOK, Status
<1>4. CallShape
  BY <1>1 DEF NoCall, CallShape
<1>5. QED
  BY <1>3, <1>4 DEF Inductive

-----------------------------------------------------------------------------
(* What TypeOK says of the call record and of a block of memory.            *)
LEMMA CallTypes ==
  ASSUME TypeOK
  PROVE  /\ call.op \in {"none", "encrypt", "decrypt"}
         /\ call.src \in Buffers /\ call.dest \in Buffers
         /\ call.full \in 0 .. Cells /\ call.done \in 0 .. Cells
         /\ call.rest \in 0 .. BlockSize - 1
         /\ Cells \in Nat \ {0} /\ BlockSize \in Nat \ {0}
         /\ \A b \in Buffers : mem[b] \in Memory
         /\ \A b \in Buffers : \A n \in 1 .. Cells : mem[b][n] \in Block
  BY SizesAssumption, BlockSizeAssumption DEF TypeOK, Memory

(* The memory after block n of dest has been replaced.                      *)
LEMMA StoreType ==
  ASSUME TypeOK, NEW n \in 1 .. Cells, NEW b \in Block, Store(n, b)
  PROVE  mem' \in [Buffers -> Memory]
  BY DEF TypeOK, Memory, Store

(* The calls that only answer, and those that begin.                        *)
LEMMA CallerKeepsInductive ==
  ASSUME Inductive, Caller
  PROVE  Inductive'
<1> USE DEF Inductive
<1>1. /\ call.dest \in Buffers
      /\ calls + 1 \in Nat
      /\ box.mode \in Mode /\ box.iv \in Block
  BY CallsAssumption DEF TypeOK
<1>2. ASSUME NEW b \in Buffers, NEW cells \in Contents, FillBuffer(b, cells)
      PROVE  Inductive'
  <2>1. mem' \in [Buffers -> Memory]
    BY <1>2, SizesAssumption DEF FillBuffer, TypeOK, Memory
  <2>2. call' = NoCall(b) /\ UNCHANGED <<box, heap, size, status, calls, entry>>
    BY <1>2 DEF FillBuffer
  <2>3. TypeOK'
    BY <2>1, <2>2, NoCallType DEF TypeOK
  <2>4. CallShape'
    BY <2>2 DEF CallShape, NoCall
  <2>5. QED
    BY <2>3, <2>4
<1>3. ASSUME call' = NoCall(call.dest), Called,
             box' \in [mode : Mode, key : Key, iv : Block], size' \in 0 .. SizeMod - 1,
             status' \in Status, UNCHANGED <<mem, heap, entry>>
      PROVE  Inductive'
  <2>1. TypeOK'
    BY <1>1, <1>3, NoCallType, CallsAssumption DEF TypeOK, Called
  <2>2. CallShape'
    BY <1>3 DEF CallShape, NoCall
  <2>3. QED
    BY <2>1, <2>2
<1>4. ASSUME NEW mode \in Mode, NEW key \in Key, NEW iv \in InitVectors \cup {box.iv},
             InitBox(mode, key, iv)
      PROVE  Inductive'
  <2>1. iv \in Block
    BY <1>1, SizesAssumption
  <2>2. QED
    BY <1>3, <1>4, <2>1 DEF InitBox, TypeOK, Status
<1>5. CASE RefuseNull
  BY <1>3, <1>5 DEF RefuseNull, TypeOK, Status
<1>6. ASSUME NEW full \in 0 .. Cells, NEW rest \in 0 .. BlockSize - 1,
             \/ QueryEncryptedSize(full, rest)
             \/ QueryDecryptedSize(full, rest)
             \/ RefuseMissingPadding(full, rest)
             \/ \E op \in {"encrypt", "decrypt"} : RefuseNullSource(op, full, rest)
      PROVE  Inductive'
  <2>1. /\ InBytes(full, rest) \in 0 .. SizeMod - 1
        /\ EncryptedSize(box.mode, full, rest) \in 0 .. SizeMod - 1
    BY SizeType, SizesAssumption, BlockSizeAssumption
  <2>2. QED
    BY <1>3, <1>6, <2>1
       DEF QueryEncryptedSize, QueryDecryptedSize, RefuseMissingPadding,
           RefuseNullSource, TypeOK, Status
<1>7. ASSUME NEW full \in 0 .. Cells, NEW rest \in 0 .. BlockSize - 1,
             NEW src \in Buffers, NEW dest \in Buffers,
             \/ BeginEncrypt(src, dest, full, rest)
             \/ BeginDecrypt(src, dest, full, rest)
      PROVE  Inductive'
  <2>1. size' \in 0 .. SizeMod - 1
    BY <1>7, SizeType, SizesAssumption, BlockSizeAssumption
       DEF BeginEncrypt, BeginDecrypt
  <2>2. PICK op \in {"encrypt", "decrypt"} : Enter(op, src, dest, full, rest)
    BY <1>7 DEF BeginEncrypt, BeginDecrypt
  <2>3. TypeOK'
    BY <1>1, <2>1, <2>2, SizesAssumption, CallsAssumption
       DEF Enter, Called, TypeOK, Step, Status
  <2>4. CallShape'
    BY <1>7 DEF BeginEncrypt, BeginDecrypt, Enter, CallShape
  <2>5. QED
    BY <2>3, <2>4
<1>8. QED
  BY <1>2, <1>4, <1>5, <1>6, <1>7 DEF Caller

(* The steps of a call in progress.                                         *)
LEMMA ProgressKeepsInductive ==
  ASSUME Inductive, Progress
  PROVE  Inductive'
<1> USE DEF Inductive
<1>1. ASSUME ProcessBlock
      PROVE  Inductive'
  <2> DEFINE n == call.done + 1
  <2>1. n \in 1 .. Cells /\ call.src \in Buffers /\ call.dest \in Buffers
    BY <1>1, CallTypes DEF ProcessBlock
  <2>2. mem[call.src][n] \in Block
    BY <2>1, CallTypes
  <2> DEFINE r == Crypt(call.op, mem[call.src][n])
  <2>3. r.output \in Block /\ r.iv \in Block
    BY <2>2, CryptResultType
  <2>4. mem' \in [Buffers -> Memory]
    BY <1>1, <2>1, <2>3, StoreType DEF ProcessBlock
  <2>5. TypeOK'
    BY <1>1, <2>1, <2>3, <2>4 DEF ProcessBlock, TypeOK
  <2>6. CallShape'
    BY <1>1, <2>1 DEF ProcessBlock, CallShape, TypeOK, NeedsTemporary, Padded
  <2>7. QED
    BY <2>5, <2>6
<1>2. ASSUME NEW st \in Status, Return(st), UNCHANGED <<box, mem, calls, entry>>,
             heap' \subseteq heap, size' \in 0 .. SizeMod - 1
      PROVE  Inductive'
  <2>1. TypeOK'
    BY <1>2 DEF Return, TypeOK, Step
  <2>2. CallShape'
    BY <1>2 DEF Return, CallShape, TypeOK, NeedsTemporary, Padded
  <2>3. QED
    BY <2>1, <2>2
<1>3. CASE NothingLeft
  BY <1>2, <1>3 DEF NothingLeft, Status, TypeOK
<1>4. CASE MallocFirst \/ MallocSecond
  <2>1. First(call.op) \in Temporary /\ Second(call.op) \in Temporary
    BY DEF First, Second, Temporary
  <2>2. TypeOK'
    BY <1>4, <2>1 DEF MallocFirst, MallocSecond, TypeOK, Step
  <2>3. CallShape'
    BY <1>4 DEF MallocFirst, MallocSecond, LoopDone, CallShape, TypeOK,
                NeedsTemporary, Padded
  <2>4. QED
    BY <2>2, <2>3
<1>5. CASE MallocFirstFails
  BY <1>2, <1>5 DEF MallocFirstFails, Status, TypeOK
<1>6. CASE MallocSecondFails
  <2>1. TypeOK'
    BY <1>6 DEF MallocSecondFails, TypeOK, Step, Status
  <2>2. CallShape'
    BY <1>6 DEF MallocSecondFails, CallShape, TypeOK, NeedsTemporary, Padded
  <2>3. QED
    BY <2>1, <2>2
<1>7. ASSUME EncryptPaddedBlock
      PROVE  Inductive'
  <2> DEFINE n == call.full + 1
  <2>1. /\ n \in 1 .. Cells /\ call.src \in Buffers /\ call.dest \in Buffers
        /\ call.rest \in 0 .. BlockSize - 1 /\ call.op = "encrypt"
    BY <1>7, CallTypes DEF EncryptPaddedBlock, CallShape, EncryptionFits,
                           NeedsTemporary, Padded
  <2>2. FillWithPadding(mem[call.src][n], call.rest) \in Block
    BY <2>1, CutBlocksType, CallTypes
  <2> DEFINE r == Crypt("encrypt", FillWithPadding(mem[call.src][n], call.rest))
  <2>3. r.output \in Block /\ r.iv \in Block
    BY <2>2, CryptResultType
  <2>4. mem' \in [Buffers -> Memory]
    BY <1>7, <2>1, <2>3, StoreType DEF EncryptPaddedBlock
  <2>5. TypeOK'
    <3>1. box' \in [mode : Mode, key : Key, iv : Block]
      BY <1>7, <2>3 DEF EncryptPaddedBlock, TypeOK
    <3>2. call' = [call EXCEPT !.step = "free_first", !.done = n]
      BY <1>7 DEF EncryptPaddedBlock
    <3>3. n \in 0 .. Cells
      BY <2>1, CallTypes
    <3>4. UNCHANGED <<heap, size, status, calls, entry>>
      BY <1>7 DEF EncryptPaddedBlock
    <3>5. QED
      BY <2>4, <3>1, <3>2, <3>3, <3>4 DEF TypeOK, Step
  <2>6. CallShape'
    BY <1>7, <2>1 DEF EncryptPaddedBlock, CallShape, TypeOK, NeedsTemporary, Padded
  <2>7. QED
    BY <2>5, <2>6
<1>8. ASSUME ProcessPartialBlock
      PROVE  Inductive'
  <2> DEFINE n == call.full + 1
  <2>1. /\ n \in 1 .. Cells /\ call.src \in Buffers /\ call.dest \in Buffers
        /\ call.rest \in 0 .. BlockSize - 1 /\ call.rest # 0
    BY <1>8, CallTypes DEF ProcessPartialBlock, CallShape, EncryptionFits,
                           DecryptionFits, NeedsTemporary, Padded
  <2>2. mem[call.src][n] \in Block /\ mem[call.dest][n] \in Block
    BY <2>1, CallTypes
  <2>3. ZeroExtended(mem[call.src][n], call.rest) \in Block
    BY <2>1, <2>2, CutBlocksType
  <2> DEFINE r == Crypt(call.op, ZeroExtended(mem[call.src][n], call.rest))
  <2>4. r.output \in Block /\ r.iv \in Block
    BY <2>3, CryptResultType
  <2>5. Overwritten(mem[call.dest][n], r.output, call.rest) \in Block
    BY <2>1, <2>2, <2>4, CutBlocksType
  <2>6. Store(n, Overwritten(mem[call.dest][n], r.output, call.rest))
    BY <1>8 DEF ProcessPartialBlock
  <2>7. mem' \in [Buffers -> Memory]
    BY <2>1, <2>5, <2>6, StoreType
  <2>8. TypeOK'
    BY <1>8, <2>1, <2>4, <2>7 DEF ProcessPartialBlock, TypeOK, Step
  <2>9. CallShape'
    BY <1>8, <2>1 DEF ProcessPartialBlock, CallShape, TypeOK, NeedsTemporary, Padded
  <2>10. QED
    BY <2>8, <2>9
<1>9. CASE FreeSecond
  <2>1. TypeOK'
    BY <1>9 DEF FreeSecond, TypeOK, Step
  <2>2. CallShape'
    BY <1>9 DEF FreeSecond, CallShape, TypeOK, NeedsTemporary, Padded
  <2>3. QED
    BY <2>1, <2>2
<1>10. CASE FreeFirst
  BY <1>2, <1>10 DEF FreeFirst, Status, TypeOK
<1>11. CASE RemovePadding
  <2>1. call.full \in 1 .. Cells /\ call.dest \in Buffers
    BY <1>11 DEF RemovePadding, CallShape, LacksPadding, Padded, TypeOK
  <2>2. mem[call.dest][call.full] \in Block
    BY <2>1 DEF TypeOK, Memory
  <2>3. ClaimedPadding(mem[call.dest], call.full) \in Int
    BY <2>2, BlockSizeAssumption DEF ClaimedPadding, Block, Byte
  <2>4. size - ClaimedPadding(mem[call.dest], call.full) \in Int
    BY <2>3 DEF TypeOK
  <2>5. size' \in 0 .. SizeMod - 1
    BY <1>11, <2>4, ModRange DEF RemovePadding
  <2>6. QED
    BY <1>2, <1>11, <2>5 DEF RemovePadding, Status
<1>12. CASE RejectPadding
  BY <1>2, <1>12 DEF RejectPadding, Status, TypeOK
<1>13. QED
  BY <1>1, <1>3, <1>4, <1>5, <1>6, <1>7, <1>8, <1>9, <1>10, <1>11, <1>12 DEF Progress

(* Every state of a box is well typed, and a call in progress finds where   *)
(* it stands the memory and the blocks it goes on to use.                   *)
THEOREM BoxIsWellFormed == Spec => []Inductive
<1>1. Inductive /\ [Next]_vars => Inductive'
  <2> SUFFICES ASSUME Inductive, [Next]_vars PROVE Inductive'
    OBVIOUS
  <2>1. CASE Progress
    BY <2>1, ProgressKeepsInductive
  <2>2. CASE Caller
    BY <2>2, CallerKeepsInductive
  <2>3. CASE UNCHANGED vars
    BY <2>3 DEF vars, Inductive, TypeOK, CallShape, Padded, NeedsTemporary
  <2>4. QED
    BY <2>1, <2>2, <2>3 DEF Next
<1>2. QED
  BY InductiveInit, <1>1, PTL DEF Spec

-----------------------------------------------------------------------------
(***************************************************************************)
(* The temporaries.                                                        *)
(***************************************************************************)
(* What every step of the caller has in common: no call is in progress, and *)
(* either none begins or one begins at the top of its loop.                 *)
LEMMA CallerEffect ==
  ASSUME Caller, call.dest \in Buffers
  PROVE  /\ call.step = "idle"
         /\ heap' = heap
         /\ \/ \E b \in Buffers : call' = NoCall(b)
            \/ \E op \in {"encrypt", "decrypt"}, src, dest \in Buffers,
                  full \in 0 .. Cells, rest \in 0 .. BlockSize - 1 :
                 Enter(op, src, dest, full, rest)
<1>1. CASE \E b \in Buffers, cells \in Contents : FillBuffer(b, cells)
  BY <1>1 DEF FillBuffer
<1>2. CASE \E mode \in Mode, key \in Key, iv \in InitVectors \cup {box.iv} :
             InitBox(mode, key, iv)
  BY <1>2 DEF InitBox, Called
<1>3. CASE RefuseNull
  BY <1>3 DEF RefuseNull, Called
<1>4. ASSUME NEW full \in 0 .. Cells, NEW rest \in 0 .. BlockSize - 1,
             \/ QueryEncryptedSize(full, rest)
             \/ QueryDecryptedSize(full, rest)
             \/ RefuseMissingPadding(full, rest)
             \/ \E op \in {"encrypt", "decrypt"} : RefuseNullSource(op, full, rest)
      PROVE  call.step = "idle" /\ heap' = heap /\ call' = NoCall(call.dest)
  BY <1>4 DEF QueryEncryptedSize, QueryDecryptedSize, RefuseMissingPadding,
              RefuseNullSource, Called
<1>5. ASSUME NEW full \in 0 .. Cells, NEW rest \in 0 .. BlockSize - 1,
             NEW src \in Buffers, NEW dest \in Buffers,
             \/ BeginEncrypt(src, dest, full, rest)
             \/ BeginDecrypt(src, dest, full, rest)
      PROVE  /\ call.step = "idle" /\ heap' = heap
             /\ \E op \in {"encrypt", "decrypt"} : Enter(op, src, dest, full, rest)
  BY <1>5 DEF BeginEncrypt, BeginDecrypt, Enter, Called
<1>6. QED
  BY <1>1, <1>2, <1>3, <1>4, <1>5 DEF Caller

LEMMA HeapStep ==
  ASSUME Inductive, HeapMatchesStep, [Next]_vars
  PROVE  HeapMatchesStep'
<1> USE DEF HeapMatchesStep, Padded
<1>1. /\ First(call.op) \in Temporary /\ Second(call.op) \in Temporary
      /\ First(call.op) # Second(call.op)
      /\ Temporary = {First(call.op), Second(call.op)}
  BY DEF First, Second, Temporary
<1>2. call \in [op : {"none", "encrypt", "decrypt"}, step : Step,
                src : Buffers, dest : Buffers,
                full : 0 .. Cells, rest : 0 .. BlockSize - 1,
                done : 0 .. Cells, cut : BOOLEAN, status : Status]
  BY DEF Inductive, TypeOK
<1>3. CASE Caller
  <2>1. heap' = {} /\ call'.step \in {"idle", "loop"}
    BY <1>2, <1>3, CallerEffect DEF NoCall, Enter
  <2>2. QED
    BY <2>1
<1>4. CASE ProcessBlock \/ NothingLeft \/ MallocFirstFails \/ RemovePadding \/ RejectPadding
  <2>1. heap = {} /\ heap' = heap /\ call'.step \in {"idle", "loop"}
    BY <1>2, <1>4 DEF ProcessBlock, NothingLeft, MallocFirstFails, RemovePadding,
                RejectPadding, LoopDone, Return
  <2>2. QED
    BY <2>1
<1>5. CASE MallocFirst
  <2>1. /\ heap' = {First(call.op)} /\ call'.op = call.op /\ box' = box
        /\ call'.step = IF Padded THEN "last" ELSE "second_malloc"
    BY <1>2, <1>5 DEF MallocFirst, LoopDone
  <2>2. QED
    BY <2>1 DEF First
<1>6. CASE MallocSecond
  <2>1. /\ heap' = Temporary /\ call'.op = call.op /\ box' = box
        /\ call'.step = "last" /\ ~ Padded
    BY <1>1, <1>2, <1>6 DEF MallocSecond, Inductive, CallShape
  <2>2. QED
    BY <2>1
<1>7. CASE MallocSecondFails
  BY <1>2, <1>7 DEF MallocSecondFails, First
<1>8. CASE EncryptPaddedBlock
  BY <1>2, <1>8 DEF EncryptPaddedBlock, First
<1>9. CASE ProcessPartialBlock
  BY <1>2, <1>9 DEF ProcessPartialBlock
<1>10. CASE FreeSecond
  <2>1. /\ heap' = {First(call.op)} /\ call'.op = call.op
        /\ call'.step = "free_first"
    BY <1>1, <1>2, <1>10 DEF FreeSecond
  <2>2. QED
    BY <2>1 DEF First
<1>11. CASE FreeFirst
  BY <1>2, <1>11 DEF FreeFirst, Return
<1>12. CASE UNCHANGED vars
  BY <1>12 DEF vars, First
<1>13. QED
  BY <1>3, <1>4, <1>5, <1>6, <1>7, <1>8, <1>9, <1>10, <1>11, <1>12 DEF Next, Progress

(* No path through the cleanup labels leaks a temporary or frees one twice. *)
THEOREM TemporariesAreFreed == Spec => []HeapMatchesStep
<1>1. Init => HeapMatchesStep
  BY DEF Init, HeapMatchesStep, NoCall
<1>2. QED
  BY BoxIsWellFormed, HeapStep, <1>1, PTL DEF Spec

-----------------------------------------------------------------------------
(***************************************************************************)
(* The blocks and the chaining value.                                      *)
(***************************************************************************)
Follows == /\ OnlyOutputIsWritten
           /\ BlocksFollowMode
           /\ IvIsChained
           /\ PartialBlockFollowsMode

(* What the processing of a call is about, and its plain and cipher blocks. *)
LEMMA StreamTypes ==
  ASSUME Inductive
  PROVE  /\ Input \in [1 .. Cells -> Block] /\ Output \in [1 .. Cells -> Block]
         /\ Plaintext \in [1 .. Cells -> Block]
         /\ Ciphertext \in [1 .. Cells -> Block]
         /\ box.mode \in Mode /\ box.key \in Key /\ box.iv \in Block
         /\ entry.iv \in Block /\ entry.mem \in [Buffers -> Memory]
         /\ Cells \in Nat
<1>1. /\ \A b \in Buffers : \A n \in 1 .. Cells : entry.mem[b][n] \in Block
      /\ entry.mem \in [Buffers -> Memory]
  BY DEF Inductive, TypeOK, Memory
<1>2. call.src \in Buffers /\ call.dest \in Buffers /\ call.rest \in 0 .. BlockSize - 1
  BY CallTypes DEF Inductive
<1>3. \A n \in 1 .. Cells : FillWithPadding(entry.mem[call.src][n], call.rest) \in Block
  BY <1>1, <1>2, CutBlocksType
<1>4. Input \in [1 .. Cells -> Block]
  BY <1>1, <1>2, <1>3 DEF Input
<1>5. Output \in [1 .. Cells -> Block]
  BY <1>2, CallTypes DEF Inductive, Output, Memory
<1>6. QED
  BY <1>1, <1>4, <1>5, SizesAssumption DEF Plaintext, Ciphertext, Inductive, TypeOK

(* A step that touches neither the memory, the box nor what the call is     *)
(* about leaves these invariants as they are.                               *)
LEMMA FollowsUnchanged ==
  ASSUME Follows,
         UNCHANGED <<box, mem, entry, call.op, call.src, call.dest, call.full,
                     call.rest, call.done, call.cut>>
  PROVE  Follows'
<1>1. Input' = Input /\ Output' = Output
  BY DEF Input, Output, Padded
<1>2. Plaintext' = Plaintext /\ Ciphertext' = Ciphertext
  BY <1>1 DEF Plaintext, Ciphertext
<1>3. OnlyOutputIsWritten'
  BY <1>1 DEF Follows, OnlyOutputIsWritten
<1>4. BlocksFollowMode'
  BY <1>2 DEF Follows, BlocksFollowMode
<1>5. IvIsChained'
  BY <1>2 DEF Follows, IvIsChained, ChainedAfter
<1>6. PartialBlockFollowsMode'
  BY <1>1, <1>2 DEF Follows, PartialBlockFollowsMode, ChainedAfter
<1>7. QED
  BY <1>3, <1>4, <1>5, <1>6 DEF Follows

(* No call, or one that has just begun.                                     *)
LEMMA FollowsFresh ==
  ASSUME Inductive, Caller
  PROVE  Follows'
<1>1. call.dest \in Buffers
  BY CallTypes DEF Inductive
<1>2. ASSUME NEW b \in Buffers, call' = NoCall(b)
      PROVE  Follows'
  BY <1>2 DEF NoCall, Follows, OnlyOutputIsWritten, BlocksFollowMode, IvIsChained,
              PartialBlockFollowsMode
<1>3. ASSUME NEW op \in {"encrypt", "decrypt"}, NEW src \in Buffers, NEW dest \in Buffers,
             NEW full \in 0 .. Cells, NEW rest \in 0 .. BlockSize - 1,
             Enter(op, src, dest, full, rest)
      PROVE  Follows'
  <2>1. /\ call'.done = 0 /\ call'.cut = FALSE /\ call'.dest = dest
        /\ entry'.mem = mem /\ entry'.iv = box.iv /\ mem' = mem /\ box' = box
    BY <1>3 DEF Enter
  <2>2. OnlyOutputIsWritten'
    BY <2>1 DEF OnlyOutputIsWritten, Output
  <2>3. BlocksFollowMode'
    BY <2>1 DEF BlocksFollowMode
  <2>4. IvIsChained'
    BY <2>1 DEF IvIsChained, ChainedAfter, Chained
  <2>5. PartialBlockFollowsMode'
    BY <2>1 DEF PartialBlockFollowsMode
  <2>6. QED
    BY <2>2, <2>3, <2>4, <2>5 DEF Follows
<1>4. QED
  BY <1>1, <1>2, <1>3, CallerEffect

(* The memory at a place that has not been written yet is what it was when  *)
(* the call began, in whichever of the caller's buffers.                    *)
LEMMA UnreadIsOriginal ==
  ASSUME Inductive, OnlyOutputIsWritten, call.op # "none", ~ call.cut,
         NEW b \in Buffers, NEW n \in 1 .. Cells, n > call.done
  PROVE  mem[b][n] = entry.mem[b][n]
<1>1. CASE b = call.dest
  BY <1>1 DEF OnlyOutputIsWritten, Output
<1>2. CASE b # call.dest
  BY <1>2 DEF OnlyOutputIsWritten
<1>3. QED
  BY <1>1, <1>2

(* A block of the input goes through the box into the same block of dest.   *)
LEMMA FollowsBlock ==
  ASSUME Inductive, Inductive', Follows, ~ call.cut, call.op \in {"encrypt", "decrypt"},
         NEW n \in 1 .. Cells, n = call.done + 1,
         Store(n, Crypt(call.op, Input[n]).output),
         box' = [box EXCEPT !.iv = Crypt(call.op, Input[n]).iv],
         UNCHANGED <<entry, call.op, call.src, call.dest, call.full, call.rest>>,
         call'.done = n, ~ call'.cut
  PROVE  Follows'
<1> DEFINE r == Crypt(call.op, Input[n])
<1>1. /\ call.dest \in Buffers /\ call.done \in Nat /\ mem \in [Buffers -> Memory]
      /\ Cells \in Nat
  BY CallTypes, SizesAssumption DEF Inductive, TypeOK
<1>2. /\ \A b \in Buffers \ {call.dest} : mem'[b] = mem[b]
      /\ \A k \in 1 .. Cells : k # n => Output'[k] = Output[k]
      /\ Output'[n] = r.output
  BY <1>1 DEF Store, Output, Memory
<1>3. /\ box'.mode = box.mode /\ box'.key = box.key /\ box'.iv = r.iv
      /\ entry'.iv = entry.iv
  BY DEF Inductive, TypeOK
<1>4. Input' = Input
  <2>1. Padded' <=> Padded
    BY <1>3 DEF Padded
  <2>2. /\ call'.src = call.src /\ call'.full = call.full /\ call'.rest = call.rest
        /\ entry' = entry
    OBVIOUS
  <2>3. QED
    BY <2>1, <2>2 DEF Input
<1>5. \A k \in 1 .. call.done : Plaintext'[k] = Plaintext[k] /\ Ciphertext'[k] = Ciphertext[k]
  <2>1. \A k \in 1 .. call.done : k \in 1 .. Cells /\ k # n
    BY <1>1
  <2>2. \A k \in 1 .. call.done : Output'[k] = Output[k]
    BY <1>2, <2>1
  <2>3. call'.op = call.op
    OBVIOUS
  <2>4. QED
    BY <1>4, <2>2, <2>3 DEF Plaintext, Ciphertext
<1>6. box.iv = Chained(box.mode, box.key, entry.iv, Plaintext, Ciphertext, call.done)
  BY DEF Follows, IvIsChained, ChainedAfter
<1>7. /\ Chained(box.mode, box.key, entry.iv, Plaintext', Ciphertext', call.done) = box.iv
      /\ \A k \in 1 .. call.done :
           Encrypts(box.mode, box.key, entry.iv, Plaintext', Ciphertext', k)
  <2>1. \A k \in 1 .. call.done :
          Encrypts(box.mode, box.key, entry.iv, Plaintext, Ciphertext, k)
    BY DEF Follows, BlocksFollowMode
  <2>2. box.mode \in Mode /\ call.done \in 0 .. call.done
    BY <1>1, StreamTypes
  <2>3. /\ \A k \in 0 .. call.done :
             Chained(box.mode, box.key, entry.iv, Plaintext', Ciphertext', k)
               = Chained(box.mode, box.key, entry.iv, Plaintext, Ciphertext, k)
        /\ \A k \in 1 .. call.done :
             Encrypts(box.mode, box.key, entry.iv, Plaintext', Ciphertext', k)
               <=> Encrypts(box.mode, box.key, entry.iv, Plaintext, Ciphertext, k)
    BY ONLY <1>1, <1>5, <2>2, EarlierBlocksDecide
  <2>4. QED
    BY <1>6, <2>1, <2>2, <2>3
<1>8. /\ Plaintext' \in [1 .. Cells -> Block] /\ Ciphertext' \in [1 .. Cells -> Block]
      /\ box.mode \in Mode /\ box.key \in Key /\ box.iv \in Block /\ entry.iv \in Block
      /\ Cells \in Nat
  <2>1. Output' \in [1 .. Cells -> Block] /\ Input' \in [1 .. Cells -> Block]
    <3>1. mem' \in [Buffers -> Memory] /\ call'.dest = call.dest
      BY DEF Inductive, TypeOK
    <3>2. QED
      BY <1>1, <1>4, <3>1, StreamTypes DEF Output, Memory
  <2>2. QED
    BY <2>1, StreamTypes DEF Plaintext, Ciphertext
<1>9. /\ Encrypts(box.mode, box.key, entry.iv, Plaintext', Ciphertext', n)
      /\ r.iv = Chained(box.mode, box.key, entry.iv, Plaintext', Ciphertext', n)
  <2>1. n - 1 = call.done
    BY <1>1
  <2>2. CASE call.op = "encrypt"
    <3>1. Plaintext'[n] = Input[n] /\ Ciphertext'[n] = r.output
      BY <1>2, <1>4, <2>2 DEF Plaintext, Ciphertext
    <3>2. r = EncryptBlock(box.mode, box.key, box.iv, Plaintext'[n])
      BY <2>2, <3>1 DEF Crypt
    <3>3. QED
      BY <1>7, <1>8, <2>1, <3>1, <3>2, EncryptStep
  <2>3. CASE call.op = "decrypt"
    <3>1. Ciphertext'[n] = Input[n] /\ Plaintext'[n] = r.output
      BY <1>2, <1>4, <2>3 DEF Plaintext, Ciphertext
    <3>2. r = DecryptBlock(box.mode, box.key, box.iv, Ciphertext'[n])
      BY <2>3, <3>1 DEF Crypt
    <3>3. QED
      BY <1>7, <1>8, <2>1, <3>1, <3>2, DecryptStep
  <2>4. QED
    BY <2>2, <2>3
<1>10. BlocksFollowMode'
  <2>1. \A k \in 1 .. n : Encrypts(box.mode, box.key, entry.iv, Plaintext', Ciphertext', k)
    BY <1>1, <1>7, <1>9
  <2>2. QED
    BY <1>3, <2>1 DEF BlocksFollowMode
<1>11. IvIsChained'
  BY <1>3, <1>9 DEF IvIsChained, ChainedAfter
<1>12. OnlyOutputIsWritten'
  <2>1. \A b \in Buffers \ {call.dest} : mem'[b] = entry.mem[b]
    BY <1>2 DEF Follows, OnlyOutputIsWritten
  <2>2. \A k \in 1 .. Cells : k > n => Output'[k] = entry.mem[call.dest][k]
    BY <1>1, <1>2 DEF Follows, OnlyOutputIsWritten
  <2>3. QED
    BY <2>1, <2>2 DEF OnlyOutputIsWritten
<1>13. PartialBlockFollowsMode'
  BY DEF PartialBlockFollowsMode
<1>14. QED
  BY <1>10, <1>11, <1>12, <1>13 DEF Follows

(* The bytes of a partial block do not depend on what the block was         *)
(* extended with.                                                           *)
LEMMA PartialXor ==
  ASSUME NEW a \in Block, NEW stream \in Block, NEW input \in Block,
         NEW rest \in 0 .. BlockSize - 1
  PROVE  Overwritten(a, XorBlocks(stream, ZeroExtended(input, rest)), rest)
           = Overwritten(a, XorBlocks(stream, input), rest)
  BY DEF Overwritten, XorBlocks, ZeroExtended

(* One block in a mode that takes partial blocks: the key stream is applied *)
(* to it, and the iv moves on.                                              *)
LEMMA StreamCrypt ==
  ASSUME NEW op \in {"encrypt", "decrypt"}, NEW input, box.mode \in Mode, ~ Padded
  PROVE  /\ Crypt(op, input).output = XorBlocks(Enc(box.key, box.iv), input)
         /\ Crypt(op, input).iv = IvAfterPartial(box.mode, box.key, box.iv, op, input)
<1>1. box.mode \in {"CFB", "OFB", "CTR"}
  BY DEF Mode, Padded, PaddedMode
<1>2. CASE op = "encrypt"
  BY <1>1, <1>2 DEF Crypt, EncryptBlock, EncryptBlockCfb, EncryptBlockOfb,
                    EncryptBlockCtr, IvAfterPartial
<1>3. CASE op = "decrypt"
  BY <1>1, <1>3 DEF Crypt, DecryptBlock, DecryptBlockCfb, EncryptBlockOfb,
                    EncryptBlockCtr, IvAfterPartial
<1>4. QED
  BY <1>2, <1>3

LEMMA FollowsPartial ==
  ASSUME Inductive, Follows, ProcessPartialBlock
  PROVE  Follows'
<1> DEFINE n == call.full + 1
           input == ZeroExtended(mem[call.src][n], call.rest)
           r == Crypt(call.op, input)
<1>1. /\ call.step = "last" /\ ~ Padded /\ ~ call.cut /\ call.done = call.full
      /\ call.op \in {"encrypt", "decrypt"} /\ call.rest # 0
      /\ call.rest \in 0 .. BlockSize - 1 /\ call.full \in Nat /\ Cells \in Nat
      /\ call.src \in Buffers /\ call.dest \in Buffers /\ n \in 1 .. Cells
  BY CallTypes DEF ProcessPartialBlock, Inductive, CallShape, NeedsTemporary, Padded,
                   EncryptionFits, DecryptionFits
<1>2. /\ Store(n, Overwritten(mem[call.dest][n], r.output, call.rest))
      /\ box' = [box EXCEPT !.iv = r.iv]
      /\ call' = [call EXCEPT !.step = "free_second", !.cut = TRUE]
      /\ entry' = entry
  BY DEF ProcessPartialBlock
<1>3. /\ box'.mode = box.mode /\ box'.key = box.key /\ box'.iv = r.iv
      /\ call'.op = call.op /\ call'.src = call.src /\ call'.dest = call.dest
      /\ call'.full = call.full /\ call'.rest = call.rest
      /\ call'.done = call.done /\ call'.cut = TRUE
  BY <1>2 DEF Inductive, TypeOK
<1>4. /\ \A b \in Buffers \ {call.dest} : mem'[b] = mem[b]
      /\ \A k \in 1 .. Cells : k # n => Output'[k] = Output[k]
      /\ Output'[n] = Overwritten(mem[call.dest][n], r.output, call.rest)
  <2>1. mem \in [Buffers -> Memory]
    BY DEF Inductive, TypeOK
  <2>2. QED
    BY <1>1, <1>2, <1>3, <2>1 DEF Store, Output, Memory
<1>5. Input' = Input
  <2>1. Padded' <=> Padded
    BY <1>3 DEF Padded
  <2>2. QED
    BY <1>2, <1>3, <2>1 DEF Input
<1>6. \A k \in 1 .. call.full : Plaintext'[k] = Plaintext[k] /\ Ciphertext'[k] = Ciphertext[k]
  <2>1. \A k \in 1 .. call.full : k \in 1 .. Cells /\ k # n
    BY <1>1
  <2>2. \A k \in 1 .. call.full : Output'[k] = Output[k]
    BY <1>4, <2>1
  <2>3. QED
    BY <1>3, <1>5, <2>2 DEF Plaintext, Ciphertext
<1>7. box.mode \in Mode /\ box.key \in Key /\ box.iv \in Block /\ call.full \in 0 .. call.full
  BY <1>1, StreamTypes
<1>8. /\ \A k \in 0 .. call.full :
           Chained(box.mode, box.key, entry.iv, Plaintext', Ciphertext', k)
             = Chained(box.mode, box.key, entry.iv, Plaintext, Ciphertext, k)
      /\ \A k \in 1 .. call.full :
           Encrypts(box.mode, box.key, entry.iv, Plaintext', Ciphertext', k)
             <=> Encrypts(box.mode, box.key, entry.iv, Plaintext, Ciphertext, k)
  BY ONLY <1>1, <1>6, <1>7, EarlierBlocksDecide
<1>9. BlocksFollowMode'
  BY <1>1, <1>2, <1>3, <1>8 DEF Follows, BlocksFollowMode
<1>10. IvIsChained'
  BY <1>3 DEF IvIsChained
<1>11. OnlyOutputIsWritten'
  <2>1. \A b \in Buffers \ {call.dest} : mem'[b] = entry.mem[b]
    BY <1>1, <1>4 DEF Follows, OnlyOutputIsWritten
  <2>2. \A k \in 1 .. Cells : (k > call.done /\ k # n) => Output'[k] = entry.mem[call.dest][k]
    BY <1>1, <1>4 DEF Follows, OnlyOutputIsWritten
  <2>3. QED
    BY <1>2, <1>3, <2>1, <2>2 DEF OnlyOutputIsWritten
<1>12. PartialBlockFollowsMode'
  <2>1. box.iv = ChainedAfter(call.full)
    BY <1>1 DEF Follows, IvIsChained
  <2>2. ChainedAfter(call.full)' = ChainedAfter(call.full)
    BY <1>2, <1>3, <1>7, <1>8 DEF ChainedAfter
  <2>3. /\ mem[call.src][n] = entry.mem[call.src][n]
        /\ mem[call.dest][n] = entry.mem[call.dest][n]
    BY <1>1, UnreadIsOriginal DEF Follows
  <2>4. /\ r.output = XorBlocks(Enc(box.key, box.iv), input)
        /\ r.iv = IvAfterPartial(box.mode, box.key, box.iv, call.op, input)
    BY <1>1, <1>7, StreamCrypt
  <2>5. Output'[n] = Overwritten(entry.mem[call.dest][n],
                        XorBlocks(Enc(box.key, box.iv), entry.mem[call.src][n]), call.rest)
    <3>1. /\ mem[call.dest][n] \in Block /\ mem[call.src][n] \in Block
          /\ Enc(box.key, box.iv) \in Block
      BY <1>1, <1>7, CallTypes, CipherAssumption DEF Inductive
    <3>2. QED
      BY <1>1, <1>4, <2>3, <2>4, <3>1, PartialXor
  <2>6. QED
    BY <1>2, <1>3, <2>1, <2>2, <2>3, <2>4, <2>5 DEF PartialBlockFollowsMode
<1>13. QED
  BY <1>9, <1>10, <1>11, <1>12 DEF Follows

LEMMA FollowsStep ==
  ASSUME Inductive, Inductive', Follows, [Next]_vars
  PROVE  Follows'
<1>1. CASE Caller
  BY <1>1, FollowsFresh
<1>2. CASE ProcessBlock
  <2> DEFINE n == call.done + 1
  <2>1. /\ n \in 1 .. Cells /\ n <= call.full /\ ~ call.cut /\ n > call.done
        /\ call.op \in {"encrypt", "decrypt"} /\ call.src \in Buffers
    BY <1>2, CallTypes DEF ProcessBlock, Inductive, CallShape
  <2>2. mem[call.src][n] = Input[n]
    <3>1. mem[call.src][n] = entry.mem[call.src][n]
      BY <2>1, UnreadIsOriginal DEF Follows
    <3>2. n # call.full + 1
      BY <2>1, CallTypes DEF Inductive
    <3>3. QED
      BY <2>1, <3>1, <3>2 DEF Input
  <2>3. /\ Store(n, Crypt(call.op, Input[n]).output)
        /\ box' = [box EXCEPT !.iv = Crypt(call.op, Input[n]).iv]
        /\ call' = [call EXCEPT !.done = n] /\ entry' = entry
    BY <1>2, <2>2 DEF ProcessBlock
  <2>4. /\ UNCHANGED <<entry, call.op, call.src, call.dest, call.full, call.rest>>
        /\ call'.done = n /\ ~ call'.cut
    BY <2>1, <2>3 DEF Inductive, TypeOK
  <2>5. QED
    BY <2>1, <2>3, <2>4, FollowsBlock
<1>3. CASE EncryptPaddedBlock
  <2> DEFINE n == call.full + 1
  <2>1. /\ n \in 1 .. Cells /\ ~ call.cut /\ n > call.done /\ n = call.done + 1
        /\ call.op = "encrypt" /\ call.src \in Buffers /\ Padded
    BY <1>3, CallTypes DEF EncryptPaddedBlock, Inductive, CallShape, NeedsTemporary,
                           EncryptionFits, Padded
  <2>2. FillWithPadding(mem[call.src][n], call.rest) = Input[n]
    <3>1. mem[call.src][n] = entry.mem[call.src][n]
      BY <2>1, UnreadIsOriginal DEF Follows
    <3>2. QED
      BY <2>1, <3>1 DEF Input
  <2>3. /\ Store(n, Crypt(call.op, Input[n]).output)
        /\ box' = [box EXCEPT !.iv = Crypt(call.op, Input[n]).iv]
        /\ call' = [call EXCEPT !.step = "free_first", !.done = n] /\ entry' = entry
    BY <1>3, <2>1, <2>2 DEF EncryptPaddedBlock
  <2>4. /\ UNCHANGED <<entry, call.op, call.src, call.dest, call.full, call.rest>>
        /\ call'.done = n /\ ~ call'.cut
    BY <2>1, <2>3 DEF Inductive, TypeOK
  <2>5. QED
    BY <2>1, <2>3, <2>4, FollowsBlock
<1>4. CASE ProcessPartialBlock
  BY <1>4, FollowsPartial
<1>5. CASE \/ NothingLeft \/ MallocFirst \/ MallocFirstFails \/ MallocSecond
           \/ MallocSecondFails \/ FreeSecond \/ FreeFirst \/ RemovePadding
           \/ RejectPadding \/ UNCHANGED vars
  <2>1. UNCHANGED <<box, mem, entry, call.op, call.src, call.dest, call.full,
                    call.rest, call.done, call.cut>>
    <3>1. call \in [op : {"none", "encrypt", "decrypt"}, step : Step,
                    src : Buffers, dest : Buffers,
                    full : 0 .. Cells, rest : 0 .. BlockSize - 1,
                    done : 0 .. Cells, cut : BOOLEAN, status : Status]
      BY DEF Inductive, TypeOK
    <3>2. \A st : Return(st) =>
            UNCHANGED <<call.op, call.src, call.dest, call.full, call.rest,
                        call.done, call.cut>>
      BY <3>1 DEF Return
    <3>3. CASE NothingLeft \/ MallocFirstFails \/ FreeFirst \/ RemovePadding \/ RejectPadding
      BY <3>2, <3>3 DEF NothingLeft, MallocFirstFails, FreeFirst, RemovePadding,
                        RejectPadding
    <3>4. CASE MallocFirst \/ MallocSecond \/ MallocSecondFails \/ FreeSecond
      BY <3>1, <3>4 DEF MallocFirst, MallocSecond, MallocSecondFails, FreeSecond
    <3>5. CASE UNCHANGED vars
      BY <3>5 DEF vars
    <3>6. QED
      BY <1>5, <3>3, <3>4, <3>5
  <2>2. QED
    BY <2>1, FollowsUnchanged
<1>6. QED
  BY <1>1, <1>2, <1>3, <1>4, <1>5 DEF Next, Progress

LEMMA FollowsAlways == Spec => []Follows
<1>1. Init => Follows
  BY DEF Init, NoCall, Follows, OnlyOutputIsWritten, BlocksFollowMode, IvIsChained,
         PartialBlockFollowsMode
<1>2. QED
  BY BoxIsWellFormed, FollowsStep, <1>1, PTL DEF Spec

(* The blocks written so far are the input under the mode of operation, for *)
(* separate buffers and in place, in the middle of a call and after any     *)
(* return.                                                                  *)
THEOREM BlocksAreRight == Spec => []BlocksFollowMode
  BY FollowsAlways, PTL DEF Follows

(* The chaining value never gets ahead of the blocks or falls behind them.  *)
THEOREM IvIsRight == Spec => []IvIsChained
  BY FollowsAlways, PTL DEF Follows

(* A partial block is the input under the key stream, and moves the iv.     *)
THEOREM PartialBlocksAreRight == Spec => []PartialBlockFollowsMode
  BY FollowsAlways, PTL DEF Follows

(* A call writes the blocks it has processed, and no other memory.          *)
THEOREM WritesStayInOutput == Spec => []OnlyOutputIsWritten
  BY FollowsAlways, PTL DEF Follows

-----------------------------------------------------------------------------
(***************************************************************************)
(* What a call returns, and the size it announced.                         *)
(***************************************************************************)
(* While a call runs, *dest_size holds what was announced when it began;     *)
(* this is what makes SizeMatchesOutput inductive.                          *)
SizeIsAnnounced ==
  call.step # "idle" =>
    size = IF call.op = "encrypt"
           THEN EncryptedSize(box.mode, call.full, call.rest)
           ELSE InBytes(call.full, call.rest)

Returns == StatusTellsProgress /\ SizeIsAnnounced

LEMMA ReturnsStep ==
  ASSUME Inductive, Returns, [Next]_vars
  PROVE  Returns'
<1> USE DEF Returns
<1>1. /\ call \in [op : {"none", "encrypt", "decrypt"}, step : Step,
                   src : Buffers, dest : Buffers,
                   full : 0 .. Cells, rest : 0 .. BlockSize - 1,
                   done : 0 .. Cells, cut : BOOLEAN, status : Status]
      /\ box \in [mode : Mode, key : Key, iv : Block]
  BY DEF Inductive, TypeOK
<1>2. ASSUME NEW b \in Buffers, call' = NoCall(b)
      PROVE  Returns'
  BY <1>2 DEF NoCall, StatusTellsProgress, SizeIsAnnounced
<1>3. ASSUME NEW full \in 0 .. Cells, NEW rest \in 0 .. BlockSize - 1,
             NEW src \in Buffers, NEW dest \in Buffers,
             \/ BeginEncrypt(src, dest, full, rest)
             \/ BeginDecrypt(src, dest, full, rest)
      PROVE  Returns'
  <2>1. StatusTellsProgress'
    BY <1>3 DEF BeginEncrypt, BeginDecrypt, Enter, StatusTellsProgress
  <2>2. SizeIsAnnounced'
    BY <1>3 DEF BeginEncrypt, BeginDecrypt, Enter, SizeIsAnnounced
  <2>3. QED
    BY <2>1, <2>2
<1>4. CASE Caller
  <2>1. call.dest \in Buffers
    BY <1>1
  <2>2. QED
    BY <1>2, <1>3, <1>4, <2>1
       DEF Caller, FillBuffer, InitBox, RefuseNull, QueryEncryptedSize,
           QueryDecryptedSize, RefuseMissingPadding, RefuseNullSource
<1>5. ASSUME Progress
      PROVE  SizeIsAnnounced'
  <2>1. CASE call'.step = "idle"
    BY <2>1 DEF SizeIsAnnounced
  <2>2. CASE call'.step # "idle"
    <3>1. \A st : ~ Return(st)
      BY <1>1, <2>2 DEF Return
    <3>2. /\ size' = size /\ box'.mode = box.mode /\ call.step # "idle"
          /\ call'.op = call.op /\ call'.full = call.full /\ call'.rest = call.rest
      BY <1>1, <1>5, <3>1
         DEF Progress, ProcessBlock, NothingLeft, MallocFirst, MallocFirstFails,
             MallocSecond, MallocSecondFails, EncryptPaddedBlock, ProcessPartialBlock,
             FreeSecond, FreeFirst, RemovePadding, RejectPadding, LoopDone
    <3>3. QED
      BY <3>2 DEF SizeIsAnnounced
  <2>3. QED
    BY <2>1, <2>2
<1>6. ASSUME ProcessBlock
      PROVE  StatusTellsProgress'
  BY <1>1, <1>6 DEF ProcessBlock, StatusTellsProgress
<1>7. ASSUME NEW st, Return(st), LoopDone, box' = box,
             IF st = "SUCCESS" THEN Complete ELSE OnlyFullBlocks
      PROVE  StatusTellsProgress'
  <2>1. /\ call'.op = call.op /\ call'.full = call.full /\ call'.rest = call.rest
        /\ call'.done = call.done /\ call'.cut = call.cut /\ call'.step = "idle"
        /\ call'.status = st /\ status' = st
    BY <1>1, <1>7 DEF Return
  <2>2. QED
    BY <1>7, <2>1 DEF StatusTellsProgress, Complete, OnlyFullBlocks, Padded
<1>8. ASSUME NothingLeft
      PROVE  StatusTellsProgress'
  <2>1. Complete
    BY <1>1, <1>8 DEF NothingLeft, LoopDone, Complete, Inductive, CallShape
  <2>2. QED
    BY <1>7, <1>8, <2>1 DEF NothingLeft
<1>9. ASSUME MallocFirstFails
      PROVE  StatusTellsProgress'
  <2>1. OnlyFullBlocks
    BY <1>1, <1>9 DEF MallocFirstFails, LoopDone, OnlyFullBlocks, Inductive, CallShape
  <2>2. QED
    BY <1>7, <1>9, <2>1 DEF MallocFirstFails
<1>10. ASSUME RemovePadding \/ RejectPadding
       PROVE  StatusTellsProgress'
  <2>1. OnlyFullBlocks /\ Complete
    BY <1>1, <1>10 DEF RemovePadding, RejectPadding, LoopDone, OnlyFullBlocks, Complete,
                       Inductive, CallShape, LacksPadding, Padded
  <2>2. QED
    BY <1>7, <1>10, <2>1 DEF RemovePadding, RejectPadding
<1>11. ASSUME MallocFirst \/ MallocSecond
       PROVE  StatusTellsProgress'
  BY <1>1, <1>11 DEF MallocFirst, MallocSecond, LoopDone, StatusTellsProgress
<1>12. ASSUME MallocSecondFails
       PROVE  StatusTellsProgress'
  BY <1>1, <1>12 DEF MallocSecondFails, StatusTellsProgress, OnlyFullBlocks,
                     Inductive, CallShape
<1>13. ASSUME EncryptPaddedBlock
       PROVE  StatusTellsProgress'
  <2>1. /\ call'.step = "free_first" /\ call'.status = call.status
        /\ call'.op = "encrypt" /\ call'.full = call.full /\ call'.done = call.full + 1
        /\ call'.cut = FALSE /\ box'.mode = box.mode /\ Padded
        /\ call.status = "SUCCESS"
    BY <1>1, <1>13 DEF EncryptPaddedBlock, Inductive, CallShape, NeedsTemporary, Padded,
                       StatusTellsProgress
  <2>2. Complete'
    BY <2>1 DEF Complete, Padded
  <2>3. QED
    BY <2>1, <2>2 DEF StatusTellsProgress
<1>14. ASSUME ProcessPartialBlock
       PROVE  StatusTellsProgress'
  BY <1>1, <1>14 DEF ProcessPartialBlock, Inductive, CallShape, StatusTellsProgress
<1>15. ASSUME FreeSecond
       PROVE  StatusTellsProgress'
  <2>1. /\ call'.step = "free_first" /\ call'.status = "SUCCESS"
        /\ call'.op = call.op /\ call'.full = call.full /\ call'.done = call.full
        /\ call'.cut = TRUE /\ call'.rest = call.rest /\ box'.mode = box.mode
        /\ ~ Padded /\ call.rest # 0 /\ call.full \in Nat
    BY <1>1, <1>15 DEF FreeSecond, Inductive, CallShape, StatusTellsProgress
  <2>2. Padded' <=> Padded
    BY <2>1 DEF Padded
  <2>3. (call.done = call.full + (IF Padded /\ call.op = "encrypt" THEN 1 ELSE 0))'
    BY <2>1, <2>2
  <2>4. (call.cut = (~ Padded /\ call.rest # 0))'
    BY <2>1, <2>2, Zenon
  <2>5. QED
    BY <2>1, <2>3, <2>4 DEF StatusTellsProgress, Complete
<1>16. ASSUME FreeFirst
       PROVE  StatusTellsProgress'
  <2>1. /\ call'.op = call.op /\ call'.full = call.full /\ call'.rest = call.rest
        /\ call'.done = call.done /\ call'.cut = call.cut /\ call'.step = "idle"
        /\ call'.status = call.status /\ status' = call.status /\ box' = box
    BY <1>1, <1>16 DEF FreeFirst, Return
  <2>2. IF call.status = "SUCCESS" THEN Complete ELSE OnlyFullBlocks
    BY <1>16 DEF FreeFirst, StatusTellsProgress, Inductive, CallShape
  <2>3. QED
    BY <2>1, <2>2 DEF StatusTellsProgress, Complete, OnlyFullBlocks, Padded
<1>17. CASE UNCHANGED vars
  BY <1>17 DEF vars, StatusTellsProgress, SizeIsAnnounced, Complete, OnlyFullBlocks, Padded
<1>18. CASE Progress
  <2>1. StatusTellsProgress'
    BY <1>6, <1>8, <1>9, <1>10, <1>11, <1>12, <1>13, <1>14, <1>15, <1>16, <1>18
       DEF Progress
  <2>2. QED
    BY <1>5, <1>18, <2>1
<1>19. QED
  BY <1>4, <1>17, <1>18 DEF Next

LEMMA ReturnsAlways == Spec => []Returns
<1>1. Init => Returns
  BY DEF Init, NoCall, Returns, StatusTellsProgress, SizeIsAnnounced
<1>2. QED
  BY BoxIsWellFormed, ReturnsStep, <1>1, PTL DEF Spec

(* AES_SUCCESS means all of the input, an allocation failure all but its    *)
(* last block; no return code promises more than was done.                  *)
THEOREM StatusIsRight == Spec => []StatusTellsProgress
  BY ReturnsAlways, PTL DEF Returns

(* The size is settled by the step that returns: what was announced meets   *)
(* what the loop and the last block have written.                           *)
LEMMA SizeStep ==
  ASSUME Inductive, Returns, SizeMatchesOutput, [Next]_vars
  PROVE  SizeMatchesOutput'
<1> DEFINE Rest == IF call.cut THEN call.rest ELSE 0
           Announced ==
             IF call.op = "encrypt"
             THEN EncryptedSize(box.mode, call.full, call.rest)
             ELSE InBytes(call.full, call.rest)
<1>1. /\ call \in [op : {"none", "encrypt", "decrypt"}, step : Step,
                   src : Buffers, dest : Buffers,
                   full : 0 .. Cells, rest : 0 .. BlockSize - 1,
                   done : 0 .. Cells, cut : BOOLEAN, status : Status]
      /\ box \in [mode : Mode, key : Key, iv : Block]
  BY DEF Inductive, TypeOK
<1>2. CASE call'.op = "none" \/ call'.step # "idle"
  BY <1>2 DEF SizeMatchesOutput
<1>3. CASE UNCHANGED vars
  <2>1. Padded' <=> Padded
    BY <1>3 DEF vars, Padded
  <2>2. Output' = Output
    BY <1>3 DEF vars, Output
  <2>3. QED
    BY <1>3, <2>1, <2>2 DEF vars, SizeMatchesOutput
<1>4. ASSUME call.step # "idle", call.op # "none", UNCHANGED <<box, mem>>,
             NEW st, Return(st), st = "SUCCESS" => Complete,
             st = "SUCCESS" =>
               IF Padded /\ call.op = "decrypt"
               THEN size' = (size - ClaimedPadding(Output, call.full)) % SizeMod
               ELSE size' = size
      PROVE  SizeMatchesOutput'
  <2>1. /\ UNCHANGED <<call.op, call.src, call.dest, call.full, call.rest, call.done,
                       call.cut>>
        /\ status' = st
    BY <1>1, <1>4 DEF Return
  <2>2. /\ Padded' <=> Padded
        /\ Output' = Output
    BY <1>4, <2>1 DEF Padded, Output
  <2>3. CASE st = "SUCCESS"
    <3>1. size = Announced
      BY <1>4 DEF Returns, SizeIsAnnounced
    <3>2. call.op \in {"encrypt", "decrypt"}
      BY <1>1, <1>4
    <3>3. Padded /\ call.op = "decrypt" => call.rest = 0
      BY DEF Inductive, CallShape, LacksPadding, Padded
    <3>4. Announced = InBytes(call.done, Rest)
      <4>1. CASE Padded /\ call.op = "encrypt"
        <5>1. call.done = call.full + 1 /\ ~ call.cut
          BY <1>4, <2>3, <4>1 DEF Complete
        <5>2. QED
          BY <4>1, <5>1 DEF Padded, EncryptedSize
      <4>2. CASE ~ (Padded /\ call.op = "encrypt")
        <5>1. call.done = call.full
          BY <1>1, <1>4, <2>3, <4>2 DEF Complete
        <5>2. Rest = call.rest
          BY <1>1, <1>4, <2>3, <3>2, <3>3, <4>2 DEF Complete
        <5>3. Announced = InBytes(call.full, call.rest)
          BY <4>2 DEF Padded, EncryptedSize
        <5>4. QED
          BY <5>1, <5>2, <5>3
      <4>3. QED
        BY <4>1, <4>2
    <3>5. QED
      BY <1>4, <2>1, <2>2, <2>3, <3>1, <3>4 DEF SizeMatchesOutput
  <2>4. CASE st # "SUCCESS"
    BY <2>1, <2>4 DEF SizeMatchesOutput
  <2>5. QED
    BY <2>3, <2>4
<1>5. ASSUME Next, call'.op # "none", call'.step = "idle"
      PROVE  SizeMatchesOutput'
  <2>1. CASE Caller
    <3>1. \A b : NoCall(b).op = "none"
      BY DEF NoCall
    <3>2. QED
      BY <1>5, <2>1, <3>1
         DEF Caller, FillBuffer, InitBox, RefuseNull, QueryEncryptedSize,
             QueryDecryptedSize, RefuseMissingPadding, RefuseNullSource,
             BeginEncrypt, BeginDecrypt, Enter
  <2>2. ASSUME ProcessBlock \/ MallocFirst \/ MallocSecond \/ MallocSecondFails
               \/ EncryptPaddedBlock \/ ProcessPartialBlock \/ FreeSecond
        PROVE  FALSE
    BY <1>1, <1>5, <2>2
       DEF ProcessBlock, MallocFirst, MallocSecond, MallocSecondFails,
           EncryptPaddedBlock, ProcessPartialBlock, FreeSecond
  <2>3. CASE NothingLeft
    <3>1. call.done = call.full /\ ~ call.cut /\ call.rest = 0 /\ ~ Padded
          /\ call.step = "loop"
      BY <2>3 DEF NothingLeft, LoopDone, Inductive, CallShape
    <3>2. Complete
      BY <1>1, <3>1 DEF Complete
    <3>3. call.op # "none"
      BY <3>1 DEF Inductive, CallShape
    <3>4. QED
      BY <1>4, <2>3, <3>1, <3>2, <3>3 DEF NothingLeft
  <2>4. CASE MallocFirstFails
    <3>1. call.step = "loop"
      BY <2>4 DEF MallocFirstFails, LoopDone
    <3>2. call.op # "none"
      BY <3>1 DEF Inductive, CallShape
    <3>3. QED
      BY <1>4, <2>4, <3>1, <3>2 DEF MallocFirstFails
  <2>5. CASE FreeFirst
    <3>1. call.step = "free_first" /\ Return(call.status) /\ UNCHANGED <<box, mem, size>>
      BY <2>5 DEF FreeFirst
    <3>2. call.op # "none" /\ (Padded => call.op = "encrypt")
      BY <3>1 DEF Inductive, CallShape, NeedsTemporary
    <3>3. call.status = "SUCCESS" => Complete
      BY <3>1, <3>2 DEF Returns, StatusTellsProgress
    <3>4. QED
      BY <1>4, <3>1, <3>2, <3>3
  <2>6. CASE RemovePadding \/ RejectPadding
    <3>1. /\ call.step = "loop" /\ call.done = call.full /\ ~ call.cut
          /\ Padded /\ call.op = "decrypt"
      BY <2>6 DEF RemovePadding, RejectPadding, LoopDone, Inductive, CallShape
    <3>2. Complete
      BY <1>1, <3>1 DEF Complete
    <3>3. CASE RemovePadding
      BY <1>4, <3>1, <3>2, <3>3 DEF RemovePadding, Output
    <3>4. CASE RejectPadding
      BY <1>4, <3>1, <3>4 DEF RejectPadding
    <3>5. QED
      BY <2>6, <3>3, <3>4
  <2>7. QED
    BY <1>5, <2>1, <2>2, <2>3, <2>4, <2>5, <2>6 DEF Next, Progress
<1>6. QED
  BY <1>2, <1>3, <1>5

(* After a success *dest_size says how many bytes of dest are the result.   *)
THEOREM SizeIsRight == Spec => []SizeMatchesOutput
<1>1. Init => SizeMatchesOutput
  BY DEF Init, NoCall, SizeMatchesOutput
<1>2. QED
  BY BoxIsWellFormed, ReturnsAlways, SizeStep, <1>1, PTL DEF Spec

(* The types, and the shape of the call record.                             *)
THEOREM TypesAreRight == Spec => []TypeOK
  BY BoxIsWellFormed, PTL DEF Inductive

THEOREM CallShapeIsRight == Spec => []CallShape
  BY BoxIsWellFormed, PTL DEF Inductive

-----------------------------------------------------------------------------
(***************************************************************************)
(* Box implements AtomicBox.                                               *)
(***************************************************************************)
(* The operators of the two specifications are the same ones.               *)
LEMMA SameSizes ==
  ASSUME NEW mode, NEW full, NEW rest
  PROVE  /\ Atomic!InBytes(full, rest) = InBytes(full, rest)
         /\ Atomic!EncryptedSize(mode, full, rest) = EncryptedSize(mode, full, rest)
         /\ Atomic!LacksPadding(mode, full, rest) = LacksPadding(mode, full, rest)
         /\ Atomic!EncryptionFits(mode, full, rest) = EncryptionFits(mode, full, rest)
         /\ Atomic!DecryptionFits(full, rest) = DecryptionFits(full, rest)
  BY DEF Atomic!InBytes, InBytes, Atomic!EncryptedSize, EncryptedSize,
         Atomic!LacksPadding, LacksPadding, Atomic!EncryptionFits, EncryptionFits,
         Atomic!DecryptionFits, DecryptionFits, Atomic!PaddedMode, PaddedMode

LEMMA SameBlocks ==
  ASSUME NEW a, NEW b, NEW n
  PROVE  /\ Atomic!XorBlocks(a, b) = XorBlocks(a, b)
         /\ Atomic!Overwritten(a, b, n) = Overwritten(a, b, n)
         /\ Atomic!ZeroExtended(a, n) = ZeroExtended(a, n)
         /\ Atomic!FillWithPadding(a, n) = FillWithPadding(a, n)
  BY DEF Atomic!XorBlocks, XorBlocks, Atomic!Overwritten, Overwritten,
         Atomic!ZeroExtended, ZeroExtended, Atomic!FillWithPadding, FillWithPadding

LEMMA SamePadding ==
  ASSUME NEW cells, NEW n
  PROVE  /\ Atomic!ClaimedPadding(cells, n) = ClaimedPadding(cells, n)
         /\ Atomic!PaddingAccepted(cells, n) = PaddingAccepted(cells, n)
         /\ Atomic!PaddingRejected(cells, n) = PaddingRejected(cells, n)
  BY DEF Atomic!ClaimedPadding, ClaimedPadding, Atomic!PaddingAccepted,
         PaddingAccepted, Atomic!PaddingRejected, PaddingRejected,
         Atomic!ScanMismatch, ScanMismatch, Atomic!ScanLeavesBuffer,
         ScanLeavesBuffer, Atomic!ByteAt, ByteAt

LEMMA SameEquations ==
  ASSUME NEW mode, NEW key, NEW iv, NEW P, NEW C, NEW n, NEW op
  PROVE  /\ Atomic!Chained(mode, key, iv, P, C, n) = Chained(mode, key, iv, P, C, n)
         /\ Atomic!Encrypts(mode, key, iv, P, C, n) = Encrypts(mode, key, iv, P, C, n)
         /\ Atomic!IvAfterPartial(mode, key, iv, op, P) =
              IvAfterPartial(mode, key, iv, op, P)
  BY DEF Atomic!XorBlocks, XorBlocks, Atomic!Chained, Chained, Atomic!Encrypts,
         Encrypts, Atomic!IvAfterPartial, IvAfterPartial

-----------------------------------------------------------------------------
(* The box its caller sees while a call runs.                               *)
EntryBox == [box EXCEPT !.iv = entry.iv]

(* A call is about to return, with the box and the memory as they are.      *)
Returning(st) ==
  /\ call.step # "idle"
  /\ Return(st)
  /\ UNCHANGED <<box, mem>>

LEMMA AbstractState ==
  ASSUME TypeOK, NEW st, Returning(st)
  PROVE  /\ (IF Idle THEN box ELSE EntryBox) = EntryBox
         /\ (IF Idle THEN mem ELSE entry.mem) = entry.mem
         /\ (IF Idle THEN size ELSE entry.size) = entry.size
         /\ (IF Idle THEN box ELSE EntryBox)' = box
         /\ (IF Idle THEN mem ELSE entry.mem)' = mem
         /\ (IF Idle THEN size ELSE entry.size)' = size'
         /\ status' = st
         /\ EntryBox.mode = box.mode /\ EntryBox.key = box.key /\ EntryBox.iv = entry.iv
         /\ box = [EntryBox EXCEPT !.iv = box.iv]
<1>1. ~ Idle /\ Idle' /\ box' = box /\ mem' = mem /\ status' = st
  BY DEF Returning, Return, Idle, TypeOK
<1>2. box \in [mode : Mode, key : Key, iv : Block] /\ entry.iv \in Block
  BY DEF TypeOK
<1>3. /\ EntryBox.mode = box.mode /\ EntryBox.key = box.key /\ EntryBox.iv = entry.iv
      /\ box = [EntryBox EXCEPT !.iv = box.iv]
  BY <1>2 DEF EntryBox
<1>4. QED
  BY <1>1, <1>3

(* The equations of AtomicBox for the first n blocks of the call's input.   *)
LEMMA AbstractEquations ==
  ASSUME TypeOK, Follows, NEW st, Returning(st), call.op # "none",
         NEW input, NEW n \in 0 .. call.done, \A k \in 1 .. n : input[k] = Input[k]
  PROVE  /\ \A k \in 1 .. n :
              Encrypts(box.mode, box.key, entry.iv,
                       Atomic!Plaintext(call.op, input, call.dest),
                       Atomic!Ciphertext(call.op, input, call.dest), k)
         /\ Atomic!ChainedAfter(call.op, input, call.dest, n) = ChainedAfter(n)
<1> DEFINE P2 == Atomic!Plaintext(call.op, input, call.dest)
           C2 == Atomic!Ciphertext(call.op, input, call.dest)
<1>1. /\ P2 = IF call.op = "encrypt" THEN input ELSE mem[call.dest]
      /\ C2 = IF call.op = "encrypt" THEN mem[call.dest] ELSE input
  BY AbstractState DEF Atomic!Plaintext, Atomic!Ciphertext, EntryBox
<1>2. \A k \in 1 .. n : P2[k] = Plaintext[k] /\ C2[k] = Ciphertext[k]
  BY <1>1 DEF Plaintext, Ciphertext, Output
<1>3. n \in Nat /\ box.mode \in Mode /\ 1 .. n \subseteq 1 .. call.done
  BY DEF TypeOK
<1> HIDE DEF P2, C2
<1>4. /\ \A k \in 0 .. n : Chained(box.mode, box.key, entry.iv, P2, C2, k)
                           = Chained(box.mode, box.key, entry.iv, Plaintext, Ciphertext, k)
      /\ \A k \in 1 .. n : Encrypts(box.mode, box.key, entry.iv, P2, C2, k)
                           <=> Encrypts(box.mode, box.key, entry.iv, Plaintext, Ciphertext, k)
  BY ONLY <1>2, <1>3, EarlierBlocksDecide
<1>5. \A k \in 1 .. n : Encrypts(box.mode, box.key, entry.iv, P2, C2, k)
  BY <1>3, <1>4 DEF Follows, BlocksFollowMode
<1>6. Atomic!ChainedAfter(call.op, input, call.dest, n)
        = Atomic!Chained(box.mode, box.key, entry.iv, P2, C2, n)
  BY AbstractState DEF Atomic!ChainedAfter, P2, C2, EntryBox
<1>7. Atomic!ChainedAfter(call.op, input, call.dest, n)
        = Chained(box.mode, box.key, entry.iv, P2, C2, n)
  BY <1>6, SameEquations
<1>8. n \in 0 .. n
  BY <1>3
<1>9. QED
  BY <1>4, <1>5, <1>7, <1>8 DEF ChainedAfter, P2, C2

LEMMA AbstractBlocks ==
  ASSUME TypeOK, Follows, NEW st, Returning(st), call.op # "none",
         NEW input, NEW n \in 0 .. call.done, NEW written,
         \A k \in 1 .. n : input[k] = Input[k],
         \A k \in 1 .. Cells :
           k \notin written => k > call.done /\ ~ (call.cut /\ k = call.full + 1)
  PROVE  Atomic!Blocks(call.op, input, call.dest, n, written)
<1>1. \A k \in 1 .. n :
        Atomic!Encrypts(box.mode, box.key, entry.iv,
                        Atomic!Plaintext(call.op, input, call.dest),
                        Atomic!Ciphertext(call.op, input, call.dest), k)
  BY AbstractEquations, SameEquations
<1>2. \A b \in Buffers \ {call.dest} : mem[b] = entry.mem[b]
  BY DEF Follows, OnlyOutputIsWritten
<1>3. \A k \in (1 .. Cells) \ written : mem[call.dest][k] = entry.mem[call.dest][k]
  BY DEF Follows, OnlyOutputIsWritten, Output
<1>4. /\ (IF Idle THEN box ELSE EntryBox) = EntryBox
      /\ (IF Idle THEN mem ELSE entry.mem) = entry.mem
      /\ (IF Idle THEN mem ELSE entry.mem)' = mem
      /\ EntryBox.mode = box.mode /\ EntryBox.key = box.key /\ EntryBox.iv = entry.iv
  BY AbstractState
<1>5. \A k \in 1 .. n :
        Atomic!Encrypts((IF Idle THEN box ELSE EntryBox).mode,
                        (IF Idle THEN box ELSE EntryBox).key,
                        (IF Idle THEN box ELSE EntryBox).iv,
                        Atomic!Plaintext(call.op, input, call.dest),
                        Atomic!Ciphertext(call.op, input, call.dest), k)
  BY <1>1, <1>4
<1>6. /\ \A b \in Buffers \ {call.dest} :
           (IF Idle THEN mem ELSE entry.mem)'[b] = (IF Idle THEN mem ELSE entry.mem)[b]
      /\ \A k \in (1 .. Cells) \ written :
           (IF Idle THEN mem ELSE entry.mem)'[call.dest][k]
             = (IF Idle THEN mem ELSE entry.mem)[call.dest][k]
  BY <1>2, <1>3, <1>4
<1>7. QED
  BY <1>5, <1>6 DEF Atomic!Blocks, EntryBox

LEMMA AbstractWhole ==
  ASSUME TypeOK, Follows, NEW st, Returning(st), call.op # "none", ~ call.cut,
         NEW input, \A k \in 1 .. call.done : input[k] = Input[k]
  PROVE  Atomic!WholeBlocks(call.op, input, call.dest, call.done)
<1>1. call.done \in Nat /\ call.done \in 0 .. call.done
  BY DEF TypeOK
<1>2. Atomic!Blocks(call.op, input, call.dest, call.done, 1 .. call.done)
  <2>1. \A k \in 1 .. Cells : k \notin 1 .. call.done => k > call.done
    BY <1>1, SizesAssumption
  <2>2. QED
    BY <1>1, <2>1, AbstractBlocks
<1>3. Atomic!ChainedAfter(call.op, input, call.dest, call.done) = box.iv
  BY <1>1, AbstractEquations DEF Follows, IvIsChained
<1>4. QED
  BY <1>2, <1>3, AbstractState DEF Atomic!WholeBlocks, EntryBox

LEMMA AbstractPart ==
  ASSUME Inductive, Follows, NEW st, Returning(st), call.op # "none", call.cut
  PROVE  Atomic!BlocksAndPart(call.op, entry.mem[call.src], call.dest,
                              call.full, call.rest)
<1> DEFINE input == entry.mem[call.src]
<1>1. /\ TypeOK /\ ~ Padded /\ call.done = call.full
      /\ call.full \in Nat /\ call.full \in 0 .. call.done
  BY DEF Inductive, CallShape, TypeOK
<1>2. \A k \in 1 .. call.full : input[k] = Input[k]
  BY <1>1, SizesAssumption DEF Input, TypeOK
<1>3. Atomic!Blocks(call.op, input, call.dest, call.full, 1 .. call.full + 1)
  <2>1. \A k \in 1 .. Cells :
          k \notin 1 .. call.full + 1 => k > call.done /\ k # call.full + 1
    BY <1>1, SizesAssumption
  <2>2. QED
    BY <1>1, <1>2, <2>1, AbstractBlocks
<1>4. Atomic!ChainedAfter(call.op, input, call.dest, call.full) = ChainedAfter(call.full)
  BY <1>1, <1>2, AbstractEquations
<1>5. /\ mem[call.dest][call.full + 1] =
           Overwritten(entry.mem[call.dest][call.full + 1],
                       XorBlocks(Enc(box.key, ChainedAfter(call.full)),
                                 input[call.full + 1]), call.rest)
      /\ box.iv = IvAfterPartial(box.mode, box.key, ChainedAfter(call.full), call.op,
                                 ZeroExtended(input[call.full + 1], call.rest))
  BY DEF Follows, PartialBlockFollowsMode, Output
<1>6. /\ mem[call.dest][call.full + 1] =
           Atomic!Overwritten(entry.mem[call.dest][call.full + 1],
             Atomic!XorBlocks(Enc(EntryBox.key,
                                  Atomic!ChainedAfter(call.op, input, call.dest, call.full)),
                              input[call.full + 1]), call.rest)
      /\ box = [EntryBox EXCEPT !.iv =
           Atomic!IvAfterPartial(EntryBox.mode, EntryBox.key,
             Atomic!ChainedAfter(call.op, input, call.dest, call.full), call.op,
             Atomic!ZeroExtended(input[call.full + 1], call.rest))]
  BY <1>1, <1>4, <1>5, AbstractState, SameBlocks, SameEquations
<1>7. /\ (IF Idle THEN box ELSE EntryBox) = EntryBox
      /\ (IF Idle THEN mem ELSE entry.mem) = entry.mem
      /\ (IF Idle THEN box ELSE EntryBox)' = box
      /\ (IF Idle THEN mem ELSE entry.mem)' = mem
  BY <1>1, AbstractState
<1> HIDE DEF input
<1>8. QED
  BY <1>3, <1>6, <1>7 DEF Atomic!BlocksAndPart, EntryBox, input

-----------------------------------------------------------------------------
(* The abstract step a return is, by the code it returns.                   *)
LEMMA SuccessIsAtomic ==
  ASSUME Inductive, Follows, Returning("SUCCESS"), call.op # "none", Complete,
         Padded => call.op = "encrypt",
         size' = IF call.op = "encrypt"
                 THEN EncryptedSize(box.mode, call.full, call.rest)
                 ELSE InBytes(call.full, call.rest)
  PROVE  \/ /\ call.op = "encrypt"
            /\ Atomic!Encrypted(call.src, call.dest, call.full, call.rest)
         \/ /\ call.op = "decrypt"
            /\ Atomic!Decrypted(call.src, call.dest, call.full, call.rest)
<1>1. /\ TypeOK /\ call.op \in {"encrypt", "decrypt"} /\ call.full \in Nat
      /\ call.cut \in BOOLEAN
  BY DEF Inductive, TypeOK
<1>2. CASE Padded
  <2>1. call.op = "encrypt" /\ call.done = call.full + 1 /\ ~ call.cut
    BY <1>2 DEF Complete
  <2>2. call.full + 1 \in 1 .. Cells
    BY <1>1, <1>2, <2>1, SizesAssumption DEF Inductive, CallShape, EncryptionFits, Padded
  <2>3. entry.mem[call.src] \in [1 .. Cells -> Block]
    BY <1>1 DEF TypeOK, Memory
  <2>4. Atomic!WithPadding(call.src, call.full, call.rest)
          = [entry.mem[call.src] EXCEPT ![call.full + 1] = FillWithPadding(@, call.rest)]
    BY <1>1, AbstractState, SameBlocks DEF Atomic!WithPadding
  <2>5. \A k \in 1 .. call.done :
          Atomic!WithPadding(call.src, call.full, call.rest)[k] = Input[k]
    BY <1>1, <1>2, <2>1, <2>2, <2>3, <2>4, SizesAssumption DEF Input
  <2>6. Atomic!WholeBlocks("encrypt", Atomic!WithPadding(call.src, call.full, call.rest),
                           call.dest, call.full + 1)
    BY <1>1, <2>1, <2>5, AbstractWhole
  <2>7. QED
    BY <1>1, <1>2, <2>1, <2>6, AbstractState, SameSizes
       DEF Atomic!Encrypted, Atomic!PaddedMode, PaddedMode, Padded, EntryBox
<1>3. CASE ~ Padded
  <2>1. call.done = call.full /\ call.cut = (call.rest # 0)
    BY <1>1, <1>3 DEF Complete
  <2>2. IF call.rest = 0
        THEN Atomic!WholeBlocks(call.op, entry.mem[call.src], call.dest, call.full)
        ELSE Atomic!BlocksAndPart(call.op, entry.mem[call.src], call.dest,
                                  call.full, call.rest)
    <3>1. CASE call.rest = 0
      <4>1. \A k \in 1 .. call.done : entry.mem[call.src][k] = Input[k]
        BY <1>1, <1>3, SizesAssumption DEF Input, TypeOK
      <4>2. QED
        BY <1>1, <2>1, <3>1, <4>1, AbstractWhole
    <3>2. CASE call.rest # 0
      BY <2>1, <3>2, AbstractPart
    <3>3. QED
      BY <3>1, <3>2
  <2>3. /\ EntryBox.mode = box.mode /\ box.mode \notin PaddedMode
        /\ (IF Idle THEN mem ELSE entry.mem) = entry.mem
        /\ (IF Idle THEN box ELSE EntryBox) = EntryBox
        /\ (IF Idle THEN size ELSE entry.size)' = size' /\ status' = "SUCCESS"
    BY <1>1, <1>3, AbstractState DEF Padded
  <2>4. CASE call.op = "encrypt"
    BY <2>2, <2>3, <2>4, SameSizes
       DEF Atomic!Encrypted, Atomic!PaddedMode, PaddedMode, EntryBox
  <2>5. CASE call.op = "decrypt"
    BY <2>2, <2>3, <2>5, SameSizes
       DEF Atomic!Decrypted, Atomic!PaddedMode, PaddedMode, EntryBox
  <2>6. QED
    BY <1>1, <2>4, <2>5
<1>4. QED
  BY <1>2, <1>3

LEMMA FullBlocksAgree ==
  ASSUME Inductive, call.done = call.full
  PROVE  \A k \in 1 .. call.done : entry.mem[call.src][k] = Input[k]
  BY SizesAssumption DEF Input, Inductive, TypeOK

LEMMA FailureIsAtomic ==
  ASSUME Inductive, Follows, Returning("MEMORY_ALLOCATION_ERROR"), call.op # "none",
         OnlyFullBlocks, NeedsTemporary,
         size' = IF call.op = "encrypt"
                 THEN EncryptedSize(box.mode, call.full, call.rest)
                 ELSE InBytes(call.full, call.rest)
  PROVE  Atomic!OutOfMemory(call.op, call.src, call.dest, call.full, call.rest)
<1>1. TypeOK /\ call.done = call.full /\ ~ call.cut
  BY DEF Inductive, OnlyFullBlocks
<1>2. Atomic!WholeBlocks(call.op, entry.mem[call.src], call.dest, call.full)
  BY <1>1, FullBlocksAgree, AbstractWhole
<1>3. /\ (IF Idle THEN mem ELSE entry.mem) = entry.mem
      /\ (IF Idle THEN box ELSE EntryBox) = EntryBox /\ EntryBox.mode = box.mode
      /\ (IF Idle THEN size ELSE entry.size)' = size'
      /\ status' = "MEMORY_ALLOCATION_ERROR"
  BY <1>1, AbstractState
<1>4. QED
  BY <1>2, <1>3, SameSizes
     DEF Atomic!OutOfMemory, NeedsTemporary, Padded, Atomic!PaddedMode, PaddedMode,
         EntryBox

LEMMA UnpaddingIsAtomic ==
  ASSUME Inductive, Follows, NEW st, Returning(st), Padded, call.op = "decrypt",
         OnlyFullBlocks, size = InBytes(call.full, 0),
         \/ /\ st = "SUCCESS"
            /\ PaddingAccepted(mem[call.dest], call.full)
            /\ size' = (size - ClaimedPadding(mem[call.dest], call.full)) % SizeMod
         \/ /\ st = "INVALID_PKCS7_PADDING_ERROR"
            /\ PaddingRejected(mem[call.dest], call.full)
            /\ size' = size
  PROVE  Atomic!Unpadded(call.src, call.dest, call.full)
<1>1. TypeOK /\ call.done = call.full /\ ~ call.cut
  BY DEF Inductive, OnlyFullBlocks
<1>2. Atomic!WholeBlocks("decrypt", entry.mem[call.src], call.dest, call.full)
  BY <1>1, FullBlocksAgree, AbstractWhole
<1>3. /\ (IF Idle THEN mem ELSE entry.mem) = entry.mem
      /\ (IF Idle THEN mem ELSE entry.mem)' = mem
      /\ (IF Idle THEN box ELSE EntryBox) = EntryBox /\ EntryBox.mode = box.mode
      /\ (IF Idle THEN size ELSE entry.size)' = size'
      /\ status' = st
  BY <1>1, AbstractState
<1>4. QED
  BY <1>2, <1>3, SameSizes, SamePadding
     DEF Atomic!Unpadded, Padded, Atomic!PaddedMode, PaddedMode, EntryBox

-----------------------------------------------------------------------------
(* A step of the caller is the same step of AtomicBox, or its call begins   *)
(* and AtomicBox waits for the return.                                      *)
LEMMA CallerIsAtomic ==
  ASSUME TypeOK, Caller
  PROVE  [Atomic!Next]_(Atomic!vars)
<1>1. Idle
  BY DEF Caller, FillBuffer, InitBox, RefuseNull, QueryEncryptedSize, QueryDecryptedSize,
         RefuseMissingPadding, RefuseNullSource, BeginEncrypt, BeginDecrypt, Enter,
         Called, Idle
<1>2. ASSUME NEW b, call' = NoCall(b)
      PROVE  Idle'
  BY <1>2 DEF NoCall, Idle
<1>3. ASSUME NEW b \in Buffers, NEW cells \in Contents, FillBuffer(b, cells)
      PROVE  Atomic!Next
  <2>1. Atomic!FillBuffer(b, cells)
    BY <1>1, <1>2, <1>3 DEF FillBuffer, Atomic!FillBuffer
  <2>2. QED
    BY <2>1 DEF Atomic!Next
<1>4. ASSUME NEW mode \in Mode, NEW key \in Key, NEW iv \in InitVectors \cup {box.iv},
             InitBox(mode, key, iv)
      PROVE  Atomic!Next
  <2>1. Atomic!Reinitialized(mode, key, iv)
    BY <1>1, <1>2, <1>4 DEF InitBox, Atomic!Reinitialized
  <2>2. mode \in Atomic!Mode
    BY DEF Mode, Atomic!Mode
  <2>3. QED
    BY <1>1, <2>1, <2>2 DEF Atomic!Next
<1>5. ASSUME RefuseNull \/ \E full \in 0 .. Cells, rest \in 0 .. BlockSize - 1 :
                              RefuseMissingPadding(full, rest)
      PROVE  Atomic!Next
  <2>1. Atomic!Refused
    BY <1>1, <1>2, <1>5 DEF RefuseNull, RefuseMissingPadding, Atomic!Refused
  <2>2. QED
    BY <2>1 DEF Atomic!Next
<1>6. ASSUME NEW full \in 0 .. Cells, NEW rest \in 0 .. BlockSize - 1,
             \/ QueryEncryptedSize(full, rest) \/ QueryDecryptedSize(full, rest)
             \/ \E op \in {"encrypt", "decrypt"} : RefuseNullSource(op, full, rest)
      PROVE  Atomic!Next
  <2>1. /\ Idle' /\ UNCHANGED <<box, mem>>
        /\ size' \in {EncryptedSize(box.mode, full, rest), InBytes(full, rest)}
        /\ status' \in {"SUCCESS", "NULL_ARGUMENT_ERROR"}
    BY <1>2, <1>6 DEF QueryEncryptedSize, QueryDecryptedSize, RefuseNullSource
  <2>2. Atomic!Sized(full, rest)
    BY <1>1, <2>1, SameSizes DEF Atomic!Sized
  <2>3. QED
    BY <2>2 DEF Atomic!Next
<1>7. ASSUME NEW full \in 0 .. Cells, NEW rest \in 0 .. BlockSize - 1,
             NEW src \in Buffers, NEW dest \in Buffers,
             BeginEncrypt(src, dest, full, rest) \/ BeginDecrypt(src, dest, full, rest)
      PROVE  UNCHANGED Atomic!vars
  <2>1. /\ ~ Idle' /\ UNCHANGED <<box, mem, status>>
        /\ entry' = [mem |-> mem, iv |-> box.iv, size |-> size]
    BY <1>7 DEF BeginEncrypt, BeginDecrypt, Enter, Idle
  <2>2. [box EXCEPT !.iv = box.iv] = box
    BY DEF TypeOK
  <2>3. QED
    BY <1>1, <2>1, <2>2 DEF Atomic!vars
<1>8. QED
  BY <1>3, <1>4, <1>5, <1>6, <1>7 DEF Caller

(* The steps inside a call are not seen; its return is the abstract call.   *)
LEMMA ProgressIsAtomic ==
  ASSUME Inductive, Follows, Returns, Progress
  PROVE  [Atomic!Next]_(Atomic!vars)
<1>1. /\ call \in [op : {"none", "encrypt", "decrypt"}, step : Step,
                   src : Buffers, dest : Buffers,
                   full : 0 .. Cells, rest : 0 .. BlockSize - 1,
                   done : 0 .. Cells, cut : BOOLEAN, status : Status]
      /\ box \in [mode : Mode, key : Key, iv : Block]
  BY DEF Inductive, TypeOK
<1>2. call.step # "idle" /\ ~ Idle
  BY DEF Progress, ProcessBlock, NothingLeft, MallocFirst, MallocFirstFails, MallocSecond,
         MallocSecondFails, EncryptPaddedBlock, ProcessPartialBlock, FreeSecond,
         FreeFirst, RemovePadding, RejectPadding, LoopDone, Idle
<1>3. /\ call.op \in {"encrypt", "decrypt"}
      /\ size = IF call.op = "encrypt"
                THEN EncryptedSize(box.mode, call.full, call.rest)
                ELSE InBytes(call.full, call.rest)
  BY <1>1, <1>2 DEF Inductive, CallShape, Returns, SizeIsAnnounced
<1>4. ASSUME ProcessBlock \/ MallocFirst \/ MallocSecond \/ MallocSecondFails
             \/ EncryptPaddedBlock \/ ProcessPartialBlock \/ FreeSecond
      PROVE  UNCHANGED Atomic!vars
  <2>1. /\ ~ Idle' /\ UNCHANGED <<status, entry>>
        /\ [box' EXCEPT !.iv = entry.iv] = [box EXCEPT !.iv = entry.iv]
    BY <1>1, <1>4
       DEF ProcessBlock, MallocFirst, MallocSecond, MallocSecondFails,
           EncryptPaddedBlock, ProcessPartialBlock, FreeSecond, Idle
  <2>2. QED
    BY <1>2, <2>1 DEF Atomic!vars
<1>5. ASSUME \/ Atomic!Encrypted(call.src, call.dest, call.full, call.rest)
                /\ call.op = "encrypt"
             \/ Atomic!Decrypted(call.src, call.dest, call.full, call.rest)
                /\ call.op = "decrypt"
             \/ Atomic!Unpadded(call.src, call.dest, call.full) /\ call.op = "decrypt"
             \/ Atomic!OutOfMemory(call.op, call.src, call.dest, call.full, call.rest)
      PROVE  Atomic!Next
  <2>1. call.op = "encrypt" => EncryptionFits(box.mode, call.full, call.rest)
    BY DEF Inductive, CallShape
  <2>2. call.op = "decrypt" => /\ DecryptionFits(call.full, call.rest)
                               /\ ~ LacksPadding(box.mode, call.full, call.rest)
    BY DEF Inductive, CallShape
  <2>3. (IF Idle THEN box ELSE [box EXCEPT !.iv = entry.iv]).mode = box.mode
    BY <1>1, <1>2
  <2>4. /\ call.full \in 0 .. Cells /\ call.rest \in 0 .. BlockSize - 1
        /\ call.src \in Buffers /\ call.dest \in Buffers
    BY <1>1
  <2>5. CASE call.op = "encrypt"
    BY <1>5, <2>1, <2>3, <2>4, <2>5, SameSizes DEF Atomic!Next
  <2>6. CASE call.op = "decrypt"
    BY <1>5, <2>2, <2>3, <2>4, <2>6, SameSizes DEF Atomic!Next
  <2>7. QED
    BY <1>3, <2>5, <2>6
<1>6. CASE NothingLeft
  <2>1. /\ Returning("SUCCESS") /\ size' = size /\ ~ Padded /\ call.rest = 0
        /\ call.done = call.full /\ ~ call.cut
    BY <1>2, <1>6 DEF NothingLeft, LoopDone, Returning, Inductive, CallShape
  <2>2. Complete
    BY <1>1, <2>1 DEF Complete
  <2>3. QED
    BY <1>3, <1>5, <2>1, <2>2, SuccessIsAtomic
<1>7. CASE MallocFirstFails
  <2>1. /\ Returning("MEMORY_ALLOCATION_ERROR") /\ size' = size /\ NeedsTemporary
        /\ OnlyFullBlocks
    BY <1>2, <1>7 DEF MallocFirstFails, LoopDone, Returning, Inductive, CallShape,
                      OnlyFullBlocks
  <2>2. QED
    BY <1>3, <1>5, <2>1, FailureIsAtomic
<1>8. CASE FreeFirst
  <2>1. /\ call.step = "free_first" /\ Returning(call.status) /\ size' = size
        /\ NeedsTemporary
    BY <1>2, <1>8 DEF FreeFirst, Returning, Inductive, CallShape
  <2>2. Padded => call.op = "encrypt"
    BY <2>1 DEF NeedsTemporary
  <2>3. CASE call.status = "SUCCESS"
    BY <1>3, <1>5, <2>1, <2>2, <2>3, SuccessIsAtomic DEF Returns, StatusTellsProgress
  <2>4. CASE call.status = "MEMORY_ALLOCATION_ERROR"
    BY <1>3, <1>5, <2>1, <2>4, FailureIsAtomic DEF Returns, StatusTellsProgress
  <2>5. QED
    BY <1>3, <2>1, <2>3, <2>4 DEF Returns, StatusTellsProgress
<1>9. CASE RemovePadding \/ RejectPadding
  <2>1. /\ Padded /\ call.op = "decrypt" /\ OnlyFullBlocks
        /\ LoopDone /\ UNCHANGED <<box, mem>>
    BY <1>9 DEF RemovePadding, RejectPadding, LoopDone, Inductive, CallShape,
                OnlyFullBlocks
  <2>2. call.rest = 0
    BY <2>1 DEF Inductive, CallShape, LacksPadding, Padded
  <2>3. size = InBytes(call.full, 0)
    BY <1>3, <2>1, <2>2
  <2>4. CASE RemovePadding
    <3>1. /\ Returning("SUCCESS") /\ PaddingAccepted(mem[call.dest], call.full)
          /\ size' = (size - ClaimedPadding(mem[call.dest], call.full)) % SizeMod
      BY <1>2, <2>4 DEF RemovePadding, Returning
    <3>2. QED
      BY <1>5, <2>1, <2>3, <3>1, UnpaddingIsAtomic
  <2>5. CASE RejectPadding
    <3>1. /\ Returning("INVALID_PKCS7_PADDING_ERROR") /\ size' = size
          /\ PaddingRejected(mem[call.dest], call.full)
      BY <1>2, <2>5 DEF RejectPadding, Returning
    <3>2. QED
      BY <1>5, <2>1, <2>3, <3>1, UnpaddingIsAtomic
  <2>6. QED
    BY <1>9, <2>4, <2>5
<1>10. QED
  BY <1>4, <1>6, <1>7, <1>8, <1>9 DEF Progress

(* For all sizes, modes and keys, in place or not, with and without         *)
(* allocation failures, a call to the library has the effect on its         *)
(* caller's memory, *dest_size and the box that AtomicBox gives it.         *)
THEOREM BoxImplementsAtomicBox == Spec => ImplementsAtomicBox
<1>1. Init => Atomic!Init
  <2>1. Mode = Atomic!Mode
    BY DEF Mode, Atomic!Mode
  <2>2. QED
    BY <2>1 DEF Init, NoCall, Atomic!Init, Idle
<1>2. Inductive /\ Follows /\ Returns /\ [Next]_vars => [Atomic!Next]_(Atomic!vars)
  <2> SUFFICES ASSUME Inductive, Follows, Returns, [Next]_vars
               PROVE  [Atomic!Next]_(Atomic!vars)
    OBVIOUS
  <2>1. CASE Caller
    BY <2>1, CallerIsAtomic DEF Inductive
  <2>2. CASE Progress
    BY <2>2, ProgressIsAtomic
  <2>3. CASE UNCHANGED vars
    BY <2>3 DEF vars, Atomic!vars, Idle
  <2>4. QED
    BY <2>1, <2>2, <2>3 DEF Next
<1>3. QED
  BY <1>1, <1>2, BoxIsWellFormed, FollowsAlways, ReturnsAlways, PTL
     DEF Spec, ImplementsAtomicBox, Atomic!Spec
-----------------------------------------------------------------------------
(***************************************************************************)
(* A box as a part of a larger system: an invariant and its two facts, for  *)
(* the modules that compose boxes.                                          *)
(***************************************************************************)
(* The only error found after the loop, but for memory, is bad padding in   *)
(* what has just been decrypted.                                            *)
FailureTellsCause ==
  (call.op # "none" /\ call.step = "idle") =>
    \/ status \in {"SUCCESS", "MEMORY_ALLOCATION_ERROR"}
    \/ /\ status = "INVALID_PKCS7_PADDING_ERROR" /\ call.op = "decrypt" /\ Padded
       /\ PaddingRejected(Output, call.full)

WellBehaved ==
  Inductive /\ Follows /\ Returns /\ SizeMatchesOutput /\ FailureTellsCause

LEMMA InductiveStep == Inductive /\ [Next]_vars => Inductive'
<1> SUFFICES ASSUME Inductive, [Next]_vars PROVE Inductive'
  OBVIOUS
<1>1. CASE UNCHANGED vars
  BY <1>1 DEF vars, Inductive, TypeOK, CallShape, Padded, NeedsTemporary
<1>2. QED
  BY <1>1, ProgressKeepsInductive, CallerKeepsInductive DEF Next

(* A step of the call in progress keeps what the call was made with.        *)
LEMMA ProgressKeepsCall ==
  TypeOK /\ Progress =>
    /\ call.step # "idle"
    /\ UNCHANGED <<calls, entry, box.mode, box.key, call.op, call.src, call.dest,
                   call.full, call.rest>>
<1> SUFFICES ASSUME TypeOK, Progress
             PROVE  /\ call.step # "idle"
                    /\ UNCHANGED <<calls, entry, box.mode, box.key, call.op, call.src,
                                   call.dest, call.full, call.rest>>
  OBVIOUS
<1>1. /\ call \in [op : {"none", "encrypt", "decrypt"}, step : Step,
                   src : Buffers, dest : Buffers,
                   full : 0 .. Cells, rest : 0 .. BlockSize - 1,
                   done : 0 .. Cells, cut : BOOLEAN, status : Status]
      /\ box \in [mode : Mode, key : Key, iv : Block]
  BY DEF TypeOK
<1>2. CASE ProcessBlock \/ EncryptPaddedBlock \/ ProcessPartialBlock
  BY <1>1, <1>2 DEF ProcessBlock, EncryptPaddedBlock, ProcessPartialBlock
<1>3. CASE NothingLeft \/ MallocFirstFails \/ FreeFirst \/ RemovePadding \/ RejectPadding
  BY <1>1, <1>3 DEF NothingLeft, MallocFirstFails, FreeFirst, RemovePadding, RejectPadding,
                    LoopDone, Return
<1>4. CASE MallocFirst \/ MallocSecond \/ MallocSecondFails \/ FreeSecond
  BY <1>1, <1>4 DEF MallocFirst, MallocSecond, MallocSecondFails, FreeSecond, LoopDone
<1>5. QED
  BY <1>2, <1>3, <1>4 DEF Progress

LEMMA FailureStep ==
  ASSUME Inductive, Returns, FailureTellsCause, [Next]_vars
  PROVE  FailureTellsCause'
<1> USE DEF FailureTellsCause
<1>1. /\ call \in [op : {"none", "encrypt", "decrypt"}, step : Step,
                   src : Buffers, dest : Buffers,
                   full : 0 .. Cells, rest : 0 .. BlockSize - 1,
                   done : 0 .. Cells, cut : BOOLEAN, status : Status]
      /\ Status = {"SUCCESS", "NULL_ARGUMENT_ERROR", "MEMORY_ALLOCATION_ERROR",
                   "MISSING_PADDING_ERROR", "INVALID_PKCS7_PADDING_ERROR"}
  BY DEF Inductive, TypeOK, Status
<1>2. CASE Caller
  <2>1. call'.op = "none" \/ call'.step = "loop"
    BY <1>1, <1>2, CallerEffect DEF NoCall, Enter
  <2>2. QED
    BY <2>1
<1>3. CASE RejectPadding
  BY <1>1, <1>3 DEF RejectPadding, Return, Padded, Output
<1>4. CASE NothingLeft \/ MallocFirstFails \/ RemovePadding
  BY <1>1, <1>4 DEF NothingLeft, MallocFirstFails, RemovePadding, Return
<1>5. CASE FreeFirst
  <2>1. call.status \in {"SUCCESS", "MEMORY_ALLOCATION_ERROR"}
    BY <1>1, <1>5 DEF FreeFirst, Returns, StatusTellsProgress, Inductive, CallShape
  <2>2. QED
    BY <1>1, <1>5, <2>1 DEF FreeFirst, Return
<1>6. CASE \/ ProcessBlock \/ MallocFirst \/ MallocSecond \/ MallocSecondFails
           \/ EncryptPaddedBlock \/ ProcessPartialBlock \/ FreeSecond
  BY <1>1, <1>6 DEF ProcessBlock, MallocFirst, MallocSecond, MallocSecondFails,
                    EncryptPaddedBlock, ProcessPartialBlock, FreeSecond
<1>7. CASE UNCHANGED vars
  BY <1>7 DEF vars, Padded, Output
<1>8. QED
  BY <1>2, <1>3, <1>4, <1>5, <1>6, <1>7 DEF Next, Progress

LEMMA WellBehavedInit == Init => WellBehaved
<1> SUFFICES ASSUME Init PROVE WellBehaved
  OBVIOUS
<1>1. /\ call.op = "none" /\ call.step = "idle" /\ ~ call.cut
      /\ Inductive
  <2>1. PICK b \in Buffers : call = NoCall(b)
    BY DEF Init
  <2>2. QED
    BY <2>1, InductiveInit DEF NoCall
<1>2. Follows
  BY <1>1 DEF Follows, OnlyOutputIsWritten, BlocksFollowMode, IvIsChained,
              PartialBlockFollowsMode
<1>3. Returns /\ SizeMatchesOutput /\ FailureTellsCause
  BY <1>1 DEF Returns, StatusTellsProgress, SizeIsAnnounced, SizeMatchesOutput,
              FailureTellsCause
<1>4. QED
  BY <1>1, <1>2, <1>3 DEF WellBehaved

LEMMA WellBehavedStep == WellBehaved /\ [Next]_vars => WellBehaved'
  BY InductiveStep, FollowsStep, ReturnsStep, SizeStep, FailureStep DEF WellBehaved
=============================================================================
