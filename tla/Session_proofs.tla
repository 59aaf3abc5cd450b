----------------------------- MODULE Session_proofs -----------------------------
(***************************************************************************)
(* Proofs about Session, for every block size, cipher, mode, set of texts   *)
(* and number of calls.                                                     *)
(*                                                                         *)
(* What is known of one box (Box_proofs) holds of each of the two, because  *)
(* every step of a session is a step of one box or of neither; what is left *)
(* is what relates the two.                                                 *)
(***************************************************************************)
EXTENDS Session, SequenceTheorems, TLAPS

(* The boxes as runs of Box, by a caller that may fill a buffer with        *)
(* anything.                                                                *)
SP == INSTANCE Box_proofs WITH
        box <- sbox, mem <- smem, call <- scall, heap <- sheap, size <- ssize,
        status <- sstatus, calls <- scalls, entry <- sentry, Contents <- Memory

RP == INSTANCE Box_proofs WITH
        box <- rbox, mem <- rmem, call <- rcall, heap <- rheap, size <- rsize,
        status <- rstatus, calls <- rcalls, entry <- rentry, Contents <- Memory

-----------------------------------------------------------------------------
(***************************************************************************)
(* The inductive invariant.                                                *)
(***************************************************************************)
Alike == rbox.mode = sbox.mode /\ rbox.key = sbox.key

(* The text of a draft is in the sender's buffer, or in what its call was   *)
(* given, also when the call is repeated.                                   *)
Drafted ==
  /\ draft = NoMessage => scall.step = "idle"
  /\ draft # NoMessage =>
       /\ draft \in Messages
       /\ scall.op \in {"none", "encrypt"}
       /\ scall.op = "none" => smem["plain"] = draft.cells
       /\ scall.op = "encrypt" =>
            /\ scall.src = "plain" /\ scall.dest = "cipher"
            /\ scall.full = draft.full /\ scall.rest = draft.rest
            /\ sentry.mem["plain"] = draft.cells

(* The text of a message as the encrypting box has processed it.            *)
Sent(mode, e) ==
  [n \in 1 .. Cells |->
     IF n = e.text.full + 1 /\ mode \in PaddedMode
     THEN FillWithPadding(e.text.cells[n], e.text.rest)
     ELSE e.text.cells[n]]

(* What the receiver is handed is the text under the mode, from the iv the  *)
(* message carries as history to the iv the sender went on with.            *)
Posted(mode, key, e) ==
  LET chained == Chained(mode, key, e.iv, Sent(mode, e), e.cells, e.full)
      n == e.full + 1
  IN  /\ e.full = e.text.full + (IF mode \in PaddedMode THEN 1 ELSE 0)
      /\ e.rest = IF mode \in PaddedMode THEN 0 ELSE e.text.rest
      /\ DecryptionFits(e.full, e.rest)
      /\ \A i \in 1 .. e.full :
           Encrypts(mode, key, e.iv, Sent(mode, e), e.cells, i)
      /\ e.rest = 0 => e.after = chained
      /\ e.rest # 0 =>
           /\ \A k \in 1 .. e.rest :
                e.cells[n][k] = XorBlocks(Enc(key, chained), e.text.cells[n])[k]
           /\ e.after = IvAfterPartial(mode, key, chained, "encrypt",
                                       ZeroExtended(e.text.cells[n], e.rest))

Entry == [cells : Memory, full : 0 .. Cells, rest : 0 .. BlockSize - 1,
          text : Messages, iv : Block, after : Block]

Handed ==
  /\ channel \in Seq(Entry)
  /\ \A i \in 1 .. Len(channel) : Posted(rbox.mode, rbox.key, channel[i])

(* The ciphertext loaded is in the receiver's buffer, or in what its call   *)
(* was given.                                                               *)
Received ==
  /\ ~ loaded => rcall.step = "idle"
  /\ loaded =>
       /\ channel # <<>>
       /\ rcall.op \in {"none", "decrypt"}
       /\ rcall.op = "none" => rmem["cipher"] = channel[1].cells
       /\ rcall.op = "decrypt" =>
            /\ rcall.src = "cipher" /\ rcall.dest = "plain"
            /\ rcall.full = channel[1].full /\ rcall.rest = channel[1].rest
            /\ rentry.mem["cipher"] = channel[1].cells

(* Without disturbances the ivs form a chain, from the one the receiver     *)
(* starts from to the one the sender starts from.                           *)
ReceiverStart == IF loaded /\ rcall.op = "decrypt" THEN rentry.iv ELSE rbox.iv

SenderStart ==
  IF draft # NoMessage /\ scall.op = "encrypt" THEN sentry.iv ELSE sbox.iv

Linked ==
  ~ disturbed =>
    /\ channel = <<>> => ReceiverStart = SenderStart
    /\ channel # <<>> =>
         /\ ReceiverStart = channel[1].iv
         /\ channel[Len(channel)].after = SenderStart
         /\ \A i \in 1 .. Len(channel) - 1 : channel[i].after = channel[i + 1].iv

Bounded == composed \in 0 .. MaxMessages /\ loaded \in BOOLEAN /\ disturbed \in BOOLEAN

Related == Alike /\ Drafted /\ Handed /\ Received /\ Linked /\ Bounded

Inv == SP!WellBehaved /\ RP!WellBehaved /\ Related

-----------------------------------------------------------------------------
(***************************************************************************)
(* The steps of the two boxes.                                             *)
(***************************************************************************)
(* The constants of both boxes are as Box_proofs assumes.                   *)
LEMMA BoxConstants ==
  /\ Cells \in Nat \ {0} /\ BlockSize \in Nat \ {0} /\ SizeMod \in Nat \ {0}
  /\ "plain" \in Buffers /\ "cipher" \in Buffers
  BY SizesAssumption, BlockSizeAssumption, SessionAssumption

LEMMA SenderAssumptions ==
  /\ SP!BlockSizeAssumption /\ SP!XorAssumption /\ SP!CipherAssumption
  /\ SP!IncAssumption /\ SP!SizesAssumption /\ SP!CallsAssumption
<1>1. SP!Block = Block /\ SP!Byte = Byte
  BY DEF SP!Block, Block, SP!Byte, Byte
<1>2. QED
  BY <1>1, BlockSizeAssumption, XorAssumption, CipherAssumption, IncAssumption,
     SizesAssumption, SessionAssumption
     DEF SP!BlockSizeAssumption, SP!XorAssumption, SP!CipherAssumption,
         SP!IncAssumption, SP!SizesAssumption, SP!CallsAssumption, Memory

LEMMA ReceiverAssumptions ==
  /\ RP!BlockSizeAssumption /\ RP!XorAssumption /\ RP!CipherAssumption
  /\ RP!IncAssumption /\ RP!SizesAssumption /\ RP!CallsAssumption
<1>1. RP!Block = Block /\ RP!Byte = Byte
  BY DEF RP!Block, Block, RP!Byte, Byte
<1>2. QED
  BY <1>1, BlockSizeAssumption, XorAssumption, CipherAssumption, IncAssumption,
     SizesAssumption, SessionAssumption
     DEF RP!BlockSizeAssumption, RP!XorAssumption, RP!CipherAssumption,
         RP!IncAssumption, RP!SizesAssumption, RP!CallsAssumption, Memory

LEMMA BoxesStart == Init => SP!Init /\ RP!Init
<1>1. S!Init => SP!Init
  BY SizesAssumption DEF S!Init, SP!Init, S!Mode, SP!Mode, S!NoCall, SP!NoCall, Memory
<1>2. R!Init => RP!Init
  BY SizesAssumption DEF R!Init, RP!Init, R!Mode, RP!Mode, R!NoCall, RP!NoCall, Memory
<1>3. QED
  BY <1>1, <1>2 DEF Init

(* A call in progress goes on as it does in Box.                            *)
LEMMA SenderProgresses == S!Progress => SP!Progress
  BY DEF
    S!Progress, SP!Progress, S!ProcessBlock, SP!ProcessBlock, S!NothingLeft,
    SP!NothingLeft, S!MallocFirst, SP!MallocFirst, S!MallocFirstFails,
    SP!MallocFirstFails, S!MallocSecond, SP!MallocSecond, S!MallocSecondFails,
    SP!MallocSecondFails, S!EncryptPaddedBlock, SP!EncryptPaddedBlock,
    S!ProcessPartialBlock, SP!ProcessPartialBlock, S!FreeSecond, SP!FreeSecond,
    S!FreeFirst, SP!FreeFirst, S!RemovePadding, SP!RemovePadding,
    S!RejectPadding, SP!RejectPadding, S!LoopDone, SP!LoopDone,
    S!NeedsTemporary, SP!NeedsTemporary, S!First, SP!First, S!Second,
    SP!Second, S!Return, SP!Return, S!Store, SP!Store, S!Crypt, SP!Crypt,
    S!EncryptBlock, SP!EncryptBlock, S!EncryptBlockEcb, SP!EncryptBlockEcb,
    S!EncryptBlockCbc, SP!EncryptBlockCbc, S!EncryptBlockCfb,
    SP!EncryptBlockCfb, S!EncryptBlockOfb, SP!EncryptBlockOfb,
    S!EncryptBlockCtr, SP!EncryptBlockCtr, S!DecryptBlock, SP!DecryptBlock,
    S!DecryptBlockEcb, SP!DecryptBlockEcb, S!DecryptBlockCbc,
    SP!DecryptBlockCbc, S!DecryptBlockCfb, SP!DecryptBlockCfb, S!XorBlocks,
    SP!XorBlocks, S!ZeroExtended, SP!ZeroExtended, S!Overwritten,
    SP!Overwritten, S!FillWithPadding, SP!FillWithPadding, S!Padded, SP!Padded,
    S!PaddedMode, SP!PaddedMode, S!PaddingAccepted, SP!PaddingAccepted,
    S!PaddingRejected, SP!PaddingRejected, S!ScanMismatch, SP!ScanMismatch,
    S!ScanLeavesBuffer, SP!ScanLeavesBuffer, S!ClaimedPadding,
    SP!ClaimedPadding, S!ByteAt, SP!ByteAt

LEMMA ReceiverProgresses == R!Progress => RP!Progress
  BY DEF
    R!Progress, RP!Progress, R!ProcessBlock, RP!ProcessBlock, R!NothingLeft,
    RP!NothingLeft, R!MallocFirst, RP!MallocFirst, R!MallocFirstFails,
    RP!MallocFirstFails, R!MallocSecond, RP!MallocSecond, R!MallocSecondFails,
    RP!MallocSecondFails, R!EncryptPaddedBlock, RP!EncryptPaddedBlock,
    R!ProcessPartialBlock, RP!ProcessPartialBlock, R!FreeSecond, RP!FreeSecond,
    R!FreeFirst, RP!FreeFirst, R!RemovePadding, RP!RemovePadding,
    R!RejectPadding, RP!RejectPadding, R!LoopDone, RP!LoopDone,
    R!NeedsTemporary, RP!NeedsTemporary, R!First, RP!First, R!Second,
    RP!Second, R!Return, RP!Return, R!Store, RP!Store, R!Crypt, RP!Crypt,
    R!EncryptBlock, RP!EncryptBlock, R!EncryptBlockEcb, RP!EncryptBlockEcb,
    R!EncryptBlockCbc, RP!EncryptBlockCbc, R!EncryptBlockCfb,
    RP!EncryptBlockCfb, R!EncryptBlockOfb, RP!EncryptBlockOfb,
    R!EncryptBlockCtr, RP!EncryptBlockCtr, R!DecryptBlock, RP!DecryptBlock,
    R!DecryptBlockEcb, RP!DecryptBlockEcb, R!DecryptBlockCbc,
    RP!DecryptBlockCbc, R!DecryptBlockCfb, RP!DecryptBlockCfb, R!XorBlocks,
    RP!XorBlocks, R!ZeroExtended, RP!ZeroExtended, R!Overwritten,
    RP!Overwritten, R!FillWithPadding, RP!FillWithPadding, R!Padded, RP!Padded,
    R!PaddedMode, RP!PaddedMode, R!PaddingAccepted, RP!PaddingAccepted,
    R!PaddingRejected, RP!PaddingRejected, R!ScanMismatch, RP!ScanMismatch,
    R!ScanLeavesBuffer, RP!ScanLeavesBuffer, R!ClaimedPadding,
    RP!ClaimedPadding, R!ByteAt, RP!ByteAt

(* A buffer is filled, or a call begins.                                    *)
LEMMA SenderCalls ==
  ASSUME NEW full \in 0 .. Cells, NEW rest \in 0 .. BlockSize - 1,
         NEW cells \in Memory
  PROVE  /\ S!FillBuffer("plain", cells) => SP!Caller
         /\ S!BeginEncrypt("plain", "cipher", full, rest) => SP!Caller
<1>1. S!FillBuffer("plain", cells) => SP!FillBuffer("plain", cells)
  BY DEF S!FillBuffer, SP!FillBuffer, S!NoCall, SP!NoCall
<1>2. S!BeginEncrypt("plain", "cipher", full, rest)
        => SP!BeginEncrypt("plain", "cipher", full, rest)
  BY DEF S!BeginEncrypt, SP!BeginEncrypt, S!Enter, SP!Enter, S!Called, SP!Called,
         S!EncryptionFits, SP!EncryptionFits, S!EncryptedSize, SP!EncryptedSize,
         S!InBytes, SP!InBytes, S!PaddedMode, SP!PaddedMode
<1>3. QED
  BY <1>1, <1>2, BoxConstants DEF SP!Caller

LEMMA ReceiverCalls ==
  ASSUME NEW full \in 0 .. Cells, NEW rest \in 0 .. BlockSize - 1,
         NEW cells \in Memory
  PROVE  /\ R!FillBuffer("cipher", cells) => RP!Caller
         /\ R!BeginDecrypt("cipher", "plain", full, rest) => RP!Caller
<1>1. R!FillBuffer("cipher", cells) => RP!FillBuffer("cipher", cells)
  BY DEF R!FillBuffer, RP!FillBuffer, R!NoCall, RP!NoCall
<1>2. R!BeginDecrypt("cipher", "plain", full, rest)
        => RP!BeginDecrypt("cipher", "plain", full, rest)
  BY DEF R!BeginDecrypt, RP!BeginDecrypt, R!Enter, RP!Enter, R!Called, RP!Called,
         R!LacksPadding, RP!LacksPadding, R!DecryptionFits, RP!DecryptionFits,
         R!InBytes, RP!InBytes, R!PaddedMode, RP!PaddedMode
<1>3. QED
  BY <1>1, <1>2, BoxConstants DEF RP!Caller

(* The operators of both instances of Box are those of this module.         *)
LEMMA SameOperators ==
  ASSUME NEW mode, NEW key, NEW iv, NEW P, NEW C, NEW n, NEW op
  PROVE  /\ SP!Chained(mode, key, iv, P, C, n) = Chained(mode, key, iv, P, C, n)
         /\ RP!Chained(mode, key, iv, P, C, n) = Chained(mode, key, iv, P, C, n)
         /\ SP!Encrypts(mode, key, iv, P, C, n) <=> Encrypts(mode, key, iv, P, C, n)
         /\ RP!Encrypts(mode, key, iv, P, C, n) <=> Encrypts(mode, key, iv, P, C, n)
         /\ SP!IvAfterPartial(mode, key, iv, op, P) = IvAfterPartial(mode, key, iv, op, P)
         /\ RP!IvAfterPartial(mode, key, iv, op, P) = IvAfterPartial(mode, key, iv, op, P)
         /\ SP!XorBlocks(P, C) = XorBlocks(P, C) /\ RP!XorBlocks(P, C) = XorBlocks(P, C)
         /\ SP!ZeroExtended(P, n) = ZeroExtended(P, n)
         /\ RP!ZeroExtended(P, n) = ZeroExtended(P, n)
         /\ SP!Overwritten(P, C, n) = Overwritten(P, C, n)
         /\ RP!Overwritten(P, C, n) = Overwritten(P, C, n)
         /\ SP!FillWithPadding(P, n) = FillWithPadding(P, n)
         /\ RP!FillWithPadding(P, n) = FillWithPadding(P, n)
         /\ RP!InBytes(n, op) = InBytes(n, op)
         /\ RP!ClaimedPadding(P, n) = ClaimedPadding(P, n)
         /\ RP!PaddingRejected(P, n) <=> PaddingRejected(P, n)
         /\ SP!PaddedMode = PaddedMode /\ RP!PaddedMode = PaddedMode
         /\ SP!Mode = Mode /\ RP!Mode = Mode
<1>1. /\ SP!XorBlocks(P, C) = XorBlocks(P, C) /\ RP!XorBlocks(P, C) = XorBlocks(P, C)
      /\ SP!ZeroExtended(P, n) = ZeroExtended(P, n)
      /\ RP!ZeroExtended(P, n) = ZeroExtended(P, n)
      /\ SP!Overwritten(P, C, n) = Overwritten(P, C, n)
      /\ RP!Overwritten(P, C, n) = Overwritten(P, C, n)
      /\ SP!FillWithPadding(P, n) = FillWithPadding(P, n)
      /\ RP!FillWithPadding(P, n) = FillWithPadding(P, n)
  BY DEF SP!XorBlocks, RP!XorBlocks, XorBlocks, SP!ZeroExtended, RP!ZeroExtended,
         ZeroExtended, SP!Overwritten, RP!Overwritten, Overwritten,
         SP!FillWithPadding, RP!FillWithPadding, FillWithPadding
<1>2. /\ SP!Chained(mode, key, iv, P, C, n) = Chained(mode, key, iv, P, C, n)
      /\ RP!Chained(mode, key, iv, P, C, n) = Chained(mode, key, iv, P, C, n)
  BY DEF SP!Chained, RP!Chained, Chained, SP!XorBlocks, RP!XorBlocks, XorBlocks
<1>3. /\ SP!Encrypts(mode, key, iv, P, C, n) <=> Encrypts(mode, key, iv, P, C, n)
      /\ RP!Encrypts(mode, key, iv, P, C, n) <=> Encrypts(mode, key, iv, P, C, n)
  BY DEF SP!Encrypts, RP!Encrypts, Encrypts, SP!Chained, RP!Chained, Chained,
         SP!XorBlocks, RP!XorBlocks, XorBlocks
<1>4. /\ SP!IvAfterPartial(mode, key, iv, op, P) = IvAfterPartial(mode, key, iv, op, P)
      /\ RP!IvAfterPartial(mode, key, iv, op, P) = IvAfterPartial(mode, key, iv, op, P)
  BY DEF SP!IvAfterPartial, RP!IvAfterPartial, IvAfterPartial, SP!XorBlocks,
         RP!XorBlocks, XorBlocks
<1>5. /\ RP!InBytes(n, op) = InBytes(n, op)
      /\ RP!ClaimedPadding(P, n) = ClaimedPadding(P, n)
      /\ RP!PaddingRejected(P, n) <=> PaddingRejected(P, n)
      /\ SP!PaddedMode = PaddedMode /\ RP!PaddedMode = PaddedMode
      /\ SP!Mode = Mode /\ RP!Mode = Mode
  BY DEF RP!InBytes, InBytes, RP!ClaimedPadding, ClaimedPadding, RP!PaddingRejected,
         PaddingRejected, RP!ScanMismatch, ScanMismatch, RP!ScanLeavesBuffer,
         ScanLeavesBuffer, RP!ByteAt, ByteAt, SP!PaddedMode, RP!PaddedMode, PaddedMode,
         SP!Mode, RP!Mode, Mode
<1>6. QED
  BY <1>1, <1>2, <1>3, <1>4, <1>5

(* What is known of the boxes' types, in the terms of this module.          *)
CallRecord ==
  [op : {"none", "encrypt", "decrypt"}, step : SP!Step, src : Buffers, dest : Buffers,
   full : 0 .. Cells, rest : 0 .. BlockSize - 1, done : 0 .. Cells, cut : BOOLEAN,
   status : SP!Status]

LEMMA BoxTypes ==
  ASSUME Inv
  PROVE  /\ sbox \in [mode : Mode, key : Key, iv : Block]
         /\ rbox \in [mode : Mode, key : Key, iv : Block]
         /\ smem \in [Buffers -> Memory] /\ rmem \in [Buffers -> Memory]
         /\ scall \in CallRecord /\ rcall \in CallRecord
         /\ sentry.mem \in [Buffers -> Memory] /\ rentry.mem \in [Buffers -> Memory]
         /\ sentry.iv \in Block /\ rentry.iv \in Block
         /\ scall.op = "none" => scall.step = "idle"
         /\ rcall.op = "none" => rcall.step = "idle"
<1>1. /\ SP!Mode = Mode /\ SP!Block = Block /\ SP!Memory = Memory
      /\ RP!Mode = Mode /\ RP!Block = Block /\ RP!Memory = Memory
      /\ RP!Step = SP!Step /\ RP!Status = SP!Status
  BY DEF SP!Mode, Mode, SP!Block, Block, SP!Byte, Byte, SP!Memory, Memory, RP!Mode,
         RP!Block, RP!Byte, RP!Memory, RP!Step, SP!Step, RP!Status, SP!Status
<1>2. SP!TypeOK /\ SP!CallShape /\ RP!TypeOK /\ RP!CallShape
  BY DEF Inv, SP!WellBehaved, SP!Inductive, RP!WellBehaved, RP!Inductive
<1>3. /\ scall.op = "none" => scall.step = "idle"
      /\ rcall.op = "none" => rcall.step = "idle"
  BY <1>2 DEF SP!CallShape, RP!CallShape
<1>4. /\ sbox \in [mode : Mode, key : Key, iv : Block]
      /\ smem \in [Buffers -> Memory] /\ scall \in CallRecord
      /\ sentry.mem \in [Buffers -> Memory] /\ sentry.iv \in Block
  BY <1>1, <1>2 DEF SP!TypeOK, CallRecord
<1>5. /\ rbox \in [mode : Mode, key : Key, iv : Block]
      /\ rmem \in [Buffers -> Memory] /\ rcall \in CallRecord
      /\ rentry.mem \in [Buffers -> Memory] /\ rentry.iv \in Block
  BY <1>1, <1>2 DEF RP!TypeOK, CallRecord
<1>6. QED
  BY <1>3, <1>4, <1>5

(* The head of the channel.                                                 *)
LEMMA HeadOfChannel ==
  ASSUME Handed, channel # <<>>
  PROVE  /\ Len(channel) \in Nat \ {0} /\ channel \in Seq(Entry)
         /\ Head(channel) = channel[1] /\ channel[1] \in Entry
         /\ Posted(rbox.mode, rbox.key, channel[1])
  BY DEF Handed

(* What a step of the call in progress keeps.                               *)
LEMMA BoxesKeepCalls ==
  ASSUME Inv
  PROVE  /\ S!Progress =>
              /\ SP!Progress /\ scall.step # "idle"
              /\ UNCHANGED <<sentry, sbox.mode, sbox.key, scall.op, scall.src,
                             scall.dest, scall.full, scall.rest>>
         /\ R!Progress =>
              /\ RP!Progress /\ rcall.step # "idle"
              /\ UNCHANGED <<rentry, rbox.mode, rbox.key, rcall.op, rcall.src,
                             rcall.dest, rcall.full, rcall.rest>>
<1>1. SP!TypeOK /\ RP!TypeOK
  BY DEF Inv, SP!WellBehaved, SP!Inductive, RP!WellBehaved, RP!Inductive
<1>2. S!Progress =>
        /\ SP!Progress /\ scall.step # "idle"
        /\ UNCHANGED <<sentry, sbox.mode, sbox.key, scall.op, scall.src,
                       scall.dest, scall.full, scall.rest>>
  BY <1>1, SenderProgresses, SenderAssumptions, SP!ProgressKeepsCall
<1>3. R!Progress =>
        /\ RP!Progress /\ rcall.step # "idle"
        /\ UNCHANGED <<rentry, rbox.mode, rbox.key, rcall.op, rcall.src,
                       rcall.dest, rcall.full, rcall.rest>>
  BY <1>1, ReceiverProgresses, ReceiverAssumptions, RP!ProgressKeepsCall
<1>4. QED
  BY <1>2, <1>3

(* Every step of a session is a step of each box, or none.                  *)
LEMMA BoxSteps ==
  ASSUME Inv, [Next]_vars
  PROVE  /\ SP!Caller \/ SP!Progress \/ UNCHANGED svars
         /\ RP!Caller \/ RP!Progress \/ UNCHANGED rvars
<1> USE DEF Inv, Related
<1>1. ASSUME NEW m \in Messages, Compose(m)
      PROVE  SP!Caller /\ UNCHANGED rvars
  <2>1. m.cells \in Memory /\ 0 \in 0 .. Cells /\ 0 \in 0 .. BlockSize - 1
    BY SessionAssumption, BoxConstants
  <2>2. QED
    BY <1>1, <2>1, SenderCalls DEF Compose
<1>2. CASE Encrypt \/ EncryptAgain
  <2>1. draft \in Messages /\ S!BeginEncrypt("plain", "cipher", draft.full, draft.rest)
    BY <1>2 DEF Encrypt, EncryptAgain, Drafted
  <2>2. draft.cells \in Memory /\ draft.full \in 0 .. Cells
        /\ draft.rest \in 0 .. BlockSize - 1
    BY <2>1, SessionAssumption, BoxConstants
  <2>3. SP!Caller
    BY <2>1, <2>2, SenderCalls
  <2>4. QED
    BY <1>2, <2>3 DEF Encrypt, EncryptAgain
<1>3. CASE EncryptProgress
  BY <1>3, SenderProgresses DEF EncryptProgress
<1>4. CASE Post
  BY <1>4 DEF Post
<1>5. CASE Load
  <2>1. /\ Head(channel).cells \in Memory /\ 0 \in 0 .. Cells
        /\ 0 \in 0 .. BlockSize - 1
    BY <1>5, HeadOfChannel, BoxConstants DEF Load, Entry
  <2>2. QED
    BY <1>5, <2>1, ReceiverCalls DEF Load
<1>6. CASE Decrypt \/ DecryptAgain
  <2>1. channel # <<>>
        /\ R!BeginDecrypt("cipher", "plain", Head(channel).full, Head(channel).rest)
    BY <1>6 DEF Decrypt, DecryptAgain, Received
  <2>2. /\ Head(channel).cells \in Memory /\ Head(channel).full \in 0 .. Cells
        /\ Head(channel).rest \in 0 .. BlockSize - 1
    BY <2>1, HeadOfChannel DEF Entry
  <2>3. RP!Caller
    BY <2>1, <2>2, ReceiverCalls
  <2>4. QED
    BY <1>6, <2>3 DEF Decrypt, DecryptAgain
<1>7. CASE DecryptProgress
  BY <1>7, ReceiverProgresses DEF DecryptProgress
<1>8. CASE Take
  BY <1>8 DEF Take
<1>9. CASE UNCHANGED vars
  BY <1>9 DEF vars
<1>10. QED
  BY <1>1, <1>2, <1>3, <1>4, <1>5, <1>6, <1>7, <1>8, <1>9 DEF Next

LEMMA BoxesStayWellBehaved ==
  ASSUME Inv, [Next]_vars
  PROVE  SP!WellBehaved' /\ RP!WellBehaved'
<1>1. [SP!Next]_(SP!vars)
  BY BoxSteps DEF SP!Next, SP!vars, svars
<1>2. [RP!Next]_(RP!vars)
  BY BoxSteps DEF RP!Next, RP!vars, rvars
<1>3. QED
  BY <1>1, <1>2, SenderAssumptions, ReceiverAssumptions, SP!WellBehavedStep,
     RP!WellBehavedStep DEF Inv

-----------------------------------------------------------------------------
(***************************************************************************)
(* Encryption: what is handed over.                                        *)
(***************************************************************************)
Message ==
  [cells |-> smem["cipher"], full |-> scall.done,
   rest |-> IF scall.cut THEN scall.rest ELSE 0,
   text |-> draft, iv |-> sentry.iv, after |-> sbox.iv]

(* A call that has succeeded has processed all of the draft.                *)
LEMMA SentIsComplete ==
  ASSUME Inv, Post
  PROVE  /\ draft \in Messages /\ scall.op = "encrypt"
         /\ scall.full = draft.full /\ scall.rest = draft.rest
         /\ scall.done = draft.full + (IF sbox.mode \in PaddedMode THEN 1 ELSE 0)
         /\ scall.cut = (sbox.mode \notin PaddedMode /\ draft.rest # 0)
         /\ SP!Plaintext = Sent(sbox.mode, Message)
         /\ SP!Ciphertext = Message.cells
<1>1. /\ draft \in Messages /\ scall.op = "encrypt" /\ scall.src = "plain"
      /\ scall.dest = "cipher" /\ scall.full = draft.full /\ scall.rest = draft.rest
      /\ sentry.mem["plain"] = draft.cells
  BY DEF Inv, Related, Drafted, Post
<1>2. SP!PaddedMode = PaddedMode
  BY SameOperators
<1>3. SP!Padded <=> sbox.mode \in PaddedMode
  BY <1>2 DEF SP!Padded
<1>4. SP!Complete
  BY <1>1 DEF Inv, SP!WellBehaved, SP!Returns, SP!StatusTellsProgress, Post
<1>5. /\ scall.done = draft.full + (IF sbox.mode \in PaddedMode THEN 1 ELSE 0)
      /\ scall.cut = (sbox.mode \notin PaddedMode /\ draft.rest # 0)
  BY <1>1, <1>3, <1>4 DEF SP!Complete
<1>6. \A n \in 1 .. Cells :
        SP!FillWithPadding(draft.cells[n], draft.rest)
          = FillWithPadding(draft.cells[n], draft.rest)
  BY SameOperators
<1>7. SP!Input = Sent(sbox.mode, Message)
  BY <1>1, <1>3, <1>6 DEF SP!Input, Sent, Message
<1>8. SP!Plaintext = Sent(sbox.mode, Message) /\ SP!Ciphertext = Message.cells
  BY <1>1, <1>7 DEF SP!Plaintext, SP!Ciphertext, SP!Output, Message
<1>9. QED
  BY <1>1, <1>5, <1>8

LEMMA PostIsRight ==
  ASSUME Inv, Post
  PROVE  Message \in Entry /\ Posted(rbox.mode, rbox.key, Message)
<1> DEFINE mode == sbox.mode
           key == sbox.key
           e == Message
           P == Sent(mode, e)
<1>1. /\ draft \in Messages /\ scall.op = "encrypt"
      /\ scall.full = draft.full /\ scall.rest = draft.rest
      /\ scall.done = draft.full + (IF mode \in PaddedMode THEN 1 ELSE 0)
      /\ scall.cut = (mode \notin PaddedMode /\ draft.rest # 0)
      /\ SP!Plaintext = P /\ SP!Ciphertext = e.cells
  BY SentIsComplete
<1>2. /\ scall \in CallRecord /\ smem \in [Buffers -> Memory] /\ sentry.iv \in Block
      /\ sbox.iv \in Block /\ Cells \in Nat /\ BlockSize \in Nat \ {0}
      /\ draft.full \in 0 .. Cells - 1 /\ draft.rest \in 0 .. BlockSize - 1
      /\ draft.cells \in Memory /\ "cipher" \in Buffers
  BY <1>1, BoxTypes, BoxConstants, SessionAssumption
<1>3. /\ e.cells = smem["cipher"] /\ e.text = draft /\ e.iv = sentry.iv
      /\ e.after = sbox.iv /\ e.full = scall.done
      /\ e.rest = IF scall.cut THEN scall.rest ELSE 0
  BY DEF Message
<1>4. e \in Entry
  BY <1>1, <1>2 DEF Message, Entry, CallRecord
<1>5. /\ e.full = e.text.full + (IF mode \in PaddedMode THEN 1 ELSE 0)
      /\ e.rest = IF mode \in PaddedMode THEN 0 ELSE e.text.rest
  BY <1>1, <1>2, <1>3
<1>6. DecryptionFits(e.full, e.rest)
  <2>1. SP!EncryptionFits(mode, draft.full, draft.rest)
    BY <1>1 DEF Inv, SP!WellBehaved, SP!Inductive, SP!CallShape
  <2>2. SP!PaddedMode = PaddedMode
    BY SameOperators
  <2>3. QED
    BY <1>2, <1>3, <1>5, <2>1, <2>2 DEF SP!EncryptionFits, DecryptionFits
<1>7. /\ SP!BlocksFollowMode /\ SP!IvIsChained /\ SP!PartialBlockFollowsMode
  BY DEF Inv, SP!WellBehaved, SP!Follows
<1>8. \A i \in 1 .. e.full : Encrypts(mode, key, e.iv, P, e.cells, i)
  <2>1. \A i \in 1 .. e.full :
          SP!Encrypts(mode, key, sentry.iv, SP!Plaintext, SP!Ciphertext, i)
    BY <1>1, <1>3, <1>7 DEF SP!BlocksFollowMode
  <2> HIDE DEF mode, key, e, P
  <2>2. QED
    BY <1>1, <1>3, <2>1, SameOperators
<1> DEFINE chained == Chained(mode, key, e.iv, P, e.cells, e.full)
           n == e.full + 1
<1>9. SP!ChainedAfter(e.full) = chained
  <2>1. SP!ChainedAfter(e.full)
          = SP!Chained(mode, key, sentry.iv, SP!Plaintext, SP!Ciphertext, e.full)
    BY DEF SP!ChainedAfter
  <2> HIDE DEF mode, key, e, P
  <2>2. QED
    BY <1>1, <1>3, <2>1, SameOperators
<1>10. e.rest = 0 => e.after = chained
  BY <1>1, <1>3, <1>7, <1>9 DEF SP!IvIsChained
<1>11. ASSUME e.rest # 0
       PROVE  /\ \A k \in 1 .. e.rest :
                   e.cells[n][k] = XorBlocks(Enc(key, chained), e.text.cells[n])[k]
              /\ e.after = IvAfterPartial(mode, key, chained, "encrypt",
                                          ZeroExtended(e.text.cells[n], e.rest))
  <2> DEFINE stream == Enc(key, chained)
             input == e.text.cells[n]
             old == sentry.mem["cipher"][n]
  <2>1. /\ scall.cut /\ e.full = scall.full /\ e.rest = scall.rest
        /\ scall.src = "plain" /\ scall.dest = "cipher"
        /\ sentry.mem["plain"] = draft.cells
    <3>1. scall.cut
      BY <1>3, <1>11
    <3>2. /\ scall.src = "plain" /\ scall.dest = "cipher"
          /\ sentry.mem["plain"] = draft.cells
      BY <1>1 DEF Inv, Related, Drafted, Post
    <3>3. mode \notin PaddedMode
      BY <1>1, <3>1
    <3>4. scall.done = draft.full
      BY <1>1, <1>2, <3>3
    <3>5. e.full = scall.full /\ e.rest = scall.rest
      BY <1>1, <1>3, <3>1, <3>4
    <3>6. QED
      BY <3>1, <3>2, <3>5
  <2>2. /\ e.cells[n] = SP!Overwritten(old, SP!XorBlocks(stream, input), e.rest)
        /\ e.after = SP!IvAfterPartial(mode, key, chained, "encrypt",
                                       SP!ZeroExtended(input, e.rest))
    BY <1>1, <1>3, <1>7, <1>9, <2>1 DEF SP!PartialBlockFollowsMode, SP!Output
  <2> HIDE DEF mode, key, e, chained, stream, input, old, n
  <2>3. /\ SP!XorBlocks(stream, input) = XorBlocks(stream, input)
        /\ SP!ZeroExtended(input, e.rest) = ZeroExtended(input, e.rest)
        /\ SP!Overwritten(old, XorBlocks(stream, input), e.rest)
             = Overwritten(old, XorBlocks(stream, input), e.rest)
        /\ SP!IvAfterPartial(mode, key, chained, "encrypt", ZeroExtended(input, e.rest))
             = IvAfterPartial(mode, key, chained, "encrypt", ZeroExtended(input, e.rest))
    BY SameOperators
  <2>4. e.cells[n] = Overwritten(old, XorBlocks(stream, input), e.rest)
    BY <2>2, <2>3
  <2>5. \A k \in 1 .. e.rest : e.cells[n][k] = XorBlocks(stream, input)[k]
    <3>1. e.rest \in 0 .. BlockSize - 1
      BY <1>2, <2>1 DEF CallRecord
    <3>2. QED
      BY <1>2, <2>4, <3>1 DEF Overwritten
  <2>6. QED
    BY <2>2, <2>3, <2>5 DEF stream, input
<1>12. Posted(mode, key, e)
  BY <1>5, <1>6, <1>8, <1>10, <1>11 DEF Posted
<1>13. mode = rbox.mode /\ key = rbox.key
  BY DEF Inv, Related, Alike
<1>14. QED
  BY <1>4, <1>12, <1>13

-----------------------------------------------------------------------------
(***************************************************************************)
(* Decryption: what comes back.                                            *)
(***************************************************************************)
LEMMA FilledBlockType ==
  ASSUME NEW b \in Block, NEW n \in 0 .. BlockSize - 1
  PROVE  FillWithPadding(b, n) \in Block
<1>1. SP!Block = Block
  BY DEF SP!Block, Block, SP!Byte, Byte
<1>2. SP!FillWithPadding(b, n) \in Block
  BY <1>1, SenderAssumptions, SP!CutBlocksType
<1>3. QED
  BY <1>2, SameOperators

LEMMA SentType ==
  ASSUME NEW mode, NEW e \in Entry
  PROVE  Sent(mode, e) \in [1 .. Cells -> Block]
<1>1. /\ e.text.cells \in [1 .. Cells -> Block] /\ e.text.rest \in 0 .. BlockSize - 1
  BY SessionAssumption DEF Entry, Memory
<1>2. ASSUME NEW n \in 1 .. Cells
      PROVE  FillWithPadding(e.text.cells[n], e.text.rest) \in Block
  BY <1>1, FilledBlockType
<1>3. QED
  BY <1>1, <1>2 DEF Sent

(* A call that has returned, with or without an error, has decrypted the    *)
(* full blocks it was given.                                                *)
LEMMA DecryptedBlocks ==
  ASSUME Inv, Returned
  PROVE  /\ channel[1] \in Entry /\ Posted(rbox.mode, rbox.key, channel[1])
         /\ Head(channel) = channel[1]
         /\ rcall.full = channel[1].full /\ rcall.rest = channel[1].rest
         /\ rcall.done = channel[1].full
         /\ rmem["plain"] \in [1 .. Cells -> Block] /\ RP!Input \in [1 .. Cells -> Block]
         /\ \A i \in 1 .. channel[1].full :
              /\ RP!Input[i] = channel[1].cells[i]
              /\ Encrypts(rbox.mode, rbox.key, rentry.iv, rmem["plain"], RP!Input, i)
<1> DEFINE e == channel[1]
<1>1. /\ channel # <<>> /\ rcall.op = "decrypt" /\ rcall.step = "idle"
      /\ rcall.src = "cipher" /\ rcall.dest = "plain"
      /\ rcall.full = e.full /\ rcall.rest = e.rest
      /\ rentry.mem["cipher"] = e.cells
  BY DEF Inv, Related, Received, Returned
<1>2. /\ e \in Entry /\ Posted(rbox.mode, rbox.key, e) /\ Head(channel) = e
  BY <1>1, HeadOfChannel DEF Inv, Related
<1>3. /\ rcall \in CallRecord /\ rmem["plain"] \in [1 .. Cells -> Block]
      /\ e.cells \in [1 .. Cells -> Block] /\ e.full \in 0 .. Cells
      /\ rcall.rest \in 0 .. BlockSize - 1 /\ rcall.full \in Nat /\ Cells \in Nat
  BY <1>1, <1>2, BoxTypes, BoxConstants DEF Entry, Memory, CallRecord
<1>4. rcall.done = e.full
  <2>1. RP!Complete \/ RP!OnlyFullBlocks
    BY <1>1 DEF Inv, RP!WellBehaved, RP!Returns, RP!StatusTellsProgress
  <2>2. QED
    BY <1>1, <1>3, <2>1 DEF RP!Complete, RP!OnlyFullBlocks
<1>5. /\ RP!Input = [n \in 1 .. Cells |->
                       IF n = e.full + 1 /\ RP!Padded
                       THEN RP!FillWithPadding(e.cells[n], rcall.rest) ELSE e.cells[n]]
      /\ RP!Plaintext = rmem["plain"] /\ RP!Ciphertext = RP!Input
  BY <1>1 DEF RP!Input, RP!Plaintext, RP!Ciphertext, RP!Output
<1>6. RP!Input \in [1 .. Cells -> Block]
  <2>1. \A n \in 1 .. Cells :
          RP!FillWithPadding(e.cells[n], rcall.rest) = FillWithPadding(e.cells[n], rcall.rest)
    BY SameOperators
  <2>2. \A n \in 1 .. Cells : FillWithPadding(e.cells[n], rcall.rest) \in Block
    BY <1>3, FilledBlockType
  <2>3. QED
    BY <1>3, <1>5, <2>1, <2>2
<1>7. \A i \in 1 .. e.full : RP!Input[i] = e.cells[i]
  BY <1>3, <1>5
<1>8. \A i \in 1 .. e.full :
        Encrypts(rbox.mode, rbox.key, rentry.iv, rmem["plain"], RP!Input, i)
  <2>1. \A i \in 1 .. e.full :
          RP!Encrypts(rbox.mode, rbox.key, rentry.iv, RP!Plaintext, RP!Ciphertext, i)
    BY <1>1, <1>4 DEF Inv, RP!WellBehaved, RP!Follows, RP!BlocksFollowMode
  <2>2. QED
    BY <1>5, <2>1, SameOperators
<1>9. QED
  BY <1>1, <1>2, <1>3, <1>4, <1>6, <1>7, <1>8

(* From the iv of encryption, the blocks decrypted are those encrypted, and *)
(* the value chained to what follows is the sender's.                       *)
LEMMA DecryptedIsSent ==
  ASSUME Inv, Returned, rentry.iv = Head(channel).iv
  PROVE  LET e == channel[1] IN
         /\ \A i \in 1 .. e.full : rmem["plain"][i] = Sent(rbox.mode, e)[i]
         /\ Chained(rbox.mode, rbox.key, rentry.iv, rmem["plain"], RP!Input, e.full)
              = Chained(rbox.mode, rbox.key, e.iv, Sent(rbox.mode, e), e.cells, e.full)
         /\ Chained(rbox.mode, rbox.key, rentry.iv, rmem["plain"], RP!Input, e.full)
              \in Block
<1> DEFINE e == channel[1]
           mode == rbox.mode
           key == rbox.key
           iv == rentry.iv
           P == Sent(mode, e)
           C == e.cells
           P2 == rmem["plain"]
           C2 == RP!Input
           m == e.full
<1>1. /\ e \in Entry /\ Posted(mode, key, e) /\ iv = e.iv
      /\ P2 \in [1 .. Cells -> Block] /\ C2 \in [1 .. Cells -> Block]
      /\ \A i \in 1 .. m : C2[i] = C[i] /\ Encrypts(mode, key, iv, P2, C2, i)
  BY DecryptedBlocks
<1>2. /\ mode \in Mode /\ key \in Key /\ iv \in Block /\ Cells \in Nat
      /\ m \in 0 .. Cells /\ C \in [1 .. Cells -> Block] /\ P \in [1 .. Cells -> Block]
  BY <1>1, BoxTypes, BoxConstants, SentType DEF Entry, Memory
<1>3. \A i \in 1 .. m : Encrypts(mode, key, iv, P, C, i)
  BY <1>1 DEF Posted
<1> HIDE DEF e, mode, key, iv, P, C, P2, C2, m
<1>4. \A i \in 1 .. m : P2[i] = P[i]
  <2>1. /\ SP!Agree(C2, C, m)
        /\ SP!EncryptsFirst(mode, key, iv, P, C, m)
        /\ SP!EncryptsFirst(mode, key, iv, P2, C2, m)
    BY <1>1, <1>3, SameOperators DEF SP!Agree, SP!EncryptsFirst
  <2>2. /\ mode \in SP!Mode /\ key \in Key /\ iv \in SP!Block /\ Cells \in Nat
        /\ P \in [1 .. Cells -> SP!Block] /\ C \in [1 .. Cells -> SP!Block]
        /\ P2 \in [1 .. Cells -> SP!Block] /\ C2 \in [1 .. Cells -> SP!Block]
        /\ m \in 0 .. Cells
    BY <1>1, <1>2 DEF SP!Block, Block, SP!Byte, Byte, SP!Mode, Mode
  <2>3. SP!Agree(P2, P, m)
    BY <2>1, <2>2, SenderAssumptions, SP!CiphertextDecidesText, Zenon
  <2>4. QED
    BY <2>3 DEF SP!Agree
<1>5. Chained(mode, key, iv, P2, C2, m) = Chained(mode, key, iv, P, C, m)
  <2>1. m # 0 => P2[m] = P[m] /\ C2[m] = C[m]
    BY <1>1, <1>2, <1>4
  <2>2. QED
    BY <1>2, <2>1 DEF Chained, Mode
<1>6. Chained(mode, key, iv, P2, C2, m) \in Block
  <2>1. SP!Block = Block /\ SP!Mode = Mode
    BY DEF SP!Block, Block, SP!Byte, Byte, SP!Mode, Mode
  <2>2. SP!Chained(mode, key, iv, P2, C2, m) \in Block
    BY <1>1, <1>2, <2>1, SenderAssumptions, SP!ChainedType
  <2>3. QED
    BY <2>2, SameOperators
<1>7. QED
  BY <1>1, <1>4, <1>5, <1>6 DEF e, mode, key, iv, P, C, P2, C2, m

(* A call that found its iv reports success: it is never the padding that   *)
(* it takes for invalid.                                                    *)
LEMMA SuccessAfterSent ==
  ASSUME Inv, Returned, rstatus # OutOfMemory, rentry.iv = Head(channel).iv
  PROVE  /\ rstatus = "SUCCESS"
         /\ rcall.cut = (rbox.mode \notin PaddedMode /\ rcall.rest # 0)
         /\ rbox.mode \in PaddedMode =>
              ClaimedPadding(rmem["plain"], rcall.full)
                = BlockSize - channel[1].text.rest
<1> DEFINE e == channel[1]
           mode == rbox.mode
<1>1. /\ rcall.op = "decrypt" /\ rcall.step = "idle" /\ e \in Entry
      /\ rcall.full = e.full /\ rcall.dest = "plain"
      /\ Posted(mode, rbox.key, e)
  BY DecryptedBlocks DEF Returned, Inv, Related, Received
<1>2. RP!Padded <=> mode \in PaddedMode
  BY SameOperators DEF RP!Padded
<1>3. /\ e.text.full \in Nat /\ e.text.rest \in 0 .. BlockSize - 1 /\ Cells \in Nat
      /\ e.full \in 0 .. Cells
  BY <1>1, SessionAssumption, BoxConstants DEF Entry
<1>4. ASSUME mode \in PaddedMode
      PROVE  /\ ClaimedPadding(rmem["plain"], rcall.full) = BlockSize - e.text.rest
             /\ ~ PaddingRejected(rmem["plain"], rcall.full)
  <2>1. e.full = e.text.full + 1
    BY <1>1, <1>4 DEF Posted
  <2>2. rmem["plain"][e.full] = Sent(mode, e)[e.full]
    BY <1>3, <2>1, DecryptedIsSent
  <2>3. Sent(mode, e)[e.full] = FillWithPadding(e.text.cells[e.full], e.text.rest)
    BY <1>3, <1>4, <2>1 DEF Sent
  <2>4. e.full \in Nat \ {0}
    BY <1>3, <2>1
  <2> HIDE DEF e, mode
  <2>5. QED
    <3>1. rmem["plain"][e.full] = RP!FillWithPadding(e.text.cells[e.full], e.text.rest)
      BY <2>2, <2>3, SameOperators
    <3>2. /\ RP!ClaimedPadding(rmem["plain"], e.full) = BlockSize - e.text.rest
          /\ ~ RP!PaddingRejected(rmem["plain"], e.full)
      BY <1>3, <2>4, <3>1, ReceiverAssumptions, RP!FilledPaddingIsFound, Zenon
    <3>3. QED
      BY <1>1, <3>2, SameOperators
<1>5. rstatus = "SUCCESS"
  <2>1. \/ rstatus \in {"SUCCESS", "MEMORY_ALLOCATION_ERROR"}
        \/ RP!Padded /\ RP!PaddingRejected(rmem["plain"], rcall.full)
    BY <1>1 DEF Inv, RP!WellBehaved, RP!FailureTellsCause, RP!Output
  <2>2. RP!PaddingRejected(rmem["plain"], rcall.full)
          <=> PaddingRejected(rmem["plain"], rcall.full)
    BY SameOperators
  <2>3. QED
    BY <1>2, <1>4, <2>1, <2>2 DEF OutOfMemory
<1>6. RP!Complete
  BY <1>1, <1>5 DEF Inv, RP!WellBehaved, RP!Returns, RP!StatusTellsProgress
<1>7. rcall.cut = (mode \notin PaddedMode /\ rcall.rest # 0)
  BY <1>2, <1>6 DEF RP!Complete
<1>8. QED
  BY <1>4, <1>5, <1>7

(* The bytes of a partial block come back under the same key stream.        *)
LEMMA PartialComesBack ==
  ASSUME Inv, Returned, rentry.iv = Head(channel).iv, rcall.cut,
         rbox.mode \notin PaddedMode, rcall.rest # 0
  PROVE  LET e == channel[1] n == e.text.full + 1 IN
         /\ \A k \in 1 .. e.text.rest : rmem["plain"][n][k] = e.text.cells[n][k]
         /\ rbox.mode # "CFB" => rbox.iv = e.after
<1> DEFINE e == channel[1]
           mode == rbox.mode
           key == rbox.key
           n == e.full + 1
           chained == Chained(mode, key, e.iv, Sent(mode, e), e.cells, e.full)
           stream == Enc(key, chained)
           input == e.cells[n]
           text == e.text.cells[n]
           old == rentry.mem["plain"][n]
<1>1. /\ e \in Entry /\ Posted(mode, key, e) /\ rcall.full = e.full
      /\ rcall.rest = e.rest /\ rcall.src = "cipher" /\ rcall.dest = "plain"
      /\ rcall.op = "decrypt" /\ rentry.mem["cipher"] = e.cells
  BY DecryptedBlocks DEF Returned, Inv, Related, Received
<1>2. /\ e.full = e.text.full /\ e.rest = e.text.rest
      /\ DecryptionFits(e.full, e.rest)
      /\ \A k \in 1 .. e.rest : input[k] = XorBlocks(stream, text)[k]
      /\ e.after = IvAfterPartial(mode, key, chained, "encrypt",
                                  ZeroExtended(text, e.rest))
  <2>1. e.text.full \in Nat
    BY <1>1, SessionAssumption DEF Entry
  <2>2. QED
    BY <1>1, <2>1 DEF Posted
<1>3. /\ e.full \in 0 .. Cells /\ e.rest \in 0 .. BlockSize - 1 /\ e.rest # 0
      /\ Cells \in Nat /\ BlockSize \in Nat /\ e.cells \in [1 .. Cells -> Block]
      /\ e.text.cells \in [1 .. Cells -> Block] /\ mode \in Mode /\ key \in Key
  BY <1>1, BoxTypes, BoxConstants, SessionAssumption DEF Entry, Memory
<1>4. n \in 1 .. Cells
  BY <1>2, <1>3 DEF DecryptionFits
<1>5. input \in Block /\ text \in Block
  BY <1>3, <1>4
<1>6. /\ Chained(mode, key, rentry.iv, rmem["plain"], RP!Input, e.full) = chained
      /\ chained \in Block
  BY DecryptedIsSent
<1>7. stream \in Block
  BY <1>3, <1>6, CipherAssumption
<1>8. RP!ChainedAfter(e.full) = chained
  <2>1. RP!ChainedAfter(e.full)
          = RP!Chained(mode, key, rentry.iv, rmem["plain"], RP!Input, e.full)
    BY <1>1 DEF RP!ChainedAfter, RP!Plaintext, RP!Ciphertext, RP!Output
  <2>2. RP!Chained(mode, key, rentry.iv, rmem["plain"], RP!Input, e.full)
          = Chained(mode, key, rentry.iv, rmem["plain"], RP!Input, e.full)
    BY SameOperators
  <2>3. QED
    BY <1>6, <2>1, <2>2
<1>9. /\ rmem["plain"][n] = Overwritten(old, XorBlocks(stream, input), e.rest)
      /\ rbox.iv = IvAfterPartial(mode, key, chained, "decrypt",
                                  ZeroExtended(input, e.rest))
  <2>1. /\ rmem["plain"][n] = RP!Overwritten(old, RP!XorBlocks(stream, input), e.rest)
        /\ rbox.iv = RP!IvAfterPartial(mode, key, chained, "decrypt",
                                       RP!ZeroExtended(input, e.rest))
    BY <1>1, <1>8
       DEF Inv, RP!WellBehaved, RP!Follows, RP!PartialBlockFollowsMode, RP!Output
  <2> HIDE DEF mode, key, chained, stream, input, old, n, e
  <2>2. /\ RP!XorBlocks(stream, input) = XorBlocks(stream, input)
        /\ RP!ZeroExtended(input, e.rest) = ZeroExtended(input, e.rest)
        /\ RP!Overwritten(old, XorBlocks(stream, input), e.rest)
             = Overwritten(old, XorBlocks(stream, input), e.rest)
        /\ RP!IvAfterPartial(mode, key, chained, "decrypt", ZeroExtended(input, e.rest))
             = IvAfterPartial(mode, key, chained, "decrypt", ZeroExtended(input, e.rest))
    BY SameOperators
  <2>3. QED
    BY <2>1, <2>2
<1>10. \A k \in 1 .. e.rest : rmem["plain"][n][k] = text[k]
  <2> HIDE DEF mode, key, chained, stream, input, old, n, e, text
  <2>1. \A k \in 1 .. e.rest : k \in 1 .. BlockSize
    BY <1>3
  <2>2. \A k \in 1 .. e.rest : rmem["plain"][n][k] = Xor(stream[k], input[k])
    BY <1>9, <2>1 DEF Overwritten, XorBlocks
  <2>3. \A k \in 1 .. e.rest : input[k] = Xor(stream[k], text[k])
    BY <1>2, <2>1 DEF XorBlocks
  <2>4. \A k \in 1 .. e.rest : stream[k] \in Byte /\ text[k] \in Byte
    BY <1>5, <1>7, <2>1 DEF Block
  <2>5. \A k \in 1 .. e.rest : Xor(stream[k], Xor(stream[k], text[k])) = text[k]
    BY <2>4, XorAssumption
  <2>6. QED
    BY <2>2, <2>3, <2>5
<1>11. mode # "CFB" => rbox.iv = e.after
  <2>1. mode \notin PaddedMode
    OBVIOUS
  <2> HIDE DEF mode, key, chained, stream, input, old, n, e, text
  <2>2. QED
    BY <1>2, <1>3, <1>9, <2>1 DEF IvAfterPartial, Mode, PaddedMode
<1>12. QED
  BY <1>2, <1>10, <1>11

LEMMA TextComesBack ==
  ASSUME Inv, Returned, rstatus # OutOfMemory, rentry.iv = Head(channel).iv
  PROVE  SameText(channel[1].text)
<1> DEFINE e == channel[1]
           m == e.text
           mode == rbox.mode
<1>1. /\ e \in Entry /\ Posted(mode, rbox.key, e) /\ rcall.rest = e.rest
      /\ \A i \in 1 .. e.full : rmem["plain"][i] = Sent(mode, e)[i]
  BY DecryptedBlocks, DecryptedIsSent
<1>2. /\ m.full \in Nat /\ m.rest \in 0 .. BlockSize - 1 /\ Cells \in Nat
      /\ BlockSize \in Nat /\ e.full \in 0 .. Cells
      /\ e.full = m.full + (IF mode \in PaddedMode THEN 1 ELSE 0)
      /\ e.rest = IF mode \in PaddedMode THEN 0 ELSE m.rest
  BY <1>1, SessionAssumption, BoxConstants DEF Entry, Posted
<1>3. ASSUME NEW i \in 1 .. m.full
      PROVE  rmem["plain"][i] = m.cells[i]
  <2>1. i \in 1 .. e.full /\ i \in 1 .. Cells /\ i # m.full + 1
    BY <1>2
  <2>2. Sent(mode, e)[i] = m.cells[i]
    BY <2>1 DEF Sent
  <2>3. QED
    BY <1>1, <2>1, <2>2
<1>4. ASSUME NEW k \in 1 .. m.rest
      PROVE  rmem["plain"][m.full + 1][k] = m.cells[m.full + 1][k]
  <2> DEFINE n == m.full + 1
  <2>1. k \in 1 .. BlockSize /\ k <= m.rest /\ m.rest # 0
    BY <1>2
  <2>2. CASE mode \in PaddedMode
    <3>1. n \in 1 .. e.full /\ n \in 1 .. Cells
      BY <1>2, <2>2
    <3>2. rmem["plain"][n] = FillWithPadding(m.cells[n], m.rest)
      BY <1>1, <2>2, <3>1 DEF Sent
    <3>3. QED
      BY <2>1, <3>2 DEF FillWithPadding
  <2>3. CASE mode \notin PaddedMode
    <3>1. rcall.rest # 0 /\ rcall.cut
      BY <1>1, <1>2, <2>1, <2>3, SuccessAfterSent
    <3>2. QED
      BY <2>3, <3>1, PartialComesBack
  <2>4. QED
    BY <2>2, <2>3
<1>5. QED
  BY <1>3, <1>4 DEF SameText

LEMMA SizeComesBack ==
  ASSUME Inv, Returned, rstatus # OutOfMemory, rentry.iv = Head(channel).iv
  PROVE  rsize = InBytes(channel[1].text.full, channel[1].text.rest)
<1> DEFINE e == channel[1]
           m == e.text
           mode == rbox.mode
<1>1. /\ e \in Entry /\ Posted(mode, rbox.key, e) /\ rcall.op = "decrypt"
      /\ rcall.step = "idle" /\ rcall.full = e.full /\ rcall.rest = e.rest
      /\ rcall.done = e.full /\ rcall.dest = "plain" /\ rstatus = "SUCCESS"
      /\ rcall.cut = (mode \notin PaddedMode /\ rcall.rest # 0)
      /\ mode \in PaddedMode =>
           ClaimedPadding(rmem["plain"], e.full) = BlockSize - m.rest
  BY DecryptedBlocks, SuccessAfterSent DEF Returned, Inv, Related, Received
<1>2. /\ m.full \in Nat /\ m.rest \in 0 .. BlockSize - 1
      /\ BlockSize \in Nat /\ SizeMod \in Nat \ {0}
      /\ e.full = m.full + (IF mode \in PaddedMode THEN 1 ELSE 0)
      /\ e.rest = IF mode \in PaddedMode THEN 0 ELSE m.rest
  BY <1>1, SessionAssumption, BoxConstants DEF Entry, Posted
<1>3. RP!Padded <=> mode \in PaddedMode
  BY SameOperators DEF RP!Padded
<1> DEFINE rest == IF rcall.cut THEN rcall.rest ELSE 0
<1>4. rsize = IF mode \in PaddedMode
              THEN (RP!InBytes(e.full, rest) - RP!ClaimedPadding(rmem["plain"], e.full))
                     % SizeMod
              ELSE RP!InBytes(e.full, rest)
  BY <1>1, <1>3 DEF Inv, RP!WellBehaved, RP!SizeMatchesOutput, RP!Output
<1>5. /\ RP!InBytes(e.full, rest) = InBytes(e.full, rest)
      /\ RP!ClaimedPadding(rmem["plain"], e.full) = ClaimedPadding(rmem["plain"], e.full)
  BY SameOperators
<1>6. CASE mode \in PaddedMode
  <2> DEFINE a == e.full * BlockSize + 0
             b == BlockSize - m.rest
  <2>1. rest = 0
    BY <1>1, <1>6
  <2>2. rsize = ((a % SizeMod) - b) % SizeMod
    BY <1>1, <1>4, <1>5, <1>6, <2>1 DEF InBytes
  <2>3. a \in Int /\ b \in Int /\ a - b = m.full * BlockSize + m.rest
    <3>1. e.full = m.full + 1
      BY <1>2, <1>6
    <3>2. a = m.full * BlockSize + BlockSize
      <4>1. \A x \in Nat, y \in Nat : (x + 1) * y + 0 = x * y + y
        OBVIOUS
      <4>2. QED
        BY <1>2, <3>1, <4>1
    <3>3. \A x \in Nat, y \in Nat : x * y \in Nat
      OBVIOUS
    <3>4. m.full * BlockSize \in Nat
      BY <1>2, <3>3
    <3> DEFINE p == m.full * BlockSize
    <3> HIDE DEF p, a
    <3>5. p \in Nat /\ a = p + BlockSize
      BY <3>2, <3>4 DEF p
    <3>6. a \in Int /\ b \in Int /\ a - b = p + m.rest
      BY <1>2, <3>5
    <3>7. QED
      BY <3>6 DEF p
  <2> HIDE DEF a, b
  <2>4. ((a % SizeMod) - b) % SizeMod = (a - b) % SizeMod
    BY <1>2, <2>3, SenderAssumptions, SP!RemainderOfDifference
  <2>5. QED
    BY <2>2, <2>3, <2>4 DEF InBytes
<1>7. CASE mode \notin PaddedMode
  <2>1. e.full = m.full /\ e.rest = m.rest
    BY <1>2, <1>7
  <2>2. rest = m.rest
    BY <1>1, <1>7, <2>1
  <2>3. QED
    BY <1>4, <1>5, <1>7, <2>1, <2>2
<1>8. QED
  BY <1>6, <1>7

LEMMA InvRoundTrip == Inv => RoundTrip
<1> SUFFICES ASSUME Inv, Returned, rstatus # OutOfMemory, rentry.iv = Head(channel).iv
             PROVE  /\ rstatus = "SUCCESS"
                    /\ SameText(Head(channel).text)
                    /\ rsize = InBytes(Head(channel).text.full, Head(channel).text.rest)
  BY DEF RoundTrip
<1>1. Head(channel) = channel[1]
  BY DecryptedBlocks
<1>2. QED
  BY <1>1, SuccessAfterSent, TextComesBack, SizeComesBack

LEMMA InvStaysInSync == Inv => StaysInSync
<1> SUFFICES ASSUME Inv, Returned, rstatus # OutOfMemory, rentry.iv = Head(channel).iv,
                    ~ (rbox.mode = "CFB" /\ rcall.cut)
             PROVE  rbox.iv = Head(channel).after
  BY DEF StaysInSync
<1> DEFINE e == channel[1]
           mode == rbox.mode
           key == rbox.key
<1>1. /\ e \in Entry /\ Posted(mode, key, e) /\ Head(channel) = e
      /\ rcall.op = "decrypt" /\ rcall.rest = e.rest /\ rcall.done = e.full
      /\ rcall.dest = "plain"
  BY DecryptedBlocks DEF Returned, Inv, Related, Received
<1>2. rcall.cut = (mode \notin PaddedMode /\ rcall.rest # 0)
  BY SuccessAfterSent
<1>3. CASE rcall.cut
  BY <1>1, <1>2, <1>3, PartialComesBack
<1>4. CASE ~ rcall.cut
  <2>1. e.rest = 0
    BY <1>1, <1>2, <1>4 DEF Posted
  <2>2. e.after = Chained(mode, key, e.iv, Sent(mode, e), e.cells, e.full)
    BY <1>1, <2>1 DEF Posted
  <2>3. rbox.iv = RP!Chained(mode, key, rentry.iv, rmem["plain"], RP!Input, e.full)
    BY <1>1, <1>4 DEF Inv, RP!WellBehaved, RP!Follows, RP!IvIsChained, RP!ChainedAfter,
                      RP!Plaintext, RP!Ciphertext, RP!Output
  <2>4. RP!Chained(mode, key, rentry.iv, rmem["plain"], RP!Input, e.full)
          = Chained(mode, key, rentry.iv, rmem["plain"], RP!Input, e.full)
    BY SameOperators
  <2>5. QED
    BY <1>1, <2>2, <2>3, <2>4, DecryptedIsSent
<1>5. QED
  BY <1>3, <1>4

(* A chaining mode needs the block before, and no more of the past.         *)
LEMMA InvChainingModesRecover == Inv => ChainingModesRecover
<1> SUFFICES ASSUME Inv, Returned, NEW n \in 1 .. Head(channel).text.full,
                    rbox.mode = "ECB" \/ (rbox.mode \in {"CBC", "CFB"} /\ n > 1)
             PROVE  rmem["plain"][n] = Head(channel).text.cells[n]
  BY DEF ChainingModesRecover
<1> DEFINE e == channel[1]
           mode == rbox.mode
           key == rbox.key
           P == Sent(mode, e)
           C == e.cells
           P2 == rmem["plain"]
           C2 == RP!Input
<1>1. /\ e \in Entry /\ Posted(mode, key, e) /\ Head(channel) = e
      /\ P2 \in [1 .. Cells -> Block] /\ C2 \in [1 .. Cells -> Block]
      /\ \A i \in 1 .. e.full : C2[i] = C[i] /\ Encrypts(mode, key, rentry.iv, P2, C2, i)
  BY DecryptedBlocks
<1>2. /\ mode \in Mode /\ key \in Key /\ Cells \in Nat
      /\ C \in [1 .. Cells -> Block] /\ P \in [1 .. Cells -> Block]
      /\ e.full \in 0 .. Cells /\ e.text.full \in Nat
      /\ e.full = e.text.full + (IF mode \in PaddedMode THEN 1 ELSE 0)
  BY <1>1, BoxTypes, BoxConstants, SentType, SessionAssumption DEF Entry, Memory, Posted
<1>3. n \in 1 .. e.full /\ n \in 1 .. Cells /\ n # e.text.full + 1
  BY <1>1, <1>2
<1>4. P[n] = e.text.cells[n]
  BY <1>3 DEF Sent
<1>5. /\ Encrypts(mode, key, e.iv, P, C, n) /\ C2[n] = C[n]
      /\ Encrypts(mode, key, rentry.iv, P2, C2, n)
  BY <1>1, <1>3 DEF Posted
<1>6. mode # "ECB" =>
        /\ Chained(mode, key, e.iv, P, C, n - 1) \in Block
        /\ Chained(mode, key, rentry.iv, P2, C2, n - 1)
             = Chained(mode, key, e.iv, P, C, n - 1)
  <2> SUFFICES ASSUME mode \in {"CBC", "CFB"}, n > 1
               PROVE  /\ Chained(mode, key, e.iv, P, C, n - 1) = C[n - 1]
                      /\ Chained(mode, key, rentry.iv, P2, C2, n - 1) = C2[n - 1]
                      /\ C2[n - 1] = C[n - 1] /\ C[n - 1] \in Block
    OBVIOUS
  <2>1. n - 1 \in 1 .. e.full /\ n - 1 \in 1 .. Cells /\ n - 1 # 0
    <3>1. n \in 1 .. e.full /\ n > 1 /\ e.full \in 0 .. Cells /\ Cells \in Nat
      BY <1>2, <1>3
    <3> HIDE DEF e
    <3>2. QED
      BY <3>1
  <2> HIDE DEF e, mode, key, P, C, P2, C2
  <2>2. QED
    BY <1>1, <1>2, <2>1 DEF Chained
<1> HIDE DEF e, mode, key, P, C, P2, C2
<1>7. P2[n] = P[n]
  <2>1. /\ mode \in SP!Mode /\ key \in Key /\ Cells \in Nat
        /\ P \in [1 .. Cells -> SP!Block] /\ C \in [1 .. Cells -> SP!Block]
        /\ P2 \in [1 .. Cells -> SP!Block] /\ C2 \in [1 .. Cells -> SP!Block]
        /\ n \in 1 .. Cells /\ C2[n] = C[n]
    BY <1>1, <1>2, <1>3, <1>5 DEF SP!Block, Block, SP!Byte, Byte, SP!Mode, Mode
  <2>2. /\ SP!Encrypts(mode, key, e.iv, P, C, n)
        /\ SP!Encrypts(mode, key, rentry.iv, P2, C2, n)
    BY <1>5, SameOperators
  <2>3. SP!Block = Block
    BY DEF SP!Block, Block, SP!Byte, Byte
  <2>4. \/ mode = "ECB"
        \/ /\ SP!Chained(mode, key, e.iv, P, C, n - 1) \in SP!Block
           /\ SP!Chained(mode, key, rentry.iv, P2, C2, n - 1)
                = SP!Chained(mode, key, e.iv, P, C, n - 1)
    BY <1>6, <2>3, SameOperators
  <2>5. QED
    BY <2>1, <2>2, <2>4, SenderAssumptions, SP!BlockDecidesText
<1>8. QED
  BY <1>1, <1>4, <1>7 DEF e, P2

LEMMA InvUndisturbedIsInSync == Inv => UndisturbedIsInSync
<1> SUFFICES ASSUME Inv, ~ disturbed, loaded, rcall.op = "decrypt"
             PROVE  rentry.iv = Head(channel).iv
  BY DEF UndisturbedIsInSync
<1>1. channel # <<>> /\ Handed
  BY DEF Inv, Related, Received
<1>2. QED
  BY <1>1, HeadOfChannel DEF Inv, Related, Linked, ReceiverStart

-----------------------------------------------------------------------------
(***************************************************************************)
(* The steps of a session preserve the invariant.                          *)
(***************************************************************************)
(* Neither box is set up anew.                                              *)
LEMMA KeysStay ==
  ASSUME Inv, [Next]_vars
  PROVE  /\ Alike'
         /\ rbox'.mode = rbox.mode /\ rbox'.key = rbox.key
<1>1. CASE EncryptProgress \/ DecryptProgress
  BY <1>1, BoxesKeepCalls
     DEF EncryptProgress, DecryptProgress, svars, rvars, Alike, Inv, Related
<1>2. CASE \/ \E m \in Messages : Compose(m)
           \/ Encrypt \/ EncryptAgain
  BY <1>2 DEF Compose, Encrypt, EncryptAgain, S!FillBuffer, S!BeginEncrypt, S!Enter,
              rvars, Alike, Inv, Related
<1>3. CASE Load \/ Decrypt \/ DecryptAgain
  BY <1>3 DEF Load, Decrypt, DecryptAgain, R!FillBuffer, R!BeginDecrypt, R!Enter,
              svars, Alike, Inv, Related
<1>4. CASE Post \/ Take \/ UNCHANGED vars
  BY <1>4 DEF Post, Take, vars, svars, rvars, Alike, Inv, Related
<1>5. QED
  BY <1>1, <1>2, <1>3, <1>4 DEF Next

(* The encrypting program does not disturb the decrypting one, and the      *)
(* other way round.                                                         *)
LEMMA ReceiverApart ==
  ASSUME Inv, UNCHANGED <<rvars, loaded>>,
         channel # <<>> => channel' # <<>> /\ channel'[1] = channel[1]
  PROVE  /\ Received'
         /\ ReceiverStart' = ReceiverStart
  BY DEF Inv, Related, Received, ReceiverStart, rvars

LEMMA SenderApart ==
  ASSUME Inv, UNCHANGED <<svars, draft>>
  PROVE  /\ Drafted'
         /\ SenderStart' = SenderStart
  BY DEF Inv, Related, Drafted, SenderStart, svars

LEMMA ChannelStays ==
  ASSUME Inv, [Next]_vars, UNCHANGED channel
  PROVE  /\ Handed'
         /\ (ReceiverStart' = ReceiverStart /\ SenderStart' = SenderStart
             /\ disturbed' = disturbed) => Linked'
<1>1. Handed'
  BY KeysStay DEF Inv, Related, Handed
<1>2. (ReceiverStart' = ReceiverStart /\ SenderStart' = SenderStart
        /\ disturbed' = disturbed) => Linked'
  BY DEF Inv, Related, Linked
<1>3. QED
  BY <1>1, <1>2

LEMMA ComposeStep ==
  ASSUME Inv, NEW m \in Messages, Compose(m)
  PROVE  Related'
<1>1. /\ draft = NoMessage /\ draft' = m /\ S!FillBuffer("plain", m.cells)
      /\ composed < MaxMessages /\ composed' = composed + 1
      /\ UNCHANGED <<rvars, channel, loaded, disturbed>> /\ [Next]_vars
  BY DEF Compose, Next
<1>2. /\ scall'.op = "none" /\ scall'.step = "idle" /\ sbox' = sbox
      /\ smem'["plain"] = m.cells
  BY <1>1, BoxTypes, BoxConstants DEF S!FillBuffer, S!NoCall
<1>3. Drafted'
  BY <1>1, <1>2, SessionAssumption DEF Drafted
<1>4. Received' /\ ReceiverStart' = ReceiverStart
  BY <1>1, ReceiverApart
<1>5. SenderStart' = SenderStart
  BY <1>1, <1>2 DEF SenderStart
<1>6. Handed' /\ Linked'
  BY <1>1, <1>4, <1>5, ChannelStays
<1>7. Bounded'
  BY <1>1, SessionAssumption DEF Inv, Related, Bounded
<1>8. QED
  BY <1>1, <1>3, <1>4, <1>6, <1>7, KeysStay DEF Related

LEMMA BeginEncryptStep ==
  ASSUME Inv, Encrypt \/ EncryptAgain
  PROVE  Related'
<1>1. /\ draft # NoMessage /\ draft' = draft /\ composed' = composed
      /\ S!BeginEncrypt("plain", "cipher", draft.full, draft.rest)
      /\ UNCHANGED <<rvars, channel, loaded>> /\ [Next]_vars
      /\ disturbed' \in BOOLEAN
  BY DEF Encrypt, EncryptAgain, Next, Inv, Related, Bounded
<1>2. /\ scall'.op = "encrypt" /\ scall'.src = "plain" /\ scall'.dest = "cipher"
      /\ scall'.full = draft.full /\ scall'.rest = draft.rest
      /\ sentry'.mem = smem /\ sentry'.iv = sbox.iv /\ sbox' = sbox
  BY <1>1 DEF S!BeginEncrypt, S!Enter
<1>3. smem["plain"] = draft.cells
  <2>1. CASE Encrypt
    BY <1>1, <2>1 DEF Encrypt, Inv, Related, Drafted
  <2>2. CASE EncryptAgain
    <3>1. /\ scall.op = "encrypt" /\ scall.dest = "cipher"
          /\ sentry.mem["plain"] = draft.cells
      BY <1>1, <2>2 DEF EncryptAgain, Inv, Related, Drafted
    <3>2. SP!OnlyOutputIsWritten
      BY DEF Inv, SP!WellBehaved, SP!Follows
    <3>3. QED
      BY <3>1, <3>2, BoxConstants DEF SP!OnlyOutputIsWritten
  <2>3. QED
    BY <2>1, <2>2
<1>4. Drafted'
  BY <1>1, <1>2, <1>3 DEF Drafted, Inv, Related
<1>5. Received' /\ ReceiverStart' = ReceiverStart
  BY <1>1, ReceiverApart
<1>6. Linked'
  <2>1. CASE Encrypt
    <3>1. disturbed' = disturbed /\ SenderStart' = SenderStart
      BY <1>1, <1>2, <2>1 DEF Encrypt, SenderStart
    <3>2. QED
      BY <1>1, <1>5, <3>1, ChannelStays
  <2>2. CASE EncryptAgain
    BY <2>2 DEF EncryptAgain, Linked
  <2>3. QED
    BY <2>1, <2>2
<1>7. Handed' /\ Bounded'
  BY <1>1, ChannelStays DEF Bounded, Inv, Related
<1>8. QED
  BY <1>1, <1>4, <1>5, <1>6, <1>7, KeysStay DEF Related

LEMMA EncryptProgressStep ==
  ASSUME Inv, EncryptProgress
  PROVE  Related'
<1>1. /\ S!Progress /\ [Next]_vars
      /\ UNCHANGED <<rvars, draft, channel, loaded, composed, disturbed>>
  BY DEF EncryptProgress, Next
<1>2. /\ scall.step # "idle" /\ scall.op # "none"
      /\ UNCHANGED <<sentry, scall.op, scall.src, scall.dest, scall.full, scall.rest>>
  BY <1>1, BoxesKeepCalls, BoxTypes
<1>3. draft # NoMessage
  BY <1>2 DEF Inv, Related, Drafted
<1>4. Drafted' /\ SenderStart' = SenderStart
  BY <1>1, <1>2, <1>3 DEF Inv, Related, Drafted, SenderStart
<1>5. Received' /\ ReceiverStart' = ReceiverStart
  BY <1>1, ReceiverApart
<1>6. Handed' /\ Linked'
  BY <1>1, <1>4, <1>5, ChannelStays
<1>7. Bounded'
  BY <1>1 DEF Inv, Related, Bounded
<1>8. QED
  BY <1>1, <1>4, <1>5, <1>6, <1>7, KeysStay DEF Related

(* The message posted is the new end of the chain.                          *)
LEMMA PostStep ==
  ASSUME Inv, Post
  PROVE  Related'
<1>1. /\ draft # NoMessage /\ draft' = NoMessage /\ [Next]_vars
      /\ scall.op = "encrypt" /\ scall.step = "idle"
      /\ channel' = Append(channel, Message)
      /\ UNCHANGED <<svars, rvars, loaded, composed, disturbed>>
  BY DEF Post, Next, Message
<1>2. Message \in Entry /\ Posted(rbox.mode, rbox.key, Message)
  BY PostIsRight
<1>3. channel \in Seq(Entry) /\ \A i \in 1 .. Len(channel) :
                                  Posted(rbox.mode, rbox.key, channel[i])
  BY DEF Inv, Related, Handed
<1> DEFINE n == Len(channel)
<1>4. /\ n \in Nat /\ channel' \in Seq(Entry) /\ Len(channel') = n + 1
      /\ \A i \in 1 .. n : channel'[i] = channel[i]
      /\ channel'[n + 1] = Message /\ channel' # <<>>
      /\ channel # <<>> <=> n # 0
  BY <1>1, <1>2, <1>3
<1>5. Handed'
  <2>1. \A i \in 1 .. n + 1 : Posted(rbox.mode, rbox.key, channel'[i])
    <3> HIDE DEF n
    <3>1. \A i \in 1 .. n + 1 : i \in 1 .. n \/ i = n + 1
      BY <1>4
    <3>2. QED
      BY <1>2, <1>3, <1>4, <3>1 DEF n
  <2>2. UNCHANGED <<rbox>>
    BY <1>1 DEF rvars
  <2>3. QED
    BY <1>4, <2>1, <2>2 DEF Handed
<1>6. Drafted'
  BY <1>1 DEF Drafted, svars
<1>7. Received' /\ ReceiverStart' = ReceiverStart
  BY <1>1, <1>4, ReceiverApart
<1>8. /\ SenderStart = Message.iv /\ SenderStart' = Message.after
  BY <1>1 DEF SenderStart, Message, svars
<1>9. Linked'
  <2> SUFFICES ASSUME ~ disturbed
               PROVE  /\ ReceiverStart = channel'[1].iv
                      /\ channel'[n + 1].after = SenderStart'
                      /\ \A i \in 1 .. n : channel'[i].after = channel'[i + 1].iv
    BY <1>1, <1>4, <1>7 DEF Linked
  <2>1. CASE n = 0
    BY <1>4, <1>8, <2>1 DEF Inv, Related, Linked
  <2>2. CASE n # 0
    <3>1. /\ ReceiverStart = channel[1].iv /\ channel[n].after = SenderStart
          /\ \A i \in 1 .. n - 1 : channel[i].after = channel[i + 1].iv
      BY <1>4, <2>2 DEF Inv, Related, Linked
    <3>2. 1 \in 1 .. n /\ \A i \in 1 .. n : i = n \/ (i \in 1 .. n - 1 /\ i + 1 \in 1 .. n)
      BY <1>4, <2>2
    <3> HIDE DEF n
    <3>3. QED
      BY <1>4, <1>8, <3>1, <3>2
  <2>3. QED
    BY <2>1, <2>2
<1>10. Bounded'
  BY <1>1 DEF Inv, Related, Bounded
<1>11. QED
  BY <1>1, <1>5, <1>6, <1>7, <1>9, <1>10, KeysStay DEF Related

LEMMA LoadStep ==
  ASSUME Inv, Load
  PROVE  Related'
<1>1. /\ channel # <<>> /\ ~ loaded /\ loaded' = TRUE
      /\ R!FillBuffer("cipher", Head(channel).cells) /\ [Next]_vars
      /\ UNCHANGED <<svars, draft, channel, composed, disturbed>>
  BY DEF Load, Next
<1>2. /\ rcall'.op = "none" /\ rcall'.step = "idle" /\ rbox' = rbox
      /\ rmem'["cipher"] = channel[1].cells
  BY <1>1, BoxTypes, BoxConstants, HeadOfChannel
     DEF R!FillBuffer, R!NoCall, Inv, Related
<1>3. Received'
  BY <1>1, <1>2 DEF Received
<1>4. Drafted' /\ SenderStart' = SenderStart
  BY <1>1, SenderApart
<1>5. ReceiverStart' = ReceiverStart
  BY <1>1, <1>2 DEF ReceiverStart
<1>6. Handed' /\ Linked'
  BY <1>1, <1>4, <1>5, ChannelStays
<1>7. Bounded'
  BY <1>1 DEF Inv, Related, Bounded
<1>8. QED
  BY <1>1, <1>3, <1>4, <1>6, <1>7, KeysStay DEF Related

LEMMA BeginDecryptStep ==
  ASSUME Inv, Decrypt \/ DecryptAgain
  PROVE  Related'
<1>1. /\ loaded /\ loaded' = loaded /\ composed' = composed
      /\ R!BeginDecrypt("cipher", "plain", Head(channel).full, Head(channel).rest)
      /\ UNCHANGED <<svars, draft, channel>> /\ [Next]_vars
      /\ disturbed' \in BOOLEAN
  BY DEF Decrypt, DecryptAgain, Next, Inv, Related, Bounded
<1>2. channel # <<>> /\ Head(channel) = channel[1]
  BY <1>1, HeadOfChannel DEF Inv, Related, Received
<1>3. /\ rcall'.op = "decrypt" /\ rcall'.src = "cipher" /\ rcall'.dest = "plain"
      /\ rcall'.full = channel[1].full /\ rcall'.rest = channel[1].rest
      /\ rentry'.mem = rmem /\ rentry'.iv = rbox.iv /\ rbox' = rbox
  BY <1>1, <1>2 DEF R!BeginDecrypt, R!Enter
<1>4. rmem["cipher"] = channel[1].cells
  <2>1. CASE Decrypt
    BY <1>1, <2>1 DEF Decrypt, Inv, Related, Received
  <2>2. CASE DecryptAgain
    <3>1. /\ rcall.op = "decrypt" /\ rcall.dest = "plain"
          /\ rentry.mem["cipher"] = channel[1].cells
      BY <1>1, <2>2 DEF DecryptAgain, Inv, Related, Received
    <3>2. RP!OnlyOutputIsWritten
      BY DEF Inv, RP!WellBehaved, RP!Follows
    <3>3. QED
      BY <3>1, <3>2, BoxConstants DEF RP!OnlyOutputIsWritten
  <2>3. QED
    BY <2>1, <2>2
<1>5. Received'
  BY <1>1, <1>2, <1>3, <1>4 DEF Received
<1>6. Drafted' /\ SenderStart' = SenderStart
  BY <1>1, SenderApart
<1>7. Linked'
  <2>1. CASE Decrypt
    <3>1. disturbed' = disturbed /\ ReceiverStart' = ReceiverStart
      BY <1>1, <1>3, <2>1 DEF Decrypt, ReceiverStart
    <3>2. QED
      BY <1>1, <1>6, <3>1, ChannelStays
  <2>2. CASE DecryptAgain
    BY <2>2 DEF DecryptAgain, Linked
  <2>3. QED
    BY <2>1, <2>2
<1>8. Handed' /\ Bounded'
  BY <1>1, ChannelStays DEF Bounded, Inv, Related
<1>9. QED
  BY <1>1, <1>5, <1>6, <1>7, <1>8, KeysStay DEF Related

LEMMA DecryptProgressStep ==
  ASSUME Inv, DecryptProgress
  PROVE  Related'
<1>1. /\ R!Progress /\ [Next]_vars
      /\ UNCHANGED <<svars, draft, channel, loaded, composed, disturbed>>
  BY DEF DecryptProgress, Next
<1>2. /\ rcall.step # "idle" /\ rcall.op # "none"
      /\ UNCHANGED <<rentry, rcall.op, rcall.src, rcall.dest, rcall.full, rcall.rest>>
  BY <1>1, BoxesKeepCalls, BoxTypes
<1>3. loaded
  BY <1>2 DEF Inv, Related, Received
<1>4. Received' /\ ReceiverStart' = ReceiverStart
  BY <1>1, <1>2, <1>3 DEF Inv, Related, Received, ReceiverStart
<1>5. Drafted' /\ SenderStart' = SenderStart
  BY <1>1, SenderApart
<1>6. Handed' /\ Linked'
  BY <1>1, <1>4, <1>5, ChannelStays
<1>7. Bounded'
  BY <1>1 DEF Inv, Related, Bounded
<1>8. QED
  BY <1>1, <1>4, <1>5, <1>6, <1>7, KeysStay DEF Related

(* The call that has returned leaves the receiver where the next message    *)
(* begins.                                                                  *)
LEMMA TakeStep ==
  ASSUME Inv, Take
  PROVE  Related'
<1>1. /\ loaded /\ rcall.op = "decrypt" /\ rcall.step = "idle"
      /\ rstatus # OutOfMemory /\ [Next]_vars
      /\ channel' = Tail(channel) /\ loaded' = FALSE
      /\ disturbed' = (disturbed \/ (rbox.mode = "CFB" /\ rcall.cut))
      /\ UNCHANGED <<svars, rvars, draft, composed>>
  BY DEF Take, Next
<1>2. channel # <<>> /\ channel \in Seq(Entry) /\ Head(channel) = channel[1]
      /\ \A i \in 1 .. Len(channel) : Posted(rbox.mode, rbox.key, channel[i])
  BY <1>1, HeadOfChannel DEF Inv, Related, Received, Handed
<1> DEFINE n == Len(channel)
           c == channel'
<1>3. /\ n \in Nat \ {0} /\ c \in Seq(Entry) /\ Len(c) = n - 1
      /\ \A i \in 1 .. n - 1 : c[i] = channel[i + 1]
      /\ c = <<>> <=> n = 1
  <2>1. /\ c \in Seq(Entry) /\ Len(c) = n - 1 /\ n \in Nat \ {0}
        /\ \A i \in 1 .. Len(c) : c[i] = channel[i + 1]
    BY <1>1, <1>2, HeadTailProperties
  <2>2. c = <<>> <=> Len(c) = 0
    BY <2>1, EmptySeq
  <2> HIDE DEF n, c
  <2>3. QED
    BY <2>1, <2>2
<1>4. Handed'
  <2>1. \A i \in 1 .. n - 1 : Posted(rbox.mode, rbox.key, c[i])
    <3>1. \A i \in 1 .. n - 1 : i + 1 \in 1 .. n
      BY <1>3
    <3> HIDE DEF n, c
    <3>2. QED
      BY <1>2, <1>3, <3>1 DEF n
  <2>2. UNCHANGED rbox
    BY <1>1 DEF rvars
  <2>3. QED
    BY <1>3, <2>1, <2>2 DEF Handed
<1>5. Received'
  BY <1>1 DEF Received, rvars
<1>6. Drafted' /\ SenderStart' = SenderStart
  BY <1>1, SenderApart
<1>7. Linked'
  <2> SUFFICES ASSUME ~ disturbed, ~ (rbox.mode = "CFB" /\ rcall.cut)
               PROVE  Linked'
    BY <1>1 DEF Linked
  <2>1. /\ rentry.iv = channel[1].iv /\ channel[n].after = SenderStart
        /\ \A i \in 1 .. n - 1 : channel[i].after = channel[i + 1].iv
    BY <1>1, <1>2 DEF Inv, Related, Linked, ReceiverStart
  <2>2. rbox.iv = channel[1].after
    BY <1>1, <1>2, <2>1, InvStaysInSync DEF StaysInSync, Returned
  <2>3. ReceiverStart' = channel[1].after
    BY <1>1, <2>2 DEF ReceiverStart, rvars
  <2>4. CASE n = 1
    BY <1>3, <1>6, <2>1, <2>3, <2>4 DEF Linked
  <2>5. CASE n # 1
    <3>1. /\ 1 \in 1 .. n - 1 /\ n - 1 \in 1 .. n - 1 /\ c # <<>>
          /\ n - 1 + 1 = n /\ 1 + 1 = 2
      BY <1>3, <2>5
    <3>2. c[1].iv = channel[1].after /\ c[n - 1].after = SenderStart
      BY <1>3, <2>1, <3>1
    <3>3. \A i \in 1 .. n - 2 : c[i].after = c[i + 1].iv
      <4>1. ASSUME NEW i \in 1 .. n - 2
            PROVE  i \in 1 .. n - 1 /\ i + 1 \in 1 .. n - 1
        BY <1>3
      <4> HIDE DEF n, c
      <4>2. QED
        BY <1>3, <2>1, <4>1
    <3>4. Len(c) - 1 = n - 2
      BY <1>3
    <3>5. QED
      BY <1>3, <1>6, <2>3, <3>1, <3>2, <3>3, <3>4 DEF Linked
  <2>6. QED
    BY <2>4, <2>5
<1>8. Bounded'
  BY <1>1 DEF Inv, Related, Bounded
<1>9. QED
  BY <1>1, <1>4, <1>5, <1>6, <1>7, <1>8, KeysStay DEF Related

-----------------------------------------------------------------------------
(***************************************************************************)
(* The theorems.                                                           *)
(***************************************************************************)
LEMMA InvInit == Init => Inv
<1> SUFFICES ASSUME Init
             PROVE  Inv
  OBVIOUS
<1>1. SP!WellBehaved
  BY BoxesStart, SenderAssumptions, SP!WellBehavedInit
<1>2. RP!WellBehaved
  BY BoxesStart, ReceiverAssumptions, RP!WellBehavedInit
<1>3. /\ scall.step = "idle" /\ rcall.step = "idle" /\ rbox = sbox
      /\ draft = NoMessage /\ channel = <<>> /\ loaded = FALSE
      /\ composed = 0 /\ disturbed = FALSE
  BY DEF Init, S!Init, S!NoCall, R!Init, R!NoCall
<1>4. Related
  <2>1. Handed
    BY <1>3 DEF Handed
  <2>2. Linked
    BY <1>3 DEF Linked, ReceiverStart, SenderStart
  <2>3. Alike /\ Drafted /\ Received
    BY <1>3 DEF Alike, Drafted, Received
  <2>4. Bounded
    <3>1. \A k \in Nat : 0 \in 0 .. k
      OBVIOUS
    <3>2. composed \in 0 .. MaxMessages
      BY <1>3, <3>1, SessionAssumption
    <3>3. QED
      BY <1>3, <3>2 DEF Bounded
  <2>5. QED
    BY <2>1, <2>2, <2>3, <2>4 DEF Related
<1>5. QED
  BY <1>1, <1>2, <1>4 DEF Inv

LEMMA InvStep ==
  ASSUME Inv, [Next]_vars
  PROVE  Inv'
<1>1. Related'
  <2>1. CASE UNCHANGED vars
    <3>1. UNCHANGED <<svars, rvars, draft, channel, loaded, composed, disturbed>>
      BY <2>1 DEF vars
    <3>2. Drafted' /\ Received' /\ SenderStart' = SenderStart
          /\ ReceiverStart' = ReceiverStart
      BY <3>1, SenderApart, ReceiverApart
    <3>3. Handed' /\ Linked'
      BY <3>1, <3>2, ChannelStays
    <3>4. Bounded'
      BY <3>1 DEF Inv, Related, Bounded
    <3>5. QED
      BY <3>2, <3>3, <3>4, KeysStay DEF Related
  <2>2. QED
    BY <2>1, ComposeStep, BeginEncryptStep, EncryptProgressStep, PostStep, LoadStep,
       BeginDecryptStep, DecryptProgressStep, TakeStep DEF Next
<1>2. QED
  BY <1>1, BoxesStayWellBehaved DEF Inv

LEMMA InvAlways == Spec => []Inv
  BY InvInit, InvStep, PTL DEF Spec

(* In a session each of the two boxes behaves as Box says of one: every     *)
(* step is a step of one box or of neither, so what is proved of Box for an  *)
(* arbitrary caller (its calls, errors, sizes and temporaries) holds of both *)
(* boxes here.                                                              *)
THEOREM SessionsRunTwoBoxes == Spec => SP!Spec /\ RP!Spec
<1>1. ASSUME Inv, [Next]_vars
      PROVE  [SP!Next]_(SP!vars) /\ [RP!Next]_(RP!vars)
  BY <1>1, BoxSteps DEF SP!Next, SP!vars, svars, RP!Next, RP!vars, rvars
<1>2. QED
  BY <1>1, BoxesStart, InvAlways, PTL DEF Spec, SP!Spec, RP!Spec

(* Both boxes stay well formed, what is handed over fits the receiver's     *)
(* buffers, and a decryption goes on only while its ciphertext is the head  *)
(* of the channel.                                                          *)
THEOREM SessionTypeCorrect == Spec => []TypeOK
<1>1. Inv => TypeOK
  <2> SUFFICES ASSUME Inv
               PROVE  TypeOK
    OBVIOUS
  <2>1. S!TypeOK
    <3>1. SP!TypeOK
      BY DEF Inv, SP!WellBehaved, SP!Inductive
    <3>2. /\ SP!Mode = S!Mode /\ SP!Block = S!Block /\ SP!Memory = S!Memory
          /\ SP!Step = S!Step /\ SP!Status = S!Status /\ SP!Temporary = S!Temporary
      BY DEF SP!Mode, S!Mode, SP!Block, S!Block, SP!Byte, S!Byte, SP!Memory, S!Memory,
             SP!Step, S!Step, SP!Status, S!Status, SP!Temporary, S!Temporary
    <3>3. QED
      BY <3>1, <3>2 DEF SP!TypeOK, S!TypeOK
  <2>2. R!TypeOK
    <3>1. RP!TypeOK
      BY DEF Inv, RP!WellBehaved, RP!Inductive
    <3>2. /\ RP!Mode = R!Mode /\ RP!Block = R!Block /\ RP!Memory = R!Memory
          /\ RP!Step = R!Step /\ RP!Status = R!Status /\ RP!Temporary = R!Temporary
      BY DEF RP!Mode, R!Mode, RP!Block, R!Block, RP!Byte, R!Byte, RP!Memory, R!Memory,
             RP!Step, R!Step, RP!Status, R!Status, RP!Temporary, R!Temporary
    <3>3. QED
      BY <3>1, <3>2 DEF RP!TypeOK, R!TypeOK
  <2>3. \A i \in DOMAIN channel :
          /\ channel[i].cells \in Memory /\ channel[i].text \in Messages
          /\ channel[i].iv \in Block /\ channel[i].after \in Block
          /\ S!DecryptionFits(channel[i].full, channel[i].rest)
    <3>1. ASSUME NEW i \in DOMAIN channel
          PROVE  channel[i] \in Entry /\ Posted(rbox.mode, rbox.key, channel[i])
      BY DEF Inv, Related, Handed
    <3>2. ASSUME NEW i \in DOMAIN channel
          PROVE  S!DecryptionFits(channel[i].full, channel[i].rest)
      BY <3>1 DEF Posted, DecryptionFits, S!DecryptionFits
    <3>3. QED
      BY <3>1, <3>2 DEF Entry
  <2>4. /\ draft \in Messages \cup {NoMessage}
        /\ loaded => channel # <<>>
        /\ rcall.op = "decrypt" /\ rcall.step # "idle" => loaded
        /\ composed \in 0 .. MaxMessages /\ disturbed \in BOOLEAN
    BY DEF Inv, Related, Drafted, Received, Bounded
  <2>5. QED
    BY <2>1, <2>2, <2>3, <2>4 DEF TypeOK
<1>2. QED
  BY <1>1, InvAlways, PTL

(* Whatever two boxes set up alike are made to do, a ciphertext decrypted   *)
(* from the iv it was encrypted from comes back as its text, with its size  *)
(* and with no error, for every cipher, block size, mode and length.        *)
THEOREM SessionsRoundTrip == Spec => []RoundTrip
  BY InvAlways, InvRoundTrip, PTL

(* After such a call the receiver's iv is the sender's after encryption,    *)
(* but for a CFB message that ends in a partial block.                      *)
THEOREM SessionsStayInSync == Spec => []StaysInSync
  BY InvAlways, InvStaysInSync, PTL

(* However far the sender runs ahead, the ivs of the messages on their way  *)
(* form a chain, so the receiver starts every call from the right one until *)
(* a call is repeated or CFB meets a partial block.                         *)
THEOREM UndisturbedSessionsAreInSync == Spec => []UndisturbedIsInSync
  BY InvAlways, InvUndisturbedIsInSync, PTL

(* From whatever iv the receiver starts, ECB gives every block back, CBC    *)
(* and CFB every block but the first.                                       *)
THEOREM SessionsRecover == Spec => []ChainingModesRecover
  BY InvAlways, InvChainingModesRecover, PTL
=============================================================================
