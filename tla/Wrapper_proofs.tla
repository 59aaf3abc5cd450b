----------------------------- MODULE Wrapper_proofs -----------------------------
(***************************************************************************)
(* Proofs about Wrapper, for every block size, cipher, memory, number of    *)
(* calls and largest vector.                                                *)
(*                                                                         *)
(* The wrapper asks the box for a size and then lets it write, so what is   *)
(* known of a box (Box_proofs) has to be carried over the statements in     *)
(* between, two of which change what the box sees: *dest_size is cleared    *)
(* for the query, and the vector is filled with zeros.                      *)
(***************************************************************************)
EXTENDS Wrapper, TLAPS

BP == INSTANCE Box_proofs

-----------------------------------------------------------------------------
(***************************************************************************)
(* The inductive invariant.                                                *)
(***************************************************************************)
(* What holds of any box; but *dest_size is not the box's while it is zero  *)
(* for the query.                                                           *)
BoxInv ==
  /\ BP!Inductive /\ BP!Follows /\ BP!Returns /\ BP!FailureTellsCause
  /\ wrap.step # "sizing" => BP!SizeMatchesOutput

WrapStep ==
  {"idle", "sizing", "sized", "allocate", "call", "running", "called", "cut"}

WrapRecord ==
  [op : {"none", "encrypt", "decrypt"}, step : WrapStep,
   full : 0 .. Cells, rest : 0 .. BlockSize - 1,
   nullSource : BOOLEAN, nullData : BOOLEAN, iv : Block]

Types ==
  /\ wrap \in WrapRecord
  /\ length \in 0 .. MaxVectorSize
  /\ details \in B!Status
  /\ thrown \in Exception \cup {"nothing"}
  /\ call.step # "idle" <=> wrap.step = "running"

(* The message is in the caller's memory.                                   *)
Fits ==
  /\ wrap.op = "encrypt" => EncryptionFits(box.mode, wrap.full, wrap.rest)
  /\ wrap.op = "decrypt" => DecryptionFits(wrap.full, wrap.rest)

Made ==
  /\ wrap.op = "none" => wrap.step = "idle"
  /\ wrap.step # "idle" => thrown = "nothing"
  /\ Fits

(* The size the box announces for it, and whether it announces one.         *)
Announced ==
  IF wrap.op = "encrypt" THEN EncryptedSize(box.mode, wrap.full, wrap.rest)
  ELSE InBytes(wrap.full, wrap.rest)

Accepted == wrap.op = "decrypt" => ~ LacksPadding(box.mode, wrap.full, wrap.rest)

Zeros == [n \in 1 .. Cells |-> [i \in 1 .. BlockSize |-> 0]]

(* Up to the second call the box has only been asked.                       *)
Asked ==
  /\ wrap.step \in {"sizing", "sized", "allocate", "call"} => box.iv = wrap.iv
  /\ wrap.step \in {"sized", "allocate", "call"} => call.op = "none"
  /\ wrap.step \in {"sized", "called"} => details = status
  /\ wrap.step = "sized" =>
       \/ status = "SUCCESS" /\ Accepted /\ size = Announced
       \/ status = "MISSING_PADDING_ERROR"
  /\ wrap.step \in {"allocate", "call", "running"} => Accepted /\ size = Announced
  /\ wrap.step \in {"call", "running", "called", "cut"} => Accepted /\ length = Announced
  /\ wrap.step = "call" => mem["dest_buf"] = Zeros /\ (wrap.nullData => size = 0)

(* The second call was another query, was refused, or ran.                  *)
Queried ==
  /\ wrap.nullData /\ call.op = "none" /\ status = "SUCCESS" /\ box.iv = wrap.iv
  /\ size = 0 /\ Announced = 0

Refused ==
  /\ ~ wrap.nullData /\ call.op = "none" /\ status = "NULL_ARGUMENT_ERROR"
  /\ box.iv = wrap.iv /\ mem["dest_buf"] = Zeros
  /\ wrap.nullSource /\ (wrap.op = "encrypt" => wrap.full # 0 \/ wrap.rest # 0)

Ran ==
  /\ ~ wrap.nullData
  /\ call.op = wrap.op /\ call.full = wrap.full /\ call.rest = wrap.rest
  /\ call.src = "src_buf" /\ call.dest = "dest_buf"
  /\ entry.iv = wrap.iv /\ entry.mem["dest_buf"] = Zeros

(* How the wrapper was left, if not by returning.                           *)
Left ==
  \/ thrown = "bad_alloc" /\ box.iv = wrap.iv
  \/ thrown = "MISSING_PADDING_ERROR" /\ thrown = status /\ box.iv = wrap.iv
  \/ thrown = status /\ Refused
  \/ thrown = status /\ thrown # "SUCCESS" /\ Ran
  \/ thrown = "length_error" /\ Ran /\ Accepted /\ status = "SUCCESS" /\ size > MaxVectorSize

CalledAgain ==
  /\ wrap.step = "running" => Ran
  /\ wrap.step = "called" => Queried \/ Refused \/ Ran
  /\ wrap.step = "cut" => status = "SUCCESS" /\ (Queried \/ Ran)
  /\ Returned => /\ status = "SUCCESS" /\ (Queried \/ Ran) /\ Accepted
                 /\ length = size
  /\ (wrap.op # "none" /\ wrap.step = "idle" /\ thrown # "nothing") => Left

Inv == BoxInv /\ Types /\ Made /\ Asked /\ CalledAgain

-----------------------------------------------------------------------------
(***************************************************************************)
(* The box.                                                                *)
(***************************************************************************)
LEMMA BoxConstants ==
  /\ Cells \in Nat \ {0} /\ BlockSize \in Nat \ {0} /\ SizeMod \in Nat \ {0}
  /\ MaxVectorSize \in Nat /\ ByteMax \in Nat
  /\ "src_buf" \in Buffers /\ "dest_buf" \in Buffers
  BY SizesAssumption, BlockSizeAssumption, WrapperAssumption

(* The constants of the box are as Box_proofs assumes.                      *)
LEMMA BoxAssumptions ==
  /\ BP!BlockSizeAssumption /\ BP!XorAssumption /\ BP!CipherAssumption
  /\ BP!IncAssumption /\ BP!SizesAssumption /\ BP!CallsAssumption
<1>1. BP!Block = Block /\ BP!Byte = Byte
  BY DEF BP!Block, Block, BP!Byte, Byte
<1>2. QED
  BY <1>1, BlockSizeAssumption, XorAssumption, CipherAssumption, IncAssumption,
     SizesAssumption, WrapperAssumption
     DEF BP!BlockSizeAssumption, BP!XorAssumption, BP!CipherAssumption,
         BP!IncAssumption, BP!SizesAssumption, BP!CallsAssumption

(* The operators of both instances are those of this module.                *)
LEMMA SameSets ==
  /\ BP!Mode = Mode /\ BP!PaddedMode = PaddedMode /\ B!PaddedMode = PaddedMode
  /\ BP!Block = Block /\ BP!Memory = Memory
  /\ BP!Status = B!Status /\ BP!Step = B!Step
  /\ (BP!Padded <=> box.mode \in PaddedMode)
  /\ (Padded <=> box.mode \in PaddedMode)
  BY DEF BP!Mode, Mode, BP!PaddedMode, B!PaddedMode, PaddedMode, BP!Block, Block, BP!Byte,
         Byte, BP!Memory, Memory, BP!Status, B!Status, BP!Step, B!Step, BP!Padded, Padded

LEMMA SameSizes ==
  ASSUME NEW mode, NEW full, NEW rest
  PROVE  /\ B!EncryptedSize(mode, full, rest) = EncryptedSize(mode, full, rest)
         /\ BP!EncryptedSize(mode, full, rest) = EncryptedSize(mode, full, rest)
         /\ B!InBytes(full, rest) = InBytes(full, rest)
         /\ BP!InBytes(full, rest) = InBytes(full, rest)
         /\ B!LacksPadding(mode, full, rest) <=> LacksPadding(mode, full, rest)
         /\ BP!LacksPadding(mode, full, rest) <=> LacksPadding(mode, full, rest)
  BY DEF B!EncryptedSize, BP!EncryptedSize, EncryptedSize, B!InBytes, BP!InBytes, InBytes,
         B!LacksPadding, BP!LacksPadding, LacksPadding, B!PaddedMode, BP!PaddedMode,
         PaddedMode

LEMMA SameEquations ==
  ASSUME NEW mode, NEW key, NEW iv, NEW P, NEW C, NEW n
  PROVE  /\ BP!Chained(mode, key, iv, P, C, n) = Chained(mode, key, iv, P, C, n)
         /\ BP!ClaimedPadding(P, n) = ClaimedPadding(P, n)
  BY DEF BP!Chained, Chained, BP!XorBlocks, XorBlocks, BP!ClaimedPadding, ClaimedPadding

(* A call in progress goes on as it does in Box.                            *)
LEMMA BoxProgress == B!Progress => BP!Progress
  BY DEF
    B!Progress, BP!Progress, B!ProcessBlock, BP!ProcessBlock, B!NothingLeft,
    BP!NothingLeft, B!MallocFirst, BP!MallocFirst, B!MallocFirstFails,
    BP!MallocFirstFails, B!MallocSecond, BP!MallocSecond, B!MallocSecondFails,
    BP!MallocSecondFails, B!EncryptPaddedBlock, BP!EncryptPaddedBlock,
    B!ProcessPartialBlock, BP!ProcessPartialBlock, B!FreeSecond, BP!FreeSecond,
    B!FreeFirst, BP!FreeFirst, B!RemovePadding, BP!RemovePadding,
    B!RejectPadding, BP!RejectPadding, B!LoopDone, BP!LoopDone,
    B!NeedsTemporary, BP!NeedsTemporary, B!First, BP!First, B!Second,
    BP!Second, B!Return, BP!Return, B!Store, BP!Store, B!Crypt, BP!Crypt,
    B!EncryptBlock, BP!EncryptBlock, B!EncryptBlockEcb, BP!EncryptBlockEcb,
    B!EncryptBlockCbc, BP!EncryptBlockCbc, B!EncryptBlockCfb,
    BP!EncryptBlockCfb, B!EncryptBlockOfb, BP!EncryptBlockOfb,
    B!EncryptBlockCtr, BP!EncryptBlockCtr, B!DecryptBlock, BP!DecryptBlock,
    B!DecryptBlockEcb, BP!DecryptBlockEcb, B!DecryptBlockCbc,
    BP!DecryptBlockCbc, B!DecryptBlockCfb, BP!DecryptBlockCfb, B!XorBlocks,
    BP!XorBlocks, B!ZeroExtended, BP!ZeroExtended, B!Overwritten,
    BP!Overwritten, B!FillWithPadding, BP!FillWithPadding, B!Padded, BP!Padded,
    B!PaddedMode, BP!PaddedMode, B!PaddingAccepted, BP!PaddingAccepted,
    B!PaddingRejected, BP!PaddingRejected, B!ScanMismatch, BP!ScanMismatch,
    B!ScanLeavesBuffer, BP!ScanLeavesBuffer, B!ClaimedPadding,
    BP!ClaimedPadding, B!ByteAt, BP!ByteAt

(* What the wrapper asks of the box is what a caller of Box may ask.        *)
LEMMA BoxCalls ==
  ASSUME NEW op \in {"encrypt", "decrypt"}, NEW full \in 0 .. Cells,
         NEW rest \in 0 .. BlockSize - 1
  PROVE  /\ B!QueryEncryptedSize(full, rest) => BP!Caller
         /\ B!QueryDecryptedSize(full, rest) => BP!Caller
         /\ B!RefuseMissingPadding(full, rest) => BP!Caller
         /\ B!RefuseNullSource(op, full, rest) => BP!Caller
         /\ B!BeginEncrypt("src_buf", "dest_buf", full, rest) => BP!Caller
         /\ B!BeginDecrypt("src_buf", "dest_buf", full, rest) => BP!Caller
<1>1. /\ B!QueryEncryptedSize(full, rest) => BP!QueryEncryptedSize(full, rest)
      /\ B!QueryDecryptedSize(full, rest) => BP!QueryDecryptedSize(full, rest)
      /\ B!RefuseMissingPadding(full, rest) => BP!RefuseMissingPadding(full, rest)
  BY SameSizes DEF B!QueryEncryptedSize, BP!QueryEncryptedSize, B!QueryDecryptedSize,
     BP!QueryDecryptedSize, B!RefuseMissingPadding, BP!RefuseMissingPadding, B!Called,
     BP!Called, B!NoCall, BP!NoCall
<1>2. B!RefuseNullSource(op, full, rest) => BP!RefuseNullSource(op, full, rest)
  BY SameSizes DEF B!RefuseNullSource, BP!RefuseNullSource, B!Called, BP!Called,
     B!NoCall, BP!NoCall
<1>3. B!BeginEncrypt("src_buf", "dest_buf", full, rest)
        => BP!BeginEncrypt("src_buf", "dest_buf", full, rest)
  BY SameSizes, SameSets DEF B!BeginEncrypt, BP!BeginEncrypt, B!Enter, BP!Enter, B!Called,
     BP!Called, B!EncryptionFits, BP!EncryptionFits
<1>4. B!BeginDecrypt("src_buf", "dest_buf", full, rest)
        => BP!BeginDecrypt("src_buf", "dest_buf", full, rest)
  BY SameSizes DEF B!BeginDecrypt, BP!BeginDecrypt, B!Enter, BP!Enter, B!Called, BP!Called,
     B!DecryptionFits, BP!DecryptionFits
<1>5. "src_buf" \in Buffers /\ "dest_buf" \in Buffers
  BY BoxConstants
<1>6. QED
  BY <1>1, <1>2, <1>3, <1>4, <1>5 DEF BP!Caller

(* What is known of the types of the box, in the terms of this module.      *)
CallRecord ==
  [op : {"none", "encrypt", "decrypt"}, step : B!Step, src : Buffers, dest : Buffers,
   full : 0 .. Cells, rest : 0 .. BlockSize - 1, done : 0 .. Cells, cut : BOOLEAN,
   status : B!Status]

LEMMA BoxTypes ==
  ASSUME BP!Inductive
  PROVE  /\ box \in [mode : Mode, key : Key, iv : Block]
         /\ mem \in [Buffers -> Memory]
         /\ call \in CallRecord
         /\ size \in 0 .. SizeMod - 1 /\ status \in B!Status
         /\ entry.mem \in [Buffers -> Memory] /\ entry.iv \in Block
         /\ call.step # "idle" => call.op # "none"
         /\ call.op = "none" => call.done = 0 /\ ~ call.cut
  BY SameSets DEF BP!Inductive, BP!TypeOK, BP!CallShape, CallRecord

(* A step of the box, whoever takes it.                                     *)
LEMMA BoxStep ==
  ASSUME BoxInv, [BP!Next]_boxVars,
         wrap.step # "sizing" \/ call'.op = "none" \/ wrap'.step = "sizing"
  PROVE  BoxInv'
<1>1. [BP!Next]_(BP!vars)
  BY DEF boxVars, BP!vars
<1>2. BP!Inductive' /\ BP!Follows' /\ BP!Returns' /\ BP!FailureTellsCause'
  <2>1. BP!Inductive'
    BY <1>1, BoxAssumptions, BP!InductiveStep DEF BoxInv
  <2>2. BP!Follows'
    BY <1>1, <2>1, BoxAssumptions, BP!FollowsStep DEF BoxInv
  <2>3. BP!Returns'
    BY <1>1, BoxAssumptions, BP!ReturnsStep DEF BoxInv
  <2>4. BP!FailureTellsCause'
    BY <1>1, BoxAssumptions, BP!FailureStep DEF BoxInv
  <2>5. QED
    BY <2>1, <2>2, <2>3, <2>4
<1>3. wrap'.step # "sizing" => BP!SizeMatchesOutput'
  <2>1. CASE wrap.step # "sizing"
    BY <1>1, <2>1, BoxAssumptions, BP!SizeStep DEF BoxInv
  <2>2. CASE call'.op = "none"
    BY <2>2 DEF BP!SizeMatchesOutput
  <2>3. QED
    BY <2>1, <2>2
<1>4. QED
  BY <1>2, <1>3 DEF BoxInv

(* The answer to a query.                                                   *)
LEMMA AskEffect ==
  ASSUME Inv, AskForSize
  PROVE  /\ BP!Next
         /\ call'.op = "none" /\ call'.step = "idle" /\ UNCHANGED <<box, mem>>
         /\ status' \in B!Status
         /\ \/ status' = "SUCCESS" /\ Accepted /\ size' = Announced
            \/ status' = "MISSING_PADDING_ERROR" /\ ~ Accepted
<1>1. /\ wrap.full \in 0 .. Cells /\ wrap.rest \in 0 .. BlockSize - 1
  BY DEF Inv, Types, WrapRecord
<1>2. BP!Next
  BY <1>1, BoxCalls DEF AskForSize, BP!Next
<1>3. /\ call'.op = "none" /\ call'.step = "idle" /\ UNCHANGED <<box, mem>>
  BY DEF AskForSize, B!QueryEncryptedSize, B!QueryDecryptedSize, B!RefuseMissingPadding,
         B!Called, B!NoCall
<1>4. \/ status' = "SUCCESS" /\ Accepted /\ size' = Announced
      \/ status' = "MISSING_PADDING_ERROR" /\ ~ Accepted
  BY SameSizes DEF AskForSize, B!QueryEncryptedSize, B!QueryDecryptedSize,
     B!RefuseMissingPadding, Accepted, Announced
<1>5. QED
  BY <1>2, <1>3, <1>4 DEF B!Status

(* The second call refused for its source.                                  *)
LEMMA RefuseEffect ==
  ASSUME Inv, wrap.op # "none", B!RefuseNullSource(wrap.op, wrap.full, wrap.rest)
  PROVE  /\ BP!Next
         /\ call'.op = "none" /\ call'.step = "idle" /\ UNCHANGED <<box, mem>>
         /\ status' = "NULL_ARGUMENT_ERROR" /\ status' \in B!Status
<1>1. /\ wrap.full \in 0 .. Cells /\ wrap.rest \in 0 .. BlockSize - 1
      /\ wrap.op \in {"encrypt", "decrypt"}
  BY DEF Inv, Types, WrapRecord
<1>2. BP!Next
  BY <1>1, BoxCalls DEF BP!Next
<1>3. QED
  BY <1>2 DEF B!RefuseNullSource, B!Called, B!NoCall, B!Status

(* The second call begins.                                                  *)
BeginsCall ==
  \/ /\ wrap.op = "encrypt"
     /\ B!BeginEncrypt("src_buf", "dest_buf", wrap.full, wrap.rest)
  \/ /\ wrap.op = "decrypt"
     /\ B!BeginDecrypt("src_buf", "dest_buf", wrap.full, wrap.rest)

LEMMA BeginEffect ==
  ASSUME Inv, BeginsCall
  PROVE  /\ BP!Next
         /\ call' = [op |-> wrap.op, step |-> "loop", src |-> "src_buf", dest |-> "dest_buf",
                     full |-> wrap.full, rest |-> wrap.rest, done |-> 0, cut |-> FALSE,
                     status |-> "SUCCESS"]
         /\ entry' = [mem |-> mem, iv |-> box.iv, size |-> size]
         /\ UNCHANGED <<box, mem, status>>
         /\ size' = Announced
<1>1. /\ wrap.full \in 0 .. Cells /\ wrap.rest \in 0 .. BlockSize - 1
  BY DEF Inv, Types, WrapRecord
<1>2. BP!Next
  BY <1>1, BoxCalls DEF BeginsCall, BP!Next
<1>3. QED
  BY <1>2, SameSizes
     DEF BeginsCall, B!BeginEncrypt, B!BeginDecrypt, B!Enter, Announced

(* A step of the second call.                                               *)
LEMMA ProgressEffect ==
  ASSUME Inv, B!Progress
  PROVE  /\ BP!Next
         /\ call.step # "idle"
         /\ UNCHANGED <<entry, box.mode, box.key, call.op, call.src, call.dest, call.full,
                        call.rest>>
<1>1. BP!Progress
  BY BoxProgress
<1>2. BP!TypeOK
  BY DEF Inv, BoxInv, BP!Inductive
<1>3. QED
  BY <1>1, <1>2, BoxAssumptions, BP!ProgressKeepsCall DEF BP!Next

-----------------------------------------------------------------------------
(***************************************************************************)
(* Sizes.                                                                  *)
(***************************************************************************)
LEMMA Multiples ==
  ASSUME NEW x \in Nat, NEW y \in Nat, NEW b \in Nat, x <= y
  PROVE  x * b <= y * b
  OBVIOUS

(* A message that fits has a size that neither wraps nor is too large for a *)
(* vector.                                                                  *)
LEMMA NoWrapping ==
  ASSUME NEW full \in Nat, NEW rest \in 0 .. BlockSize - 1,
         full < Cells \/ (full = Cells /\ rest = 0)
  PROVE  /\ full * BlockSize + rest \in 0 .. MaxVectorSize
         /\ full * BlockSize + rest <= Cells * BlockSize
         /\ InBytes(full, rest) = full * BlockSize + rest
<1>1. /\ Cells \in Nat /\ BlockSize \in Nat /\ MaxVectorSize \in Nat /\ ByteMax \in Nat
      /\ SizeMod \in Nat \ {0}
      /\ (Cells + 1) * BlockSize <= MaxVectorSize /\ MaxVectorSize + ByteMax < SizeMod
  BY BoxConstants, WrapperAssumption
<1>2. (Cells + 1) * BlockSize = Cells * BlockSize + BlockSize /\ Cells * BlockSize \in Nat
  BY <1>1
<1>3. full * BlockSize \in Nat /\ full * BlockSize + rest <= Cells * BlockSize
  <2>1. CASE full < Cells
    <3>1. (full + 1) * BlockSize <= Cells * BlockSize
      BY <1>1, <2>1, Multiples
    <3>2. (full + 1) * BlockSize = full * BlockSize + BlockSize /\ full * BlockSize \in Nat
      BY <1>1
    <3>3. QED
      BY <1>1, <1>2, <3>1, <3>2
  <2>2. CASE full = Cells /\ rest = 0
    BY <1>1, <1>2, <2>2
  <2>3. QED
    BY <2>1, <2>2
<1> DEFINE s == full * BlockSize + rest
<1>4. s \in 0 .. MaxVectorSize /\ s < SizeMod
  BY <1>1, <1>2, <1>3
<1> HIDE DEF s
<1>5. s % SizeMod = s
  BY <1>1, <1>4
<1>6. QED
  BY <1>3, <1>4, <1>5 DEF s, InBytes

(* What is announced is the size of the message that will come out, padding *)
(* included.                                                                *)
LEMMA AnnouncedIsExact ==
  ASSUME Inv, wrap.op # "none"
  PROVE  /\ Announced \in 0 .. MaxVectorSize
         /\ Announced = IF wrap.op = "encrypt" /\ box.mode \in PaddedMode
                        THEN (wrap.full + 1) * BlockSize
                        ELSE wrap.full * BlockSize + wrap.rest
<1>1. /\ wrap.full \in 0 .. Cells /\ wrap.rest \in 0 .. BlockSize - 1
      /\ wrap.op \in {"encrypt", "decrypt"} /\ Made
      /\ Cells \in Nat /\ BlockSize \in Nat \ {0}
  BY BoxConstants DEF Inv, Types, WrapRecord
<1>2. CASE wrap.op = "encrypt" /\ box.mode \in PaddedMode
  <2>1. wrap.full + 1 <= Cells
    BY <1>1, <1>2 DEF Made, Fits, EncryptionFits
  <2>2. /\ (wrap.full + 1) * BlockSize + 0 \in 0 .. MaxVectorSize
        /\ InBytes(wrap.full + 1, 0) = (wrap.full + 1) * BlockSize + 0
    <3>1. wrap.full + 1 \in Nat /\ 0 \in 0 .. BlockSize - 1
          /\ (wrap.full + 1 < Cells \/ (wrap.full + 1 = Cells /\ 0 = 0))
      BY <1>1, <2>1
    <3>2. QED
      BY <3>1, NoWrapping
  <2>3. (wrap.full + 1) * BlockSize + 0 = (wrap.full + 1) * BlockSize
    BY <1>1
  <2>4. Announced = InBytes(wrap.full + 1, 0)
    BY <1>2 DEF Announced, EncryptedSize
  <2>5. QED
    BY <1>2, <2>2, <2>3, <2>4
<1>3. CASE ~ (wrap.op = "encrypt" /\ box.mode \in PaddedMode)
  <2>1. wrap.full < Cells \/ (wrap.full = Cells /\ wrap.rest = 0)
    BY <1>1, <1>3 DEF Made, Fits, EncryptionFits, DecryptionFits
  <2>2. Announced = InBytes(wrap.full, wrap.rest)
    BY <1>1, <1>3 DEF Announced, EncryptedSize
  <2>3. QED
    BY <1>1, <1>3, <2>1, <2>2, NoWrapping
<1>4. QED
  BY <1>2, <1>3

-----------------------------------------------------------------------------
(***************************************************************************)
(* The steps.                                                              *)
(***************************************************************************)
(* A step of the wrapper alone.                                             *)
LEMMA BoxKept ==
  ASSUME BoxInv, UNCHANGED boxVars, wrap.step # "sizing"
  PROVE  BoxInv'
  BY BoxStep

(* What was announced and accepted depends on the call of the wrapper.      *)
LEMMA SameCall ==
  ASSUME UNCHANGED <<box.mode, wrap.op, wrap.full, wrap.rest>>
  PROVE  Announced' = Announced /\ (Accepted' <=> Accepted) /\ (Fits' <=> Fits)
  BY DEF Announced, Accepted, Fits

LEMMA Moved ==
  ASSUME Types, NEW s \in WrapStep, GoTo(s)
  PROVE  /\ wrap' \in WrapRecord
         /\ wrap'.step = s
         /\ UNCHANGED <<wrap.op, wrap.full, wrap.rest, wrap.nullSource, wrap.nullData,
                        wrap.iv>>
  BY DEF Types, WrapRecord, GoTo

LEMMA InvInit == Init => Inv
<1> SUFFICES ASSUME Init PROVE Inv
  OBVIOUS
<1>1. BP!Init
  BY SizesAssumption DEF Init, B!Init, BP!Init, B!Mode, BP!Mode, B!NoCall, BP!NoCall
<1>2. BoxInv
  BY <1>1, BoxAssumptions, BP!WellBehavedInit DEF BP!WellBehaved, BoxInv
<1>3. /\ wrap.op = "none" /\ wrap.step = "idle" /\ call.step = "idle" /\ call.op = "none"
  BY DEF Init, B!Init, B!NoCall
<1>4. Types
  <2>1. box.iv \in Block
    BY <1>2, BoxTypes DEF BoxInv
  <2>2. QED
    BY <1>3, <2>1, BoxConstants DEF Init, Types, WrapRecord, WrapStep, B!Status
<1>5. Made /\ Asked /\ CalledAgain
  BY <1>3 DEF Made, Fits, Asked, CalledAgain, Returned
<1>6. QED
  BY <1>2, <1>4, <1>5 DEF Inv

(* Where no call of the wrapper is being made or was made last.             *)
LEMMA FillStep ==
  ASSUME Inv, NEW cells \in Contents, Fill(cells)
  PROVE  Inv'
<1>1. BP!FillBuffer("src_buf", cells)
  BY DEF Fill, B!FillBuffer, BP!FillBuffer, B!NoCall, BP!NoCall
<1>2. BoxInv'
  <2>1. BP!Next
    BY <1>1, BoxConstants DEF BP!Next, BP!Caller
  <2>2. wrap.step # "sizing"
    BY DEF Fill
  <2>3. QED
    BY <2>1, <2>2, BoxStep DEF Inv
<1>3. /\ wrap' = [wrap EXCEPT !.op = "none"] /\ wrap.step = "idle"
      /\ call'.step = "idle" /\ UNCHANGED <<length, details, thrown>>
  BY <1>1 DEF Fill, BP!FillBuffer, BP!NoCall
<1>4. Types'
  BY <1>3 DEF Inv, Types, WrapRecord
<1>5. wrap'.op = "none" /\ wrap'.step = "idle"
  BY <1>3 DEF Inv, Types, WrapRecord
<1>6. Made' /\ Asked' /\ CalledAgain'
  BY <1>5 DEF Made, Fits, Asked, CalledAgain, Returned
<1>7. QED
  BY <1>2, <1>4, <1>6 DEF Inv

(* *dest_size is cleared: what a box promises of it may no longer hold, but *)
(* it will be written before the wrapper looks at it.                       *)
LEMMA CallWrapperStep ==
  ASSUME Inv, NEW op \in {"encrypt", "decrypt"}, NEW full \in 0 .. Cells,
         NEW rest \in 0 .. BlockSize - 1, NEW nullSource \in BOOLEAN,
         CallWrapper(op, full, rest, nullSource)
  PROVE  Inv'
<1>1. /\ wrap.step = "idle" /\ call.step = "idle"
      /\ wrap' = [op |-> op, step |-> "sizing", full |-> full, rest |-> rest,
                  nullSource |-> nullSource, nullData |-> TRUE, iv |-> box.iv]
      /\ size' = 0 /\ length' = 0 /\ thrown' = "nothing"
      /\ UNCHANGED <<box, mem, call, heap, status, calls, entry, details>>
      /\ IF op = "encrypt" THEN EncryptionFits(box.mode, full, rest)
         ELSE DecryptionFits(full, rest)
  BY DEF CallWrapper, Inv, Types
<1>2. BP!Inductive'
  <2>1. BP!TypeOK'
    BY <1>1, BoxConstants DEF Inv, BoxInv, BP!Inductive, BP!TypeOK
  <2>2. BP!CallShape'
    BY <1>1 DEF Inv, BoxInv, BP!Inductive, BP!CallShape, BP!Padded, BP!NeedsTemporary
  <2>3. QED
    BY <2>1, <2>2 DEF BP!Inductive
<1>3. BP!Follows'
  <2>1. UNCHANGED <<box, mem, entry, call.op, call.src, call.dest, call.full,
                     call.rest, call.done, call.cut>>
    BY <1>1
  <2>2. QED
    BY <2>1, BoxAssumptions, BP!FollowsUnchanged DEF Inv, BoxInv
<1>4. BP!Returns' /\ BP!FailureTellsCause'
  BY <1>1 DEF Inv, BoxInv, BP!Returns, BP!StatusTellsProgress, BP!SizeIsAnnounced,
              BP!FailureTellsCause, BP!Complete, BP!OnlyFullBlocks, BP!Padded, BP!Output
<1>5. BoxInv'
  BY <1>1, <1>2, <1>3, <1>4 DEF BoxInv
<1>6. Types'
  <2>1. box.iv \in Block
    BY BoxTypes DEF Inv, BoxInv
  <2>2. QED
    BY <1>1, <2>1, BoxConstants DEF Inv, Types, WrapRecord, WrapStep
<1>7. Made'
  BY <1>1 DEF Made, Fits
<1>8. Asked' /\ CalledAgain'
  BY <1>1 DEF Asked, CalledAgain, Returned
<1>9. QED
  BY <1>5, <1>6, <1>7, <1>8 DEF Inv

(* The size is asked for.                                                   *)
LEMMA QuerySizeStep ==
  ASSUME Inv, QuerySize
  PROVE  Inv'
<1>1. /\ wrap.step = "sizing" /\ AskForSize /\ Report /\ GoTo("sized")
      /\ UNCHANGED <<length, thrown>>
  BY DEF QuerySize
<1>2. /\ BP!Next /\ call'.op = "none" /\ call'.step = "idle" /\ UNCHANGED <<box, mem>>
      /\ status' \in B!Status
      /\ \/ status' = "SUCCESS" /\ Accepted /\ size' = Announced
         \/ status' = "MISSING_PADDING_ERROR" /\ ~ Accepted
  BY <1>1, AskEffect
<1>3. BoxInv'
  BY <1>2, BoxStep DEF Inv
<1>4. /\ wrap' \in WrapRecord
      /\ wrap'.step = "sized"
      /\ UNCHANGED <<wrap.op, wrap.full, wrap.rest, wrap.nullSource, wrap.nullData,
                     wrap.iv>>
  BY <1>1, Moved DEF Inv, WrapStep
<1>5. Announced' = Announced /\ (Accepted' <=> Accepted) /\ (Fits' <=> Fits)
  BY <1>2, <1>4, SameCall
<1>6. details' = status'
  BY <1>1 DEF Report, NewDetails
<1>7. Types'
  BY <1>1, <1>2, <1>4, <1>6 DEF Inv, Types
<1>8. Made'
  BY <1>1, <1>4, <1>5 DEF Inv, Made
<1>9. Asked'
  BY <1>1, <1>2, <1>4, <1>5, <1>6 DEF Inv, Asked
<1>10. CalledAgain'
  BY <1>4 DEF CalledAgain, Returned
<1>11. QED
  BY <1>3, <1>7, <1>8, <1>9, <1>10 DEF Inv

(* Only the wrapper moves, and not by a return.                             *)
LEMMA DestroyDetailsStep ==
  ASSUME Inv, DestroyDetails
  PROVE  Inv'
<1>1. wrap.step \in {"sized", "called"} /\ UNCHANGED <<boxVars, details>>
  BY DEF DestroyDetails
<1>2. BoxInv'
  BY <1>1, BoxKept DEF Inv
<1>3. UNCHANGED <<box, mem, call, heap, size, status, calls, entry>>
  BY <1>1 DEF boxVars
<1>4. wrap.op # "none" /\ details = status
  BY <1>1 DEF Inv, Made, Asked
<1>5. CASE details # "SUCCESS"
  <2>1. thrown' = details /\ length' = 0 /\ GoTo("idle")
    BY <1>5 DEF DestroyDetails, Throw
  <2>2. /\ wrap' \in WrapRecord
        /\ wrap'.step = "idle"
        /\ UNCHANGED <<wrap.op, wrap.full, wrap.rest, wrap.nullSource, wrap.nullData,
                       wrap.iv>>
    BY <2>1, Moved DEF Inv, WrapStep
  <2>3. Announced' = Announced /\ (Accepted' <=> Accepted) /\ (Fits' <=> Fits)
    BY <1>3, <2>2, SameCall
  <2>4. Types'
    BY <1>1, <1>3, <1>5, <2>1, <2>2, BoxConstants DEF Inv, Types, Exception
  <2>5. Made'
    BY <2>2, <2>3 DEF Inv, Made
  <2>6. Asked'
    BY <2>2 DEF Asked
  <2>7. \/ status = "MISSING_PADDING_ERROR" /\ box.iv = wrap.iv
        \/ Refused \/ Ran
    BY <1>1, <1>4, <1>5 DEF Inv, Asked, CalledAgain, Queried
  <2>8. (Refused' <=> Refused) /\ (Ran' <=> Ran)
    BY <1>3, <2>2 DEF Refused, Ran
  <2>9. thrown' = status /\ thrown' # "SUCCESS" /\ status \in B!Status
    BY <1>4, <1>5, <2>1 DEF Inv, Types
  <2>10. Left'
    BY <1>3, <2>2, <2>7, <2>8, <2>9 DEF Left
  <2>11. thrown' # "nothing"
    BY <2>9 DEF B!Status
  <2>12. CalledAgain'
    BY <2>2, <2>10, <2>11 DEF CalledAgain, Returned
  <2>13. QED
    BY <1>2, <2>4, <2>5, <2>6, <2>12 DEF Inv
<1>6. CASE details = "SUCCESS"
  <2> DEFINE s == IF wrap.step = "sized" THEN "allocate" ELSE "cut"
  <2>1. GoTo(s) /\ UNCHANGED <<length, thrown>> /\ s \in WrapStep
    BY <1>6 DEF DestroyDetails, WrapStep
  <2> HIDE DEF s
  <2>2. /\ wrap' \in WrapRecord
        /\ wrap'.step = s
        /\ UNCHANGED <<wrap.op, wrap.full, wrap.rest, wrap.nullSource, wrap.nullData,
                       wrap.iv>>
    BY <2>1, Moved DEF Inv
  <2>3. Announced' = Announced /\ (Accepted' <=> Accepted) /\ (Fits' <=> Fits)
    BY <1>3, <2>2, SameCall
  <2>4. \/ wrap.step = "sized" /\ s = "allocate"
        \/ wrap.step = "called" /\ s = "cut"
    BY <1>1 DEF s
  <2>5. Types'
    BY <1>1, <1>3, <2>1, <2>2, <2>4 DEF Inv, Types
  <2>6. Made'
    BY <1>1, <1>4, <2>1, <2>2, <2>3 DEF Inv, Made
  <2>7. Asked'
    BY <1>3, <1>4, <1>6, <2>1, <2>2, <2>3, <2>4 DEF Inv, Asked
  <2>8. (Queried' <=> Queried) /\ (Ran' <=> Ran)
    BY <1>3, <2>2, <2>3 DEF Queried, Ran
  <2>9. wrap.step = "called" => Queried \/ Ran
    BY <1>4, <1>6 DEF Inv, CalledAgain, Refused
  <2>10. CalledAgain'
    BY <1>3, <1>4, <1>6, <2>2, <2>4, <2>8, <2>9 DEF CalledAgain, Returned
  <2>11. QED
    BY <1>2, <2>5, <2>6, <2>7, <2>10 DEF Inv
<1>7. QED
  BY <1>5, <1>6

(* The vector is made: the only memory of the box that changes is the one   *)
(* it will write, and no call looks at it.                                  *)
LEMMA AllocateStep ==
  ASSUME Inv, Allocate
  PROVE  Inv'
<1>1. PICK null \in BOOLEAN :
        /\ null => size = 0
        /\ wrap' = [wrap EXCEPT !.step = "call", !.nullData = null]
  BY DEF Allocate
<1>2. /\ wrap.step = "allocate" /\ length' = size
      /\ mem' = [mem EXCEPT !["dest_buf"] = Zeros]
      /\ UNCHANGED <<box, call, heap, size, status, calls, entry, details, thrown>>
  BY DEF Allocate, Zeros
<1>3. /\ call.op = "none" /\ call.step = "idle" /\ ~ call.cut
      /\ size = Announced /\ Accepted /\ wrap.op # "none" /\ box.iv = wrap.iv
  BY <1>2, BoxTypes DEF Inv, BoxInv, Asked, Made, Types
<1>4. /\ wrap' \in WrapRecord /\ wrap'.step = "call" /\ wrap'.nullData = null
      /\ UNCHANGED <<wrap.op, wrap.full, wrap.rest, wrap.nullSource, wrap.iv>>
  BY <1>1 DEF Inv, Types, WrapRecord, WrapStep
<1>5. mem \in [Buffers -> Memory] /\ Zeros \in Memory
  BY BoxTypes, BlockSizeAssumption DEF Inv, BoxInv, Zeros, Memory, Block, Byte
<1>6. mem' \in [Buffers -> Memory] /\ mem'["dest_buf"] = Zeros
  BY <1>2, <1>5, BoxConstants
<1>7. BP!Inductive'
  <2>1. BP!TypeOK'
    BY <1>2, <1>6, SameSets DEF Inv, BoxInv, BP!Inductive, BP!TypeOK
  <2>2. BP!CallShape'
    BY <1>2 DEF Inv, BoxInv, BP!Inductive, BP!CallShape, BP!Padded, BP!NeedsTemporary
  <2>3. QED
    BY <2>1, <2>2 DEF BP!Inductive
<1>8. BP!Follows'
  BY <1>2, <1>3 DEF BP!Follows, BP!OnlyOutputIsWritten, BP!BlocksFollowMode,
                    BP!IvIsChained, BP!PartialBlockFollowsMode
<1>9. BP!Returns' /\ BP!FailureTellsCause' /\ BP!SizeMatchesOutput'
  BY <1>2, <1>3 DEF BP!Returns, BP!StatusTellsProgress, BP!SizeIsAnnounced,
                    BP!FailureTellsCause, BP!SizeMatchesOutput
<1>10. BoxInv'
  BY <1>7, <1>8, <1>9 DEF BoxInv
<1>11. Announced' = Announced /\ (Accepted' <=> Accepted) /\ (Fits' <=> Fits)
  BY <1>2, <1>4, SameCall
<1>12. Types'
  <2>1. size \in 0 .. MaxVectorSize
    BY <1>3, AnnouncedIsExact
  <2>2. QED
    BY <1>2, <1>3, <1>4, <2>1 DEF Inv, Types
<1>13. Made'
  BY <1>2, <1>3, <1>4, <1>11 DEF Inv, Made
<1>14. Asked'
  BY <1>1, <1>2, <1>3, <1>4, <1>6, <1>11 DEF Asked
<1>15. CalledAgain'
  BY <1>4 DEF CalledAgain, Returned
<1>16. QED
  BY <1>10, <1>12, <1>13, <1>14, <1>15 DEF Inv

LEMMA AllocationFailsStep ==
  ASSUME Inv, AllocationFails
  PROVE  Inv'
<1>1. /\ wrap.step = "allocate" /\ UNCHANGED <<boxVars, details>>
      /\ thrown' = "bad_alloc" /\ length' = 0 /\ GoTo("idle")
  BY DEF AllocationFails, Throw
<1>2. BoxInv'
  BY <1>1, BoxKept DEF Inv
<1>3. UNCHANGED <<box, mem, call, heap, size, status, calls, entry>>
  BY <1>1 DEF boxVars
<1>4. wrap.op # "none" /\ box.iv = wrap.iv
  BY <1>1 DEF Inv, Made, Asked
<1>5. /\ wrap' \in WrapRecord /\ wrap'.step = "idle"
      /\ UNCHANGED <<wrap.op, wrap.full, wrap.rest, wrap.nullSource, wrap.nullData,
                     wrap.iv>>
  BY <1>1, Moved DEF Inv, WrapStep
<1>6. Announced' = Announced /\ (Accepted' <=> Accepted) /\ (Fits' <=> Fits)
  BY <1>3, <1>5, SameCall
<1>7. Types'
  BY <1>1, <1>3, <1>5, BoxConstants DEF Inv, Types, Exception
<1>8. Made' /\ Asked'
  BY <1>5, <1>6 DEF Inv, Made, Asked
<1>9. CalledAgain'
  BY <1>1, <1>3, <1>4, <1>5 DEF CalledAgain, Returned, Left
<1>10. QED
  BY <1>2, <1>7, <1>8, <1>9 DEF Inv

(* The second call is another query: there was nothing to write.            *)
LEMMA AskAgainStep ==
  ASSUME Inv, AskAgain
  PROVE  Inv'
<1>1. /\ wrap.step = "call" /\ wrap.nullData /\ AskForSize /\ Report /\ GoTo("called")
      /\ UNCHANGED <<length, thrown>>
  BY DEF AskAgain
<1>2. /\ BP!Next /\ call'.op = "none" /\ call'.step = "idle" /\ UNCHANGED <<box, mem>>
      /\ status' \in B!Status
      /\ \/ status' = "SUCCESS" /\ Accepted /\ size' = Announced
         \/ status' = "MISSING_PADDING_ERROR" /\ ~ Accepted
  BY <1>1, AskEffect
<1>3. BoxInv'
  BY <1>2, BoxStep DEF Inv
<1>4. /\ wrap' \in WrapRecord /\ wrap'.step = "called"
      /\ UNCHANGED <<wrap.op, wrap.full, wrap.rest, wrap.nullSource, wrap.nullData,
                     wrap.iv>>
  BY <1>1, Moved DEF Inv, WrapStep
<1>5. Announced' = Announced /\ (Accepted' <=> Accepted) /\ (Fits' <=> Fits)
  BY <1>2, <1>4, SameCall
<1>6. details' = status'
  BY <1>1 DEF Report, NewDetails
<1>7. /\ Accepted /\ size = 0 /\ Announced = 0 /\ length = Announced /\ box.iv = wrap.iv
  BY <1>1 DEF Inv, Asked
<1>8. Types'
  BY <1>1, <1>2, <1>4, <1>6 DEF Inv, Types
<1>9. Made'
  BY <1>1, <1>4, <1>5 DEF Inv, Made
<1>10. Asked'
  BY <1>1, <1>4, <1>5, <1>6, <1>7 DEF Asked
<1>11. Queried'
  BY <1>1, <1>2, <1>4, <1>5, <1>7 DEF Queried
<1>12. CalledAgain'
  BY <1>4, <1>11 DEF CalledAgain, Returned
<1>13. QED
  BY <1>3, <1>8, <1>9, <1>10, <1>12 DEF Inv

LEMMA BoxRefusesStep ==
  ASSUME Inv, BoxRefuses
  PROVE  Inv'
<1>1. /\ wrap.step = "call" /\ ~ wrap.nullData /\ Report /\ GoTo("called")
      /\ B!RefuseNullSource(wrap.op, wrap.full, wrap.rest)
      /\ UNCHANGED <<length, thrown>>
  BY DEF BoxRefuses
<1>2. wrap.op # "none"
  BY <1>1 DEF Inv, Made
<1>3. /\ BP!Next /\ call'.op = "none" /\ call'.step = "idle" /\ UNCHANGED <<box, mem>>
      /\ status' = "NULL_ARGUMENT_ERROR" /\ status' \in B!Status
  BY <1>1, <1>2, RefuseEffect
<1>4. BoxInv'
  BY <1>3, BoxStep DEF Inv
<1>5. /\ wrap' \in WrapRecord /\ wrap'.step = "called"
      /\ UNCHANGED <<wrap.op, wrap.full, wrap.rest, wrap.nullSource, wrap.nullData,
                     wrap.iv>>
  BY <1>1, Moved DEF Inv, WrapStep
<1>6. Announced' = Announced /\ (Accepted' <=> Accepted) /\ (Fits' <=> Fits)
  BY <1>3, <1>5, SameCall
<1>7. details' = status'
  BY <1>1 DEF Report, NewDetails
<1>8. /\ Accepted /\ length = Announced /\ box.iv = wrap.iv /\ mem["dest_buf"] = Zeros
  BY <1>1 DEF Inv, Asked
<1>9. Types'
  BY <1>1, <1>3, <1>5, <1>7 DEF Inv, Types
<1>10. Made'
  BY <1>1, <1>5, <1>6 DEF Inv, Made
<1>11. Asked'
  BY <1>1, <1>5, <1>6, <1>7, <1>8 DEF Asked
<1>12. wrap.nullSource /\ (wrap.op = "encrypt" => wrap.full # 0 \/ wrap.rest # 0)
  BY DEF BoxRefuses, B!RefuseNullSource
<1>13. Refused'
  BY <1>1, <1>3, <1>5, <1>8, <1>12 DEF Refused
<1>14. CalledAgain'
  BY <1>5, <1>13 DEF CalledAgain, Returned
<1>15. QED
  BY <1>4, <1>9, <1>10, <1>11, <1>14 DEF Inv

LEMMA BoxBeginsStep ==
  ASSUME Inv, BoxBegins
  PROVE  Inv'
<1>1. /\ wrap.step = "call" /\ ~ wrap.nullData /\ BeginsCall /\ GoTo("running")
      /\ UNCHANGED <<length, details, thrown>>
  BY DEF BoxBegins, BeginsCall
<1>2. /\ BP!Next
      /\ call' = [op |-> wrap.op, step |-> "loop", src |-> "src_buf", dest |-> "dest_buf",
                  full |-> wrap.full, rest |-> wrap.rest, done |-> 0, cut |-> FALSE,
                  status |-> "SUCCESS"]
      /\ entry' = [mem |-> mem, iv |-> box.iv, size |-> size]
      /\ UNCHANGED <<box, mem, status>>
      /\ size' = Announced
  BY <1>1, BeginEffect
<1>3. BoxInv'
  BY <1>1, <1>2, BoxStep DEF Inv
<1>4. /\ wrap' \in WrapRecord /\ wrap'.step = "running"
      /\ UNCHANGED <<wrap.op, wrap.full, wrap.rest, wrap.nullSource, wrap.nullData,
                     wrap.iv>>
  BY <1>1, Moved DEF Inv, WrapStep
<1>5. Announced' = Announced /\ (Accepted' <=> Accepted) /\ (Fits' <=> Fits)
  BY <1>2, <1>4, SameCall
<1>6. /\ Accepted /\ length = Announced /\ box.iv = wrap.iv /\ mem["dest_buf"] = Zeros
      /\ wrap.op # "none"
  BY <1>1 DEF Inv, Made, Asked
<1>7. Types'
  BY <1>1, <1>2, <1>4 DEF Inv, Types
<1>8. Made'
  BY <1>1, <1>4, <1>5, <1>6 DEF Inv, Made
<1>9. Asked'
  BY <1>1, <1>2, <1>4, <1>5, <1>6 DEF Asked
<1>10. Ran'
  BY <1>1, <1>2, <1>4, <1>6 DEF Ran
<1>11. CalledAgain'
  BY <1>4, <1>10 DEF CalledAgain, Returned
<1>12. QED
  BY <1>3, <1>7, <1>8, <1>9, <1>11 DEF Inv

(* While the call runs *dest_size stays as announced; when it returns, its  *)
(* code is in the details.                                                  *)
LEMMA BoxProgressesStep ==
  ASSUME Inv, BoxProgresses
  PROVE  Inv'
<1>1. /\ wrap.step = "running" /\ B!Progress
      /\ UNCHANGED <<length, thrown>>
  BY DEF BoxProgresses
<1>2. /\ BP!Next /\ call.step # "idle"
      /\ UNCHANGED <<entry, box.mode, box.key, call.op, call.src, call.dest, call.full,
                     call.rest>>
  BY <1>1, ProgressEffect
<1>3. BoxInv'
  BY <1>1, <1>2, BoxStep DEF Inv
<1>4. /\ Ran /\ Accepted /\ length = Announced /\ wrap.op # "none"
  BY <1>1 DEF Inv, CalledAgain, Asked, Made
<1>5. status' \in B!Status
  BY <1>3, SameSets DEF BoxInv, BP!Inductive, BP!TypeOK
<1>6. CASE call'.step = "idle"
  <2>1. Report /\ GoTo("called")
    BY <1>6 DEF BoxProgresses
  <2>2. details' = status'
    BY <2>1 DEF Report, NewDetails
  <2>3. /\ wrap' \in WrapRecord /\ wrap'.step = "called"
        /\ UNCHANGED <<wrap.op, wrap.full, wrap.rest, wrap.nullSource, wrap.nullData,
                       wrap.iv>>
    BY <2>1, Moved DEF Inv, WrapStep
  <2>4. Announced' = Announced /\ (Accepted' <=> Accepted) /\ (Fits' <=> Fits)
    BY <1>2, <2>3, SameCall
  <2>5. Types'
    BY <1>1, <1>5, <1>6, <2>2, <2>3 DEF Inv, Types
  <2>6. Made'
    BY <1>1, <1>4, <2>3, <2>4 DEF Inv, Made
  <2>7. Asked'
    BY <1>1, <1>4, <2>2, <2>3, <2>4 DEF Asked
  <2>8. Ran'
    BY <1>2, <1>4, <2>3 DEF Ran
  <2>9. CalledAgain'
    BY <2>3, <2>8 DEF CalledAgain, Returned
  <2>10. QED
    BY <1>3, <2>5, <2>6, <2>7, <2>9 DEF Inv
<1>7. CASE call'.step # "idle"
  <2>1. wrap' = wrap /\ details' = details
    BY <1>7 DEF BoxProgresses
  <2>2. Announced' = Announced /\ (Accepted' <=> Accepted) /\ (Fits' <=> Fits)
    BY <1>2, <2>1, SameCall
  <2>3. Types'
    BY <1>1, <1>2, <1>7, <2>1 DEF Inv, Types
  <2>4. Made'
    BY <1>1, <2>1, <2>2 DEF Inv, Made
  <2>5. size' = Announced'
    <3>1. size' = IF call'.op = "encrypt"
                  THEN BP!EncryptedSize(box'.mode, call'.full, call'.rest)
                  ELSE BP!InBytes(call'.full, call'.rest)
      BY <1>3, <1>7 DEF BoxInv, BP!Returns, BP!SizeIsAnnounced
    <3>2. call'.op = wrap.op /\ call'.full = wrap.full /\ call'.rest = wrap.rest
      BY <1>2, <1>4 DEF Ran
    <3>3. size' = Announced
      BY <1>2, <3>1, <3>2, SameSizes DEF Announced
    <3>4. QED
      BY <2>2, <3>3
  <2>6. Asked'
    BY <1>1, <1>4, <2>1, <2>2, <2>5 DEF Asked
  <2>7. Ran'
    BY <1>2, <1>4, <2>1 DEF Ran
  <2>8. CalledAgain'
    BY <1>1, <2>1, <2>7 DEF CalledAgain, Returned
  <2>9. QED
    BY <1>3, <2>3, <2>4, <2>6, <2>8 DEF Inv
<1>8. QED
  BY <1>6, <1>7

(* The vector is cut and returned.                                          *)
LEMMA CutStep ==
  ASSUME Inv, Cut
  PROVE  Inv'
<1>1. /\ wrap.step = "cut" /\ size <= MaxVectorSize /\ length' = size /\ GoTo("idle")
      /\ UNCHANGED <<boxVars, details, thrown>>
  BY DEF Cut
<1>2. BoxInv'
  BY <1>1, BoxKept DEF Inv
<1>3. UNCHANGED <<box, mem, call, heap, size, status, calls, entry>>
  BY <1>1 DEF boxVars
<1>4. /\ wrap' \in WrapRecord /\ wrap'.step = "idle"
      /\ UNCHANGED <<wrap.op, wrap.full, wrap.rest, wrap.nullSource, wrap.nullData,
                     wrap.iv>>
  BY <1>1, Moved DEF Inv, WrapStep
<1>5. Announced' = Announced /\ (Accepted' <=> Accepted) /\ (Fits' <=> Fits)
  BY <1>3, <1>4, SameCall
<1>6. /\ Accepted /\ status = "SUCCESS" /\ (Queried \/ Ran) /\ wrap.op # "none"
      /\ thrown = "nothing"
  BY <1>1 DEF Inv, CalledAgain, Asked, Made
<1>7. Types'
  <2>1. size \in 0 .. MaxVectorSize
    BY <1>1, BoxTypes, BoxConstants DEF Inv, BoxInv
  <2>2. QED
    BY <1>1, <1>3, <1>4, <2>1 DEF Inv, Types
<1>8. Made' /\ Asked'
  BY <1>4, <1>5 DEF Inv, Made, Asked
<1>9. (Queried' <=> Queried) /\ (Ran' <=> Ran)
  BY <1>3, <1>4, <1>5 DEF Queried, Ran
<1>10. CalledAgain'
  BY <1>1, <1>3, <1>4, <1>5, <1>6, <1>9 DEF CalledAgain, Returned
<1>11. QED
  BY <1>2, <1>7, <1>8, <1>10 DEF Inv

(* A size that is too large for a vector has come from a call that ran: a   *)
(* query says what was announced.                                           *)
LEMMA CutFailsStep ==
  ASSUME Inv, CutFails
  PROVE  Inv'
<1>1. /\ wrap.step = "cut" /\ size > MaxVectorSize /\ GoTo("idle")
      /\ thrown' = "length_error" /\ length' = 0
      /\ UNCHANGED <<boxVars, details>>
  BY DEF CutFails, Throw
<1>2. BoxInv'
  BY <1>1, BoxKept DEF Inv
<1>3. UNCHANGED <<box, mem, call, heap, size, status, calls, entry>>
  BY <1>1 DEF boxVars
<1>4. /\ wrap' \in WrapRecord /\ wrap'.step = "idle"
      /\ UNCHANGED <<wrap.op, wrap.full, wrap.rest, wrap.nullSource, wrap.nullData,
                     wrap.iv>>
  BY <1>1, Moved DEF Inv, WrapStep
<1>5. Announced' = Announced /\ (Accepted' <=> Accepted) /\ (Fits' <=> Fits)
  BY <1>3, <1>4, SameCall
<1>6. /\ Accepted /\ status = "SUCCESS" /\ (Queried \/ Ran) /\ wrap.op # "none"
  BY <1>1 DEF Inv, CalledAgain, Asked, Made
<1>7. Ran
  BY <1>1, <1>6, BoxConstants DEF Queried
<1>8. Types'
  BY <1>1, <1>3, <1>4, BoxConstants DEF Inv, Types, Exception
<1>9. Made' /\ Asked'
  BY <1>4, <1>5 DEF Inv, Made, Asked
<1>10. Ran'
  BY <1>3, <1>4, <1>7 DEF Ran
<1>11. CalledAgain'
  BY <1>1, <1>3, <1>4, <1>5, <1>6, <1>10 DEF CalledAgain, Returned, Left
<1>12. QED
  BY <1>2, <1>8, <1>9, <1>11 DEF Inv

LEMMA InvNext == Inv /\ [Next]_vars => Inv'
<1> SUFFICES ASSUME Inv, [Next]_vars PROVE Inv'
  OBVIOUS
<1>1. CASE UNCHANGED vars
  <2>1. UNCHANGED <<boxVars, wrap, length, details, thrown>>
    BY <1>1 DEF vars
  <2>2. UNCHANGED <<box, mem, call, heap, size, status, calls, entry>>
    BY <2>1 DEF boxVars
  <2>3. BoxInv'
    BY <2>1, BoxStep DEF Inv
  <2>4. Announced' = Announced /\ (Accepted' <=> Accepted) /\ (Fits' <=> Fits)
    BY <2>1, <2>2, SameCall
  <2>5. Types' /\ Made' /\ Asked'
    BY <2>1, <2>2, <2>4 DEF Inv, Types, Made, Asked
  <2>6. (Queried' <=> Queried) /\ (Refused' <=> Refused) /\ (Ran' <=> Ran)
    BY <2>1, <2>2, <2>4 DEF Queried, Refused, Ran
  <2>7. CalledAgain'
    BY <2>1, <2>2, <2>4, <2>6 DEF Inv, CalledAgain, Returned, Left
  <2>8. QED
    BY <2>3, <2>5, <2>7 DEF Inv
<1>2. QED
  BY <1>1, FillStep, CallWrapperStep, QuerySizeStep, DestroyDetailsStep, AllocateStep,
     AllocationFailsStep, AskAgainStep, BoxRefusesStep, BoxBeginsStep, BoxProgressesStep,
     CutStep, CutFailsStep DEF Next

LEMMA InvAlways == Spec => []Inv
  BY InvInit, InvNext, PTL DEF Spec

-----------------------------------------------------------------------------
(***************************************************************************)
(* The vector.                                                             *)
(***************************************************************************)
LEMMA Division ==
  ASSUME NEW o \in Nat, NEW b \in Nat \ {0}
  PROVE  /\ o \div b \in Nat /\ o % b \in 0 .. b - 1
         /\ o = (o \div b) * b + (o % b)
  OBVIOUS

(* The block and the byte in it of an offset that is not before rest bytes  *)
(* behind full blocks.                                                      *)
LEMMA BehindSize ==
  ASSUME NEW b \in Nat \ {0}, NEW full \in Nat, NEW rest \in 0 .. b - 1,
         NEW q \in Nat, NEW r \in 0 .. b - 1, q * b + r >= full * b + rest
  PROVE  q >= full /\ (q = full => r >= rest)
<1>1. CASE q < full
  <2>1. (q + 1) * b <= full * b
    BY <1>1, Multiples
  <2>2. (q + 1) * b = q * b + b /\ q * b \in Nat /\ full * b \in Nat
    OBVIOUS
  <2>3. QED
    BY <1>1, <2>1, <2>2
<1>2. CASE q = full
  <2>1. q * b \in Nat
    OBVIOUS
  <2>2. QED
    BY <1>2, <2>1
<1>3. CASE q > full
  BY <1>3
<1>4. QED
  BY <1>1, <1>2, <1>3

LEMMA ZeroBytes ==
  ASSUME NEW n \in 1 .. Cells, NEW i \in 1 .. BlockSize
  PROVE  Zeros[n] = [k \in 1 .. BlockSize |-> 0] /\ Zeros[n][i] = 0
  BY DEF Zeros

(* What the box had written when it came to an end, or so far.              *)
LEMMA RanSoFar ==
  ASSUME Inv, Ran, wrap.op # "none"
  PROVE  /\ call.op # "none" /\ call \in CallRecord
         /\ call.op = wrap.op /\ call.full = wrap.full /\ call.rest = wrap.rest
         /\ wrap.full \in 0 .. Cells /\ wrap.rest \in 0 .. BlockSize - 1
         /\ wrap.op \in {"encrypt", "decrypt"}
         /\ call.done <= wrap.full
              \/ (call.done = wrap.full + 1 /\ wrap.op = "encrypt" /\ box.mode \in PaddedMode)
         /\ call.cut => box.mode \notin PaddedMode /\ wrap.rest # 0 /\ call.done = wrap.full
<1>1. call.op # "none" /\ call \in CallRecord
  BY BoxTypes DEF Inv, BoxInv, Ran
<1>2. /\ wrap.full \in 0 .. Cells /\ wrap.rest \in 0 .. BlockSize - 1
      /\ wrap.op \in {"encrypt", "decrypt"}
  BY DEF Inv, Types, WrapRecord
<1>3. BP!CallShape /\ (BP!Padded <=> box.mode \in PaddedMode)
  BY SameSets DEF Inv, BoxInv, BP!Inductive
<1>4. call.done \in Nat /\ call.full \in Nat
  BY <1>1, BoxConstants DEF CallRecord
<1>5. QED
  BY <1>1, <1>2, <1>3, <1>4 DEF Ran, BP!CallShape

LEMMA InvWritesStayInVector == Inv => WritesStayInVector
<1> SUFFICES ASSUME Inv, wrap.step \in {"running", "called", "cut"}, ~ wrap.nullData,
                    NEW o \in length .. Cells * BlockSize - 1
             PROVE  ByteAt(mem["dest_buf"], o) = 0
  BY DEF WritesStayInVector
<1> DEFINE q == o \div BlockSize
           r == o % BlockSize
<1>1. /\ Cells \in Nat \ {0} /\ BlockSize \in Nat \ {0} /\ length \in Nat
      /\ wrap.op # "none" /\ length = Announced
  BY BoxConstants DEF Inv, Types, Made, Asked
<1>2. /\ o \in Nat /\ q \in Nat /\ r \in 0 .. BlockSize - 1 /\ o = q * BlockSize + r
      /\ o >= length /\ o < Cells * BlockSize
  <2>1. Cells * BlockSize \in Nat
    BY <1>1
  <2>2. o \in Nat /\ o >= length /\ o < Cells * BlockSize
    BY <1>1, <2>1
  <2>3. QED
    BY <1>1, <2>2, Division
<1>3. ByteAt(mem["dest_buf"], o) = mem["dest_buf"][q + 1][r + 1]
  BY DEF ByteAt
<1> HIDE DEF q, r
<1>4. q < Cells
  <2>1. CASE q >= Cells
    <3>1. Cells * BlockSize <= q * BlockSize
      BY <1>1, <1>2, <2>1, Multiples
    <3>2. q * BlockSize \in Nat
      BY <1>1, <1>2
    <3>3. QED
      BY <1>1, <1>2, <3>1, <3>2
  <2>2. QED
    BY <1>1, <1>2, <2>1
<1>5. q + 1 \in 1 .. Cells /\ r + 1 \in 1 .. BlockSize
  BY <1>1, <1>2, <1>4
<1>6. Refused \/ Ran
  BY DEF Inv, CalledAgain, Queried
<1>7. CASE Refused
  BY <1>3, <1>5, <1>7, ZeroBytes DEF Refused
<1>8. CASE Ran
  <2>1. /\ call.op # "none" /\ call \in CallRecord
        /\ call.op = wrap.op /\ call.full = wrap.full /\ call.rest = wrap.rest
        /\ wrap.full \in 0 .. Cells /\ wrap.rest \in 0 .. BlockSize - 1
        /\ wrap.op \in {"encrypt", "decrypt"}
        /\ call.done <= wrap.full
             \/ (call.done = wrap.full + 1 /\ wrap.op = "encrypt" /\ box.mode \in PaddedMode)
        /\ call.cut => box.mode \notin PaddedMode /\ wrap.rest # 0 /\ call.done = wrap.full
    BY <1>1, <1>8, RanSoFar
  <2>2. call.done \in Nat
    BY <2>1, <1>1 DEF CallRecord
  <2>3. /\ q + 1 > call.done
        /\ call.cut => q + 1 > wrap.full + 1 \/ (q = wrap.full /\ r >= wrap.rest)
    <3>1. CASE wrap.op = "encrypt" /\ box.mode \in PaddedMode
      <4>1. q * BlockSize + r >= (wrap.full + 1) * BlockSize + 0
        <5>1. length = (wrap.full + 1) * BlockSize
          BY <1>1, <3>1, AnnouncedIsExact
        <5>2. length = length + 0
          BY <1>1
        <5>3. QED
          BY <1>2, <5>1, <5>2
      <4>2. q >= wrap.full + 1
        <5>1. wrap.full + 1 \in Nat /\ 0 \in 0 .. BlockSize - 1
          BY <1>1, <2>1
        <5>2. QED
          BY <1>1, <1>2, <4>1, <5>1, BehindSize
      <4>3. QED
        BY <1>1, <1>2, <2>1, <2>2, <3>1, <4>2
    <3>2. CASE ~ (wrap.op = "encrypt" /\ box.mode \in PaddedMode)
      <4>1. length = wrap.full * BlockSize + wrap.rest
        BY <1>1, <3>2, AnnouncedIsExact
      <4>2. q >= wrap.full /\ (q = wrap.full => r >= wrap.rest)
        BY <1>1, <1>2, <2>1, <4>1, BehindSize
      <4>3. call.done <= wrap.full
        BY <2>1, <3>2
      <4>4. QED
        BY <1>1, <1>2, <2>1, <2>2, <4>2, <4>3
    <3>3. QED
      BY <3>1, <3>2
  <2>4. CASE call.cut /\ q + 1 = wrap.full + 1
    <3>1. q = wrap.full /\ r >= wrap.rest
      BY <1>2, <2>1, <2>3, <2>4
    <3>2. \E b : mem["dest_buf"][q + 1]
                   = BP!Overwritten(entry.mem["dest_buf"][q + 1], b, wrap.rest)
      BY <1>8, <2>1, <2>4, <3>1
         DEF Inv, BoxInv, BP!Follows, BP!PartialBlockFollowsMode, BP!Output, Ran
    <3>3. PICK b : mem["dest_buf"][q + 1] = BP!Overwritten(Zeros[q + 1], b, wrap.rest)
      BY <1>8, <3>2 DEF Ran
    <3>4. ~ (r + 1 <= wrap.rest)
      BY <1>2, <2>1, <3>1
    <3>5. mem["dest_buf"][q + 1][r + 1] = Zeros[q + 1][r + 1]
      BY <1>5, <3>3, <3>4 DEF BP!Overwritten
    <3>6. QED
      BY <1>3, <1>5, <3>5, ZeroBytes
  <2>5. CASE ~ (call.cut /\ q + 1 = wrap.full + 1)
    <3>1. mem["dest_buf"][q + 1] = entry.mem["dest_buf"][q + 1]
      BY <1>5, <1>8, <2>1, <2>3, <2>5
         DEF Inv, BoxInv, BP!Follows, BP!OnlyOutputIsWritten, BP!Output, Ran
    <3>2. QED
      BY <1>3, <1>5, <1>8, <3>1, ZeroBytes DEF Ran
  <2>6. QED
    BY <2>4, <2>5
<1>9. QED
  BY <1>6, <1>7, <1>8

(* At the end of a call that ran, all of the message has been processed if  *)
(* it succeeded, and the full blocks if not.                                *)
LEMMA RanToEnd ==
  ASSUME Inv, Ran, wrap.op # "none", wrap.step = "idle"
  PROVE  /\ call.step = "idle"
         /\ status = "SUCCESS" =>
              /\ call.done = wrap.full + (IF wrap.op = "encrypt" /\ box.mode \in PaddedMode
                                          THEN 1 ELSE 0)
              /\ call.cut = (box.mode \notin PaddedMode /\ wrap.rest # 0)
         /\ status # "SUCCESS" => call.done = wrap.full /\ ~ call.cut
<1>1. /\ call.op = wrap.op /\ call.full = wrap.full /\ call.rest = wrap.rest
      /\ call.step = "idle"
  BY DEF Ran, Inv, Types
<1>2. BP!Padded <=> box.mode \in PaddedMode
  BY SameSets
<1>3. BP!StatusTellsProgress
  BY DEF Inv, BoxInv, BP!Returns
<1>4. status = "SUCCESS" => BP!Complete
  BY <1>1, <1>3 DEF BP!StatusTellsProgress
<1>5. status # "SUCCESS" => BP!OnlyFullBlocks
  BY <1>1, <1>3 DEF BP!StatusTellsProgress
<1>6. QED
  BY <1>1, <1>2, <1>4, <1>5 DEF BP!Complete, BP!OnlyFullBlocks

LEMMA GivenSize ==
  ASSUME Inv, wrap.op # "none"
  PROVE  /\ Given \in Nat
         /\ wrap.op = "decrypt" => Given \in 0 .. MaxVectorSize /\ Given = Announced
         /\ box.mode \notin PaddedMode => Given \in 0 .. MaxVectorSize /\ Given = Announced
<1>1. /\ wrap.full \in Nat /\ wrap.rest \in Nat /\ BlockSize \in Nat
      /\ wrap.op = "decrypt" => wrap.op # "encrypt"
  BY BoxConstants DEF Inv, Types, WrapRecord
<1>2. Given \in Nat
  BY <1>1 DEF Given
<1>3. QED
  BY <1>1, <1>2, AnnouncedIsExact DEF Given

(* What *dest_size says after a call that succeeded.                        *)
LEMMA RanSize ==
  ASSUME Inv, Ran, Accepted, status = "SUCCESS", wrap.op # "none", wrap.step = "idle"
  PROVE  size = IF box.mode \in PaddedMode /\ wrap.op = "decrypt"
                THEN (Given - ClaimedPadding(mem["dest_buf"], wrap.full)) % SizeMod
                ELSE Announced
<1>1. /\ call.op = wrap.op /\ call.full = wrap.full /\ call.rest = wrap.rest
      /\ call.dest = "dest_buf" /\ call.step = "idle"
      /\ wrap.op \in {"encrypt", "decrypt"}
      /\ wrap.full \in Nat
      /\ BP!Padded <=> box.mode \in PaddedMode
  BY SameSets DEF Ran, Inv, Types, WrapRecord
<1>2. /\ call.done = wrap.full + (IF wrap.op = "encrypt" /\ box.mode \in PaddedMode
                                  THEN 1 ELSE 0)
      /\ call.cut = (box.mode \notin PaddedMode /\ wrap.rest # 0)
  BY RanToEnd
<1> DEFINE left == IF call.cut THEN call.rest ELSE 0
           written == BP!InBytes(call.done, left)
<1>3. size = IF BP!Padded /\ call.op = "decrypt"
             THEN (written - BP!ClaimedPadding(BP!Output, call.full)) % SizeMod
             ELSE written
  BY <1>1 DEF Inv, BoxInv, BP!SizeMatchesOutput
<1>4. written = Announced
  <2>1. written = InBytes(call.done, left)
    BY SameSizes
  <2>2. CASE wrap.op = "encrypt" /\ box.mode \in PaddedMode
    BY <1>2, <2>1, <2>2 DEF Announced, EncryptedSize
  <2>3. CASE box.mode \notin PaddedMode
    <3>1. call.done = wrap.full /\ left = wrap.rest
      <4>1. call.done = wrap.full
        BY <1>1, <1>2, <2>3
      <4>2. call.cut <=> wrap.rest # 0
        BY <1>2, <2>3
      <4>3. QED
        BY <1>1, <4>1, <4>2
    <3>2. QED
      BY <1>1, <2>1, <2>3, <3>1 DEF Announced, EncryptedSize
  <2>4. CASE wrap.op = "decrypt" /\ box.mode \in PaddedMode
    <3>1. wrap.rest = 0
      BY <2>4 DEF Accepted, LacksPadding
    <3>2. call.done = wrap.full /\ left = wrap.rest
      BY <1>1, <1>2, <2>4, <3>1
    <3>3. QED
      BY <2>1, <2>4, <3>2 DEF Announced
  <2>5. QED
    BY <1>1, <2>2, <2>3, <2>4
<1> HIDE DEF left, written
<1>5. CASE box.mode \in PaddedMode /\ wrap.op = "decrypt"
  <2>1. written = Given
    BY <1>4, <1>5, GivenSize
  <2>2. BP!ClaimedPadding(BP!Output, call.full)
          = ClaimedPadding(mem["dest_buf"], wrap.full)
    BY <1>1, SameEquations DEF BP!Output
  <2>3. QED
    BY <1>1, <1>3, <1>5, <2>1, <2>2
<1>6. CASE ~ (box.mode \in PaddedMode /\ wrap.op = "decrypt")
  BY <1>1, <1>3, <1>4, <1>6
<1>7. QED
  BY <1>5, <1>6

(* The byte a padded message ends in.                                       *)
LEMMA ClaimIsByte ==
  ASSUME Inv, wrap.op = "decrypt", Accepted, box.mode \in PaddedMode
  PROVE  /\ ClaimedPadding(mem["dest_buf"], wrap.full) \in 0 .. ByteMax
         /\ wrap.full \in 1 .. Cells
<1>1. wrap.full \in 1 .. Cells
  BY BoxConstants DEF Inv, Types, WrapRecord, Accepted, LacksPadding
<1>2. mem["dest_buf"] \in Memory
  BY BoxTypes, BoxConstants DEF Inv, BoxInv
<1>3. QED
  BY <1>1, <1>2, BoxConstants DEF ClaimedPadding, Memory, Block, Byte

(* Taking off the padding wraps exactly if more is claimed than there is.   *)
LEMMA Wraps ==
  ASSUME NEW given \in 0 .. MaxVectorSize, NEW claim \in 0 .. ByteMax
  PROVE  /\ claim <= given => (given - claim) % SizeMod = given - claim
         /\ claim > given => (given - claim) % SizeMod > MaxVectorSize
<1>1. /\ MaxVectorSize \in Nat /\ ByteMax \in Nat /\ SizeMod \in Nat \ {0}
      /\ MaxVectorSize + ByteMax < SizeMod
  BY BoxConstants, WrapperAssumption
<1>2. CASE claim <= given
  <2>1. given - claim \in 0 .. SizeMod - 1
    BY <1>1, <1>2
  <2>2. (given - claim) % SizeMod = given - claim
    BY <1>1, <2>1
  <2>3. QED
    BY <1>1, <1>2, <2>2
<1>3. CASE claim > given
  <2>1. given - claim + SizeMod \in 0 .. SizeMod - 1
    BY <1>1, <1>3
  <2>2. (given - claim) % SizeMod = given - claim + SizeMod
    BY <1>1, <2>1
  <2>3. QED
    BY <1>1, <1>3, <2>2
<1>4. QED
  BY <1>1, <1>2, <1>3

(* After full blocks and no partial one, the box is where the mode says.    *)
LEMMA RanChain ==
  ASSUME Inv, Ran, wrap.op # "none", call.done = wrap.full, ~ call.cut
  PROVE  box.iv = ChainedAfter(wrap.full)
<1>1. /\ call.op = wrap.op /\ call.full = wrap.full /\ call.src = "src_buf"
      /\ call.dest = "dest_buf" /\ entry.iv = wrap.iv
      /\ wrap.op \in {"encrypt", "decrypt"}
      /\ wrap.full \in 0 .. Cells /\ Cells \in Nat
      /\ "src_buf" \in Buffers /\ "dest_buf" \in Buffers
  BY BoxConstants DEF Ran, Inv, Types, WrapRecord
<1>2. box.iv = BP!ChainedAfter(wrap.full)
  BY <1>1 DEF Inv, BoxInv, BP!Follows, BP!IvIsChained
<1>3. mem["src_buf"] = entry.mem["src_buf"]
  BY <1>1 DEF Inv, BoxInv, BP!Follows, BP!OnlyOutputIsWritten
<1>4. wrap.full # 0 => BP!Input[wrap.full] = mem["src_buf"][wrap.full]
  <2>1. wrap.full # 0 => wrap.full \in 1 .. Cells /\ wrap.full # wrap.full + 1
    BY <1>1
  <2>2. QED
    BY <1>1, <1>3, <2>1 DEF BP!Input
<1>5. BP!Output = mem["dest_buf"]
  BY <1>1 DEF BP!Output
<1>6. box.iv = Chained(box.mode, box.key, wrap.iv, BP!Plaintext, BP!Ciphertext, wrap.full)
  BY <1>1, <1>2, SameEquations DEF BP!ChainedAfter
<1>7. CASE wrap.op = "encrypt"
  <2>1. BP!Plaintext = BP!Input /\ BP!Ciphertext = mem["dest_buf"]
    BY <1>1, <1>5, <1>7 DEF BP!Plaintext, BP!Ciphertext
  <2>2. QED
    BY <1>4, <1>6, <1>7, <2>1 DEF ChainedAfter, Chained
<1>8. CASE wrap.op = "decrypt"
  <2>1. BP!Plaintext = mem["dest_buf"] /\ BP!Ciphertext = BP!Input
    BY <1>1, <1>5, <1>8 DEF BP!Plaintext, BP!Ciphertext
  <2>2. QED
    BY <1>4, <1>6, <1>8, <2>1 DEF ChainedAfter, Chained
<1>9. QED
  BY <1>1, <1>7, <1>8

-----------------------------------------------------------------------------
(***************************************************************************)
(* What is returned and what is thrown.                                    *)
(***************************************************************************)
LEMMA InvTypeOK == Inv => TypeOK
<1> SUFFICES ASSUME Inv PROVE TypeOK
  OBVIOUS
<1>1. B!TypeOK
  <2>1. B!Mode = Mode /\ B!Block = Block /\ B!Memory = Memory /\ B!Temporary = BP!Temporary
    BY DEF B!Mode, Mode, B!Block, Block, B!Byte, Byte, B!Memory, Memory, B!Temporary,
           BP!Temporary
  <2>2. BP!TypeOK
    BY DEF Inv, BoxInv, BP!Inductive
  <2>3. QED
    BY <2>1, <2>2, SameSets DEF BP!TypeOK, B!TypeOK
<1>2. wrap.step \in {"call", "running"} => size = length
  BY DEF Inv, Asked
<1>3. QED
  BY <1>1, <1>2 DEF Inv, Types, WrapRecord, WrapStep, TypeOK

(* Where nothing was written the box is as it was.                          *)
LEMMA NothingWritten ==
  ASSUME Inv, Ran, wrap.op # "none", Written = 0
  PROVE  box.iv = wrap.iv
<1>1. /\ call.op = wrap.op /\ call \in CallRecord /\ entry.iv = wrap.iv
      /\ call.cut => call.rest # 0
  BY RanSoFar DEF Ran
<1>2. call.done \in Nat /\ call.rest \in Nat /\ BlockSize \in Nat \ {0}
  BY <1>1, BoxConstants DEF CallRecord
<1>3. call.done * BlockSize \in Nat
  BY <1>2
<1>4. call.done * BlockSize = 0 /\ ~ call.cut
  <2>1. CASE call.cut
    <3>1. Written = call.done * BlockSize + call.rest /\ call.rest # 0
      BY <1>1, <2>1 DEF Written
    <3>2. QED
      BY <1>2, <1>3, <3>1
  <2>2. CASE ~ call.cut
    <3>1. Written = call.done * BlockSize + 0
      BY <2>2 DEF Written
    <3>2. QED
      BY <1>3, <2>2, <3>1
  <2>3. QED
    BY <2>1, <2>2
<1>5. call.done = 0
  <2>1. call.done # 0 => 1 * BlockSize <= call.done * BlockSize
    BY <1>2, Multiples
  <2>2. QED
    BY <1>2, <1>4, <2>1
<1>6. box.iv = BP!ChainedAfter(0)
  BY <1>1, <1>4, <1>5 DEF Inv, BoxInv, BP!Follows, BP!IvIsChained
<1>7. QED
  BY <1>1, <1>6 DEF BP!ChainedAfter, BP!Chained

LEMMA InvVectorHoldsMessage == Inv => VectorHoldsMessage
<1> SUFFICES ASSUME Inv, Returned PROVE VectorHoldsMessage
  BY DEF VectorHoldsMessage
<1>1. /\ status = "SUCCESS" /\ (Queried \/ Ran) /\ Accepted /\ length = size
      /\ length \in 0 .. MaxVectorSize
      /\ wrap.op \in {"encrypt", "decrypt"} /\ wrap.step = "idle"
      /\ Padded <=> box.mode \in PaddedMode
  BY SameSets DEF Inv, CalledAgain, Types, WrapRecord, Returned
<1>2. /\ wrap.full \in 0 .. Cells /\ wrap.rest \in 0 .. BlockSize - 1
      /\ BlockSize \in Nat \ {0} /\ Cells \in Nat
  BY BoxConstants DEF Inv, Types, WrapRecord
<1>3. CASE Queried
  <2>1. length = 0 /\ Announced = 0 /\ box.iv = wrap.iv /\ call.op = "none"
    BY <1>1, <1>3 DEF Queried
  <2>2. ~ (wrap.op = "encrypt" /\ Padded)
    <3>1. ASSUME wrap.op = "encrypt", Padded PROVE FALSE
      <4>1. (wrap.full + 1) * BlockSize = 0
        BY <1>1, <2>1, <3>1, AnnouncedIsExact
      <4>2. 1 * BlockSize <= (wrap.full + 1) * BlockSize
        <5>1. wrap.full + 1 \in Nat /\ 1 <= wrap.full + 1
          BY <1>2
        <5>2. QED
          BY <1>2, <5>1, Multiples
      <4>3. QED
        BY <1>2, <4>1, <4>2
    <3>2. QED
      BY <3>1
  <2>3. Given = 0
    BY <1>1, <2>1, <2>2, AnnouncedIsExact DEF Given
  <2>4. ~ (wrap.op = "decrypt" /\ Padded)
    <3>1. ASSUME wrap.op = "decrypt", Padded PROVE FALSE
      <4>1. wrap.full # 0
        BY <1>1, <3>1 DEF Accepted, LacksPadding
      <4>2. 1 * BlockSize <= wrap.full * BlockSize
        <5>1. wrap.full \in Nat /\ 1 <= wrap.full
          BY <1>2, <4>1
        <5>2. QED
          BY <1>2, <5>1, Multiples
      <4>3. QED
        BY <1>2, <2>3, <4>2 DEF Given
    <3>2. QED
      BY <3>1
  <2>5. call.done = 0 /\ ~ call.cut
    BY <2>1, BoxTypes DEF Inv, BoxInv
  <2>6. Written = 0
    BY <1>2, <2>5 DEF Written
  <2>7. QED
    BY <2>1, <2>2, <2>3, <2>4, <2>6 DEF VectorHoldsMessage
<1>4. CASE Ran
  <2>1. Written = 0 => box.iv = wrap.iv
    BY <1>1, <1>4, NothingWritten
  <2>2. /\ call.done = wrap.full + (IF wrap.op = "encrypt" /\ Padded THEN 1 ELSE 0)
        /\ call.cut = (~ Padded /\ wrap.rest # 0)
        /\ call.rest = wrap.rest
    BY <1>1, <1>4, RanToEnd DEF Ran
  <2>3. CASE wrap.op = "encrypt" /\ Padded
    <3>1. length = (wrap.full + 1) * BlockSize
      BY <1>1, <1>4, <2>3, RanSize, AnnouncedIsExact
    <3>2. Written = (wrap.full + 1) * BlockSize + 0
      BY <2>2, <2>3 DEF Written
    <3>3. length = length + 0
      BY <1>1, BoxConstants
    <3>4. length <= Written
      BY <1>1, <3>1, <3>2, <3>3, BoxConstants
    <3>5. QED
      BY <2>1, <2>3, <3>1, <3>4 DEF VectorHoldsMessage
  <2>4. CASE wrap.op = "decrypt" /\ Padded
    <3> DEFINE claim == ClaimedPadding(mem["dest_buf"], wrap.full)
    <3>1. length = (Given - claim) % SizeMod
      BY <1>1, <1>4, <2>4, RanSize
    <3>2. claim \in 0 .. ByteMax /\ Given \in 0 .. MaxVectorSize
      BY <1>1, <2>4, ClaimIsByte, GivenSize
    <3> HIDE DEF claim
    <3>3. claim <= Given
      <4>1. claim > Given => length > MaxVectorSize
        BY <3>1, <3>2, Wraps
      <4>2. QED
        BY <1>1, <3>2, <4>1, BoxConstants
    <3>4. length = Given - claim
      BY <3>1, <3>2, <3>3, Wraps
    <3>5. Written = wrap.full * BlockSize + 0 /\ Given = wrap.full * BlockSize + 0
      <4>1. wrap.rest = 0
        BY <1>1, <2>4 DEF Accepted, LacksPadding
      <4>2. call.done = wrap.full + 0 /\ ~ call.cut
        BY <2>2, <2>4
      <4>3. call.done = wrap.full
        BY <1>2, <4>2
      <4>4. QED
        BY <4>1, <4>2, <4>3 DEF Written, Given
    <3>6. length <= Written
      BY <3>2, <3>4, <3>5, BoxConstants
    <3>7. QED
      BY <2>1, <2>4, <3>4, <3>6 DEF VectorHoldsMessage, claim
  <2>5. CASE ~ Padded
    <3>1. length = Given /\ Given \in Nat
      BY <1>1, <1>4, <2>5, RanSize, GivenSize
    <3>2. Written = Given
      <4>1. call.done = wrap.full /\ (call.cut <=> wrap.rest # 0)
        <5>1. call.done = wrap.full + 0
          BY <2>2, <2>5
        <5>2. call.cut <=> wrap.rest # 0
          BY <2>2, <2>5
        <5>3. QED
          BY <1>2, <5>1, <5>2
      <4>2. (IF call.cut THEN call.rest ELSE 0) = wrap.rest
        BY <2>2, <4>1
      <4>3. QED
        BY <4>1, <4>2 DEF Written, Given
    <3>3. length <= Written
      BY <3>1, <3>2
    <3>4. QED
      BY <2>1, <2>5, <3>1, <3>3 DEF VectorHoldsMessage
  <2>6. QED
    BY <1>1, <2>3, <2>4, <2>5
<1>5. QED
  BY <1>1, <1>3, <1>4

LEMMA InvExceptionTellsProgress == Inv => ExceptionTellsProgress
<1> SUFFICES ASSUME Inv, wrap.step = "idle", wrap.op # "none", thrown # "nothing"
             PROVE  ExceptionTellsProgress
  BY DEF ExceptionTellsProgress
<1>1. Left /\ (Padded <=> box.mode \in PaddedMode)
  BY SameSets DEF Inv, CalledAgain
<1>2. B!Status = {"SUCCESS", "NULL_ARGUMENT_ERROR", "MEMORY_ALLOCATION_ERROR",
                  "MISSING_PADDING_ERROR", "INVALID_PKCS7_PADDING_ERROR"}
  BY DEF B!Status
<1>3. CASE thrown = "bad_alloc" /\ box.iv = wrap.iv
  BY <1>2, <1>3 DEF ExceptionTellsProgress
<1>4. CASE thrown = "MISSING_PADDING_ERROR" /\ thrown = status /\ box.iv = wrap.iv
  BY <1>4 DEF ExceptionTellsProgress
<1>5. CASE thrown = status /\ Refused
  BY <1>5 DEF ExceptionTellsProgress, Refused
<1>6. CASE thrown = status /\ thrown # "SUCCESS" /\ Ran
  <2>1. call.done = wrap.full /\ ~ call.cut /\ call.step = "idle" /\ call.op # "none"
    BY <1>6, RanToEnd DEF Ran
  <2>2. box.iv = ChainedAfter(wrap.full)
    BY <1>6, <2>1, RanChain
  <2>3. thrown \in {"MEMORY_ALLOCATION_ERROR", "INVALID_PKCS7_PADDING_ERROR"}
    BY <1>6, <2>1 DEF Inv, BoxInv, BP!FailureTellsCause
  <2>4. QED
    BY <1>6, <2>2, <2>3 DEF ExceptionTellsProgress
<1>7. CASE /\ thrown = "length_error" /\ Ran /\ Accepted /\ status = "SUCCESS"
           /\ size > MaxVectorSize
  <2>1. wrap.op = "decrypt" /\ Padded
    <3>1. ASSUME ~ (wrap.op = "decrypt" /\ Padded) PROVE FALSE
      <4>1. size = Announced
        BY <1>1, <1>7, <3>1, RanSize
      <4>2. QED
        BY <1>7, <4>1, AnnouncedIsExact, BoxConstants
    <3>2. QED
      BY <3>1
  <2>2. ClaimedPadding(mem["dest_buf"], wrap.full) > Given
    <3> DEFINE claim == ClaimedPadding(mem["dest_buf"], wrap.full)
    <3>1. size = (Given - claim) % SizeMod
      BY <1>1, <1>7, <2>1, RanSize
    <3>2. claim \in 0 .. ByteMax /\ Given \in 0 .. MaxVectorSize
      BY <1>1, <1>7, <2>1, ClaimIsByte, GivenSize
    <3> HIDE DEF claim
    <3>3. claim <= Given => size = Given - claim
      BY <3>1, <3>2, Wraps
    <3>4. claim > Given
      BY <1>7, <3>2, <3>3, BoxConstants
    <3>5. QED
      BY <3>4 DEF claim
  <2>3. call.done = wrap.full /\ ~ call.cut
    <3>1. /\ call.done = wrap.full + 0
          /\ ~ call.cut
      BY <1>1, <1>7, <2>1, RanToEnd
    <3>2. wrap.full \in Nat
      BY BoxConstants DEF Inv, Types, WrapRecord
    <3>3. QED
      BY <3>1, <3>2
  <2>4. box.iv = ChainedAfter(wrap.full)
    BY <1>7, <2>3, RanChain
  <2>5. QED
    BY <1>2, <1>7, <2>1, <2>2, <2>4 DEF ExceptionTellsProgress
<1>8. QED
  BY <1>1, <1>3, <1>4, <1>5, <1>6, <1>7 DEF Left

-----------------------------------------------------------------------------
(***************************************************************************)
(* The theorems.                                                           *)
(***************************************************************************)
(* The wrapper waits exactly while the box is at work, and never calls it   *)
(* with a *dest_size other than the length of the vector.                   *)
THEOREM WrapperTypes == Spec => []TypeOK
  BY InvAlways, InvTypeOK, PTL

(* encrypt_buffer and decrypt_buffer never let the box write behind the     *)
(* vector they made of the size it announced, whatever the mode, the size   *)
(* of the message and the padding.                                          *)
THEOREM VectorIsLargeEnough == Spec => []WritesStayInVector
  BY InvAlways, InvWritesStayInVector, PTL

(* A vector that is returned is the whole message, cut to its length, and   *)
(* written by the box; in particular no size that has wrapped around is     *)
(* taken for a length.                                                      *)
THEOREM VectorIsWhole == Spec => []VectorHoldsMessage
  BY InvAlways, InvVectorHoldsMessage, PTL

(* An exception tells the program where the box stands: as before the call, *)
(* or right behind the full blocks of the message.                          *)
THEOREM ExceptionsAreHonest == Spec => []ExceptionTellsProgress
  BY InvAlways, InvExceptionTellsProgress, PTL
=============================================================================
