--------------------------- MODULE Programs_proofs ----------------------------
(***************************************************************************)
(* The programs that use the library, proved correct for every block size,  *)
(* cipher, message and disk: each part begins with what is true between any *)
(* two steps, and ends with what the program promises.                      *)
(***************************************************************************)
EXTENDS BlockCalls, FileUtility, BlockUtility, Modes_proofs, SequenceTheorems

-----------------------------------------------------------------------------
(***************************************************************************)
(* The one-block interface: BlockCalls.                                     *)
(***************************************************************************)

(* The key stream's chaining values: what the n-th call leaves in box->iv   *)
(* in OFB and CTR, whatever the blocks are.                                 *)
AfterStream(m, k, iv) == IF m = "OFB" THEN Enc(k, iv) ELSE Inc(iv)

KeyStream(m, k, iv) ==
  LET stream[n \in 0 .. MaxBlocks] ==
        IF n = 0 THEN iv ELSE AfterStream(m, k, stream[n - 1])
  IN  stream

Feedback == mode \in {"CBC", "CFB"}

(* The chaining value a sender has after n blocks.                          *)
SenderIv(n) ==
  IF mode = "ECB" \/ n = 0 THEN iv0
  ELSE IF Feedback THEN sent[n].cipher ELSE KeyStream(mode, key, iv0)[n]

Count(side) == IF side = "sender" THEN Len(sent) ELSE Len(received)

(* A receiver has it too, unless it chained a block it had written over.    *)
Misled(side, n) == side = "receiver" /\ Feedback /\ n \in boxInPlace["receiver"]

Stands(side) == Misled(side, Count(side)) \/ obj[side].iv = SenderIv(Count(side))

(* The chaining value a call should start from.                             *)
Due == SenderIv(Count(call.side))

Behind == Misled(call.side, Count(call.side))

(* What a call makes of its block if nothing is lost.                       *)
Expected ==
  IF Encrypting THEN EncryptBlock(mode, key, Due, call.given).output
  ELSE DecryptBlock(mode, key, Due, call.given).output

WrittenOver == call.inPlace /\ Me.interface = "box"

Spared == ~ Behind /\ ~ (WrittenOver /\ mode \in {"CFB", "OFB", "CTR"})

(* The key stream's value after the call, if there is a key stream.         *)
NextStream == KeyStream(mode, key, iv0)[Count(call.side) + 1]

(* The chaining value is that for the next block.                           *)
Chains(value) ==
  /\ mode = "ECB" => Me.iv = iv0
  /\ Feedback /\ Encrypting => Me.iv = value
  /\ Feedback /\ ~ Encrypting => WrittenOver \/ Me.iv = call.given
  /\ mode \in {"OFB", "CTR"} => Me.iv = NextStream

AtFirst == InputBlock = call.given /\ Stands(call.side)

AtSecond ==
  /\ mode # "ECB" /\ (~ call.inPlace => InputBlock = call.given)
  /\ mode # "OFB" => Stands(call.side)
  /\ mode = "CBC" /\ Encrypting => local = XorBlocks(call.given, Me.iv)
  /\ mode = "CBC" /\ ~ Encrypting => OutputBlock = Dec(key, call.given)
  /\ mode \in {"CFB", "CTR"} => OutputBlock = Enc(key, Me.iv)
  /\ mode = "OFB" => OutputBlock = Me.iv /\ Me.iv = NextStream

AtThird ==
  /\ mode \in {"CBC", "CFB", "CTR"} /\ Stands(call.side)
  /\ ~ call.inPlace => InputBlock = call.given
  /\ Spared => OutputBlock = Expected

CallStands ==
  /\ call.step \in {"first", "compute"} => AtFirst
  /\ call.step = "second" => AtSecond
  /\ call.step = "third" => AtThird
  /\ call.step = "assign" => Chains(local) /\ (Spared => local = Expected)
  /\ call.step = "returned" => Chains(OutputBlock) /\ (Spared => OutputBlock = Expected)
  /\ call.step \in {"first", "second", "third"} => Me.interface = "box"
  /\ call.step \in {"compute", "assign"} => Me.interface = "wrapper"

Calling(side) == call.step # "idle" /\ call.side = side

Objects ==
  /\ obj["sender"] \in {BoxObject(key, obj["sender"].iv), EncryptWrapper(key, obj["sender"].iv)}
  /\ obj["receiver"] \in {BoxObject(key, obj["receiver"].iv), DecryptWrapper(mode, key, obj["receiver"].iv)}

Turns ==
  /\ Calling("sender") => Len(sent) < MaxBlocks
  /\ Calling("receiver") =>
       Len(received) < Len(sent) /\ call.given = sent[Len(received) + 1].cipher
  /\ \A side \in Side :
       /\ \A n \in boxInPlace[side] : n <= Count(side) \/ (Calling(side) /\ n = Count(side) + 1)
       /\ Calling(side) => (Count(side) + 1 \in boxInPlace[side] <=> WrittenOver)
       /\ ~ Calling(side) => Stands(side)

(* Each ciphertext is the mode's for the chaining value of its place.       *)
Made ==
  \A n \in DOMAIN sent :
    \/ mode \in {"CFB", "OFB", "CTR"} /\ n \in boxInPlace["sender"]
    \/ sent[n].cipher = EncryptBlock(mode, key, SenderIv(n - 1), sent[n].text).output

CallsInv == CallsTypeOK /\ Objects /\ Turns /\ CallStands /\ Made /\ OnlyLostBlocksDiffer

-----------------------------------------------------------------------------
(* The key stream starts from the initialization vector, and each of its    *)
(* values is what the mode makes of the one before.                         *)
LEMMA KeyStreamSteps ==
  ASSUME NEW m, NEW k \in Key, NEW iv \in Block
  PROVE  /\ KeyStream(m, k, iv) \in [0 .. MaxBlocks -> Block]
         /\ KeyStream(m, k, iv)[0] = iv
         /\ \A n \in 1 .. MaxBlocks :
              KeyStream(m, k, iv)[n] = AfterStream(m, k, KeyStream(m, k, iv)[n - 1])
<1> DEFINE after(x) == AfterStream(m, k, x)
           P(g) == g = [n \in 0 .. MaxBlocks |->
                          IF n = 0 THEN iv ELSE AfterStream(m, k, g[n - 1])]
           F == [n \in 1 .. MaxBlocks |-> [x \in Block |-> after(x)]]
           s == KeyStream(m, k, iv)
<1>1. MaxBlocks \in Nat
  BY BlockCallsAssumption
<1>2. \A x \in Block : after(x) \in Block
  BY CipherAssumption, IncAssumption DEF AfterStream
<1> HIDE DEF after
<1>3. F \in [1 .. MaxBlocks -> [Block -> Block]]
  BY <1>2
<1>4. \A n \in 1 .. MaxBlocks, x \in Block : F[n][x] = after(x)
  OBVIOUS
<1> HIDE DEF F, P, s
<1>5. PICK f \in [0 .. MaxBlocks -> Block] :
        f[0] = iv /\ \A n \in 1 .. MaxBlocks : f[n] = F[n][f[n - 1]]
  <2>1. Iterates(Block, iv, F, MaxBlocks) # {}
    BY <1>1, <1>3, Iteration
  <2>2. QED
    BY <2>1 DEF Iterates
<1>6. P(f)
  <2>1. \A n \in 0 .. MaxBlocks : n # 0 => n \in 1 .. MaxBlocks /\ n - 1 \in 0 .. MaxBlocks
    BY <1>1
  <2>2. \A n \in 1 .. MaxBlocks : f[n] = after(f[n - 1])
    <3>1. \A n \in 1 .. MaxBlocks : n - 1 \in 0 .. MaxBlocks /\ f[n - 1] \in Block
      BY <1>1
    <3>2. QED
      BY <1>4, <1>5, <3>1
  <2>3. f = [n \in 0 .. MaxBlocks |-> f[n]]
    OBVIOUS
  <2>4. \A n \in 0 .. MaxBlocks :
          f[n] = IF n = 0 THEN iv ELSE AfterStream(m, k, f[n - 1])
    BY <1>5, <2>1, <2>2 DEF after
  <2>5. QED
    BY <2>3, <2>4 DEF P
<1>7. s = CHOOSE g : P(g)
  BY DEF KeyStream, s, P
<1> HIDE DEF P
<1>8. P(s)
  BY <1>6, <1>7
<1> HIDE DEF s
<1>9. /\ s = [n \in 0 .. MaxBlocks |-> s[n]]
      /\ \A n \in 0 .. MaxBlocks :
           s[n] = IF n = 0 THEN iv ELSE AfterStream(m, k, s[n - 1])
  BY <1>8 DEF P
<1> DEFINE T == {n \in 0 .. MaxBlocks : s[n] \in Block}
<1>10. \A q \in 0 .. MaxBlocks : s[q] \in Block
  <2> SUFFICES ASSUME NEW q \in 0 .. MaxBlocks PROVE s[q] \in Block
    OBVIOUS
  <2>1. 0 \in T
    <3>1. 0 \in 0 .. MaxBlocks
      BY <1>1
    <3>2. QED
      BY <1>9, <3>1
  <2>2. ASSUME NEW n \in 0 .. q - 1, n \in T PROVE n + 1 \in T
    <3>1. /\ n + 1 \in 0 .. MaxBlocks /\ n + 1 # 0 /\ (n + 1) - 1 = n
          /\ s[n] \in Block
      BY <1>1, <2>2
    <3>2. s[n + 1] = after(s[n])
      BY <1>9, <3>1 DEF after
    <3>3. QED
      BY <1>2, <3>1, <3>2
  <2> HIDE DEF T
  <2>3. q \in T
    BY <2>1, <2>2, SetInduction
  <2>4. QED
    BY <2>3 DEF T
<1>11. \A n \in 1 .. MaxBlocks : n \in 0 .. MaxBlocks /\ n # 0
  OBVIOUS
<1>12. s \in [0 .. MaxBlocks -> Block]
  BY <1>9, <1>10, Zenon
<1>13. s[0] = iv
  <2>1. 0 \in 0 .. MaxBlocks
    BY <1>1
  <2>2. QED
    BY <1>9, <2>1
<1>14. \A n \in 1 .. MaxBlocks : s[n] = AfterStream(m, k, s[n - 1])
  BY <1>9, <1>11
<1>15. QED
  BY <1>12, <1>13, <1>14 DEF s

(* The chaining values are blocks, and in OFB and CTR the next one does not  *)
(* depend on what has been sent.                                            *)
LEMMA SenderIvFacts ==
  CallsTypeOK => /\ \A n \in 0 .. Len(sent) : SenderIv(n) \in Block
                 /\ mode = "ECB" => \A n \in Nat : SenderIv(n) = iv0
                 /\ mode \in {"OFB", "CTR"} =>
                      \A n \in 0 .. MaxBlocks : SenderIv(n) = KeyStream(mode, key, iv0)[n]
<1> SUFFICES ASSUME CallsTypeOK
      PROVE  /\ \A n \in 0 .. Len(sent) : SenderIv(n) \in Block
             /\ mode = "ECB" => \A n \in Nat : SenderIv(n) = iv0
             /\ mode \in {"OFB", "CTR"} =>
                  \A n \in 0 .. MaxBlocks : SenderIv(n) = KeyStream(mode, key, iv0)[n]
  BY Zenon
<1>1. mode \in Mode /\ key \in Key /\ iv0 \in Block /\ sent \in Seq([text : Block, cipher : Block])
      /\ Len(sent) <= MaxBlocks /\ Len(sent) \in Nat /\ MaxBlocks \in Nat
  BY BlockCallsAssumption DEF CallsTypeOK
<1> DEFINE s == KeyStream(mode, key, iv0)
<1>2. s \in [0 .. MaxBlocks -> Block] /\ s[0] = iv0
  BY <1>1, KeyStreamSteps
<1> HIDE DEF s
<1>3. ASSUME NEW n \in 0 .. Len(sent) PROVE SenderIv(n) \in Block
  <2>1. ASSUME n # 0 PROVE sent[n].cipher \in Block
    <3>1. n \in 1 .. Len(sent)
      BY <1>1, <2>1
    <3>2. sent[n] \in [text : Block, cipher : Block]
      BY <1>1, <3>1, ElementOfSeq
    <3>3. QED
      BY <3>2
  <2>2. s[n] \in Block
    BY <1>1, <1>2
  <2>3. QED
    BY <1>1, <2>1, <2>2 DEF SenderIv, s
<1>4. mode = "ECB" => \A n \in Nat : SenderIv(n) = iv0
  BY DEF SenderIv
<1>5. mode \in {"OFB", "CTR"} =>
                 \A n \in 0 .. MaxBlocks : SenderIv(n) = KeyStream(mode, key, iv0)[n]
  BY <1>2 DEF SenderIv, Feedback, s
<1>6. QED
  BY <1>3, <1>4, <1>5

Steps == {"first", "second", "third", "compute", "assign", "returned"}

(* What is known of a call whatever step it is at.                          *)
LEMMA CallFacts ==
  ASSUME CallsInv, call.step # "idle"
  PROVE  /\ call.side \in Side /\ call.step \in Steps
         /\ Me.iv \in Block /\ Due \in Block /\ call.given \in Block
         /\ InputBlock \in Block /\ OutputBlock \in Block /\ local \in Block
         /\ Count(call.side) \in Nat /\ Count(call.side) + 1 <= MaxBlocks
         /\ mode = "ECB" => Due = iv0
         /\ mode = "OFB" => NextStream = Enc(key, Due)
         /\ mode = "CTR" => NextStream = Inc(Due)
         /\ ~ Feedback => ~ Behind
         /\ Encrypting => ~ Behind
<1>1. /\ call.side \in Side /\ call.step \in Steps
      /\ Me.iv \in Block /\ call.given \in Block
      /\ InputBlock \in Block /\ OutputBlock \in Block /\ local \in Block
      /\ key \in Key /\ iv0 \in Block /\ mode \in Mode
  BY DEF CallsInv, CallsTypeOK, Steps, Me, InputBlock, OutputBlock, OutputCell
<1>2. Len(sent) \in Nat /\ Len(received) \in Nat /\ Len(received) <= Len(sent) /\ Len(sent) <= MaxBlocks
  BY DEF CallsInv, CallsTypeOK
<1>3. MaxBlocks \in Nat
  BY BlockCallsAssumption
<1>4. Count(call.side) \in 0 .. Len(sent) /\ Count(call.side) + 1 <= MaxBlocks
  BY <1>1, <1>2, <1>3 DEF CallsInv, Turns, Calling, Side, Count
<1>5. Due \in Block /\ (mode = "ECB" => Due = iv0)
  BY <1>2, <1>4, SenderIvFacts DEF CallsInv, Due
<1> DEFINE n == Count(call.side)
<1>6. mode \in {"OFB", "CTR"} => Due = KeyStream(mode, key, iv0)[n]
  BY <1>2, <1>3, <1>4, SenderIvFacts DEF CallsInv, Due
<1>7. n + 1 \in 1 .. MaxBlocks /\ (n + 1) - 1 = n
  BY <1>3, <1>4
<1>8. NextStream = AfterStream(mode, key, KeyStream(mode, key, iv0)[n])
  <2>1. \A q \in 1 .. MaxBlocks :
          KeyStream(mode, key, iv0)[q] = AfterStream(mode, key, KeyStream(mode, key, iv0)[q - 1])
    BY <1>1, KeyStreamSteps
  <2>2. NextStream = KeyStream(mode, key, iv0)[n + 1]
    BY DEF NextStream
  <2> HIDE DEF n
  <2>3. QED
    BY <1>7, <2>1, <2>2
<1>9. /\ mode = "OFB" => NextStream = Enc(key, Due)
      /\ mode = "CTR" => NextStream = Inc(Due)
  BY <1>6, <1>8 DEF AfterStream
<1>10. /\ ~ Feedback => ~ Behind
       /\ Encrypting => ~ Behind
  BY DEF Behind, Misled, Encrypting
<1>11. QED
  BY <1>1, <1>2, <1>4, <1>5, <1>9, <1>10

(* The round keys of an object are those its functions need.                *)
LEMMA RoundKeysFit ==
  ASSUME CallsInv, NEW b
  PROVE  /\ Me.interface = "box" \/ Encrypting =>
              EncryptWith(Me.encryption_keys, b) = Enc(key, b)
         /\ Me.interface = "box" => DecryptWith(Me.decryption_keys, b) = Dec(key, b)
         /\ Me.interface = "wrapper" /\ ~ Encrypting =>
              /\ mode \in {"ECB", "CBC"} => DecryptWith(Me.decryption_keys, b) = Dec(key, b)
              /\ mode \in {"CFB", "OFB", "CTR"} =>
                   EncryptWith(Me.decryption_keys, b) = Enc(key, b)
<1>1. call.side \in {"sender", "receiver"}
  BY DEF CallsInv, CallsTypeOK, Side
<1>2. CASE call.side = "sender"
  BY <1>2 DEF CallsInv, Objects, Me, Encrypting, BoxObject, EncryptWrapper,
              EncryptWith, DecryptWith
<1>3. CASE call.side = "receiver"
  BY <1>3 DEF CallsInv, Objects, Me, Encrypting, BoxObject, DecryptWrapper,
              EncryptWith, DecryptWith, ModeUsesEncryptionKeysOnly
<1>4. QED
  BY <1>1, <1>2, <1>3

(* A step within a call disturbs nothing but the call: it goes to step s    *)
(* and leaves the object with the chaining value v.                         *)
Within(s, v) ==
  /\ CallsTypeOK' /\ Objects' /\ Turns' /\ Made' /\ OnlyLostBlocksDiffer'
  /\ mode' = mode /\ key' = key /\ iv0' = iv0
  /\ call'.step = s /\ call'.side = call.side /\ call'.inPlace = call.inPlace
  /\ call'.given = call.given
  /\ Encrypting' = Encrypting /\ OutputCell' = OutputCell
  /\ Me'.iv = v /\ Me'.interface = Me.interface
  /\ WrittenOver' = WrittenOver /\ Spared' = Spared /\ Expected' = Expected
  /\ Feedback' = Feedback /\ Behind' = Behind /\ NextStream' = NextStream
  /\ Stands(call.side)' <=> (Behind \/ v = Due)

LEMMA WithinCall ==
  ASSUME CallsInv, call.step # "idle",
         NEW s \in Steps, NEW v \in Block,
         call' = [call EXCEPT !.step = s],
         obj' = [obj EXCEPT ![call.side].iv = v],
         cells' \in [{"input", "output"} -> Block], local' \in Block,
         Elsewhere
  PROVE  Within(s, v)
<1>1. /\ call \in [side : Side, inPlace : BOOLEAN, given : Block,
               step : {"idle", "first", "second", "third", "compute", "assign", "returned"}]
      /\ obj \in [Side -> [interface : {"box", "wrapper"}, iv : Block,
                       encryption_keys : RoundKeys, decryption_keys : RoundKeys]]
  BY DEF CallsInv, CallsTypeOK
<1>2. /\ call'.step = s /\ call'.side = call.side /\ call'.inPlace = call.inPlace
      /\ call'.given = call.given /\ call.side \in Side
  BY <1>1
<1>3. /\ mode' = mode /\ key' = key /\ iv0' = iv0 /\ sent' = sent
      /\ received' = received /\ boxInPlace' = boxInPlace
  BY DEF Elsewhere
<1>4. /\ \A side \in Side : /\ obj'[side].interface = obj[side].interface
                            /\ obj'[side].encryption_keys = obj[side].encryption_keys
                            /\ obj'[side].decryption_keys = obj[side].decryption_keys
                            /\ obj'[side].iv = IF side = call.side THEN v ELSE obj[side].iv
  BY <1>1, <1>2
<1>5. CallsTypeOK'
  <2>1. call' \in [side : Side, inPlace : BOOLEAN, given : Block,
               step : {"idle", "first", "second", "third", "compute", "assign", "returned"}]
    BY <1>1 DEF Steps
  <2>2. obj' \in [Side -> [interface : {"box", "wrapper"}, iv : Block,
                       encryption_keys : RoundKeys, decryption_keys : RoundKeys]]
    BY <1>1, <1>2
  <2>3. QED
    BY <1>3, <2>1, <2>2 DEF CallsInv, CallsTypeOK
<1>6. Objects'
  BY <1>1, <1>3, <1>4 DEF CallsInv, Objects, BoxObject, EncryptWrapper, DecryptWrapper, Side
<1>7. /\ \A n : SenderIv(n)' = SenderIv(n)
      /\ \A side : Count(side)' = Count(side)
      /\ \A side, n : Misled(side, n)' = Misled(side, n)
      /\ Feedback' = Feedback
  BY <1>3 DEF SenderIv, Count, Misled, Feedback
<1>8. /\ Count(call.side)' = Count(call.side) /\ Due' = Due /\ Behind' = Behind
      /\ Encrypting' = Encrypting /\ OutputCell' = OutputCell
      /\ NextStream' = NextStream
  BY <1>2, <1>3 DEF Due, Behind, SenderIv, Count, Misled, Feedback, Encrypting, OutputCell, NextStream
<1>9. Me'.iv = v /\ Me'.interface = Me.interface
  BY <1>2, <1>4 DEF Me
<1>10. WrittenOver' = WrittenOver /\ Spared' = Spared /\ Expected' = Expected
  BY <1>2, <1>3, <1>8, <1>9 DEF WrittenOver, Spared, Expected
<1>11. Stands(call.side)' <=> (Behind \/ v = Due)
  BY <1>2, <1>4, <1>7, <1>8 DEF Stands, Behind, Due, Me
<1>12. Turns'
  <2>1. \A side : Calling(side)' = Calling(side)
    BY <1>2 DEF Calling, Steps
  <2>2. ASSUME NEW side \in Side, ~ Calling(side) PROVE Stands(side)'
    <3>1. side # call.side
      BY <2>2 DEF Calling
    <3>2. obj'[side].iv = obj[side].iv /\ Stands(side)
      BY <1>4, <2>2, <3>1 DEF CallsInv, Turns
    <3>3. QED
      BY <1>7, <3>2 DEF Stands
  <2>3. QED
    BY <1>2, <1>3, <1>7, <1>10, <2>1, <2>2 DEF CallsInv, Turns
<1>13. Made'
  BY <1>3, <1>7 DEF CallsInv, Made
<1>14. OnlyLostBlocksDiffer'
  BY <1>3 DEF CallsInv, OnlyLostBlocksDiffer, Lost
<1>15. QED
  BY <1>2, <1>3, <1>5, <1>6, <1>7, <1>8, <1>9, <1>10, <1>11, <1>12, <1>13, <1>14 DEF Within

(* A function that leaves an object alone leaves its chaining value.        *)
LEMMA SameObject ==
  ASSUME CallsInv, UNCHANGED obj
  PROVE  obj' = [obj EXCEPT ![call.side].iv = Me.iv]
  BY DEF CallsInv, CallsTypeOK, Me

(* A step that writes a block to *output: if the call is in place, that is  *)
(* *input.                                                                  *)
LEMMA Writes ==
  ASSUME CallsInv, NEW b \in Block, WriteBlock(b), call'.inPlace = call.inPlace
  PROVE  /\ cells' \in [{"input", "output"} -> Block]
         /\ OutputBlock' = b /\ InputBlock' = IF call.inPlace THEN b ELSE InputBlock
<1>1. cells \in [{"input", "output"} -> Block] /\ call.inPlace \in BOOLEAN
  BY DEF CallsInv, CallsTypeOK
<1>2. OutputCell' = OutputCell /\ OutputCell = (IF call.inPlace THEN "input" ELSE "output")
  BY DEF OutputCell
<1>3. QED
  BY <1>1, <1>2 DEF WriteBlock, OutputBlock, InputBlock

(* A call's invariant after a step, from what holds at the step it goes to. *)
LEMMA CipherInputKeeps ==
  ASSUME CallsInv, CipherInput
  PROVE  CallsInv'
<1> DEFINE b == IF Encrypting THEN EncryptWith(Me.encryption_keys, InputBlock)
                ELSE DecryptWith(Me.decryption_keys, InputBlock)
           s == IF mode = "ECB" THEN "returned" ELSE "second"
<1>1. /\ call.step = "first" /\ mode \in {"ECB", "CBC"} /\ (mode = "CBC" => ~ Encrypting)
      /\ WriteBlock(b) /\ call' = [call EXCEPT !.step = s] /\ Elsewhere
      /\ obj' = obj /\ local' = local
  BY DEF CipherInput, At, GoTo
<1>2. Me.interface = "box" /\ InputBlock = call.given /\ Stands(call.side)
  BY <1>1 DEF CallsInv, CallStands, AtFirst
<1>3. b = IF Encrypting THEN Enc(key, InputBlock) ELSE Dec(key, InputBlock)
  BY <1>2, RoundKeysFit
<1> HIDE DEF b
<1>4. b \in Block /\ call'.inPlace = call.inPlace /\ s \in Steps
  <2>1. key \in Key /\ call'.inPlace = call.inPlace
    BY <1>1 DEF CallsInv, CallsTypeOK
  <2>2. InputBlock \in Block
    BY <1>1, CallFacts
  <2>3. QED
    BY <1>3, <2>1, <2>2, CipherAssumption DEF Steps
<1>5. cells' \in [{"input", "output"} -> Block] /\ OutputBlock' = b
      /\ (InputBlock' = IF call.inPlace THEN b ELSE InputBlock)
  BY <1>1, <1>4, Writes
<1>6. Within(s, Me.iv)
  BY <1>1, <1>4, <1>5, CallFacts, SameObject, WithinCall
<1>7. Stands(call.side)'
  BY <1>2, <1>6 DEF Within, Stands, Behind, Due, Me
<1>8. CallStands'
  <2>1. CASE mode = "ECB"
    <3>1. Due = iv0 /\ ~ Behind
      BY <1>1, <2>1, CallFacts DEF Feedback
    <3>2. Me.iv = iv0
      BY <1>6, <1>7, <3>1 DEF Within
    <3>3. Expected = b
      BY <1>2, <1>3, <2>1 DEF Expected, EncryptBlock, DecryptBlock, EncryptBlockEcb, DecryptBlockEcb
    <3>4. Chains(OutputBlock)'
      BY <1>6, <2>1, <3>2 DEF Within, Chains, Feedback
    <3>5. QED
      BY <1>5, <1>6, <2>1, <3>3, <3>4 DEF Within, CallStands
  <2>2. CASE mode = "CBC"
    <3>1. AtSecond'
      BY <1>1, <1>2, <1>3, <1>5, <1>6, <1>7, <2>2 DEF Within, AtSecond
    <3>2. QED
      BY <1>2, <1>6, <2>2, <3>1 DEF Within, CallStands
  <2>3. QED
    BY <1>1, <2>1, <2>2
<1>9. QED
  BY <1>6, <1>8 DEF Within, CallsInv

LEMMA XorInputWithIvKeeps ==
  ASSUME CallsInv, XorInputWithIv
  PROVE  CallsInv'
<1>1. /\ call.step = "first" /\ mode = "CBC" /\ Encrypting
      /\ local' = XorBlocks(InputBlock, Me.iv)
      /\ call' = [call EXCEPT !.step = "second"] /\ Elsewhere
      /\ obj' = obj /\ cells' = cells
  BY DEF XorInputWithIv, At, GoTo
<1>2. Me.interface = "box" /\ InputBlock = call.given /\ Stands(call.side)
  BY <1>1 DEF CallsInv, CallStands, AtFirst
<1>3. Me.iv \in Block /\ local' \in Block
  BY <1>1, CallFacts, XorBlocksType
<1>4. cells' \in [{"input", "output"} -> Block] /\ InputBlock' = InputBlock
  BY <1>1 DEF CallsInv, CallsTypeOK, InputBlock
<1>5. Within("second", Me.iv)
  BY <1>1, <1>3, <1>4, SameObject, WithinCall DEF Steps
<1>6. Stands(call.side)'
  BY <1>2, <1>5 DEF Within, Stands, Behind, Due, Me
<1>7. AtSecond'
  BY <1>1, <1>2, <1>4, <1>5, <1>6 DEF Within, AtSecond
<1>8. CallStands'
  BY <1>2, <1>5, <1>7 DEF Within, CallStands
<1>9. QED
  BY <1>5, <1>8 DEF Within, CallsInv

LEMMA EncryptXoredInputKeeps ==
  ASSUME CallsInv, EncryptXoredInput
  PROVE  CallsInv'
<1> DEFINE b == EncryptWith(Me.encryption_keys, local)
<1>1. /\ call.step = "second" /\ mode = "CBC" /\ Encrypting
      /\ WriteBlock(b) /\ call' = [call EXCEPT !.step = "third"] /\ Elsewhere
      /\ obj' = obj /\ local' = local
  BY DEF EncryptXoredInput, At, GoTo
<1>2. /\ Me.interface = "box" /\ Stands(call.side) /\ (~ call.inPlace => InputBlock = call.given)
      /\ local = XorBlocks(call.given, Me.iv)
  BY <1>1 DEF CallsInv, CallStands, AtSecond
<1>3. b = Enc(key, XorBlocks(call.given, Me.iv))
  BY <1>2, RoundKeysFit
<1> HIDE DEF b
<1>4. /\ Me.iv \in Block /\ local' \in Block /\ call'.inPlace = call.inPlace /\ b \in Block
      /\ ~ Behind
  <2>1. key \in Key /\ call'.inPlace = call.inPlace
    BY <1>1 DEF CallsInv, CallsTypeOK
  <2>2. /\ Me.iv \in Block /\ local \in Block /\ call.given \in Block /\ ~ Behind
    BY <1>1, CallFacts
  <2>3. QED
    BY <1>1, <1>3, <2>1, <2>2, XorBlocksType, CipherAssumption
<1>5. cells' \in [{"input", "output"} -> Block] /\ OutputBlock' = b
      /\ (InputBlock' = IF call.inPlace THEN b ELSE InputBlock)
  BY <1>1, <1>4, Writes
<1>6. Within("third", Me.iv)
  BY <1>1, <1>4, <1>5, SameObject, WithinCall DEF Steps
<1>7. Stands(call.side)' /\ Me.iv = Due
  BY <1>2, <1>4, <1>6 DEF Within, Stands, Behind, Due, Me
<1>8. Expected = b
  BY <1>1, <1>3, <1>7 DEF Expected, EncryptBlock, EncryptBlockCbc
<1>9. AtThird'
  BY <1>1, <1>2, <1>5, <1>6, <1>7, <1>8 DEF Within, AtThird
<1>10. CallStands'
  BY <1>2, <1>6, <1>9 DEF Within, CallStands
<1>11. QED
  BY <1>6, <1>10 DEF Within, CallsInv

LEMMA XorOutputWithIvKeeps ==
  ASSUME CallsInv, XorOutputWithIv
  PROVE  CallsInv'
<1> DEFINE b == XorBlocks(OutputBlock, Me.iv)
<1>1. /\ call.step = "second" /\ mode = "CBC" /\ ~ Encrypting
      /\ WriteBlock(b) /\ call' = [call EXCEPT !.step = "third"] /\ Elsewhere
      /\ obj' = obj /\ local' = local
  BY DEF XorOutputWithIv, At, GoTo
<1>2. /\ Me.interface = "box" /\ Stands(call.side) /\ (~ call.inPlace => InputBlock = call.given)
      /\ OutputBlock = Dec(key, call.given)
  BY <1>1 DEF CallsInv, CallStands, AtSecond
<1>3. b = XorBlocks(Dec(key, call.given), Me.iv)
  BY <1>2
<1> HIDE DEF b
<1>4. /\ Me.iv \in Block /\ local' \in Block /\ call'.inPlace = call.inPlace /\ b \in Block
  <2>1. call'.inPlace = call.inPlace
    BY <1>1 DEF CallsInv, CallsTypeOK
  <2>2. /\ Me.iv \in Block /\ local \in Block /\ OutputBlock \in Block
    BY <1>1, CallFacts
  <2>3. QED
    BY <1>1, <2>1, <2>2, XorBlocksType DEF b
<1>5. cells' \in [{"input", "output"} -> Block] /\ OutputBlock' = b
      /\ (InputBlock' = IF call.inPlace THEN b ELSE InputBlock)
  BY <1>1, <1>4, Writes
<1>6. Within("third", Me.iv)
  BY <1>1, <1>4, <1>5, SameObject, WithinCall DEF Steps
<1>7. Stands(call.side)' /\ (Behind \/ Me.iv = Due)
  BY <1>2, <1>6 DEF Within, Stands, Behind, Due, Me
<1>8. Behind \/ Expected = b
  BY <1>1, <1>3, <1>7 DEF Expected, DecryptBlock, DecryptBlockCbc
<1>9. AtThird'
  BY <1>1, <1>2, <1>5, <1>6, <1>7, <1>8 DEF Within, AtThird, Spared
<1>10. CallStands'
  BY <1>2, <1>6, <1>9 DEF Within, CallStands
<1>11. QED
  BY <1>6, <1>10 DEF Within, CallsInv

LEMMA EncryptIvToOutputKeeps ==
  ASSUME CallsInv, EncryptIvToOutput
  PROVE  CallsInv'
<1> DEFINE b == EncryptWith(Me.encryption_keys, Me.iv)
<1>1. /\ call.step = "first" /\ mode \in {"CFB", "CTR"}
      /\ WriteBlock(b) /\ call' = [call EXCEPT !.step = "second"] /\ Elsewhere
      /\ obj' = obj /\ local' = local
  BY DEF EncryptIvToOutput, At, GoTo
<1>2. Me.interface = "box" /\ Stands(call.side) /\ InputBlock = call.given
  BY <1>1 DEF CallsInv, CallStands, AtFirst
<1>3. b = Enc(key, Me.iv)
  BY <1>2, RoundKeysFit
<1> HIDE DEF b
<1>4. /\ Me.iv \in Block /\ local' \in Block /\ call'.inPlace = call.inPlace /\ b \in Block
  <2>1. key \in Key /\ call'.inPlace = call.inPlace
    BY <1>1 DEF CallsInv, CallsTypeOK
  <2>2. /\ Me.iv \in Block /\ local \in Block
    BY <1>1, CallFacts
  <2>3. QED
    BY <1>1, <1>3, <2>1, <2>2, CipherAssumption
<1>5. cells' \in [{"input", "output"} -> Block] /\ OutputBlock' = b
      /\ (InputBlock' = IF call.inPlace THEN b ELSE InputBlock)
  BY <1>1, <1>4, Writes
<1>6. Within("second", Me.iv)
  BY <1>1, <1>4, <1>5, SameObject, WithinCall DEF Steps
<1>7. Stands(call.side)'
  BY <1>2, <1>6 DEF Within, Stands, Behind, Due, Me
<1>8. AtSecond'
  BY <1>1, <1>2, <1>3, <1>5, <1>6, <1>7 DEF Within, AtSecond
<1>9. CallStands'
  BY <1>2, <1>6, <1>8 DEF Within, CallStands
<1>10. QED
  BY <1>6, <1>9 DEF Within, CallsInv

LEMMA EncryptIvKeeps ==
  ASSUME CallsInv, EncryptIv
  PROVE  CallsInv'
<1> DEFINE b == EncryptWith(Me.encryption_keys, Me.iv)
<1>1. /\ call.step = "first" /\ mode = "OFB"
      /\ WriteBlock(b) /\ call' = [call EXCEPT !.step = "second"] /\ Elsewhere
      /\ obj' = [obj EXCEPT ![call.side].iv = b] /\ local' = local
  BY DEF EncryptIv, At, GoTo, Chain
<1>2. Me.interface = "box" /\ Stands(call.side) /\ InputBlock = call.given
  BY <1>1 DEF CallsInv, CallStands, AtFirst
<1>3. b = Enc(key, Me.iv)
  BY <1>2, RoundKeysFit
<1> HIDE DEF b
<1>4. /\ local' \in Block /\ call'.inPlace = call.inPlace /\ b \in Block
  <2>1. key \in Key /\ call'.inPlace = call.inPlace
    BY <1>1 DEF CallsInv, CallsTypeOK
  <2>2. /\ Me.iv \in Block /\ local \in Block
    BY <1>1, CallFacts
  <2>3. QED
    BY <1>1, <1>3, <2>1, <2>2, CipherAssumption
<1>5. cells' \in [{"input", "output"} -> Block] /\ OutputBlock' = b
      /\ (InputBlock' = IF call.inPlace THEN b ELSE InputBlock)
  BY <1>1, <1>4, Writes
<1>6. Within("second", b)
  BY <1>1, <1>4, <1>5, WithinCall DEF Steps
<1>7. Me.iv = Due
  BY <1>1, <1>2, CallFacts DEF Feedback, Stands, Behind, Due, Me
<1>8. b = NextStream
  BY <1>1, <1>3, <1>7, CallFacts
<1>9. AtSecond'
  BY <1>1, <1>2, <1>5, <1>6, <1>8 DEF Within, AtSecond
<1>10. CallStands'
  BY <1>2, <1>6, <1>9 DEF Within, CallStands
<1>11. QED
  BY <1>6, <1>10 DEF Within, CallsInv

LEMMA XorOutputWithInputKeeps ==
  ASSUME CallsInv, XorOutputWithInput
  PROVE  CallsInv'
<1> DEFINE b == XorBlocks(OutputBlock, InputBlock)
           s == IF mode = "OFB" THEN "returned" ELSE "third"
<1>1. /\ call.step = "second" /\ mode \in {"CFB", "OFB", "CTR"}
      /\ WriteBlock(b) /\ call' = [call EXCEPT !.step = s] /\ Elsewhere
      /\ obj' = obj /\ local' = local
  BY DEF XorOutputWithInput, At, GoTo
<1>2. /\ Me.interface = "box" /\ (mode # "OFB" => Stands(call.side))
      /\ ~ call.inPlace => InputBlock = call.given
      /\ mode \in {"CFB", "CTR"} => OutputBlock = Enc(key, Me.iv)
      /\ mode = "OFB" => OutputBlock = Me.iv /\ Me.iv = NextStream
  BY <1>1 DEF CallsInv, CallStands, AtSecond
<1>3. /\ Me.iv \in Block /\ local' \in Block /\ call'.inPlace = call.inPlace /\ b \in Block
      /\ s \in Steps
  <2>1. call'.inPlace = call.inPlace
    BY <1>1 DEF CallsInv, CallsTypeOK
  <2>2. /\ Me.iv \in Block /\ local \in Block /\ InputBlock \in Block /\ OutputBlock \in Block
    BY <1>1, CallFacts
  <2>3. QED
    BY <1>1, <2>1, <2>2, XorBlocksType DEF Steps
<1>4. ~ call.inPlace => b = XorBlocks(OutputBlock, call.given)
  BY <1>2
<1> HIDE DEF b
<1>5. cells' \in [{"input", "output"} -> Block] /\ OutputBlock' = b
      /\ (InputBlock' = IF call.inPlace THEN b ELSE InputBlock)
  BY <1>1, <1>3, Writes
<1>6. Within(s, Me.iv)
  BY <1>1, <1>3, <1>5, SameObject, WithinCall
<1>7. mode # "OFB" => Stands(call.side)' /\ (Behind \/ Me.iv = Due)
  BY <1>2, <1>6 DEF Within, Stands, Behind, Due, Me
<1>8. Spared => ~ call.inPlace /\ ~ Behind
  BY <1>1, <1>2 DEF Spared, WrittenOver
<1>9. Expected = XorBlocks(Enc(key, Due), call.given)
  BY <1>1 DEF Expected, EncryptBlock, EncryptBlockCfb, EncryptBlockOfb, EncryptBlockCtr,
              DecryptBlock, DecryptBlockCfb
<1>10. Spared => Expected = b
  <2>1. mode = "OFB" => OutputBlock = Enc(key, Due)
    BY <1>1, <1>2, CallFacts
  <2>2. mode # "OFB" /\ Spared => OutputBlock = Enc(key, Due)
    BY <1>1, <1>2, <1>7, <1>8
  <2>3. QED
    BY <1>4, <1>8, <1>9, <2>1, <2>2
<1>11. CallStands'
  <2>1. CASE mode = "OFB"
    <3>1. Chains(OutputBlock)'
      BY <1>2, <1>6, <2>1 DEF Within, Chains, Feedback
    <3>2. QED
      BY <1>5, <1>6, <1>10, <2>1, <3>1 DEF Within, CallStands
  <2>2. CASE mode # "OFB"
    <3>1. AtThird'
      BY <1>1, <1>2, <1>5, <1>6, <1>7, <1>10, <2>2 DEF Within, AtThird
    <3>2. QED
      BY <1>2, <1>6, <2>2, <3>1 DEF Within, CallStands
  <2>3. QED
    BY <2>1, <2>2
<1>12. QED
  BY <1>6, <1>11 DEF Within, CallsInv

(* The last statement of a function replaces the chaining value.            *)
LEMMA ChainKeeps ==
  ASSUME CallsInv, ChainOutput \/ ChainInput \/ IncIv
  PROVE  CallsInv'
<1> DEFINE v == IF mode = "CTR" THEN Inc(Me.iv) ELSE IF Encrypting THEN OutputBlock ELSE InputBlock
<1>1. /\ call.step = "third" /\ mode \in {"CBC", "CFB", "CTR"}
      /\ obj' = [obj EXCEPT ![call.side].iv = v]
      /\ call' = [call EXCEPT !.step = "returned"] /\ Elsewhere
      /\ cells' = cells /\ local' = local
  BY DEF ChainOutput, ChainInput, IncIv, At, GoTo, Chain
<1>2. /\ Me.interface = "box" /\ Stands(call.side)
      /\ ~ call.inPlace => InputBlock = call.given
      /\ Spared => OutputBlock = Expected
  BY <1>1 DEF CallsInv, CallStands, AtThird
<1>3. v \in Block /\ (mode = "CTR" => v = NextStream)
  <2>1. /\ Me.iv \in Block /\ InputBlock \in Block /\ OutputBlock \in Block
        /\ mode = "CTR" => ~ Behind /\ NextStream = Inc(Due)
    BY <1>1, CallFacts DEF Feedback
  <2>2. mode = "CTR" => Me.iv = Due
    BY <1>2, <2>1 DEF Stands, Behind, Due, Me
  <2>3. QED
    BY <2>1, <2>2, IncAssumption
<1>4. mode # "CTR" => v = IF Encrypting THEN OutputBlock ELSE InputBlock
  OBVIOUS
<1> HIDE DEF v
<1>5. /\ cells' \in [{"input", "output"} -> Block] /\ local' \in Block
  BY <1>1 DEF CallsInv, CallsTypeOK
<1>6. Within("returned", v)
  BY <1>1, <1>3, <1>5, WithinCall DEF Steps
<1>7. OutputBlock' = OutputBlock
  BY <1>1, <1>6 DEF Within, OutputBlock
<1>8. Chains(OutputBlock)'
  BY <1>1, <1>2, <1>3, <1>4, <1>6, <1>7 DEF Within, Chains, Feedback, WrittenOver
<1>9. CallStands'
  BY <1>2, <1>6, <1>7, <1>8 DEF Within, CallStands
<1>10. QED
  BY <1>6, <1>9 DEF Within, CallsInv

(* The macros compute what the box functions do.                            *)
LEMMA MacrosFit ==
  ASSUME CallsInv, call.step # "idle", Me.interface = "wrapper"
  PROVE  IF Encrypting
         THEN MacroEncrypt(mode, Me.encryption_keys, Me.iv, InputBlock)
                = [value |-> EncryptBlock(mode, key, Me.iv, InputBlock).output,
                   iv |-> EncryptBlock(mode, key, Me.iv, InputBlock).iv]
         ELSE MacroDecrypt(mode, Me.decryption_keys, Me.iv, InputBlock)
                = [value |-> DecryptBlock(mode, key, Me.iv, InputBlock).output,
                   iv |-> DecryptBlock(mode, key, Me.iv, InputBlock).iv]
<1>1. Me.iv \in Block /\ InputBlock \in Block /\ key \in Key /\ mode \in Mode
  BY CallFacts DEF CallsInv, CallsTypeOK
<1>2. XorBlocks(InputBlock, Enc(key, Me.iv)) = XorBlocks(Enc(key, Me.iv), InputBlock)
  BY <1>1, CipherAssumption, XorBlocksCommute
<1>3. CASE Encrypting
  <2>1. \A b : EncryptWith(Me.encryption_keys, b) = Enc(key, b)
    BY <1>3, RoundKeysFit
  <2>2. QED
    BY <1>1, <1>2, <1>3, <2>1
       DEF Mode, MacroEncrypt, EncryptBlock, EncryptBlockEcb, EncryptBlockCbc,
           EncryptBlockCfb, EncryptBlockOfb, EncryptBlockCtr
<1>4. CASE ~ Encrypting
  <2>1. \A b : /\ mode \in {"ECB", "CBC"} => DecryptWith(Me.decryption_keys, b) = Dec(key, b)
               /\ mode \in {"CFB", "OFB", "CTR"} =>
                    EncryptWith(Me.decryption_keys, b) = Enc(key, b)
    BY <1>4, RoundKeysFit
  <2>2. QED
    BY <1>1, <1>2, <1>4, <2>1
       DEF Mode, MacroDecrypt, MacroEncrypt, DecryptBlock, DecryptBlockEcb, DecryptBlockCbc,
           DecryptBlockCfb, EncryptBlockOfb, EncryptBlockCtr
<1>5. QED
  BY <1>3, <1>4

LEMMA CallMacroKeeps ==
  ASSUME CallsInv, CallMacro
  PROVE  CallsInv'
<1> DEFINE e == IF Encrypting THEN EncryptBlock(mode, key, Me.iv, InputBlock)
                ELSE DecryptBlock(mode, key, Me.iv, InputBlock)
<1>1. call.step = "compute"
  BY DEF CallMacro
<1>2. Me.interface = "wrapper" /\ InputBlock = call.given /\ Stands(call.side)
  BY <1>1 DEF CallsInv, CallStands, AtFirst
<1>3. /\ local' = e.output /\ obj' = [obj EXCEPT ![call.side].iv = e.iv]
      /\ call' = [call EXCEPT !.step = "assign"] /\ Elsewhere /\ cells' = cells
  <2>1. /\ call' = [call EXCEPT !.step = "assign"] /\ Elsewhere /\ cells' = cells
    BY DEF CallMacro, GoTo
  <2>2. CASE Encrypting
    <3> DEFINE r == MacroEncrypt(mode, Me.encryption_keys, Me.iv, InputBlock)
    <3>1. local' = r.value /\ obj' = [obj EXCEPT ![call.side].iv = r.iv]
      BY <2>2 DEF CallMacro, Chain
    <3>2. r.value = e.output /\ r.iv = e.iv
      BY <1>1, <1>2, <2>2, MacrosFit
    <3> HIDE DEF r, e
    <3>3. QED
      BY <2>1, <3>1, <3>2
  <2>3. CASE ~ Encrypting
    <3> DEFINE r == MacroDecrypt(mode, Me.decryption_keys, Me.iv, InputBlock)
    <3>1. local' = r.value /\ obj' = [obj EXCEPT ![call.side].iv = r.iv]
      BY <2>3 DEF CallMacro, Chain
    <3>2. r.value = e.output /\ r.iv = e.iv
      BY <1>1, <1>2, <2>3, MacrosFit
    <3> HIDE DEF r, e
    <3>3. QED
      BY <2>1, <3>1, <3>2
  <2>4. QED
    BY <2>2, <2>3
<1>4. /\ Me.iv \in Block /\ InputBlock \in Block /\ key \in Key /\ mode \in Mode
  BY <1>1, CallFacts DEF CallsInv, CallsTypeOK
<1>5. e.output \in Block /\ e.iv \in Block
  BY <1>4, CryptType
<1>6. Behind \/ Me.iv = Due
  BY <1>2 DEF Stands, Behind, Due, Me
<1>7. Behind \/ e.output = Expected
  BY <1>2, <1>6 DEF Expected
<1>8. /\ mode = "ECB" => e.iv = iv0
      /\ Feedback /\ Encrypting => e.iv = e.output
      /\ Feedback /\ ~ Encrypting => e.iv = call.given
      /\ mode \in {"OFB", "CTR"} => e.iv = NextStream
  <2>1. /\ mode = "ECB" => Me.iv = iv0
        /\ mode = "OFB" => NextStream = Enc(key, Me.iv)
        /\ mode = "CTR" => NextStream = Inc(Me.iv)
    BY <1>1, <1>6, CallFacts DEF Feedback
  <2>2. QED
    BY <1>2, <2>1
       DEF Feedback, EncryptBlock, EncryptBlockEcb, EncryptBlockCbc, EncryptBlockCfb,
           EncryptBlockOfb, EncryptBlockCtr, DecryptBlock, DecryptBlockEcb, DecryptBlockCbc,
           DecryptBlockCfb
<1> HIDE DEF e
<1>9. cells' \in [{"input", "output"} -> Block] /\ local' \in Block
  BY <1>3, <1>5 DEF CallsInv, CallsTypeOK
<1>10. Within("assign", e.iv)
  BY <1>1, <1>3, <1>5, <1>9, WithinCall DEF Steps
<1>11. Chains(local)'
  BY <1>3, <1>8, <1>10 DEF Within, Chains, Feedback
<1>12. CallStands'
  BY <1>2, <1>3, <1>7, <1>10, <1>11 DEF Within, CallStands, Spared
<1>13. QED
  BY <1>10, <1>12 DEF Within, CallsInv

LEMMA AssignValueKeeps ==
  ASSUME CallsInv, AssignValue
  PROVE  CallsInv'
<1>1. /\ call.step = "assign" /\ WriteBlock(local) /\ call' = [call EXCEPT !.step = "returned"]
      /\ Elsewhere /\ obj' = obj /\ local' = local
  BY DEF AssignValue, GoTo
<1>2. Chains(local) /\ (Spared => local = Expected)
  BY <1>1 DEF CallsInv, CallStands
<1>3. Me.iv \in Block /\ local \in Block /\ call'.inPlace = call.inPlace
  <2>1. call'.inPlace = call.inPlace
    BY <1>1 DEF CallsInv, CallsTypeOK
  <2>2. QED
    BY <1>1, <2>1, CallFacts
<1>4. cells' \in [{"input", "output"} -> Block] /\ OutputBlock' = local
  BY <1>1, <1>3, Writes
<1>5. Within("returned", Me.iv)
  BY <1>1, <1>3, <1>4, SameObject, WithinCall DEF Steps
<1>6. Chains(OutputBlock)'
  BY <1>2, <1>4, <1>5 DEF Within, Chains
<1>7. CallStands'
  BY <1>2, <1>4, <1>5, <1>6 DEF Within, CallStands
<1>8. QED
  BY <1>5, <1>7 DEF Within, CallsInv

-----------------------------------------------------------------------------
(* The program calls: what held between calls holds at the call's first     *)
(* step.                                                                    *)
LEMMA BeginKeeps ==
  ASSUME CallsInv, NEW side \in Side, NEW b \in Block, NEW inPlace \in BOOLEAN,
         Begin(side, Count(side) + 1, b, inPlace),
         side = "sender" => Len(sent) < MaxBlocks,
         side = "receiver" =>
           Len(received) < Len(sent) /\ b = sent[Len(received) + 1].cipher
  PROVE  CallsInv'
<1> DEFINE n == Count(side) + 1
           box == obj[side].interface = "box"
<1>1. /\ call.step = "idle" /\ cells' = [cells EXCEPT !["input"] = b]
      /\ call' = [side |-> side, inPlace |-> inPlace, given |-> b,
                  step |-> IF box THEN "first" ELSE "compute"]
      /\ boxInPlace' = IF inPlace /\ box THEN [boxInPlace EXCEPT ![side] = @ \cup {n}]
                       ELSE boxInPlace
      /\ mode' = mode /\ key' = key /\ iv0' = iv0 /\ obj' = obj /\ local' = local
      /\ sent' = sent /\ received' = received
  BY DEF Begin
<1>2. /\ call'.side = side /\ call'.inPlace = inPlace /\ call'.given = b
      /\ call'.step = IF box THEN "first" ELSE "compute"
  BY <1>1
<1>3. /\ Len(sent) \in Nat /\ Len(received) \in Nat /\ Len(received) <= Len(sent)
      /\ Len(sent) <= MaxBlocks /\ MaxBlocks \in Nat
      /\ n \in 1 .. MaxBlocks
  BY BlockCallsAssumption DEF CallsInv, CallsTypeOK, Count, Side
<1> HIDE DEF n
<1>4. boxInPlace' \in [Side -> SUBSET (1 .. MaxBlocks)]
  BY <1>1, <1>3 DEF CallsInv, CallsTypeOK
<1>5. \A x \in Side :
        boxInPlace'[x] = boxInPlace[x] \cup (IF x = side /\ inPlace /\ box THEN {n} ELSE {})
  BY <1>1 DEF CallsInv, CallsTypeOK
<1>6. CallsTypeOK'
  <2>1. cells' \in [{"input", "output"} -> Block]
    BY <1>1 DEF CallsInv, CallsTypeOK
  <2>2. call' \in [side : Side, inPlace : BOOLEAN, given : Block,
                   step : {"idle", "first", "second", "third", "compute", "assign", "returned"}]
    BY <1>1
  <2>3. QED
    BY <1>1, <1>4, <2>1, <2>2 DEF CallsInv, CallsTypeOK
<1>7. Objects'
  BY <1>1 DEF CallsInv, Objects
<1>8. /\ \A m : SenderIv(m)' = SenderIv(m)
      /\ \A x : Count(x)' = Count(x)
  BY <1>1 DEF SenderIv, Count, Feedback
<1>9. \A x \in Side : ~ Calling(x) /\ \A m \in boxInPlace[x] : m <= Count(x)
  BY <1>1 DEF CallsInv, Turns, Calling
<1>10. n = Count(side) + 1 /\ \A x \in Side : Count(x) \in Nat
  BY <1>3 DEF n, Count, Side
<1>11. \A x \in Side : Stands(x)'
  <2> SUFFICES ASSUME NEW x \in Side PROVE Stands(x)'
    OBVIOUS
  <2>1. Stands(x)
    BY <1>9 DEF CallsInv, Turns
  <2>2. Misled(x, Count(x)) => Misled(x, Count(x))'
    BY <1>1, <1>5, <1>8 DEF Misled, Feedback, Side
  <2>3. QED
    BY <1>1, <1>8, <2>1, <2>2 DEF Stands
<1>12. WrittenOver' <=> inPlace /\ box
  BY <1>1, <1>2 DEF WrittenOver, Me
<1>13. Turns'
  <2>1. ASSUME NEW x \in Side
        PROVE  /\ \A m \in boxInPlace'[x] :
                    m <= Count(x)' \/ (Calling(x)' /\ m = Count(x)' + 1)
               /\ Calling(x)' => (Count(x)' + 1 \in boxInPlace'[x] <=> WrittenOver')
    <3>1. Calling(x)' <=> x = side
      BY <1>2 DEF Calling
    <3>2. \A m \in boxInPlace[x] : m <= Count(x) /\ m \in Int
      BY <1>9 DEF CallsInv, CallsTypeOK
    <3>3. x = side => ~ (n \in boxInPlace[x])
      BY <1>10, <3>2
    <3>4. QED
      BY <1>5, <1>8, <1>10, <1>12, <3>1, <3>2, <3>3
  <2>2. /\ Calling("sender")' => Len(sent') < MaxBlocks
        /\ Calling("receiver")' =>
             Len(received') < Len(sent') /\ call'.given = sent'[Len(received') + 1].cipher
    BY <1>1, <1>2 DEF Calling
  <2>3. QED
    BY <1>11, <2>1, <2>2 DEF Turns
<1>14. CallStands'
  <2>1. InputBlock' = b /\ Me'.interface = obj[side].interface
    BY <1>1, <1>2 DEF CallsInv, CallsTypeOK, InputBlock, Me
  <2>2. AtFirst'
    BY <1>2, <1>11, <2>1 DEF AtFirst
  <2>3. obj[side].interface \in {"box", "wrapper"}
    BY DEF CallsInv, CallsTypeOK
  <2>4. QED
    BY <1>2, <2>1, <2>2, <2>3 DEF CallStands
<1>15. Made'
  <2>1. \A m \in boxInPlace["sender"] : m \in boxInPlace'["sender"]
    BY <1>5 DEF Side
  <2>2. QED
    BY <1>1, <1>8, <2>1 DEF CallsInv, Made
<1>16. OnlyLostBlocksDiffer'
  <2>1. \A x \in Side : boxInPlace[x] \subseteq boxInPlace'[x]
    BY <1>5
  <2>2. boxInPlace["sender"] \subseteq boxInPlace'["sender"]
        /\ boxInPlace["receiver"] \subseteq boxInPlace'["receiver"]
    BY <2>1 DEF Side
  <2>3. \A m : Lost(m) => Lost(m)'
    BY <1>1, <2>2 DEF Lost
  <2>4. QED
    BY <1>1, <2>3 DEF CallsInv, OnlyLostBlocksDiffer
<1>17. QED
  BY <1>6, <1>7, <1>13, <1>14, <1>15, <1>16 DEF CallsInv

LEMMA EncryptKeeps ==
  ASSUME CallsInv, NEW text \in Texts, NEW inPlace \in BOOLEAN, Encrypt(text, inPlace)
  PROVE  CallsInv'
<1>1. text \in Block
  BY BlockCallsAssumption
<1>2. Len(sent) < MaxBlocks /\ Begin("sender", Count("sender") + 1, text, inPlace)
  BY DEF Encrypt, Count
<1>3. QED
  BY <1>1, <1>2, BeginKeeps DEF Side

LEMMA DecryptKeeps ==
  ASSUME CallsInv, NEW inPlace \in BOOLEAN, Decrypt(inPlace)
  PROVE  CallsInv'
<1> DEFINE n == Len(received) + 1
<1>1. n \in DOMAIN sent /\ Begin("receiver", Count("receiver") + 1, sent[n].cipher, inPlace)
  BY DEF Decrypt, Count
<1>2. Len(received) < Len(sent) /\ sent[n].cipher \in Block
  <2>1. sent \in Seq([text : Block, cipher : Block]) /\ Len(received) \in Nat /\ Len(sent) \in Nat
    BY DEF CallsInv, CallsTypeOK
  <2>2. n \in 1 .. Len(sent)
    BY <1>1, <2>1
  <2>3. sent[n] \in [text : Block, cipher : Block]
    BY <2>1, <2>2, ElementOfSeq
  <2>4. QED
    BY <2>1, <2>2, <2>3
<1>3. QED
  BY <1>1, <1>2, BeginKeeps DEF Side

(* The program takes what a call returned.                                  *)
LEMMA CollectFromSender ==
  ASSUME CallsInv, Collect, Encrypting
  PROVE  CallsInv'
<1> DEFINE e == [text |-> call.given, cipher |-> OutputBlock]
<1>1. /\ call.step = "returned" /\ call.side = "sender"
      /\ sent' = Append(sent, e) /\ received' = received
      /\ call' = [call EXCEPT !.step = "idle"]
      /\ mode' = mode /\ key' = key /\ iv0' = iv0 /\ obj' = obj /\ cells' = cells
      /\ local' = local /\ boxInPlace' = boxInPlace
  BY DEF Collect, GoTo, Encrypting
<1>2. /\ call.given \in Block /\ OutputBlock \in Block /\ ~ Behind
      /\ Chains(OutputBlock) /\ (Spared => OutputBlock = Expected)
  BY <1>1, CallFacts DEF CallsInv, CallStands, Encrypting
<1>3. /\ sent \in Seq([text : Block, cipher : Block]) /\ e \in [text : Block, cipher : Block]
      /\ Len(sent) \in Nat /\ Len(received) \in Nat /\ Len(received) <= Len(sent)
      /\ Len(sent) < MaxBlocks /\ MaxBlocks \in Nat
  BY <1>1, <1>2, BlockCallsAssumption DEF CallsInv, CallsTypeOK, Turns, Calling
<1> HIDE DEF e
<1>16. PICK n \in 1 .. MaxBlocks : n = Len(sent) + 1
  BY <1>3
<1>17. PICK r \in 0 .. Len(sent) : r = Len(received)
  BY <1>3
<1>4. /\ sent' \in Seq([text : Block, cipher : Block]) /\ Len(sent') = n
      /\ DOMAIN sent' = 1 .. n /\ DOMAIN sent = 1 .. Len(sent)
      /\ \A i \in 1 .. Len(sent) : sent'[i] = sent[i]
      /\ sent'[n] = e
  BY <1>1, <1>3, <1>16, AppendProperties, LenProperties
<1>5. CallsTypeOK'
  <2>1. call' \in [side : Side, inPlace : BOOLEAN, given : Block,
                   step : {"idle", "first", "second", "third", "compute", "assign", "returned"}]
    BY <1>1 DEF CallsInv, CallsTypeOK
  <2>2. Len(sent') <= MaxBlocks /\ Len(received') <= Len(sent')
    BY <1>1, <1>3, <1>4
  <2>3. QED
    BY <1>1, <1>4, <2>1, <2>2 DEF CallsInv, CallsTypeOK
<1>6. Objects'
  BY <1>1 DEF CallsInv, Objects
<1>7. \A i \in 0 .. Len(sent) : SenderIv(i)' = SenderIv(i)
  BY <1>1, <1>3, <1>4 DEF SenderIv, Feedback
<1>8. /\ Count("sender") = Len(sent) /\ Count("sender")' = n /\ n - 1 = Len(sent)
      /\ Count("receiver") = r /\ Count("receiver")' = r
  BY <1>1, <1>3, <1>4, <1>16, <1>17 DEF Count
<1>9. Stands("sender")'
  <2>1. Me = obj["sender"] /\ call.side = "sender"
    BY <1>1 DEF Me
  <2>2. CASE mode = "ECB"
    BY <1>1, <1>2, <2>1, <2>2 DEF Stands, SenderIv, Chains
  <2>3. CASE Feedback
    <3>1. obj["sender"].iv = OutputBlock
      BY <1>2, <2>1, <2>3 DEF Chains, Encrypting
    <3>2. SenderIv(n)' = sent'[n].cipher
      <4>1. Feedback' /\ mode' # "ECB" /\ n # 0
        BY <1>1, <2>3 DEF Feedback
      <4>2. QED
        BY <4>1 DEF SenderIv
    <3>3. sent'[n].cipher = OutputBlock
      BY <1>4 DEF e
    <3>4. QED
      BY <1>1, <1>8, <3>1, <3>2, <3>3 DEF Stands
  <2>4. CASE mode \in {"OFB", "CTR"}
    <3>1. obj["sender"].iv = KeyStream(mode, key, iv0)[n]
      BY <1>2, <1>8, <1>16, <2>1, <2>4 DEF Chains, NextStream
    <3>2. SenderIv(n)' = KeyStream(mode, key, iv0)[n]
      BY <1>1, <1>3, <2>4 DEF SenderIv, Feedback
    <3>3. QED
      BY <1>1, <1>8, <3>1, <3>2 DEF Stands
  <2>5. QED
    BY <2>2, <2>3, <2>4 DEF CallsInv, CallsTypeOK, Mode, Feedback
<1>10. Stands("receiver")'
  <2>1. Stands("receiver")
    BY <1>1 DEF CallsInv, Turns, Calling, Side
  <2>2. SenderIv(r)' = SenderIv(r)
    BY <1>7
  <2>3. QED
    BY <1>1, <1>8, <2>1, <2>2 DEF Stands, Misled, Feedback
<1>11. Turns'
  <2>1. \A x : ~ Calling(x)'
    BY <1>1 DEF CallsInv, CallsTypeOK, Calling
  <2>2. ASSUME NEW x \in Side, NEW m \in boxInPlace'[x] PROVE m <= Count(x)'
    <3>1. m \in Int /\ (m <= Count(x) \/ (Calling(x) /\ m = Count(x) + 1))
      BY <1>1 DEF CallsInv, CallsTypeOK, Turns
    <3>2. CASE x = "sender"
      BY <1>3, <1>8, <3>1, <3>2
    <3>3. CASE x = "receiver"
      BY <1>1, <1>8, <3>1, <3>3 DEF Calling
    <3>4. QED
      BY <3>2, <3>3 DEF Side
  <2>3. QED
    BY <1>9, <1>10, <2>1, <2>2 DEF Turns, Side
<1>12. Made'
  <2>1. ASSUME NEW i \in 1 .. Len(sent)
        PROVE  \/ mode \in {"CFB", "OFB", "CTR"} /\ i \in boxInPlace["sender"]
               \/ sent'[i].cipher = EncryptBlock(mode, key, SenderIv(i - 1)', sent'[i].text).output
    <3>1. SenderIv(i - 1)' = SenderIv(i - 1) /\ sent'[i] = sent[i]
      BY <1>3, <1>4, <1>7
    <3>2. QED
      BY <1>4, <3>1 DEF CallsInv, Made
  <2>2. \/ mode \in {"CFB", "OFB", "CTR"} /\ n \in boxInPlace["sender"]
        \/ sent'[n].cipher = EncryptBlock(mode, key, SenderIv(n - 1)', sent'[n].text).output
    <3>1. SenderIv(n - 1)' = SenderIv(n - 1)
      BY <1>3, <1>7, <1>8
    <3>2. WrittenOver <=> n \in boxInPlace["sender"]
      BY <1>1, <1>8, <1>16 DEF CallsInv, Turns, Calling, Side
    <3>3. Expected = EncryptBlock(mode, key, SenderIv(n - 1), call.given).output
      BY <1>1, <1>8 DEF Expected, Encrypting, Due
    <3>4. QED
      BY <1>2, <1>4, <3>1, <3>2, <3>3 DEF Spared, e
  <2>3. QED
    <3>1. \A i \in 1 .. n : i = n \/ i \in 1 .. Len(sent)
      BY <1>3, <1>16
    <3>2. QED
      BY <1>1, <1>4, <2>1, <2>2, <3>1 DEF Made
<1>13. OnlyLostBlocksDiffer'
  <2>1. ASSUME NEW i \in DOMAIN received
        PROVE  received[i] = sent'[i].text \/ Lost(i)
    <3>1. i \in 1 .. Len(received)
      BY LenProperties DEF CallsInv, CallsTypeOK
    <3>2. sent'[i] = sent[i]
      BY <1>3, <1>4, <3>1
    <3>3. QED
      BY <3>2 DEF CallsInv, OnlyLostBlocksDiffer
  <2>2. QED
    BY <1>1, <2>1 DEF OnlyLostBlocksDiffer, Lost
<1>14. CallStands'
  BY <1>1 DEF CallsInv, CallsTypeOK, CallStands
<1>15. QED
  BY <1>5, <1>6, <1>11, <1>12, <1>13, <1>14 DEF CallsInv

LEMMA CollectFromReceiver ==
  ASSUME CallsInv, Collect, ~ Encrypting
  PROVE  CallsInv'
<1>1. /\ call.step = "returned" /\ call.side = "receiver"
      /\ received' = Append(received, OutputBlock) /\ sent' = sent
      /\ call' = [call EXCEPT !.step = "idle"]
      /\ mode' = mode /\ key' = key /\ iv0' = iv0 /\ obj' = obj /\ cells' = cells
      /\ local' = local /\ boxInPlace' = boxInPlace
  BY DEF Collect, GoTo, Encrypting, CallsInv, CallsTypeOK, Side
<1>2. /\ call.given \in Block /\ OutputBlock \in Block
      /\ Chains(OutputBlock) /\ (Spared => OutputBlock = Expected)
  BY <1>1, CallFacts DEF CallsInv, CallStands
<1>3. /\ received \in Seq(Block) /\ sent \in Seq([text : Block, cipher : Block])
      /\ Len(sent) \in Nat /\ Len(received) \in Nat /\ Len(received) < Len(sent)
      /\ Len(sent) <= MaxBlocks /\ MaxBlocks \in Nat
      /\ call.given = sent[Len(received) + 1].cipher
  BY <1>1, BlockCallsAssumption DEF CallsInv, CallsTypeOK, Turns, Calling
<1>4. PICK n \in 1 .. Len(sent) : n = Len(received) + 1
  BY <1>3
<1>5. n \in 1 .. MaxBlocks /\ n - 1 = Len(received) /\ n # 0 /\ n \in 0 .. Len(sent)
  BY <1>3, <1>4
<1>6. /\ received' \in Seq(Block) /\ Len(received') = n
      /\ DOMAIN received' = 1 .. n /\ DOMAIN received = 1 .. n - 1 /\ DOMAIN sent = 1 .. Len(sent)
      /\ \A i \in 1 .. n - 1 : received'[i] = received[i]
      /\ received'[n] = OutputBlock
  BY <1>1, <1>2, <1>3, <1>4, <1>5, AppendProperties, LenProperties
<1>7. sent[n].text \in Block /\ sent[n].cipher \in Block
  <2>1. sent[n] \in [text : Block, cipher : Block]
    BY <1>3, <1>4, ElementOfSeq
  <2>2. QED
    BY <2>1
<1>8. CallsTypeOK'
  <2>1. call' \in [side : Side, inPlace : BOOLEAN, given : Block,
                   step : {"idle", "first", "second", "third", "compute", "assign", "returned"}]
    BY <1>1 DEF CallsInv, CallsTypeOK
  <2>2. Len(received') <= Len(sent')
    BY <1>1, <1>3, <1>4, <1>6
  <2>3. QED
    BY <1>1, <1>6, <2>1, <2>2 DEF CallsInv, CallsTypeOK
<1>9. Objects'
  BY <1>1 DEF CallsInv, Objects
<1>10. \A i : SenderIv(i)' = SenderIv(i)
  BY <1>1 DEF SenderIv, Feedback
<1>11. /\ Count("receiver") = n - 1 /\ Count("receiver")' = n
       /\ Count("sender") = Len(sent) /\ Count("sender")' = Len(sent)
  BY <1>1, <1>5, <1>6 DEF Count
<1>12. WrittenOver <=> n \in boxInPlace["receiver"]
  <2>1. Count("receiver") + 1 = n
    BY <1>5, <1>11
  <2>2. QED
    BY <1>1, <2>1 DEF CallsInv, Turns, Calling, Side
<1>13. Stands("receiver")'
  <2>1. Me = obj["receiver"] /\ call.side = "receiver"
    BY <1>1 DEF Me
  <2>2. CASE mode = "ECB"
    BY <1>1, <1>2, <2>1, <2>2 DEF Stands, SenderIv, Chains
  <2>3. CASE Feedback
    <3>1. WrittenOver \/ obj["receiver"].iv = sent[n].cipher
      BY <1>2, <1>3, <1>4, <2>1, <2>3 DEF Chains
    <3>2. SenderIv(n)' = sent[n].cipher
      <4>1. Feedback' /\ mode' # "ECB"
        BY <1>1, <2>3 DEF Feedback
      <4>2. QED
        BY <1>1, <1>5, <4>1 DEF SenderIv
    <3>3. WrittenOver => Misled("receiver", n)'
      BY <1>1, <1>12, <2>3 DEF Misled, Feedback
    <3>4. QED
      BY <1>1, <1>11, <3>1, <3>2, <3>3 DEF Stands
  <2>4. CASE mode \in {"OFB", "CTR"}
    <3>1. obj["receiver"].iv = KeyStream(mode, key, iv0)[n]
      BY <1>2, <1>4, <1>5, <1>11, <2>1, <2>4 DEF Chains, NextStream
    <3>2. SenderIv(n)' = KeyStream(mode, key, iv0)[n]
      BY <1>1, <1>5, <2>4 DEF SenderIv, Feedback
    <3>3. QED
      BY <1>1, <1>11, <3>1, <3>2 DEF Stands
  <2>5. QED
    BY <2>2, <2>3, <2>4 DEF CallsInv, CallsTypeOK, Mode, Feedback
<1>14. Stands("sender")'
  <2>1. Stands("sender")
    BY <1>1 DEF CallsInv, Turns, Calling, Side
  <2>2. QED
    BY <1>1, <1>10, <1>11, <2>1 DEF Stands, Misled, Feedback
<1>15. Turns'
  <2>1. \A x : ~ Calling(x)'
    BY <1>1 DEF CallsInv, CallsTypeOK, Calling
  <2>2. ASSUME NEW x \in Side, NEW m \in boxInPlace'[x] PROVE m <= Count(x)'
    <3>1. m \in Int /\ (m <= Count(x) \/ (Calling(x) /\ m = Count(x) + 1))
      BY <1>1 DEF CallsInv, CallsTypeOK, Turns
    <3>2. CASE x = "sender"
      BY <1>1, <1>11, <3>1, <3>2 DEF Calling
    <3>3. CASE x = "receiver"
      BY <1>5, <1>11, <3>1, <3>3
    <3>4. QED
      BY <3>2, <3>3 DEF Side
  <2>3. QED
    BY <1>13, <1>14, <2>1, <2>2 DEF Turns, Side
<1>16. Made'
  BY <1>1, <1>10 DEF CallsInv, Made
<1>17. received'[n] = sent[n].text \/ Lost(n)
  <2> SUFFICES ASSUME ~ Lost(n) PROVE OutputBlock = sent[n].text
    BY <1>6
  <2>1. Spared
    <3>1. ~ Behind
      BY <1>1, <1>11 DEF Lost, Behind, Misled, Feedback
    <3>2. ~ (WrittenOver /\ mode \in {"CFB", "OFB", "CTR"})
      BY <1>12 DEF Lost
    <3>3. QED
      BY <3>1, <3>2 DEF Spared
  <2>2. sent[n].cipher = EncryptBlock(mode, key, SenderIv(n - 1), sent[n].text).output
    BY <1>4, <1>6 DEF CallsInv, Made, Lost
  <2>3. OutputBlock = DecryptBlock(mode, key, SenderIv(n - 1), sent[n].cipher).output
    BY <1>1, <1>2, <1>3, <1>4, <1>11, <2>1 DEF Expected, Encrypting, Due
  <2>4. SenderIv(n - 1) \in Block /\ mode \in Mode /\ key \in Key
    <3>1. n - 1 \in 0 .. Len(sent)
      BY <1>3, <1>4
    <3>2. QED
      BY <3>1, SenderIvFacts DEF CallsInv, CallsTypeOK
  <2>5. QED
    BY <1>7, <2>2, <2>3, <2>4, DecryptUndoesEncrypt
<1>18. OnlyLostBlocksDiffer'
  <2>1. ASSUME NEW i \in 1 .. n - 1
        PROVE  received'[i] = sent[i].text \/ Lost(i)
    BY <1>6 DEF CallsInv, OnlyLostBlocksDiffer
  <2>2. \A i \in 1 .. n : i = n \/ i \in 1 .. n - 1
    BY <1>4
  <2>3. QED
    BY <1>1, <1>6, <1>17, <2>1, <2>2 DEF OnlyLostBlocksDiffer, Lost
<1>19. CallStands'
  BY <1>1 DEF CallsInv, CallsTypeOK, CallStands
<1>20. QED
  BY <1>8, <1>9, <1>15, <1>16, <1>18, <1>19 DEF CallsInv

-----------------------------------------------------------------------------
(* Both sides begin with the initialization vector they have agreed on.     *)
LEMMA CallsInvInit == CallsInit => CallsInv
<1> SUFFICES ASSUME CallsInit PROVE CallsInv
  OBVIOUS
<1>1. mode \in Mode /\ key \in Key /\ iv0 \in Block
  BY BlockCallsAssumption DEF CallsInit
<1>2. /\ obj = [side \in Side |-> obj[side]]
      /\ obj["sender"] \in {BoxObject(key, iv0), EncryptWrapper(key, iv0)}
      /\ obj["receiver"] \in {BoxObject(key, iv0), DecryptWrapper(mode, key, iv0)}
  BY DEF CallsInit, Side
<1>3. \A k \in {"expanded", "derived", "absent"} : [key |-> key, kind |-> k] \in RoundKeys
  BY <1>1 DEF RoundKeys
<1>4. \A side \in Side : /\ obj[side] \in [interface : {"box", "wrapper"}, iv : Block,
                                encryption_keys : RoundKeys, decryption_keys : RoundKeys]
                       /\ obj[side].iv = iv0
  BY <1>1, <1>2, <1>3 DEF Side, BoxObject, EncryptWrapper, DecryptWrapper
<1>5. obj \in [Side -> [interface : {"box", "wrapper"}, iv : Block,
                       encryption_keys : RoundKeys, decryption_keys : RoundKeys]]
  BY <1>2, <1>4
<1>6. /\ call = [side |-> "sender", step |-> "idle", inPlace |-> FALSE, given |-> iv0]
      /\ sent = <<>> /\ received = <<>> /\ local = iv0
      /\ cells = [c \in {"input", "output"} |-> iv0]
      /\ boxInPlace = [side \in Side |-> {}]
  BY DEF CallsInit, NoCall
<1>7. CallsTypeOK
  <2>1. /\ sent \in Seq([text : Block, cipher : Block]) /\ Len(sent) <= MaxBlocks
        /\ received \in Seq(Block) /\ Len(received) <= Len(sent)
    BY <1>6, BlockCallsAssumption
  <2>2. /\ cells \in [{"input", "output"} -> Block] /\ local \in Block
        /\ boxInPlace \in [Side -> SUBSET (1 .. MaxBlocks)]
    BY <1>1, <1>6
  <2>3. call \in [side : Side, inPlace : BOOLEAN, given : Block,
                  step : {"idle", "first", "second", "third", "compute", "assign", "returned"}]
    BY <1>1, <1>6 DEF Side
  <2>4. QED
    BY <1>1, <1>5, <2>1, <2>2, <2>3 DEF CallsTypeOK
<1>8. Objects
  BY <1>2, <1>4 DEF Objects, Side
<1>9. Turns
  <2>1. \A side \in Side : Count(side) = 0 /\ ~ Calling(side)
    BY <1>6 DEF Count, Calling
  <2>2. \A side \in Side : Stands(side)
    BY <1>4, <2>1 DEF Stands, SenderIv
  <2>3. QED
    BY <1>6, <2>1, <2>2 DEF Turns, Calling
<1>10. CallStands
  BY <1>6 DEF CallStands
<1>11. DOMAIN sent = {} /\ DOMAIN received = {}
  BY <1>6
<1>12. QED
  BY <1>7, <1>8, <1>9, <1>10, <1>11 DEF CallsInv, Made, OnlyLostBlocksDiffer

LEMMA CallsInvNext == CallsInv /\ [CallsNext]_callsVars => CallsInv'
<1> SUFFICES ASSUME CallsInv, [CallsNext]_callsVars PROVE CallsInv'
  OBVIOUS
<1>1. CASE \E text \in Texts, inPlace \in BOOLEAN : Encrypt(text, inPlace)
  BY <1>1, EncryptKeeps
<1>2. CASE \E inPlace \in BOOLEAN : Decrypt(inPlace)
  BY <1>2, DecryptKeeps
<1>3. CASE BoxStep
  BY <1>3, CipherInputKeeps, XorInputWithIvKeeps, EncryptXoredInputKeeps, XorOutputWithIvKeeps,
     EncryptIvToOutputKeeps, EncryptIvKeeps, XorOutputWithInputKeeps, ChainKeeps DEF BoxStep
<1>4. CASE CallMacro
  BY <1>4, CallMacroKeeps
<1>5. CASE AssignValue
  BY <1>5, AssignValueKeeps
<1>6. CASE Collect
  BY <1>6, CollectFromSender, CollectFromReceiver
<1>7. CASE UNCHANGED callsVars
  <2>1. /\ mode' = mode /\ key' = key /\ iv0' = iv0 /\ obj' = obj /\ cells' = cells /\ call' = call
        /\ local' = local /\ sent' = sent /\ received' = received /\ boxInPlace' = boxInPlace
    BY <1>7 DEF callsVars
  <2>2. CallsTypeOK' /\ Objects' /\ Made' /\ OnlyLostBlocksDiffer'
    BY <2>1 DEF CallsInv, CallsTypeOK, Objects, Made, SenderIv, Feedback, OnlyLostBlocksDiffer, Lost
  <2>3. Turns'
    BY <2>1 DEF CallsInv, Turns, Calling, Count, WrittenOver, Me, Stands, Misled, SenderIv, Feedback
  <2>4. CallStands'
    BY <2>1 DEF CallsInv, CallStands, AtFirst, AtSecond, AtThird, Chains, Spared, Behind, Expected,
                Due, NextStream, Count, WrittenOver, Me, Stands, Misled, SenderIv, Feedback,
                Encrypting, InputBlock, OutputBlock, OutputCell
  <2>5. QED
    BY <2>2, <2>3, <2>4 DEF CallsInv
<1>8. QED
  BY <1>1, <1>2, <1>3, <1>4, <1>5, <1>6, <1>7 DEF CallsNext

THEOREM CallsAreInvariant == CallsSpec => []CallsInv
  BY CallsInvInit, CallsInvNext, PTL DEF CallsSpec

(* Every variable of a session of block calls keeps its type.               *)
THEOREM CallTypes == CallsSpec => []CallsTypeOK
<1>1. CallsInv => CallsTypeOK
  BY DEF CallsInv
<1>2. QED
  BY <1>1, CallsAreInvariant, PTL

(* In OFB and CTR both sides have the same chaining value after as many     *)
(* blocks.                                                                  *)
THEOREM StreamsStay == CallsSpec => []StreamsStayInStep
<1>1. CallsInv => StreamsStayInStep
  <2> SUFFICES ASSUME CallsInv, mode \in {"OFB", "CTR"}, call.step = "idle",
                      Len(sent) = Len(received)
               PROVE  obj["sender"].iv = obj["receiver"].iv
    BY DEF StreamsStayInStep
  <2>1. /\ Stands("sender") /\ Stands("receiver")
    BY DEF CallsInv, Turns, Calling, Side
  <2>2. QED
    BY <2>1 DEF Stands, Count, Misled, Feedback
<1>2. QED
  BY <1>1, CallsAreInvariant, PTL

(* A message comes out as it went in but for the blocks lost to calls in     *)
(* place.                                                                   *)
THEOREM LossIsConfined == CallsSpec => []OnlyLostBlocksDiffer
<1>1. CallsInv => OnlyLostBlocksDiffer
  BY DEF CallsInv
<1>2. QED
  BY <1>1, CallsAreInvariant, PTL

(* The chaining value of a block's place is the one its mode's equation     *)
(* finds in the block before.                                               *)
LEMMA SenderIvIsChained ==
  ASSUME CallsInv, NEW n \in 1 .. Len(sent),
         ~ (mode \in {"OFB", "CTR"} /\ n - 1 \in boxInPlace["sender"])
  PROVE  SenderIv(n - 1) = Chained(mode, key, iv0, Text, Cipher, n - 1)
<1>1. /\ mode \in Mode /\ key \in Key /\ iv0 \in Block
      /\ sent \in Seq([text : Block, cipher : Block]) /\ Len(sent) \in Nat /\ Len(sent) <= MaxBlocks
      /\ MaxBlocks \in Nat /\ DOMAIN sent = 1 .. Len(sent)
  BY BlockCallsAssumption, LenProperties DEF CallsInv, CallsTypeOK
<1>2. CASE n = 1 \/ mode = "ECB"
  BY <1>1, <1>2 DEF SenderIv, Chained
<1>3. CASE n # 1 /\ mode \in {"CBC", "CFB"}
  BY <1>1, <1>3 DEF SenderIv, Chained, Feedback, Cipher
<1>4. CASE n # 1 /\ mode \in {"OFB", "CTR"}
  <2>1. PICK m \in 1 .. Len(sent) : m = n - 1 /\ m # 0
    BY <1>1, <1>4
  <2>2. m \notin boxInPlace["sender"]
    BY <1>4, <2>1
  <2> DEFINE c == SenderIv(m - 1)
  <2>3. sent[m].cipher = EncryptBlock(mode, key, c, sent[m].text).output
    BY <1>1, <2>2 DEF CallsInv, Made
  <2>4. /\ sent[m].text \in Block /\ sent[m].cipher \in Block
    <3>1. sent[m] \in [text : Block, cipher : Block]
      BY <1>1, ElementOfSeq
    <3>2. QED
      BY <3>1
  <2>5. /\ c \in Block /\ m \in 0 .. MaxBlocks /\ m - 1 \in 0 .. MaxBlocks /\ m \in 1 .. MaxBlocks
    <3>1. m - 1 \in 0 .. Len(sent) /\ m \in 0 .. MaxBlocks /\ m - 1 \in 0 .. MaxBlocks
          /\ m \in 1 .. MaxBlocks
      BY <1>1
    <3>2. QED
      BY <3>1, SenderIvFacts DEF CallsInv
  <2>6. SenderIv(m) = AfterStream(mode, key, c)
    <3>1. \A q \in 1 .. MaxBlocks :
            KeyStream(mode, key, iv0)[q] = AfterStream(mode, key, KeyStream(mode, key, iv0)[q - 1])
      BY <1>1, KeyStreamSteps
    <3>2. \A q \in 0 .. MaxBlocks : SenderIv(q) = KeyStream(mode, key, iv0)[q]
      BY <1>4, SenderIvFacts DEF CallsInv
    <3>3. SenderIv(m) = KeyStream(mode, key, iv0)[m] /\ c = KeyStream(mode, key, iv0)[m - 1]
      BY <2>5, <3>2
    <3>4. KeyStream(mode, key, iv0)[m] = AfterStream(mode, key, KeyStream(mode, key, iv0)[m - 1])
      BY <2>5, <3>1
    <3>5. QED
      BY <3>3, <3>4
  <2> HIDE DEF c
  <2>7. sent[m].cipher = XorBlocks(Enc(key, c), sent[m].text)
    BY <1>4, <2>3 DEF EncryptBlock, EncryptBlockOfb, EncryptBlockCtr
  <2>8. XorBlocks(sent[m].text, sent[m].cipher) = Enc(key, c)
    <3>1. Enc(key, c) \in Block
      BY <1>1, <2>5, CipherAssumption
    <3>2. sent[m].cipher = XorBlocks(sent[m].text, Enc(key, c))
      BY <2>4, <2>7, <3>1, XorBlocksCommute
    <3>3. XorBlocks(sent[m].cipher, sent[m].text) = Enc(key, c)
      BY <2>4, <2>7, <3>1, XorBlocksCancel
    <3>4. QED
      BY <2>4, <3>3, XorBlocksCommute
  <2>9. Text[m] = sent[m].text /\ Cipher[m] = sent[m].cipher
    BY <1>1 DEF Text, Cipher
  <2>10. Dec(key, Enc(key, c)) = c
    BY <1>1, <2>5, CipherAssumption
  <2>11. Chained(mode, key, iv0, Text, Cipher, m) = AfterStream(mode, key, c)
    BY <1>4, <2>1, <2>8, <2>9, <2>10 DEF Chained, AfterStream
  <2>12. QED
    BY <2>1, <2>6, <2>11
<1>5. QED
  BY <1>1, <1>2, <1>3, <1>4 DEF Mode

(* What a sender makes satisfies the equations of the mode, but for the     *)
(* blocks a box was given in place.                                         *)
THEOREM SentIsEncrypted == CallsSpec => []SentFollowsMode
<1>1. CallsInv => SentFollowsMode
  <2> SUFFICES ASSUME CallsInv, NEW n \in DOMAIN sent,
                      ~ (mode \in {"CFB", "OFB", "CTR"} /\ n \in boxInPlace["sender"]),
                      ~ (mode \in {"OFB", "CTR"} /\ n - 1 \in boxInPlace["sender"])
               PROVE  Encrypts(mode, key, iv0, Text, Cipher, n)
    BY DEF SentFollowsMode
  <2>1. /\ mode \in Mode /\ key \in Key /\ iv0 \in Block
        /\ sent \in Seq([text : Block, cipher : Block]) /\ Len(sent) \in Nat
        /\ DOMAIN sent = 1 .. Len(sent)
    BY LenProperties DEF CallsInv, CallsTypeOK
  <2>2. \A i \in 1 .. Len(sent) : sent[i].text \in Block /\ sent[i].cipher \in Block
    <3>1. \A i \in 1 .. Len(sent) : sent[i] \in [text : Block, cipher : Block]
      BY <2>1, ElementOfSeq
    <3>2. QED
      BY <3>1
  <2>3. Text \in [1 .. Len(sent) -> Block] /\ Cipher \in [1 .. Len(sent) -> Block]
    BY <2>1, <2>2 DEF Text, Cipher
  <2> DEFINE c == SenderIv(n - 1)
  <2>4. c \in Block
    <3>1. n - 1 \in 0 .. Len(sent)
      BY <2>1
    <3>2. QED
      BY <3>1, SenderIvFacts DEF CallsInv
  <2>5. Cipher[n] = EncryptBlock(mode, key, c, Text[n]).output
    BY DEF CallsInv, Made, Text, Cipher
  <2>6. c = Chained(mode, key, iv0, Text, Cipher, n - 1)
    BY <2>1, SenderIvIsChained
  <2> HIDE DEF c
  <2>7. QED
    BY <2>1, <2>3, <2>4, <2>5, <2>6, EncryptStep
<1>2. QED
  BY <1>1, CallsAreInvariant, PTL

-----------------------------------------------------------------------------
(***************************************************************************)
(* The utilities for files and bitmaps: FileUtility.                        *)
(***************************************************************************)

(* The blocks of a text.                                                    *)
LEMMA BlockAtType ==
  ASSUME NEW bytes \in Seq(Byte), NEW n \in Nat \ {0}
  PROVE  BlockAt(bytes, n) \in Block
<1>1. BlockSize \in Nat /\ 0 \in Byte
  BY BlockSizeAssumption DEF Byte
<1>2. ASSUME NEW i \in 1 .. BlockSize, (n - 1) * BlockSize + i <= Len(bytes)
      PROVE  bytes[(n - 1) * BlockSize + i] \in Byte
  <2>1. (n - 1) * BlockSize \in Nat
    BY <1>1
  <2>2. (n - 1) * BlockSize + i \in 1 .. Len(bytes)
    BY <1>1, <1>2, <2>1, LenProperties
  <2>3. QED
    BY <2>2, ElementOfSeq
<1>3. QED
  BY <1>1, <1>2 DEF BlockAt, Block

(* A block put behind whole blocks is the last of them.                     *)
LEMMA BlockAtEnd ==
  ASSUME NEW bytes \in Seq(Byte), NEW m \in Nat, Len(bytes) = m * BlockSize, NEW b \in Block
  PROVE  /\ bytes \o b \in Seq(Byte) /\ Len(bytes \o b) = (m + 1) * BlockSize
         /\ BlockAt(bytes \o b, m + 1) = b
         /\ \A n \in 1 .. m : BlockAt(bytes \o b, n) = BlockAt(bytes, n)
<1>1. BlockSize \in Nat \ {0} /\ m * BlockSize \in Nat /\ (m + 1) * BlockSize = m * BlockSize + BlockSize
  BY BlockSizeAssumption
<1>2. b \in Seq(Byte) /\ Len(b) = BlockSize
  BY BlockIsText
<1>3. /\ bytes \o b \in Seq(Byte) /\ Len(bytes \o b) = m * BlockSize + BlockSize
      /\ \A j \in 1 .. m * BlockSize + BlockSize :
           (bytes \o b)[j] = IF j <= m * BlockSize THEN bytes[j] ELSE b[j - m * BlockSize]
  <2>1. /\ bytes \o b \in Seq(Byte) /\ Len(bytes \o b) = Len(bytes) + Len(b)
        /\ \A j \in 1 .. Len(bytes) + Len(b) :
             (bytes \o b)[j] = IF j <= Len(bytes) THEN bytes[j] ELSE b[j - Len(bytes)]
    BY <1>2, ConcatProperties
  <2>2. QED
    BY <1>2, <2>1
<1> DEFINE all == bytes \o b
<1> HIDE DEF all
<1>4. BlockAt(all, m + 1) = b
  <2>1. ASSUME NEW i \in 1 .. BlockSize
        PROVE  BlockAt(all, m + 1)[i] = b[i]
    <3>1. ((m + 1) - 1) * BlockSize + i = m * BlockSize + i
      BY <1>1
    <3>2. /\ m * BlockSize + i \in 1 .. m * BlockSize + BlockSize /\ ~ (m * BlockSize + i <= m * BlockSize)
          /\ (m * BlockSize + i) - m * BlockSize = i /\ m * BlockSize + i <= m * BlockSize + BlockSize
      BY <1>1
    <3>3. all[m * BlockSize + i] = b[i] /\ m * BlockSize + i <= Len(all)
      BY <1>3, <3>2 DEF all
    <3>4. BlockAt(all, m + 1)[i]
            = IF ((m + 1) - 1) * BlockSize + i <= Len(all) THEN all[((m + 1) - 1) * BlockSize + i] ELSE 0
      BY DEF BlockAt
    <3>5. QED
      BY <3>1, <3>3, <3>4
  <2>2. BlockAt(all, m + 1) = [i \in 1 .. BlockSize |-> BlockAt(all, m + 1)[i]]
    BY DEF BlockAt
  <2>3. b = [i \in 1 .. BlockSize |-> b[i]]
    BY DEF Block
  <2>4. QED
    BY <2>1, <2>2, <2>3
<1>5. ASSUME NEW n \in 1 .. m
      PROVE  BlockAt(all, n) = BlockAt(bytes, n)
  <2>1. ASSUME NEW i \in 1 .. BlockSize
        PROVE  LET j == (n - 1) * BlockSize + i
               IN  j <= Len(all) /\ j <= Len(bytes) /\ all[j] = bytes[j]
    <3> DEFINE j == (n - 1) * BlockSize + i
    <3>1. j \in 1 .. m * BlockSize
      BY PlaceOf
    <3> HIDE DEF j
    <3>2. j \in 1 .. m * BlockSize + BlockSize /\ j <= m * BlockSize
      BY <1>1, <3>1
    <3>3. j <= Len(all) /\ j <= Len(bytes) /\ all[j] = bytes[j]
      BY <1>1, <1>3, <3>2 DEF all
    <3>4. QED
      BY <3>3 DEF j
  <2>2. QED
    BY <2>1 DEF BlockAt
<1>6. QED
  BY <1>1, <1>3, <1>4, <1>5 DEF all

-----------------------------------------------------------------------------
(* A box for a whole buffer.  Settings a box is set up with are readable.   *)
Ready(s) ==
  /\ s \in Settings /\ s.key \in Key
  /\ s.mode # "ECB" => s.iv # <<>> /\ s.iv[1] \in Block

(* In ECB the initialization vector is not looked at, nor need it be one.   *)
Chaining(s) == IF s.mode = "ECB" THEN {InitVector(s)} ELSE Block

LEMMA ReadyFacts ==
  ASSUME NEW s, Ready(s)
  PROVE  /\ s.mode \in Mode /\ s.op \in {"encrypt", "decrypt"} /\ s.key \in Key
         /\ InitVector(s) \in Chaining(s)
         /\ s.mode # "ECB" => InitVector(s) \in Block
  BY DEF Ready, Settings, Chaining, InitVector

LEMMA CryptBlockType ==
  ASSUME NEW s, Ready(s), NEW c \in Chaining(s), NEW b \in Block
  PROVE  /\ CryptBlock(s, c, b).output \in Block
         /\ CryptBlock(s, c, b).iv \in Chaining(s)
<1>1. s.mode \in Mode /\ s.key \in Key
  BY ReadyFacts
<1>2. CASE s.mode = "ECB"
  BY <1>1, <1>2, CipherAssumption
     DEF CryptBlock, EncryptBlock, EncryptBlockEcb, DecryptBlock, DecryptBlockEcb, Chaining
<1>3. CASE s.mode # "ECB"
  BY <1>1, <1>3, CryptType DEF CryptBlock, Chaining
<1>4. QED
  BY <1>2, <1>3

(* The blocks that come out of a box, and the values it chains.             *)
Passes(s, blocks, out, c) ==
  /\ out \in Seq(Byte) /\ Len(out) = Len(blocks) * BlockSize
  /\ c \in [0 .. Len(blocks) -> Chaining(s)] /\ c[0] = InitVector(s)
  /\ \A n \in 1 .. Len(blocks) :
       /\ BlockAt(out, n) = CryptBlock(s, c[n - 1], blocks[n]).output
       /\ c[n] = CryptBlock(s, c[n - 1], blocks[n]).iv

LEMMA ThroughBoxPasses ==
  ASSUME NEW s, Ready(s), NEW blocks \in Seq(Block)
  PROVE  \E c : Passes(s, blocks, ThroughBox(s, blocks), c)
<1> DEFINE N == Len(blocks)
           S == [output : Seq(Byte), iv : Chaining(s)]
           start == [output |-> <<>>, iv |-> InitVector(s)]
           next(box, input) == [output |-> box.output \o CryptBlock(s, box.iv, input).output,
                                iv |-> CryptBlock(s, box.iv, input).iv]
           F == [n \in 1 .. N |-> [x \in S |-> next(x, blocks[n])]]
           P(g) == g = [n \in 0 .. N |-> IF n = 0 THEN start ELSE next(g[n - 1], blocks[n])]
           g0 == CHOOSE g : P(g)
<1>1. N \in Nat /\ \A n \in 1 .. N : blocks[n] \in Block
  BY LenProperties, ElementOfSeq
<1>2. start \in S
  <2>1. InitVector(s) \in Chaining(s)
    BY ReadyFacts
  <2>2. <<>> \in Seq(Byte)
    BY EmptySeq
  <2>3. QED
    BY <2>1, <2>2
<1>3. ASSUME NEW x \in S, NEW b \in Block PROVE next(x, b) \in S
  <2>1. /\ CryptBlock(s, x.iv, b).output \in Block /\ CryptBlock(s, x.iv, b).iv \in Chaining(s)
        /\ x.output \in Seq(Byte)
    BY CryptBlockType
  <2>2. CryptBlock(s, x.iv, b).output \in Seq(Byte)
    BY <2>1, BlockIsText
  <2>3. x.output \o CryptBlock(s, x.iv, b).output \in Seq(Byte)
    BY <2>1, <2>2, ConcatProperties
  <2>4. QED
    BY <2>1, <2>3
<1>4. ThroughBox(s, blocks) = g0[N].output
  BY DEF ThroughBox
<1>5. /\ \A x : next(x, blocks[0]).iv = CryptBlock(s, x.iv, blocks[0]).iv
      /\ \A x, n : /\ next(x, blocks[n]).iv = CryptBlock(s, x.iv, blocks[n]).iv
                   /\ next(x, blocks[n]).output = x.output \o CryptBlock(s, x.iv, blocks[n]).output
      /\ start.output = <<>> /\ start.iv = InitVector(s)
  OBVIOUS
<1> HIDE DEF next, start, N, S
<1>6. F \in [1 .. N -> [S -> S]] /\ \A n \in 1 .. N, x \in S : F[n][x] = next(x, blocks[n])
  BY <1>1, <1>3
<1> HIDE DEF F, P, g0
<1>7. PICK f \in [0 .. N -> S] : f[0] = start /\ \A n \in 1 .. N : f[n] = F[n][f[n - 1]]
  <2>1. Iterates(S, start, F, N) # {}
    BY <1>1, <1>2, <1>6, Iteration
  <2>2. QED
    BY <2>1 DEF Iterates
<1>8. P(f)
  <2>1. \A n \in 0 .. N : n # 0 => n \in 1 .. N
    BY <1>1
  <2>2. \A n \in 1 .. N : f[n] = next(f[n - 1], blocks[n])
    <3>1. \A n \in 1 .. N : n - 1 \in 0 .. N /\ f[n - 1] \in S
      BY <1>1
    <3>2. QED
      BY <1>6, <1>7, <3>1
  <2>3. f = [n \in 0 .. N |-> f[n]]
    OBVIOUS
  <2>4. \A n \in 0 .. N : f[n] = IF n = 0 THEN start ELSE next(f[n - 1], blocks[n])
    BY <1>7, <2>1, <2>2
  <2>5. QED
    BY <2>3, <2>4 DEF P
<1>9. P(g0)
  BY <1>8 DEF g0
<1>10. /\ g0[0] = start
       /\ \A n \in 1 .. N : g0[n] = next(g0[n - 1], blocks[n])
       /\ \A n \in 1 .. N : n \in 0 .. N /\ n # 0 /\ n - 1 \in 0 .. N
       /\ 0 \in 0 .. N
  <2>1. /\ \A n \in 1 .. N : n \in 0 .. N /\ n # 0 /\ n - 1 \in 0 .. N
        /\ 0 \in 0 .. N
    BY <1>1
  <2>2. \A n \in 0 .. N : g0[n] = IF n = 0 THEN start ELSE next(g0[n - 1], blocks[n])
    BY <1>9 DEF P
  <2>3. QED
    BY <2>1, <2>2
<1> DEFINE Good(q) == /\ g0[q] \in S /\ Len(g0[q].output) = q * BlockSize
                      /\ \A n \in 1 .. q : BlockAt(g0[q].output, n)
                                             = CryptBlock(s, g0[n - 1].iv, blocks[n]).output
           T == {q \in 0 .. N : Good(q)}
<1>11. 0 \in T
  <2>1. g0[0].output = <<>> /\ Len(<<>>) = 0 /\ 0 * BlockSize = 0
    BY <1>5, <1>10, BlockSizeAssumption
  <2>2. QED
    BY <1>1, <1>2, <1>10, <2>1
<1>12. ASSUME NEW q \in 0 .. N - 1, q \in T PROVE q + 1 \in T
  <2>1. /\ g0[q] \in S /\ Len(g0[q].output) = q * BlockSize
        /\ \A n \in 1 .. q : BlockAt(g0[q].output, n) = CryptBlock(s, g0[n - 1].iv, blocks[n]).output
    BY <1>12
  <2>2. q + 1 \in 1 .. N /\ q + 1 \in 0 .. N /\ (q + 1) - 1 = q /\ q \in Nat
    BY <1>1
  <2> DEFINE b == CryptBlock(s, g0[q].iv, blocks[q + 1]).output
  <2>3. b \in Block /\ g0[q].output \in Seq(Byte)
    BY <1>1, <2>1, <2>2, CryptBlockType DEF S
  <2>4. g0[q + 1] = next(g0[q], blocks[q + 1])
    BY <1>10, <2>2
  <2>5. g0[q + 1] \in S
    BY <1>1, <1>3, <2>1, <2>2, <2>4
  <2>6. g0[q + 1].output = g0[q].output \o b
    BY <1>5, <2>4
  <2> HIDE DEF b
  <2>7. /\ Len(g0[q + 1].output) = (q + 1) * BlockSize
        /\ BlockAt(g0[q + 1].output, q + 1) = b
        /\ \A n \in 1 .. q : BlockAt(g0[q + 1].output, n) = BlockAt(g0[q].output, n)
    <3> DEFINE a == g0[q].output
    <3>1. a \in Seq(Byte) /\ Len(a) = q * BlockSize
      BY <2>1, <2>3
    <3> HIDE DEF a
    <3>2. /\ Len(a \o b) = (q + 1) * BlockSize
          /\ BlockAt(a \o b, q + 1) = b
          /\ \A n \in 1 .. q : BlockAt(a \o b, n) = BlockAt(a, n)
      BY <2>2, <2>3, <3>1, BlockAtEnd
    <3>3. QED
      BY <2>6, <3>2 DEF a
  <2>8. ASSUME NEW n \in 1 .. q + 1
        PROVE  BlockAt(g0[q + 1].output, n) = CryptBlock(s, g0[n - 1].iv, blocks[n]).output
    <3>1. CASE n = q + 1
      BY <2>2, <2>7, <3>1 DEF b
    <3>2. CASE n \in 1 .. q
      BY <2>1, <2>7, <3>2
    <3>3. QED
      BY <2>2, <3>1, <3>2
  <2>9. QED
    BY <2>2, <2>5, <2>7, <2>8
<1>13. \A q \in 0 .. N : Good(q)
  <2> SUFFICES ASSUME NEW q \in 0 .. N PROVE Good(q)
    OBVIOUS
  <2>1. \A n \in 0 .. q - 1 : n \in 0 .. N - 1
    BY <1>1
  <2> HIDE DEF T
  <2>2. q \in T
    BY <1>11, <1>12, <2>1, SetInduction
  <2>3. QED
    BY <2>2 DEF T
<1> DEFINE c == [n \in 0 .. N |-> g0[n].iv]
<1>14. c \in [0 .. N -> Chaining(s)] /\ c[0] = InitVector(s)
  BY <1>5, <1>10, <1>13 DEF S
<1>15. \A n \in 1 .. N : /\ BlockAt(g0[N].output, n) = CryptBlock(s, c[n - 1], blocks[n]).output
                         /\ c[n] = CryptBlock(s, c[n - 1], blocks[n]).iv
  <2> SUFFICES ASSUME NEW n \in 1 .. N
               PROVE  /\ BlockAt(g0[N].output, n) = CryptBlock(s, c[n - 1], blocks[n]).output
                      /\ c[n] = CryptBlock(s, c[n - 1], blocks[n]).iv
    OBVIOUS
  <2>1. c[n] = g0[n].iv /\ c[n - 1] = g0[n - 1].iv
    BY <1>10
  <2>2. g0[n].iv = CryptBlock(s, g0[n - 1].iv, blocks[n]).iv
    BY <1>5, <1>10
  <2>3. N \in 0 .. N
    BY <1>1
  <2>4. BlockAt(g0[N].output, n) = CryptBlock(s, g0[n - 1].iv, blocks[n]).output
    BY <1>13, <2>3
  <2>5. QED
    BY <2>1, <2>2, <2>4
<1>16. g0[N].output \in Seq(Byte) /\ Len(g0[N].output) = N * BlockSize
  BY <1>1, <1>13 DEF S
<1> HIDE DEF c
<1>17. Passes(s, blocks, g0[N].output, c)
  BY <1>14, <1>15, <1>16 DEF Passes, N
<1>18. QED
  BY <1>4, <1>17

-----------------------------------------------------------------------------
(* Texts, their cuts and their blocks.                                      *)
LEMMA FullAndRest ==
  ASSUME NEW a \in Seq(Byte)
  PROVE  /\ Full(a) \in Nat /\ Rest(a) \in 0 .. BlockSize - 1
         /\ Len(a) = Full(a) * BlockSize + Rest(a)
         /\ Full(a) * BlockSize \in Nat /\ Full(a) * BlockSize <= Len(a)
<1>1. BlockSize \in Nat \ {0} /\ Len(a) \in Nat
  BY BlockSizeAssumption, LenProperties
<1>2. /\ Full(a) \in Nat /\ Rest(a) \in 0 .. BlockSize - 1
      /\ Len(a) = Full(a) * BlockSize + Rest(a)
  BY <1>1 DEF Full, Rest
<1>3. Full(a) * BlockSize \in Nat
  BY <1>1, <1>2
<1>4. QED
  BY <1>1, <1>2, <1>3

LEMMA FullOf ==
  ASSUME NEW a \in Seq(Byte), NEW q \in Nat, NEW r \in 0 .. BlockSize - 1,
         Len(a) = q * BlockSize + r
  PROVE  Full(a) = q /\ Rest(a) = r
<1>1. BlockSize \in Nat \ {0}
  BY BlockSizeAssumption
<1>2. QED
  BY <1>1, Division DEF Full, Rest

(* A byte of a text is a byte of its block.                                 *)
LEMMA ByteOfBlock ==
  ASSUME NEW a \in Seq(Byte), NEW n \in Nat \ {0}, NEW i \in 1 .. BlockSize,
         (n - 1) * BlockSize + i <= Len(a)
  PROVE  BlockAt(a, n)[i] = a[(n - 1) * BlockSize + i]
  BY DEF BlockAt

(* Texts that begin with the same bytes begin with the same blocks ...      *)
LEMMA SameBytesSameBlocks ==
  ASSUME NEW a \in Seq(Byte), NEW b \in Seq(Byte), NEW n \in Nat,
         n * BlockSize <= Len(a), n * BlockSize <= Len(b),
         \A j \in 1 .. n * BlockSize : a[j] = b[j]
  PROVE  \A m \in 1 .. n : BlockAt(a, m) = BlockAt(b, m)
<1> SUFFICES ASSUME NEW m \in 1 .. n PROVE BlockAt(a, m) = BlockAt(b, m)
  OBVIOUS
<1>1. BlockSize \in Nat /\ n * BlockSize \in Nat /\ Len(a) \in Nat /\ Len(b) \in Nat
  BY BlockSizeAssumption, LenProperties
<1>2. ASSUME NEW i \in 1 .. BlockSize
      PROVE  LET j == (m - 1) * BlockSize + i
             IN  j <= Len(a) /\ j <= Len(b) /\ a[j] = b[j]
  <2>1. (m - 1) * BlockSize + i \in 1 .. n * BlockSize
    BY PlaceOf
  <2>2. QED
    BY <1>1, <2>1
<1>3. QED
  BY <1>2 DEF BlockAt

(* ... and the other way round.                                             *)
LEMMA SameBlocksSameBytes ==
  ASSUME NEW a \in Seq(Byte), NEW b \in Seq(Byte), NEW n \in Nat,
         n * BlockSize <= Len(a), n * BlockSize <= Len(b),
         \A m \in 1 .. n : BlockAt(a, m) = BlockAt(b, m)
  PROVE  \A j \in 1 .. n * BlockSize : a[j] = b[j]
<1> SUFFICES ASSUME NEW j \in 1 .. n * BlockSize PROVE a[j] = b[j]
  OBVIOUS
<1>1. BlockSize \in Nat /\ n * BlockSize \in Nat /\ Len(a) \in Nat /\ Len(b) \in Nat
  BY BlockSizeAssumption, LenProperties
<1>2. PICK m \in 1 .. n, i \in 1 .. BlockSize : j = (m - 1) * BlockSize + i
  BY PlaceIn
<1>3. j <= Len(a) /\ j <= Len(b) /\ m \in Nat \ {0}
  BY <1>1
<1>4. BlockAt(a, m)[i] = a[j] /\ BlockAt(b, m)[i] = b[j]
  BY <1>2, <1>3, ByteOfBlock
<1>5. QED
  BY <1>4

-----------------------------------------------------------------------------
(* What goes through a box follows the mode, block by block.                *)
BlocksOf(bytes, N) == [n \in 1 .. N |-> BlockAt(bytes, n)]

LEMMA BoxEncrypts ==
  ASSUME NEW s, Ready(s), s.op = "encrypt", NEW blocks \in Seq(Block), NEW out, NEW c,
         Passes(s, blocks, out, c)
  PROVE  \A n \in 1 .. Len(blocks) :
           Encrypts(s.mode, s.key, InitVector(s), blocks, BlocksOf(out, Len(blocks)), n)
<1> DEFINE N == Len(blocks)
           iv == InitVector(s)
           O == BlocksOf(out, N)
<1>1. /\ s.mode \in Mode /\ s.key \in Key /\ N \in Nat /\ blocks \in [1 .. N -> Block]
      /\ (s.mode # "ECB" => iv \in Block) /\ out \in Seq(Byte)
      /\ c[0] = iv /\ c \in [0 .. N -> Chaining(s)]
  BY ReadyFacts, LenProperties DEF Passes
<1>2. O \in [1 .. N -> Block] /\ \A n \in 1 .. N : O[n] = BlockAt(out, n)
  BY <1>1, BlockAtType DEF BlocksOf
<1>3. \A n \in 1 .. N :
        /\ O[n] = EncryptBlock(s.mode, s.key, c[n - 1], blocks[n]).output
        /\ c[n] = EncryptBlock(s.mode, s.key, c[n - 1], blocks[n]).iv
  BY <1>2 DEF Passes, CryptBlock
<1> HIDE DEF O, N, iv
<1>4. CASE s.mode = "ECB"
  <2>1. ASSUME NEW n \in 1 .. N
        PROVE  Encrypts(s.mode, s.key, iv, blocks, O, n)
    <3>1. O[n] = Enc(s.key, blocks[n]) /\ blocks[n] \in Block
      BY <1>1, <1>3, <1>4 DEF EncryptBlock, EncryptBlockEcb
    <3>2. QED
      BY <1>1, <1>4, <3>1, CipherAssumption DEF Encrypts
  <2>2. QED
    BY <2>1 DEF O, N, iv
<1>5. CASE s.mode # "ECB"
  <2> DEFINE v(n) == Chained(s.mode, s.key, iv, blocks, O, n)
             T == {n \in 0 .. N : c[n] = v(n)}
  <2>1. iv \in Block /\ c \in [0 .. N -> Block]
    BY <1>1, <1>5 DEF Chaining
  <2>2. ASSUME NEW n \in 1 .. N, c[n - 1] = v(n - 1)
        PROVE  c[n] = v(n) /\ Encrypts(s.mode, s.key, iv, blocks, O, n)
    <3>1. n - 1 \in 0 .. N
      BY <1>1
    <3>2. c[n - 1] \in Block
      BY <2>1, <3>1
    <3>3. O[n] = EncryptBlock(s.mode, s.key, c[n - 1], blocks[n]).output
      BY <1>3
    <3>4. /\ Encrypts(s.mode, s.key, iv, blocks, O, n)
          /\ EncryptBlock(s.mode, s.key, c[n - 1], blocks[n]).iv = v(n)
      <4> DEFINE m == s.mode
                 k == s.key
                 x == c[n - 1]
      <4>1. /\ m \in Mode /\ k \in Key /\ x \in Block /\ O[n] = EncryptBlock(m, k, x, blocks[n]).output
            /\ x = Chained(m, k, iv, blocks, O, n - 1)
        BY <1>1, <2>2, <3>2, <3>3
      <4> HIDE DEF m, k, x
      <4>2. /\ Encrypts(m, k, iv, blocks, O, n)
            /\ EncryptBlock(m, k, x, blocks[n]).iv = Chained(m, k, iv, blocks, O, n)
        <5>1. N \in Nat /\ O \in [1 .. N -> Block] /\ blocks \in [1 .. N -> Block] /\ iv \in Block
          BY <1>1, <1>2, <2>1
        <5>2. QED
          BY <4>1, <5>1, EncryptStep
      <4>3. QED
        BY <4>2 DEF m, k, x
    <3>5. QED
      BY <1>3, <3>4
  <2>3. ASSUME NEW q \in 0 .. N PROVE c[q] = v(q)
    <3>1. 0 \in T
      BY <1>1 DEF Chained
    <3>2. ASSUME NEW n \in 0 .. q - 1, n \in T PROVE n + 1 \in T
      <4>1. n + 1 \in 1 .. N /\ (n + 1) - 1 = n /\ c[n] = v(n) /\ n + 1 \in 0 .. N
        BY <1>1, <3>2
      <4> HIDE DEF v
      <4>2. c[n + 1] = v(n + 1)
        BY <2>2, <4>1
      <4>3. QED
        BY <4>1, <4>2
    <3> HIDE DEF T
    <3>3. q \in T
      BY <3>1, <3>2, SetInduction
    <3>4. QED
      BY <3>3 DEF T
  <2>4. ASSUME NEW n \in 1 .. N
        PROVE  Encrypts(s.mode, s.key, iv, blocks, O, n)
    <3>1. n - 1 \in 0 .. N
      BY <1>1
    <3>2. c[n - 1] = v(n - 1)
      BY <2>3, <3>1
    <3>3. QED
      BY <2>2, <3>2
  <2>5. QED
    BY <2>4 DEF O, N, iv
<1>6. QED
  BY <1>4, <1>5

LEMMA BoxDecrypts ==
  ASSUME NEW s, Ready(s), s.op = "decrypt", NEW blocks \in Seq(Block), NEW out, NEW c,
         Passes(s, blocks, out, c)
  PROVE  \A n \in 1 .. Len(blocks) :
           Encrypts(s.mode, s.key, InitVector(s), BlocksOf(out, Len(blocks)), blocks, n)
<1> DEFINE N == Len(blocks)
           iv == InitVector(s)
           O == BlocksOf(out, N)
<1>1. /\ s.mode \in Mode /\ s.key \in Key /\ N \in Nat /\ blocks \in [1 .. N -> Block]
      /\ (s.mode # "ECB" => iv \in Block) /\ out \in Seq(Byte)
      /\ c[0] = iv /\ c \in [0 .. N -> Chaining(s)]
  BY ReadyFacts, LenProperties DEF Passes
<1>2. O \in [1 .. N -> Block] /\ \A n \in 1 .. N : O[n] = BlockAt(out, n)
  BY <1>1, BlockAtType DEF BlocksOf
<1>3. \A n \in 1 .. N :
        /\ O[n] = DecryptBlock(s.mode, s.key, c[n - 1], blocks[n]).output
        /\ c[n] = DecryptBlock(s.mode, s.key, c[n - 1], blocks[n]).iv
  BY <1>2 DEF Passes, CryptBlock
<1> HIDE DEF O, N, iv
<1>4. CASE s.mode = "ECB"
  <2>1. ASSUME NEW n \in 1 .. N
        PROVE  Encrypts(s.mode, s.key, iv, O, blocks, n)
    <3>1. O[n] = Dec(s.key, blocks[n]) /\ blocks[n] \in Block
      BY <1>1, <1>3, <1>4 DEF DecryptBlock, DecryptBlockEcb
    <3>2. QED
      BY <1>1, <1>4, <3>1, CipherAssumption DEF Encrypts
  <2>2. QED
    BY <2>1 DEF O, N, iv
<1>5. CASE s.mode # "ECB"
  <2> DEFINE v(n) == Chained(s.mode, s.key, iv, O, blocks, n)
             T == {n \in 0 .. N : c[n] = v(n)}
  <2>1. iv \in Block /\ c \in [0 .. N -> Block]
    BY <1>1, <1>5 DEF Chaining
  <2>2. ASSUME NEW n \in 1 .. N, c[n - 1] = v(n - 1)
        PROVE  c[n] = v(n) /\ Encrypts(s.mode, s.key, iv, O, blocks, n)
    <3>1. n - 1 \in 0 .. N
      BY <1>1
    <3>2. c[n - 1] \in Block
      BY <2>1, <3>1
    <3>3. O[n] = DecryptBlock(s.mode, s.key, c[n - 1], blocks[n]).output
      BY <1>3
    <3>4. /\ Encrypts(s.mode, s.key, iv, O, blocks, n)
          /\ DecryptBlock(s.mode, s.key, c[n - 1], blocks[n]).iv = v(n)
      <4> DEFINE m == s.mode
                 k == s.key
                 x == c[n - 1]
      <4>1. /\ m \in Mode /\ k \in Key /\ x \in Block /\ O[n] = DecryptBlock(m, k, x, blocks[n]).output
            /\ x = Chained(m, k, iv, O, blocks, n - 1)
        BY <1>1, <2>2, <3>2, <3>3
      <4> HIDE DEF m, k, x
      <4>2. /\ Encrypts(m, k, iv, O, blocks, n)
            /\ DecryptBlock(m, k, x, blocks[n]).iv = Chained(m, k, iv, O, blocks, n)
        <5>1. N \in Nat /\ O \in [1 .. N -> Block] /\ blocks \in [1 .. N -> Block] /\ iv \in Block
          BY <1>1, <1>2, <2>1
        <5>2. QED
          BY <4>1, <5>1, DecryptStep, SMTT(40)
      <4>3. QED
        BY <4>2 DEF m, k, x
    <3>5. QED
      BY <1>3, <3>4
  <2>3. ASSUME NEW q \in 0 .. N PROVE c[q] = v(q)
    <3>1. 0 \in T
      BY <1>1 DEF Chained
    <3>2. ASSUME NEW n \in 0 .. q - 1, n \in T PROVE n + 1 \in T
      <4>1. n + 1 \in 1 .. N /\ (n + 1) - 1 = n /\ c[n] = v(n) /\ n + 1 \in 0 .. N
        BY <1>1, <3>2
      <4> HIDE DEF v
      <4>2. c[n + 1] = v(n + 1)
        BY <2>2, <4>1
      <4>3. QED
        BY <4>1, <4>2
    <3> HIDE DEF T
    <3>3. q \in T
      BY <3>1, <3>2, SetInduction
    <3>4. QED
      BY <3>3 DEF T
  <2>4. ASSUME NEW n \in 1 .. N
        PROVE  Encrypts(s.mode, s.key, iv, O, blocks, n)
    <3>1. n - 1 \in 0 .. N
      BY <1>1
    <3>2. c[n - 1] = v(n - 1)
      BY <2>3, <3>1
    <3>3. QED
      BY <2>2, <3>2
  <2>5. QED
    BY <2>4 DEF O, N, iv
<1>6. QED
  BY <1>4, <1>5

-----------------------------------------------------------------------------
(* What encrypt_buffer gives its box, and how much it keeps of the output.  *)
Given(s, bytes) ==
  LET full == BlocksOf(bytes, Full(bytes))
      last == BlockAt(bytes, Full(bytes) + 1)
  IN  IF s.mode \in PaddedMode THEN Append(full, FillWithPadding(last, Rest(bytes)))
      ELSE IF Rest(bytes) = 0 THEN full ELSE Append(full, last)

Kept(s, bytes) ==
  IF s.mode \in PaddedMode THEN (Full(bytes) + 1) * BlockSize ELSE Len(bytes)

LEMMA GivenFacts ==
  ASSUME NEW s, NEW bytes \in Seq(Byte)
  PROVE  LET B == Given(s, bytes)
         IN  /\ B \in Seq(Block) /\ Len(B) \in Nat /\ Full(bytes) <= Len(B)
             /\ \A n \in 1 .. Full(bytes) : B[n] = BlockAt(bytes, n)
             /\ s.mode \in PaddedMode =>
                  /\ Len(B) = Full(bytes) + 1
                  /\ B[Len(B)] = FillWithPadding(BlockAt(bytes, Full(bytes) + 1), Rest(bytes))
             /\ s.mode \notin PaddedMode => \A n \in 1 .. Len(B) : B[n] = BlockAt(bytes, n)
             /\ Kept(s, bytes) \in Full(bytes) * BlockSize .. Len(B) * BlockSize
             /\ s.mode \notin PaddedMode /\ Rest(bytes) = 0 => Kept(s, bytes) = Len(B) * BlockSize
<1> DEFINE N == Full(bytes)
           r == Rest(bytes)
           full == BlocksOf(bytes, N)
           last == BlockAt(bytes, N + 1)
           fill == FillWithPadding(last, r)
<1>1. /\ N \in Nat /\ r \in 0 .. BlockSize - 1 /\ BlockSize \in Nat \ {0}
      /\ Len(bytes) = N * BlockSize + r
      /\ N * BlockSize \in Nat /\ (N + 1) * BlockSize = N * BlockSize + BlockSize
  BY BlockSizeAssumption, FullAndRest
<1> HIDE DEF N, r
<1>2. last \in Block /\ fill \in Block
  <2>1. last \in Block
    BY <1>1, BlockAtType
  <2> HIDE DEF last
  <2>2. fill \in Block
    BY <1>1, <2>1, CutBlocksType
  <2>3. QED
    BY <2>1, <2>2 DEF last
<1>3. full \in Seq(Block) /\ Len(full) = N /\ \A n \in 1 .. N : full[n] = BlockAt(bytes, n)
  <2>1. full \in [1 .. N -> Block] /\ \A n \in 1 .. N : full[n] = BlockAt(bytes, n)
    BY <1>1, BlockAtType DEF BlocksOf
  <2> HIDE DEF full
  <2>2. full \in Seq(Block)
    BY <1>1, <2>1, SeqDef
  <2>3. Len(full) = N
    BY <1>1, <2>1, <2>2, LenProperties
  <2>4. QED
    BY <2>1, <2>2, <2>3
<1> HIDE DEF full
<1>4. ASSUME NEW b \in Block
      PROVE  /\ Append(full, b) \in Seq(Block) /\ Len(Append(full, b)) = N + 1
             /\ Append(full, b)[N + 1] = b
             /\ \A n \in 1 .. N : Append(full, b)[n] = BlockAt(bytes, n)
  <2>1. /\ Append(full, b) \in Seq(Block) /\ Len(Append(full, b)) = Len(full) + 1
        /\ \A n \in 1 .. Len(full) : Append(full, b)[n] = full[n]
        /\ Append(full, b)[Len(full) + 1] = b
    BY <1>3, AppendProperties
  <2>2. QED
    BY <1>3, <2>1
<1> DEFINE B == Given(s, bytes)
<1>5. CASE s.mode \in PaddedMode
  <2>1. B = Append(full, fill) /\ Kept(s, bytes) = (N + 1) * BlockSize
    BY <1>5 DEF Given, Kept, full, N, r
  <2> HIDE DEF last, B, fill
  <2>2. /\ B \in Seq(Block) /\ Len(B) = N + 1 /\ B[N + 1] = fill
        /\ \A n \in 1 .. N : B[n] = BlockAt(bytes, n)
    BY <1>2, <1>4, <2>1
  <2>3. Kept(s, bytes) \in N * BlockSize .. Len(B) * BlockSize /\ Len(B) \in Nat /\ N <= Len(B)
    BY <1>1, <2>1, <2>2
  <2>4. QED
    BY <1>5, <2>2, <2>3 DEF B, N, r, last, fill
<1>6. CASE s.mode \notin PaddedMode /\ r = 0
  <2>1. B = full /\ Kept(s, bytes) = N * BlockSize
    <3>1. Len(bytes) = N * BlockSize
      BY <1>1, <1>6
    <3>2. QED
      BY <1>6, <3>1 DEF Given, Kept, full, N, r
  <2> HIDE DEF B
  <2>2. Kept(s, bytes) \in N * BlockSize .. Len(B) * BlockSize /\ Len(B) \in Nat /\ N <= Len(B)
        /\ Kept(s, bytes) = Len(B) * BlockSize
    BY <1>1, <1>3, <2>1
  <2>3. QED
    BY <1>3, <1>6, <2>1, <2>2 DEF B, N
<1>7. CASE s.mode \notin PaddedMode /\ r # 0
  <2>1. B = Append(full, last) /\ Kept(s, bytes) = N * BlockSize + r
    BY <1>1, <1>7 DEF Given, Kept, full, N, r
  <2>2. /\ B \in Seq(Block) /\ Len(B) = N + 1 /\ B[N + 1] = BlockAt(bytes, N + 1)
        /\ \A n \in 1 .. N : B[n] = BlockAt(bytes, n)
    BY <1>2, <1>4, <2>1
  <2> HIDE DEF B
  <2>3. Kept(s, bytes) \in N * BlockSize .. Len(B) * BlockSize /\ Len(B) \in Nat /\ N <= Len(B)
    BY <1>1, <2>1, <2>2
  <2>4. \A n \in 1 .. Len(B) : B[n] = BlockAt(bytes, n)
    BY <1>1, <2>2
  <2>5. QED
    BY <1>7, <2>2, <2>3, <2>4 DEF B, N, r
<1>8. QED
  BY <1>5, <1>6, <1>7

LEMMA EncryptBufferFacts ==
  ASSUME NEW s, Ready(s), NEW bytes \in Seq(Byte)
  PROVE  LET out == ThroughBox(s, Given(s, bytes))
         IN  /\ out \in Seq(Byte) /\ Len(out) = Len(Given(s, bytes)) * BlockSize
             /\ EncryptBuffer(s, bytes) \in Seq(Byte)
             /\ Len(EncryptBuffer(s, bytes)) = Kept(s, bytes)
             /\ \A j \in 1 .. Kept(s, bytes) : EncryptBuffer(s, bytes)[j] = out[j]
<1> DEFINE B == Given(s, bytes)
           out == ThroughBox(s, B)
           k == Kept(s, bytes)
           e == EncryptBuffer(s, bytes)
<1>1. B \in Seq(Block) /\ Len(B) \in Nat /\ k \in Full(bytes) * BlockSize .. Len(B) * BlockSize
      /\ (s.mode \notin PaddedMode /\ Rest(bytes) = 0 => k = Len(B) * BlockSize)
      /\ (s.mode \in PaddedMode => Len(B) = Full(bytes) + 1)
  BY GivenFacts
<1>2. out \in Seq(Byte) /\ Len(out) = Len(B) * BlockSize
  BY <1>1, ThroughBoxPasses DEF Passes
<1>3. k \in 0 .. Len(out)
  <2>1. Full(bytes) * BlockSize \in Nat
    BY FullAndRest
  <2>2. QED
    BY <1>1, <1>2, <2>1
<1>4. CASE s.mode \in PaddedMode \/ Rest(bytes) = 0
  <2>1. e = out
    BY <1>4 DEF EncryptBuffer, Given, BlocksOf
  <2>2. k = Len(out)
    BY <1>1, <1>2, <1>4 DEF Kept
  <2>3. QED
    BY <1>2, <2>1, <2>2
<1>5. CASE s.mode \notin PaddedMode /\ Rest(bytes) # 0
  <2>1. e = SubSeq(out, 1, k)
    BY <1>5 DEF EncryptBuffer, Given, BlocksOf, Kept
  <2> HIDE DEF out, k
  <2>2. QED
    BY <1>2, <1>3, <2>1, CutTo DEF out, k
<1>6. QED
  BY <1>4, <1>5

(* The blocks of a text and of what it was encrypted into, block by block.  *)
Follows(s, plain, coded) ==
  \A n \in 1 .. Full(plain) :
    Encrypts(s.mode, s.key, InitVector(s), BlocksOf(plain, Full(plain)), BlocksOf(coded, Full(coded)), n)

LEMMA FollowsFrom ==
  ASSUME NEW s, Ready(s), NEW plain \in Seq(Byte), NEW coded \in Seq(Byte),
         Full(plain) <= Full(coded), NEW P, NEW C,
         \A n \in 1 .. Full(plain) :
           /\ Encrypts(s.mode, s.key, InitVector(s), P, C, n)
           /\ P[n] = BlockAt(plain, n) /\ C[n] = BlockAt(coded, n)
  PROVE  Follows(s, plain, coded)
<1> DEFINE P2 == BlocksOf(plain, Full(plain))
           C2 == BlocksOf(coded, Full(coded))
           m == Full(plain)
<1>1. m \in Nat /\ Full(coded) \in Nat /\ s.mode \in Mode
  BY FullAndRest, ReadyFacts
<1>2. \A n \in 1 .. m : P2[n] = P[n] /\ C2[n] = C[n]
  <2>1. \A n \in 1 .. m : n \in 1 .. Full(coded)
    BY <1>1
  <2>2. QED
    BY <2>1 DEF BlocksOf
<1> HIDE DEF P2, C2, m
<1>3. \A n \in 1 .. m : Encrypts(s.mode, s.key, InitVector(s), P2, C2, n)
                          <=> Encrypts(s.mode, s.key, InitVector(s), P, C, n)
  <2> DEFINE o == s.mode
             k == s.key
             iv == InitVector(s)
  <2>1. o \in Mode
    BY <1>1
  <2> HIDE DEF o, k, iv
  <2>2. \A n \in 1 .. m : Encrypts(o, k, iv, P2, C2, n) <=> Encrypts(o, k, iv, P, C, n)
    BY <1>1, <1>2, <2>1, EarlierBlocksDecide
  <2>3. QED
    BY <2>2 DEF o, k, iv
<1>4. QED
  BY <1>3 DEF Follows, P2, C2, m

LEMMA EncryptBufferFollows ==
  ASSUME NEW s, Ready(s), s.op = "encrypt", NEW bytes \in Seq(Byte)
  PROVE  Follows(s, bytes, EncryptBuffer(s, bytes))
<1> DEFINE B == Given(s, bytes)
           out == ThroughBox(s, B)
           e == EncryptBuffer(s, bytes)
           m == Full(bytes)
           N == Len(B)
<1>1. /\ m \in Nat /\ m * BlockSize \in Nat
      /\ B \in Seq(Block) /\ N \in Nat /\ m <= N
      /\ \A n \in 1 .. m : B[n] = BlockAt(bytes, n)
  BY FullAndRest, GivenFacts
<1>2. /\ out \in Seq(Byte) /\ Len(out) = N * BlockSize
      /\ e \in Seq(Byte) /\ Len(e) >= m * BlockSize
      /\ \A j \in 1 .. Len(e) : e[j] = out[j]
  <2>1. Kept(s, bytes) >= m * BlockSize
    BY <1>1, GivenFacts
  <2>2. QED
    BY <1>1, <2>1, EncryptBufferFacts
<1> HIDE DEF e, m
<1>3. PICK c : Passes(s, B, out, c)
  BY <1>1, ThroughBoxPasses
<1>4. \A n \in 1 .. N : Encrypts(s.mode, s.key, InitVector(s), B, BlocksOf(out, N), n)
  BY <1>1, <1>3, BoxEncrypts
<1> HIDE DEF B, out, N
<1>5. \A n \in 1 .. m : BlockAt(e, n) = BlockAt(out, n)
  <2>1. /\ m * BlockSize <= Len(e) /\ m * BlockSize <= Len(out)
        /\ \A j \in 1 .. m * BlockSize : e[j] = out[j]
    <3>1. m * BlockSize <= N * BlockSize /\ N * BlockSize \in Nat /\ Len(e) \in Nat
      BY <1>1, <1>2, Multiples, BlockSizeAssumption, LenProperties
    <3>2. \A j \in 1 .. m * BlockSize : j \in 1 .. Len(e)
      BY <1>1, <1>2, <3>1
    <3>3. QED
      BY <1>1, <1>2, <3>1, <3>2
  <2>2. QED
    BY <1>1, <1>2, <2>1, SameBytesSameBlocks
<1>6. m <= Full(e)
  <2> DEFINE f == Full(e)
             r == Rest(e)
  <2>1. /\ f \in Nat /\ r \in 0 .. BlockSize - 1 /\ BlockSize \in Nat \ {0}
        /\ Len(e) = f * BlockSize + r
    BY <1>2, FullAndRest, BlockSizeAssumption
  <2> HIDE DEF f, r
  <2> SUFFICES ASSUME f + 1 <= m PROVE FALSE
    BY <1>1, <2>1 DEF f
  <2>2. (f + 1) * BlockSize <= m * BlockSize
    BY <1>1, <2>1, Multiples
  <2>3. (f + 1) * BlockSize = f * BlockSize + BlockSize /\ f * BlockSize \in Nat
    BY <2>1
  <2> DEFINE x == f * BlockSize
             y == m * BlockSize
  <2>4. x + BlockSize <= y /\ x \in Nat /\ y \in Nat /\ y <= Len(e) /\ Len(e) = x + r
    BY <1>1, <1>2, <2>1, <2>2, <2>3
  <2> HIDE DEF x, y
  <2>5. QED
    BY <2>1, <2>4
<1>7. \A n \in 1 .. m : /\ Encrypts(s.mode, s.key, InitVector(s), B, BlocksOf(out, N), n)
                        /\ B[n] = BlockAt(bytes, n) /\ BlocksOf(out, N)[n] = BlockAt(e, n)
  <2>1. \A n \in 1 .. m : n \in 1 .. N
    BY <1>1
  <2>2. QED
    BY <1>1, <1>4, <1>5, <2>1 DEF BlocksOf
<1>8. QED
  BY <1>2, <1>6, <1>7, FollowsFrom DEF e, m

(* What decrypt_buffer's box is given, and what comes out.                  *)
Blocks(bytes) == (Len(bytes) + BlockSize - 1) \div BlockSize

Decrypted(s, bytes) == ThroughBox(s, BlocksOf(bytes, Blocks(bytes)))

LEMMA BlocksFacts ==
  ASSUME NEW bytes \in Seq(Byte)
  PROVE  /\ Blocks(bytes) = IF Rest(bytes) = 0 THEN Full(bytes) ELSE Full(bytes) + 1
         /\ Blocks(bytes) \in Nat /\ Len(bytes) <= Blocks(bytes) * BlockSize
         /\ BlocksOf(bytes, Blocks(bytes)) \in Seq(Block)
         /\ Len(BlocksOf(bytes, Blocks(bytes))) = Blocks(bytes)
<1> DEFINE q == Full(bytes)
           r == Rest(bytes)
           M == Blocks(bytes)
<1>1. /\ BlockSize \in Nat \ {0} /\ q \in Nat /\ r \in 0 .. BlockSize - 1
      /\ Len(bytes) = q * BlockSize + r
  BY BlockSizeAssumption, FullAndRest
<1> HIDE DEF q, r
<1>2. M = (Len(bytes) + BlockSize - 1) \div BlockSize
  BY DEF Blocks
<1>3. ASSUME r = 0 PROVE M = q
  <2> DEFINE t == BlockSize - 1
  <2>1. Len(bytes) + BlockSize - 1 = q * BlockSize + t /\ t \in 0 .. BlockSize - 1
    BY <1>1, <1>3
  <2> HIDE DEF t
  <2>2. (q * BlockSize + t) \div BlockSize = q
    BY <1>1, <2>1, Division
  <2>3. QED
    BY <1>2, <2>1, <2>2
<1>4. ASSUME r # 0 PROVE M = q + 1
  <2> DEFINE t == r - 1
             p == q + 1
  <2>1. Len(bytes) + BlockSize - 1 = p * BlockSize + t
    BY <1>1, <1>4
  <2>2. t \in 0 .. BlockSize - 1 /\ p \in Int
    BY <1>1, <1>4
  <2> HIDE DEF t, p
  <2>3. (p * BlockSize + t) \div BlockSize = p
    BY <1>1, <2>2, Division
  <2>4. M = p
    BY <1>2, <2>1, <2>3
  <2>5. QED
    BY <1>4, <2>4 DEF p
<1>5. M = (IF r = 0 THEN q ELSE q + 1) /\ M \in Nat /\ Len(bytes) <= M * BlockSize
  <2>1. M = IF r = 0 THEN q ELSE q + 1
    BY <1>3, <1>4
  <2> HIDE DEF M
  <2>2. M \in Nat /\ Len(bytes) <= M * BlockSize
    BY <1>1, <2>1
  <2>3. QED
    BY <2>1, <2>2
<1> HIDE DEF M
<1>6. BlocksOf(bytes, M) \in [1 .. M -> Block]
  BY <1>5, BlockAtType DEF BlocksOf
<1>7. BlocksOf(bytes, M) \in Seq(Block)
  BY <1>5, <1>6, SeqDef
<1>8. Len(BlocksOf(bytes, M)) = M
  BY <1>5, <1>6, <1>7, LenProperties
<1>9. QED
  BY <1>5, <1>7, <1>8 DEF M, q, r

LEMMA DecryptedFacts ==
  ASSUME NEW s, Ready(s), NEW bytes \in Seq(Byte)
  PROVE  /\ Decrypted(s, bytes) \in Seq(Byte)
         /\ Len(Decrypted(s, bytes)) = Blocks(bytes) * BlockSize
         /\ Len(bytes) \in 0 .. Len(Decrypted(s, bytes))
<1>1. /\ BlocksOf(bytes, Blocks(bytes)) \in Seq(Block)
      /\ Len(BlocksOf(bytes, Blocks(bytes))) = Blocks(bytes)
      /\ Len(bytes) <= Blocks(bytes) * BlockSize /\ Blocks(bytes) \in Nat
  BY BlocksFacts
<1>2. /\ Decrypted(s, bytes) \in Seq(Byte)
      /\ Len(Decrypted(s, bytes)) = Len(BlocksOf(bytes, Blocks(bytes))) * BlockSize
  BY <1>1, ThroughBoxPasses DEF Passes, Decrypted
<1>3. Len(bytes) \in Nat /\ BlockSize \in Nat
  BY LenProperties, BlockSizeAssumption
<1>4. QED
  BY <1>1, <1>2, <1>3

(* The padding the last block of a decryption claims.                       *)
Claimed(s, bytes) ==
  ClaimedPadding(BlocksOf(Decrypted(s, bytes), Full(bytes)), Full(bytes))

LEMMA ClaimedType ==
  ASSUME NEW s, Ready(s), NEW bytes \in Seq(Byte), Full(bytes) # 0
  PROVE  Claimed(s, bytes) \in Byte
<1>1. Full(bytes) \in Nat /\ BlockSize \in Nat \ {0} /\ Decrypted(s, bytes) \in Seq(Byte)
  BY FullAndRest, BlockSizeAssumption, DecryptedFacts
<1> DEFINE b == BlockAt(Decrypted(s, bytes), Full(bytes))
<1>2. b \in Block
  BY <1>1, BlockAtType
<1>3. BlocksOf(Decrypted(s, bytes), Full(bytes))[Full(bytes)] = b
  BY <1>1 DEF BlocksOf
<1> HIDE DEF b
<1>4. b[BlockSize] \in Byte
  BY <1>1, <1>2 DEF Block
<1>5. QED
  BY <1>3, <1>4 DEF Claimed, ClaimedPadding

LEMMA DecryptBufferDone ==
  ASSUME NEW s, Ready(s), NEW bytes \in Seq(Byte), s.mode \in PaddedMode => Full(bytes) # 0,
         NEW r \in DecryptBuffer(s, bytes), r.status = "done"
  PROVE  \E k \in 0 .. Len(bytes) :
           /\ r = Done(SubSeq(Decrypted(s, bytes), 1, k))
           /\ s.mode \notin PaddedMode => k = Len(bytes)
           /\ s.mode \in PaddedMode => k = Len(bytes) - Claimed(s, bytes)
<1> DEFINE out == Decrypted(s, bytes)
<1>1. Len(bytes) \in Nat
  BY LenProperties
<1>2. out = ThroughBox(s, [n \in 1 .. (Len(bytes) + BlockSize - 1) \div BlockSize |-> BlockAt(bytes, n)])
  BY DEF Decrypted, BlocksOf, Blocks
<1>3. Claimed(s, bytes) = ClaimedPadding([n \in 1 .. Full(bytes) |-> BlockAt(out, n)], Full(bytes))
  BY DEF Claimed, BlocksOf
<1> HIDE DEF out
<1>4. CASE s.mode \notin PaddedMode
  <2>1. r = Done(SubSeq(out, 1, Len(bytes)))
    BY <1>2, <1>4 DEF DecryptBuffer
  <2>2. Len(bytes) \in 0 .. Len(bytes)
    BY <1>1
  <2>3. QED
    BY <1>4, <2>1, <2>2 DEF out
<1>5. CASE s.mode \in PaddedMode
  <2> DEFINE size == Len(bytes) - Claimed(s, bytes)
  <2>1. r \in {IF size < 0 THEN Thrown("length_error") ELSE Done(SubSeq(out, 1, size)),
               Thrown("INVALID_PKCS7_PADDING_ERROR")}
    BY <1>2, <1>3, <1>5 DEF DecryptBuffer
  <2>2. Claimed(s, bytes) \in Byte
    BY <1>5, ClaimedType
  <2>3. size \in Int /\ size <= Len(bytes)
    BY <1>1, <2>2, BlockSizeAssumption DEF Byte
  <2> HIDE DEF size
  <2>4. ~ (size < 0) /\ r = Done(SubSeq(out, 1, size))
    BY <2>1 DEF Thrown
  <2>5. size \in 0 .. Len(bytes)
    BY <1>1, <2>3, <2>4
  <2>6. QED
    BY <1>5, <2>4, <2>5 DEF size, out
<1>6. QED
  BY <1>4, <1>5

LEMMA DecryptBufferFollows ==
  ASSUME NEW s, Ready(s), s.op = "decrypt", NEW bytes \in Seq(Byte),
         NEW k \in 0 .. Len(bytes)
  PROVE  Follows(s, SubSeq(Decrypted(s, bytes), 1, k), bytes)
<1> DEFINE D == Decrypted(s, bytes)
           N == Blocks(bytes)
           C == BlocksOf(bytes, N)
           P == BlocksOf(D, N)
           plain == SubSeq(D, 1, k)
           m == Full(plain)
           q == Full(bytes)
<1>1. /\ D \in Seq(Byte) /\ Len(D) = N * BlockSize /\ Len(bytes) \in 0 .. Len(D)
      /\ C \in Seq(Block) /\ Len(C) = N /\ N \in Nat
      /\ q \in Nat /\ q <= N /\ BlockSize \in Nat \ {0}
      /\ Len(bytes) = q * BlockSize + Rest(bytes) /\ Rest(bytes) \in 0 .. BlockSize - 1
      /\ N * BlockSize \in Nat
  <2>1. D \in Seq(Byte) /\ Len(D) = N * BlockSize /\ Len(bytes) \in 0 .. Len(D)
    BY DecryptedFacts
  <2>2. /\ C \in Seq(Block) /\ Len(C) = N /\ N \in Nat
        /\ N = IF Rest(bytes) = 0 THEN q ELSE q + 1
    BY BlocksFacts
  <2>3. /\ q \in Nat /\ BlockSize \in Nat \ {0}
        /\ Len(bytes) = q * BlockSize + Rest(bytes) /\ Rest(bytes) \in 0 .. BlockSize - 1
    BY FullAndRest, BlockSizeAssumption
  <2> HIDE DEF D, N, C, q
  <2>4. q <= N /\ N * BlockSize \in Nat
    BY <2>2, <2>3
  <2>5. QED
    BY <2>1, <2>2, <2>3, <2>4
<1>2. PICK c : Passes(s, C, D, c)
  BY <1>1, ThroughBoxPasses DEF Decrypted
<1>3. \A n \in 1 .. N : Encrypts(s.mode, s.key, InitVector(s), P, C, n)
  <2> HIDE DEF C, D, N
  <2>1. \A n \in 1 .. N : Encrypts(s.mode, s.key, InitVector(s), BlocksOf(D, Len(C)), C, n)
    BY <1>1, <1>2, BoxDecrypts
  <2>2. QED
    BY <1>1, <2>1
<1> HIDE DEF D, N
<1>4. plain \in Seq(Byte) /\ Len(plain) = k /\ \A j \in 1 .. k : plain[j] = D[j]
  <2>1. k \in 0 .. Len(D)
    BY <1>1
  <2>2. QED
    BY <1>1, <2>1, CutTo
<1> HIDE DEF plain
<1>5. m \in Nat /\ m * BlockSize \in Nat /\ m * BlockSize <= k
  BY <1>4, FullAndRest
<1>6. m <= q
  <2> HIDE DEF m, q
  <2> SUFFICES ASSUME q + 1 <= m PROVE FALSE
    BY <1>1, <1>5
  <2>1. (q + 1) * BlockSize <= m * BlockSize
    BY <1>1, <1>5, Multiples
  <2>2. (q + 1) * BlockSize = q * BlockSize + BlockSize /\ q * BlockSize \in Nat
    BY <1>1
  <2> DEFINE x == q * BlockSize
             y == m * BlockSize
  <2>3. x + BlockSize <= y /\ x \in Nat /\ y \in Nat /\ y <= Len(bytes) /\ Len(bytes) = x + Rest(bytes)
    BY <1>1, <1>5, <2>1, <2>2
  <2> HIDE DEF x, y
  <2>4. QED
    BY <1>1, <2>3
<1>7. \A n \in 1 .. m : BlockAt(plain, n) = BlockAt(D, n)
  <2> HIDE DEF m
  <2>1. m * BlockSize <= Len(plain) /\ m * BlockSize <= Len(D)
        /\ \A j \in 1 .. m * BlockSize : plain[j] = D[j]
    <3> DEFINE y == m * BlockSize
    <3>1. y \in Nat /\ y <= k /\ k \in Nat /\ k <= Len(D)
      BY <1>1, <1>5
    <3> HIDE DEF y
    <3>2. y <= Len(plain) /\ y <= Len(D) /\ \A j \in 1 .. y : plain[j] = D[j]
      BY <1>4, <3>1
    <3>3. QED
      BY <3>2 DEF y
  <2>2. QED
    BY <1>1, <1>4, <1>5, <2>1, SameBytesSameBlocks
<1>8. \A n \in 1 .. m : /\ Encrypts(s.mode, s.key, InitVector(s), P, C, n)
                        /\ P[n] = BlockAt(plain, n) /\ C[n] = BlockAt(bytes, n)
  <2> HIDE DEF m, q
  <2>1. \A n \in 1 .. m : n \in 1 .. N
    BY <1>1, <1>5, <1>6
  <2>2. \A n \in 1 .. N : P[n] = BlockAt(D, n) /\ C[n] = BlockAt(bytes, n)
    BY DEF BlocksOf
  <2>3. QED
    BY <1>3, <1>7, <2>1, <2>2
<1> HIDE DEF P, C
<1>9. Follows(s, plain, bytes)
  BY <1>4, <1>6, <1>8, FollowsFrom
<1>10. QED
  BY <1>9 DEF plain, D

-----------------------------------------------------------------------------
(* Settings that decrypt what others encrypt.                               *)
Twins(s, t) ==
  /\ Ready(s) /\ t \in Settings /\ s.op = "encrypt" /\ t.op = "decrypt"
  /\ t.mode = s.mode /\ t.key = s.key /\ t.iv = s.iv

LEMMA TwinsReady ==
  ASSUME NEW s, NEW t, Twins(s, t)
  PROVE  /\ Ready(t) /\ Chaining(t) = Chaining(s) /\ InitVector(t) = InitVector(s)
  BY DEF Twins, Ready, Chaining, InitVector

(* One block encrypted and decrypted with the same chaining value: the text *)
(* comes back, and both sides chain the same value.                         *)
LEMMA BlockComesBack ==
  ASSUME NEW s, NEW t, Twins(s, t), NEW c \in Chaining(s), NEW b \in Block
  PROVE  LET e == CryptBlock(s, c, b)
         IN  CryptBlock(t, c, e.output) = [output |-> b, iv |-> e.iv]
<1> DEFINE m == s.mode
           k == s.key
<1>1. m \in Mode /\ k \in Key /\ (m # "ECB" => c \in Block)
  BY ReadyFacts DEF Twins, Chaining
<1>2. \A x : CryptBlock(s, c, x) = EncryptBlock(m, k, c, x) /\ CryptBlock(t, c, x) = DecryptBlock(m, k, c, x)
  BY DEF Twins, CryptBlock
<1> HIDE DEF m, k
<1>3. CASE m = "ECB"
  <2>1. Dec(k, Enc(k, b)) = b
    BY <1>1, CipherAssumption
  <2>2. QED
    BY <1>2, <1>3, <2>1 DEF EncryptBlock, EncryptBlockEcb, DecryptBlock, DecryptBlockEcb
<1>4. CASE m = "CBC"
  <2>1. c \in Block /\ XorBlocks(b, c) \in Block
    BY <1>1, <1>4, XorBlocksType
  <2>2. XorBlocks(Dec(k, Enc(k, XorBlocks(b, c))), c) = b
    BY <1>1, <2>1, CipherAssumption, XorBlocksCancel
  <2>3. QED
    BY <1>2, <1>4, <2>2 DEF EncryptBlock, EncryptBlockCbc, DecryptBlock, DecryptBlockCbc
<1>5. CASE m \in {"CFB", "OFB", "CTR"}
  <2>1. Enc(k, c) \in Block
    BY <1>1, <1>5, CipherAssumption
  <2>2. XorBlocks(Enc(k, c), XorBlocks(Enc(k, c), b)) = b
    BY <2>1, XorBlocksType, XorBlocksCommute, XorBlocksCancel
  <2>3. QED
    BY <1>2, <1>5, <2>2
       DEF EncryptBlock, EncryptBlockCfb, EncryptBlockOfb, EncryptBlockCtr,
           DecryptBlock, DecryptBlockCfb
<1>6. QED
  BY <1>1, <1>3, <1>4, <1>5 DEF Mode

(* In a stream mode the bytes that are there come back from a part of a     *)
(* block.                                                                   *)
LEMMA PartComesBack ==
  ASSUME NEW s, NEW t, Twins(s, t), s.mode \notin PaddedMode,
         NEW c \in Chaining(s), NEW b \in Block, NEW x \in Block, NEW i \in 1 .. BlockSize,
         x[i] = CryptBlock(s, c, b).output[i]
  PROVE  CryptBlock(t, c, x).output[i] = b[i]
<1> DEFINE k == s.key
<1>1. s.mode \in {"CFB", "OFB", "CTR"} /\ k \in Key /\ c \in Block
  BY ReadyFacts DEF Twins, Chaining, PaddedMode, Mode
<1>2. /\ CryptBlock(s, c, b).output = XorBlocks(Enc(k, c), b)
      /\ CryptBlock(t, c, x).output = XorBlocks(Enc(k, c), x)
  BY <1>1 DEF Twins, CryptBlock, EncryptBlock, EncryptBlockCfb, EncryptBlockOfb, EncryptBlockCtr,
              DecryptBlock, DecryptBlockCfb
<1> DEFINE z == Enc(k, c)
<1>3. z[i] \in Byte /\ b[i] \in Byte
  <2>1. z \in Block
    BY <1>1, CipherAssumption
  <2> HIDE DEF z
  <2>2. QED
    BY <2>1 DEF Block
<1> HIDE DEF z, k
<1>4. /\ x[i] = Xor(z[i], b[i])
      /\ CryptBlock(t, c, x).output[i] = Xor(z[i], x[i])
  BY <1>2 DEF XorBlocks, z
<1>5. Xor(z[i], Xor(z[i], b[i])) = b[i]
  <2>1. Xor(z[i], b[i]) = Xor(b[i], z[i]) /\ Xor(b[i], z[i]) \in Byte /\ Xor(Xor(b[i], z[i]), z[i]) = b[i]
    BY <1>3, XorAssumption
  <2>2. Xor(z[i], Xor(b[i], z[i])) = Xor(Xor(b[i], z[i]), z[i])
    BY <1>3, <2>1, XorAssumption
  <2>3. QED
    BY <2>1, <2>2
<1>6. QED
  BY <1>4, <1>5

(* The blocks given to the box hold the bytes of the text.                  *)
LEMMA GivenBytes ==
  ASSUME NEW s, NEW bytes \in Seq(Byte),
         NEW n \in 1 .. Len(Given(s, bytes)), NEW i \in 1 .. BlockSize,
         (n - 1) * BlockSize + i <= Len(bytes)
  PROVE  Given(s, bytes)[n][i] = bytes[(n - 1) * BlockSize + i]
<1> DEFINE B == Given(s, bytes)
<1>1. /\ Len(B) \in Nat /\ Full(bytes) \in Nat
      /\ \A m \in 1 .. Full(bytes) : B[m] = BlockAt(bytes, m)
      /\ s.mode \in PaddedMode =>
           /\ Len(B) = Full(bytes) + 1
           /\ B[Len(B)] = FillWithPadding(BlockAt(bytes, Full(bytes) + 1), Rest(bytes))
      /\ s.mode \notin PaddedMode => \A m \in 1 .. Len(B) : B[m] = BlockAt(bytes, m)
  BY GivenFacts, FullAndRest
<1>2. BlockAt(bytes, n)[i] = bytes[(n - 1) * BlockSize + i]
  BY ByteOfBlock
<1>3. CASE B[n] = BlockAt(bytes, n)
  BY <1>2, <1>3
<1>4. CASE s.mode \in PaddedMode /\ n = Full(bytes) + 1
  <2>1. i <= Rest(bytes)
    <3>1. /\ Len(bytes) = Full(bytes) * BlockSize + Rest(bytes) /\ Full(bytes) * BlockSize \in Nat
          /\ Rest(bytes) \in Nat /\ BlockSize \in Nat
      BY FullAndRest, BlockSizeAssumption
    <3>2. n - 1 = Full(bytes)
      BY <1>1, <1>4
    <3>3. QED
      BY <3>1, <3>2
  <2>2. B[n][i] = BlockAt(bytes, n)[i]
    BY <1>1, <1>4, <2>1 DEF FillWithPadding
  <2>3. QED
    BY <1>2, <2>2
<1>5. QED
  BY <1>1, <1>3, <1>4

(* What is left of a ciphertext, and is not refused for its size.           *)
LeftOf(s, t, bytes, cut) ==
  /\ Twins(s, t) /\ bytes \in Seq(Byte) /\ cut \in Seq(Byte)
  /\ IsPrefix(cut, EncryptBuffer(s, bytes))
  /\ s.mode \in PaddedMode => Rest(cut) = 0 /\ Full(cut) # 0

(* The bytes of a text come back from what is left of its ciphertext.       *)
LEMMA BytesComeBack ==
  ASSUME NEW s, NEW t, NEW bytes, NEW cut, LeftOf(s, t, bytes, cut)
  PROVE  /\ Full(cut) <= Len(Given(s, bytes))
         /\ \A n \in 1 .. Full(cut) : BlockAt(Decrypted(t, cut), n) = Given(s, bytes)[n]
         /\ \A j \in 1 .. Len(cut) : j <= Len(bytes) => Decrypted(t, cut)[j] = bytes[j]
<1> DEFINE k == Len(cut)
           E == EncryptBuffer(s, bytes)
           B == Given(s, bytes)
           N == Len(B)
           out == ThroughBox(s, B)
           D == Decrypted(t, cut)
           M == Blocks(cut)
           q == Full(cut)
           r == Rest(cut)
<1>0. /\ Twins(s, t) /\ bytes \in Seq(Byte) /\ cut \in Seq(Byte)
      /\ s.mode \in PaddedMode => Rest(cut) = 0
  BY DEF LeftOf
<1>1. /\ Ready(s) /\ Ready(t) /\ Chaining(t) = Chaining(s) /\ InitVector(t) = InitVector(s)
      /\ BlockSize \in Nat \ {0}
  BY <1>0, TwinsReady, BlockSizeAssumption DEF Twins
<1>2. /\ B \in Seq(Block) /\ N \in Nat /\ N * BlockSize \in Nat
      /\ E \in Seq(Byte) /\ out \in Seq(Byte) /\ Len(E) <= N * BlockSize /\ Len(E) \in Nat
      /\ Len(out) = N * BlockSize /\ \A j \in 1 .. Len(E) : E[j] = out[j]
  <2>1. /\ B \in Seq(Block) /\ N \in Nat /\ Kept(s, bytes) \in Full(bytes) * BlockSize .. N * BlockSize
    BY <1>0, GivenFacts
  <2>2. /\ E \in Seq(Byte) /\ out \in Seq(Byte) /\ Len(E) = Kept(s, bytes)
        /\ Len(out) = N * BlockSize /\ \A j \in 1 .. Len(E) : E[j] = out[j]
    BY <1>0, <1>1, EncryptBufferFacts
  <2> HIDE DEF E, B, N, out
  <2>3. N * BlockSize \in Nat /\ Full(bytes) * BlockSize \in Nat
    BY <1>0, <1>1, <2>1, FullAndRest
  <2>4. QED
    BY <2>1, <2>2, <2>3
<1>3. PICK c : Passes(s, B, out, c)
  BY <1>1, <1>2, ThroughBoxPasses
<1>4. \A n \in 1 .. N : B[n] \in Block
  BY <1>2, ElementOfSeq
<1>5. /\ c \in [0 .. N -> Chaining(s)] /\ c[0] = InitVector(s)
      /\ \A n \in 1 .. N : /\ BlockAt(out, n) = CryptBlock(s, c[n - 1], B[n]).output
                           /\ c[n] = CryptBlock(s, c[n - 1], B[n]).iv
  BY <1>3 DEF Passes
<1> HIDE DEF E, N, out
<1>6. cut \in Seq(Byte) /\ Len(cut) = k /\ k \in Nat /\ k <= Len(E) /\ \A j \in 1 .. k : cut[j] = E[j]
  <2>1. IsPrefix(cut, E)
    BY DEF LeftOf, E
  <2>2. QED
    BY <1>0, <1>2, <2>1, CutFacts, LenProperties
<1> HIDE DEF k
<1>7. /\ k \in Nat /\ k <= Len(E) /\ k <= N * BlockSize
      /\ \A j \in 1 .. k : cut[j] = out[j]
  <2> DEFINE x == N * BlockSize
  <2>1. x \in Nat /\ Len(E) <= x /\ Len(E) \in Nat /\ \A j \in 1 .. Len(E) : E[j] = out[j]
    BY <1>2
  <2> HIDE DEF x
  <2>2. k \in Nat /\ k <= Len(E) /\ k <= x /\ \A j \in 1 .. k : cut[j] = out[j]
    BY <1>6, <2>1
  <2>3. QED
    BY <2>2 DEF x
<1>8. /\ q \in Nat /\ r \in 0 .. BlockSize - 1 /\ q * BlockSize \in Nat /\ k = q * BlockSize + r
      /\ M = IF r = 0 THEN q ELSE q + 1
  BY <1>6, FullAndRest, BlocksFacts
<1>9. /\ D \in Seq(Byte) /\ Len(D) = M * BlockSize /\ k <= Len(D) /\ M \in Nat
  <2>1. /\ D \in Seq(Byte) /\ Len(D) = M * BlockSize /\ Len(cut) \in 0 .. Len(D)
    BY <1>1, <1>6, DecryptedFacts
  <2>2. M \in Nat
    BY <1>6, BlocksFacts
  <2> HIDE DEF D, M
  <2>3. QED
    BY <1>6, <1>7, <2>1, <2>2
<1>10. PICK d : Passes(t, BlocksOf(cut, M), D, d)
  <2>1. BlocksOf(cut, M) \in Seq(Block)
    BY <1>6, BlocksFacts
  <2>2. QED
    BY <1>1, <2>1, ThroughBoxPasses DEF Decrypted
<1>11. /\ d[0] = InitVector(s)
       /\ \A n \in 1 .. M : /\ BlockAt(D, n) = CryptBlock(t, d[n - 1], BlockAt(cut, n)).output
                            /\ d[n] = CryptBlock(t, d[n - 1], BlockAt(cut, n)).iv
  <2>1. Len(BlocksOf(cut, M)) = M /\ \A n \in 1 .. M : BlocksOf(cut, M)[n] = BlockAt(cut, n)
    BY <1>6, BlocksFacts DEF BlocksOf
  <2> HIDE DEF D, M
  <2>2. QED
    BY <1>1, <1>10, <2>1 DEF Passes
<1> HIDE DEF B, D, M, q, r
<1>12. q <= M /\ M <= N /\ q <= N
  <2> SUFFICES ASSUME N + 1 <= M PROVE FALSE
    BY <1>2, <1>8, <1>9
  <2>1. (N + 1) * BlockSize = N * BlockSize + BlockSize
    BY <1>1, <1>2
  <2>2. CASE r = 0
    <3>1. (N + 1) * BlockSize <= q * BlockSize
      BY <1>1, <1>2, <1>8, <2>2, Multiples
    <3> DEFINE x == N * BlockSize
               y == q * BlockSize
    <3>2. x \in Nat /\ y \in Nat /\ x + BlockSize <= y /\ y <= x
      BY <1>2, <1>7, <1>8, <2>1, <2>2, <3>1
    <3> HIDE DEF x, y
    <3>3. QED
      BY <1>1, <3>2
  <2>3. CASE r # 0
    <3>1. N * BlockSize <= q * BlockSize
      <4>1. N <= q
        BY <1>2, <1>8, <2>3
      <4>2. QED
        BY <1>1, <1>2, <1>8, <4>1, Multiples
    <3> DEFINE x == N * BlockSize
               y == q * BlockSize
    <3>2. x \in Nat /\ y \in Nat /\ x <= y /\ y + r <= x
      BY <1>2, <1>7, <1>8, <3>1
    <3> HIDE DEF x, y
    <3>3. QED
      BY <1>8, <2>3, <3>2
  <2>4. QED
    BY <2>2, <2>3
<1>13. \A n \in 1 .. q : BlockAt(cut, n) = BlockAt(out, n)
  <2> DEFINE y == q * BlockSize
  <2>1. y \in Nat /\ y <= k
    BY <1>7, <1>8
  <2> HIDE DEF y
  <2>2. y <= Len(cut) /\ y <= Len(out) /\ \A j \in 1 .. y : cut[j] = out[j]
    BY <1>2, <1>6, <1>7, <2>1
  <2>3. QED
    BY <1>2, <1>6, <1>8, <2>2, SameBytesSameBlocks DEF y
<1>14. ASSUME NEW n \in 1 .. q, d[n - 1] = c[n - 1]
       PROVE  BlockAt(D, n) = B[n] /\ d[n] = c[n]
  <2>1. n \in 1 .. M /\ n \in 1 .. N /\ n - 1 \in 0 .. N
    BY <1>2, <1>8, <1>9, <1>12
  <2>2. c[n - 1] \in Chaining(s) /\ B[n] \in Block
    BY <1>4, <1>5, <2>1
  <2>3. BlockAt(cut, n) = CryptBlock(s, c[n - 1], B[n]).output
    BY <1>5, <1>13, <2>1
  <2>4. CryptBlock(t, c[n - 1], BlockAt(cut, n)) = [output |-> B[n], iv |-> CryptBlock(s, c[n - 1], B[n]).iv]
    BY <2>2, <2>3, BlockComesBack, <1>0
  <2>5. QED
    BY <1>5, <1>11, <1>14, <2>1, <2>4
<1>15. ASSUME NEW p \in 0 .. q PROVE d[p] = c[p]
  <2> DEFINE T == {n \in 0 .. q : d[n] = c[n]}
  <2>1. 0 \in T
    BY <1>5, <1>8, <1>11
  <2>2. ASSUME NEW n \in 0 .. p - 1, n \in T PROVE n + 1 \in T
    <3>1. n + 1 \in 1 .. q /\ (n + 1) - 1 = n /\ n + 1 \in 0 .. q
      BY <1>8
    <3>2. d[n + 1] = c[n + 1]
      BY <1>14, <2>2, <3>1
    <3>3. QED
      BY <3>1, <3>2
  <2> HIDE DEF T
  <2>3. p \in Nat
    BY <1>8
  <2>4. p \in T
    BY <2>1, <2>2, <2>3, SetInduction
  <2>5. QED
    BY <2>4 DEF T
<1>16. \A n \in 1 .. q : BlockAt(D, n) = B[n]
  <2> SUFFICES ASSUME NEW n \in 1 .. q PROVE BlockAt(D, n) = B[n]
    OBVIOUS
  <2>1. n - 1 \in 0 .. q
    BY <1>8
  <2>2. d[n - 1] = c[n - 1]
    BY <1>15, <2>1
  <2>3. QED
    BY <1>14, <2>2
<1>17. ASSUME NEW j \in 1 .. k, j <= Len(bytes) PROVE D[j] = bytes[j]
  <2>1. j \in 1 .. M * BlockSize
    BY <1>7, <1>9
  <2>2. PICK n \in 1 .. M, i \in 1 .. BlockSize : j = (n - 1) * BlockSize + i
    BY <1>9, <2>1, PlaceIn
  <2>3. n \in 1 .. N /\ n \in Nat \ {0} /\ n <= M
    BY <1>2, <1>9, <1>12
  <2>4. B[n][i] = bytes[j]
    BY <1>0, <1>17, <2>2, <2>3, GivenBytes DEF B, N
  <2>5. BlockAt(D, n)[i] = D[j]
    BY <1>9, <2>1, <2>2, <2>3, ByteOfBlock
  <2>6. CASE n \in 1 .. q
    BY <1>16, <2>4, <2>5, <2>6
  <2>7. CASE n \notin 1 .. q
    <3>1. n = q + 1 /\ r # 0 /\ n - 1 = q /\ n - 1 \in 0 .. q /\ n - 1 \in 0 .. N
      BY <1>2, <1>8, <1>12, <2>3, <2>7
    <3>2. s.mode \notin PaddedMode
      BY <1>0, <3>1 DEF r
    <3>3. c[n - 1] \in Chaining(s) /\ B[n] \in Block /\ d[n - 1] = c[n - 1]
      BY <1>4, <1>5, <1>15, <2>3, <3>1
    <3>4. BlockAt(cut, n) \in Block
      BY <1>6, <2>3, BlockAtType
    <3>5. BlockAt(cut, n)[i] = CryptBlock(s, c[n - 1], B[n]).output[i]
      <4>1. j <= Len(cut) /\ j <= Len(out) /\ cut[j] = out[j]
        BY <1>2, <1>6, <1>7
      <4>2. BlockAt(cut, n)[i] = cut[j] /\ BlockAt(out, n)[i] = out[j]
        BY <1>2, <1>6, <2>2, <2>3, <4>1, ByteOfBlock
      <4>3. QED
        BY <1>5, <2>3, <4>1, <4>2
    <3>6. CryptBlock(t, c[n - 1], BlockAt(cut, n)).output[i] = B[n][i]
      BY <3>2, <3>3, <3>4, <3>5, PartComesBack, <1>0
    <3>7. BlockAt(D, n)[i] = B[n][i]
      BY <1>11, <3>3, <3>6
    <3>8. QED
      BY <2>4, <2>5, <3>7
  <2>8. QED
    BY <2>6, <2>7
<1>18. QED
  BY <1>6, <1>12, <1>16, <1>17 DEF B, N, D, q, k

(* A whole ciphertext in a padded mode ends in the padding it was given.    *)
LEMMA PaddingComesBack ==
  ASSUME NEW s, NEW t, Twins(s, t), s.mode \in PaddedMode, NEW bytes \in Seq(Byte), NEW cut,
         cut \in Seq(Byte), Full(cut) = Full(bytes) + 1,
         \A n \in 1 .. Full(cut) : BlockAt(Decrypted(t, cut), n) = Given(s, bytes)[n]
  PROVE  LET blocks == BlocksOf(Decrypted(t, cut), Full(cut))
         IN  Claimed(t, cut) = BlockSize - Rest(bytes) /\ ~ PaddingRejected(blocks, Full(cut))
<1> DEFINE n == Full(cut)
           blocks == BlocksOf(Decrypted(t, cut), n)
           last == BlockAt(bytes, Full(bytes) + 1)
<1>1. /\ n \in Nat \ {0} /\ Rest(bytes) \in 0 .. BlockSize - 1
      /\ Len(Given(s, bytes)) = n /\ Given(s, bytes)[n] = FillWithPadding(last, Rest(bytes))
  BY FullAndRest, GivenFacts
<1>2. blocks[n] = FillWithPadding(last, Rest(bytes))
  BY <1>1 DEF BlocksOf
<1> HIDE DEF n, blocks, last
<1>3. ClaimedPadding(blocks, n) = BlockSize - Rest(bytes) /\ ~ PaddingRejected(blocks, n)
  BY <1>1, <1>2, FilledPaddingIsFound
<1>4. QED
  BY <1>3 DEF Claimed, blocks, n

(* Decryption of a cut ciphertext gives a cut of the text or is refused,    *)
(* that of the whole one gives the text.                                    *)
LEMMA DecryptionOfCut ==
  ASSUME NEW s, NEW t, NEW bytes, NEW cut, LeftOf(s, t, bytes, cut)
  PROVE  /\ \A r \in DecryptBuffer(t, cut) :
              r.status = "done" => r.bytes \in Seq(Byte) /\ IsPrefix(r.bytes, bytes)
         /\ Len(cut) = Len(EncryptBuffer(s, bytes)) => DecryptBuffer(t, cut) = {Done(bytes)}
<1> DEFINE k == Len(cut)
           D == Decrypted(t, cut)
           N == Full(bytes)
           q == Full(cut)
           n0 == Len(bytes)
<1>1. /\ Twins(s, t) /\ bytes \in Seq(Byte) /\ cut \in Seq(Byte) /\ Len(cut) = k
      /\ (s.mode \in PaddedMode => Rest(cut) = 0 /\ q # 0)
      /\ q <= Len(Given(s, bytes))
      /\ \A n \in 1 .. q : BlockAt(D, n) = Given(s, bytes)[n]
      /\ \A j \in 1 .. k : j <= n0 => D[j] = bytes[j]
  BY BytesComeBack DEF LeftOf
<1>2. /\ Ready(s) /\ Ready(t) /\ t.mode = s.mode /\ BlockSize \in Nat \ {0}
      /\ k \in Nat /\ n0 \in Nat /\ Len(EncryptBuffer(s, bytes)) = Kept(s, bytes)
      /\ k <= Kept(s, bytes)
  <2>1. Ready(s) /\ Ready(t) /\ t.mode = s.mode /\ BlockSize \in Nat \ {0}
    BY TwinsReady, BlockSizeAssumption DEF LeftOf, Twins
  <2>2. /\ EncryptBuffer(s, bytes) \in Seq(Byte) /\ Len(EncryptBuffer(s, bytes)) = Kept(s, bytes)
        /\ k \in Nat /\ n0 \in Nat
    BY <1>1, <2>1, EncryptBufferFacts, LenProperties
  <2>3. k <= Len(EncryptBuffer(s, bytes))
    BY <1>1, <2>2, CutFacts DEF LeftOf
  <2>4. QED
    BY <2>1, <2>2, <2>3
<1>3. D \in Seq(Byte) /\ k \in 0 .. Len(D)
  BY <1>1, <1>2, DecryptedFacts
<1>4. ASSUME NEW m \in 0 .. k, m <= n0
      PROVE  SubSeq(D, 1, m) \in Seq(Byte) /\ IsPrefix(SubSeq(D, 1, m), bytes)
  <2>1. m \in 0 .. Len(D) /\ m \in Nat /\ m <= k
    BY <1>2, <1>3
  <2>2. SubSeq(D, 1, m) \in Seq(Byte) /\ Len(SubSeq(D, 1, m)) = m /\ \A j \in 1 .. m : SubSeq(D, 1, m)[j] = D[j]
    BY <1>3, <2>1, CutTo
  <2>3. \A j \in 1 .. m : D[j] = bytes[j]
    BY <1>1, <1>2, <1>4, <2>1
  <2> DEFINE x == SubSeq(D, 1, m)
  <2> HIDE DEF x
  <2>4. x \in Seq(Byte) /\ Len(x) = m /\ \A j \in 1 .. m : x[j] = bytes[j]
    BY <2>2, <2>3 DEF x
  <2>5. IsPrefix(x, bytes)
    BY <1>1, <1>4, <2>4, CutFacts
  <2>6. QED
    BY <2>4, <2>5 DEF x
<1>5. ASSUME n0 <= k PROVE SubSeq(D, 1, n0) = bytes
  <2>1. n0 \in 0 .. Len(D) /\ n0 \in 0 .. k
    BY <1>2, <1>3, <1>5
  <2>2. /\ SubSeq(D, 1, n0) \in Seq(Byte) /\ Len(SubSeq(D, 1, n0)) = n0
        /\ \A j \in 1 .. n0 : SubSeq(D, 1, n0)[j] = D[j]
    BY <1>3, <2>1, CutTo
  <2>3. \A j \in 1 .. n0 : D[j] = bytes[j]
    BY <1>1, <1>2, <1>5
  <2>4. QED
    BY <1>1, <2>2, <2>3, SeqEqual
<1> HIDE DEF D, k
<1>6. CASE s.mode \notin PaddedMode
  <2>1. Kept(s, bytes) = n0
    BY <1>6 DEF Kept
  <2>2. DecryptBuffer(t, cut) = {Done(SubSeq(D, 1, k))}
    BY <1>1, <1>2, <1>6 DEF DecryptBuffer, D, Decrypted, BlocksOf, Blocks
  <2>3. SubSeq(D, 1, k) \in Seq(Byte) /\ IsPrefix(SubSeq(D, 1, k), bytes)
    BY <1>2, <1>4, <2>1
  <2>4. k = n0 => SubSeq(D, 1, k) = bytes
    BY <1>2, <1>5
  <2>5. QED
    BY <1>1, <1>2, <2>1, <2>2, <2>3, <2>4 DEF Done
<1>7. CASE s.mode \in PaddedMode
  <2>1. /\ N \in Nat /\ Rest(bytes) \in 0 .. BlockSize - 1 /\ n0 = N * BlockSize + Rest(bytes)
        /\ q \in Nat /\ q # 0 /\ k = q * BlockSize
        /\ N * BlockSize \in Nat /\ q * BlockSize \in Nat
        /\ (N + 1) * BlockSize = N * BlockSize + BlockSize
        /\ Kept(s, bytes) = (N + 1) * BlockSize /\ q <= N + 1
    <3>1. /\ N \in Nat /\ Rest(bytes) \in 0 .. BlockSize - 1 /\ n0 = N * BlockSize + Rest(bytes)
          /\ q \in Nat /\ k = q * BlockSize + Rest(cut) /\ Len(Given(s, bytes)) = N + 1
      BY <1>1, <1>7, FullAndRest, GivenFacts
    <3>2. Rest(cut) = 0 /\ q # 0 /\ Kept(s, bytes) = (N + 1) * BlockSize
      BY <1>1, <1>7 DEF Kept
    <3> HIDE DEF N, n0, q
    <3>3. N * BlockSize \in Nat /\ q * BlockSize \in Nat
          /\ (N + 1) * BlockSize = N * BlockSize + BlockSize
      BY <1>2, <3>1
    <3>4. QED
      BY <1>1, <3>1, <3>2, <3>3
  <2> DEFINE blocks == BlocksOf(D, q)
  <2>2. ASSUME q = N + 1
        PROVE  /\ n0 <= k /\ k - Claimed(t, cut) = n0 /\ ~ PaddingRejected(blocks, q)
    <3>1. Claimed(t, cut) = BlockSize - Rest(bytes) /\ ~ PaddingRejected(blocks, q)
      <4>1. cut \in Seq(Byte) /\ Full(cut) = Full(bytes) + 1
        BY <1>1, <2>2
      <4>2. \A n \in 1 .. Full(cut) : BlockAt(Decrypted(t, cut), n) = Given(s, bytes)[n]
        BY <1>1 DEF D
      <4>3. /\ Claimed(t, cut) = BlockSize - Rest(bytes)
            /\ ~ PaddingRejected(BlocksOf(Decrypted(t, cut), Full(cut)), Full(cut))
        BY <1>1, <1>7, <4>1, <4>2, PaddingComesBack
      <4>4. QED
        BY <4>3 DEF D
    <3> HIDE DEF n0, N, q
    <3>2. k = N * BlockSize + BlockSize
      BY <2>1, <2>2
    <3> DEFINE x == N * BlockSize
    <3>3. n0 = x + Rest(bytes) /\ x \in Nat /\ k = x + BlockSize
      BY <2>1, <3>2
    <3> HIDE DEF x
    <3>4. QED
      BY <1>2, <2>1, <3>1, <3>3
  <2>3. ASSUME q # N + 1
        PROVE  k <= n0
    <3> HIDE DEF n0, N, q
    <3>1. q <= N
      BY <2>1, <2>3
    <3>2. q * BlockSize <= N * BlockSize
      BY <1>2, <2>1, <3>1, Multiples
    <3> DEFINE x == N * BlockSize
               y == q * BlockSize
    <3>3. n0 = x + Rest(bytes) /\ x \in Nat /\ k = y /\ y <= x /\ y \in Nat
      BY <2>1, <3>2
    <3> HIDE DEF x, y
    <3>4. QED
      BY <1>2, <2>1, <3>3
  <2>4. ASSUME NEW r \in DecryptBuffer(t, cut), r.status = "done"
        PROVE  r.bytes \in Seq(Byte) /\ IsPrefix(r.bytes, bytes)
    <3>1. PICK m \in 0 .. k : r = Done(SubSeq(D, 1, m)) /\ m = k - Claimed(t, cut)
      <4>1. t.mode \in PaddedMode => Full(cut) # 0
        BY <2>1
      <4>2. \E m \in 0 .. Len(cut) :
              /\ r = Done(SubSeq(Decrypted(t, cut), 1, m))
              /\ t.mode \notin PaddedMode => m = Len(cut)
              /\ t.mode \in PaddedMode => m = Len(cut) - Claimed(t, cut)
        BY <1>1, <1>2, <2>4, <4>1, DecryptBufferDone
      <4>3. QED
        BY <1>1, <1>2, <1>7, <4>2 DEF D
    <3>2. m <= n0
      <4>1. m \in Nat /\ m <= k
        BY <1>2
      <4> HIDE DEF n0, N, q
      <4>2. QED
        BY <1>2, <2>2, <2>3, <3>1, <4>1
    <3>3. SubSeq(D, 1, m) \in Seq(Byte) /\ IsPrefix(SubSeq(D, 1, m), bytes)
      BY <1>4, <3>2
    <3>4. QED
      BY <3>1, <3>3 DEF Done
  <2>5. ASSUME k = Kept(s, bytes)
        PROVE  DecryptBuffer(t, cut) = {Done(bytes)}
    <3>1. q = N + 1
      <4> HIDE DEF n0, N, q
      <4>1. q * BlockSize = (N + 1) * BlockSize
        BY <2>1, <2>5
      <4>2. ASSUME q <= N PROVE FALSE
        <5>1. q * BlockSize <= N * BlockSize
          BY <1>2, <2>1, <4>2, Multiples
        <5>2. QED
          BY <1>2, <2>1, <4>1, <5>1
      <4>3. QED
        BY <2>1, <4>2
    <3>2. n0 <= k /\ k - Claimed(t, cut) = n0 /\ ~ PaddingRejected(blocks, q)
      BY <2>2, <3>1
    <3>3. SubSeq(D, 1, n0) = bytes
      BY <1>5, <3>2
    <3>4. PaddingAccepted(blocks, q)
      BY <3>2 DEF PaddingRejected, PaddingAccepted
    <3>5. ~ (n0 < 0)
      BY <1>2
    <3> DEFINE size == k - Claimed(t, cut)
    <3>6. DecryptBuffer(t, cut) =
             {r \in {IF size < 0 THEN Thrown("length_error") ELSE Done(SubSeq(D, 1, size))} :
                PaddingAccepted(blocks, q)}
             \cup {r \in {Thrown("INVALID_PKCS7_PADDING_ERROR")} : PaddingRejected(blocks, q)}
      BY <1>1, <1>2, <1>7 DEF DecryptBuffer, D, Decrypted, BlocksOf, Blocks, Claimed
    <3> HIDE DEF size, blocks
    <3>7. QED
      BY <3>2, <3>3, <3>4, <3>5, <3>6 DEF size
  <2>6. QED
    BY <1>1, <1>2, <2>4, <2>5
<1>8. QED
  BY <1>6, <1>7

-----------------------------------------------------------------------------
(* What a utility makes of the bytes behind an offset, apart from the build. *)
Part(bytes, from) == SubSeq(bytes, from + 1, Len(bytes))

(* A size that changes by the padding only.                                 *)
Grown(s, size, made) ==
  IF s.mode \in PaddedMode
  THEN IF s.op = "encrypt" THEN made - size \in 1 .. BlockSize ELSE size - made \in 0 .. ByteMax
  ELSE made = size

MadeFrom(s, bytes, from, pixels) ==
  \/ /\ from <= Len(bytes)
     /\ s.op = "encrypt" => pixels = EncryptBuffer(s, Part(bytes, from))
     /\ s.op = "decrypt" =>
          /\ s.mode \in PaddedMode => Rest(Part(bytes, from)) = 0 /\ Full(Part(bytes, from)) # 0
          /\ Done(pixels) \in DecryptBuffer(s, Part(bytes, from))
  \/ /\ from > Len(bytes) /\ from - Len(bytes) <= BlockSize
     /\ pixels = <<>> /\ s.op = "encrypt" /\ s.mode \in PaddedMode
  \/ /\ from > Len(bytes) /\ PixelsSize(bytes, from) <= MaxVectorSize
     /\ Grown(s, PixelsSize(bytes, from), Len(pixels))

(* The reasons for which it may make nothing of them.                       *)
Refused(s, bytes, from) ==
  \/ from > Len(bytes)
  \/ s.op = "encrypt" /\ from + Len(EncryptBuffer(s, Part(bytes, from))) > MaxVectorSize
  \/ /\ s.op = "decrypt"
     /\ \/ s.mode \in PaddedMode /\ (Rest(Part(bytes, from)) # 0 \/ Full(Part(bytes, from)) = 0)
        \/ \E o \in DecryptBuffer(s, Part(bytes, from)) :
             o.status # "done" \/ from + Len(o.bytes) > MaxVectorSize

LEMMA Unwrapped ==
  ASSUME NEW a \in Int, SizeMod \in Nat \ {0}
  PROVE  /\ a \in 0 .. SizeMod - 1 => a % SizeMod = a
         /\ - a \in 1 .. SizeMod - 1 => a % SizeMod = SizeMod + a
<1>1. ASSUME a \in 0 .. SizeMod - 1 PROVE a % SizeMod = a
  <2>1. (0 * SizeMod + a) % SizeMod = a
    BY <1>1, Division
  <2>2. 0 * SizeMod + a = a
    OBVIOUS
  <2>3. QED
    BY <2>1, <2>2
<1>2. ASSUME - a \in 1 .. SizeMod - 1 PROVE a % SizeMod = SizeMod + a
  <2> DEFINE q == - 1
             r == SizeMod + a
  <2>1. q \in Int /\ r \in 0 .. SizeMod - 1 /\ q * SizeMod + r = a
    BY <1>2
  <2> HIDE DEF q, r
  <2>2. (q * SizeMod + r) % SizeMod = r
    BY <2>1, Division
  <2>3. QED
    BY <2>1, <2>2 DEF r
<1>3. QED
  BY <1>1, <1>2

LEMMA SizesFit ==
  /\ BlockSize \in Nat \ {0} /\ ByteMax \in Nat /\ MaxVectorSize \in Nat /\ SizeMod \in Nat \ {0}
  /\ MaxVectorSize + ByteMax + BlockSize < SizeMod /\ 2 * MaxVectorSize < SizeMod
  BY BlockSizeAssumption, FileUtilityAssumption

(* The announced sizes are those of what the box makes.                     *)
LEMMA AnnouncedSizes ==
  ASSUME NEW s, Ready(s), NEW bytes \in Seq(Byte), Len(bytes) <= MaxVectorSize,
         NEW from \in Nat, from <= Len(bytes)
  PROVE  LET part == Part(bytes, from)
             size == PixelsSize(bytes, from)
         IN  /\ part \in Seq(Byte) /\ size = Len(part)
             /\ EncryptedSize(s.mode, size \div BlockSize, size % BlockSize) = Kept(s, part)
<1> DEFINE part == Part(bytes, from)
           size == PixelsSize(bytes, from)
<1>1. Len(bytes) \in Nat /\ from \in 0 .. Len(bytes)
  BY LenProperties
<1>2. part \in Seq(Byte) /\ Len(part) = Len(bytes) - from
  BY <1>1, BytesBehind DEF Part
<1>3. size = Len(part) /\ Len(part) \in Nat /\ Len(part) + BlockSize < SizeMod
  <2>1. Len(bytes) - from \in 0 .. SizeMod - 1 /\ Len(bytes) - from + BlockSize < SizeMod
    BY <1>1, SizesFit
  <2> HIDE DEF part
  <2>2. QED
    BY <1>1, <1>2, <2>1, Unwrapped, SizesFit DEF PixelsSize
<1> HIDE DEF part, size
<1>4. /\ Full(part) \in Nat /\ Rest(part) \in 0 .. BlockSize - 1
      /\ Len(part) = Full(part) * BlockSize + Rest(part)
      /\ size \div BlockSize = Full(part) /\ size % BlockSize = Rest(part)
  BY <1>2, <1>3, FullAndRest DEF Full, Rest
<1>5. CASE s.mode \in PaddedMode
  <2> DEFINE a == (Full(part) + 1) * BlockSize
  <2>1. a = Full(part) * BlockSize + BlockSize /\ Full(part) * BlockSize \in Nat
    BY <1>4, SizesFit
  <2>2. a \in 0 .. SizeMod - 1
    <3> DEFINE x == Full(part) * BlockSize
    <3>1. x \in Nat /\ a = x + BlockSize /\ Len(part) = x + Rest(part) /\ Rest(part) \in Nat
      BY <1>4, <2>1
    <3>2. Len(part) + BlockSize < SizeMod /\ BlockSize \in Nat /\ SizeMod \in Nat
      BY <1>3, SizesFit
    <3> HIDE DEF x, a
    <3>3. QED
      BY <3>1, <3>2
  <2>3. EncryptedSize(s.mode, Full(part), Rest(part)) = (a + 0) % SizeMod
    BY <1>5 DEF EncryptedSize, InBytes
  <2>4. Kept(s, part) = a
    BY <1>5 DEF Kept
  <2> HIDE DEF a
  <2>5. a % SizeMod = a /\ a + 0 = a
    BY <2>2, Unwrapped, SizesFit
  <2>6. QED
    BY <1>2, <1>3, <1>4, <2>3, <2>4, <2>5 DEF part, size
<1>6. CASE s.mode \notin PaddedMode
  <2>1. EncryptedSize(s.mode, Full(part), Rest(part)) = Len(part) % SizeMod
    BY <1>4, <1>6 DEF EncryptedSize, InBytes
  <2>2. Len(part) % SizeMod = Len(part)
    BY <1>3, Unwrapped, SizesFit
  <2>3. QED
    BY <1>2, <1>3, <1>4, <1>6, <2>1, <2>2 DEF Kept, part, size
<1>7. QED
  BY <1>5, <1>6

(* A size that has wrapped around, in blocks too.                           *)
LEMMA BeyondTheEnd ==
  ASSUME NEW bytes \in Seq(Byte), NEW from \in 0 .. SizeMod - 1, from > Len(bytes)
  PROVE  LET size == PixelsSize(bytes, from)
             full == size \div BlockSize
             rest == size % BlockSize
         IN  /\ size = SizeMod - (from - Len(bytes)) /\ size \in 1 .. SizeMod - 1
             /\ full \in Nat /\ rest \in 0 .. BlockSize - 1 /\ size = full * BlockSize + rest
             /\ (full + 1) * BlockSize = full * BlockSize + BlockSize
             /\ (full + 1) * BlockSize <= SizeMod
<1> DEFINE a == Len(bytes) - from
           size == PixelsSize(bytes, from)
           full == size \div BlockSize
           rest == size % BlockSize
<1>1. Len(bytes) \in Nat /\ from \in Nat /\ from < SizeMod /\ SizeMod \in Nat \ {0}
      /\ BlockSize \in Nat \ {0}
  BY LenProperties, SizesFit
<1>2. size = SizeMod - (from - Len(bytes)) /\ size \in 1 .. SizeMod - 1
  <2>1. a \in Int /\ - a \in 1 .. SizeMod - 1 /\ SizeMod + a = SizeMod - (from - Len(bytes))
    BY <1>1
  <2>2. size = a % SizeMod
    BY DEF PixelsSize
  <2> HIDE DEF a, size
  <2>3. a % SizeMod = SizeMod + a
    BY <2>1, Unwrapped, SizesFit
  <2>4. QED
    BY <1>1, <2>1, <2>2, <2>3
<1> HIDE DEF a, size
<1>3. full \in Nat /\ rest \in 0 .. BlockSize - 1 /\ size = full * BlockSize + rest
  BY <1>1, <1>2
<1> HIDE DEF full, rest
<1>4. full * BlockSize \in Nat /\ (full + 1) * BlockSize = full * BlockSize + BlockSize
  BY <1>1, <1>3
<1>5. (full + 1) * BlockSize <= SizeMod
  <2> DEFINE m == SizeMod \div BlockSize
  <2>1. m \in Nat /\ SizeMod = m * BlockSize
    <3>1. SizeMod % BlockSize = 0
      BY FileUtilityAssumption
    <3>2. QED
      BY <1>1, <3>1
  <2> HIDE DEF m
  <2>2. full + 1 <= m
    <3> SUFFICES ASSUME m <= full PROVE FALSE
      BY <1>3, <2>1
    <3>1. m * BlockSize <= full * BlockSize
      BY <1>1, <1>3, <2>1, Multiples
    <3>2. QED
      BY <1>1, <1>2, <1>3, <1>4, <2>1, <3>1
  <2>3. QED
    BY <1>1, <1>3, <2>1, <2>2, Multiples
<1>6. QED
  BY <1>2, <1>3, <1>4, <1>5 DEF size, full, rest

LEMMA OutcomesWithin ==
  ASSUME NEW s, Ready(s), NEW bytes \in Seq(Byte), Len(bytes) <= MaxVectorSize,
         NEW from \in Nat, from <= Len(bytes), NEW r \in Outcomes(s, bytes, from)
  PROVE  /\ r.status = "done" => /\ r = Done(r.bytes) /\ MadeFrom(s, bytes, from, r.bytes)
                                 /\ r.bytes \in Seq(Byte) /\ Len(r.bytes) <= MaxVectorSize
         /\ r.status # "done" => Refused(s, bytes, from)
<1> DEFINE part == Part(bytes, from)
           size == PixelsSize(bytes, from)
<1>1. /\ part \in Seq(Byte) /\ size = Len(part) /\ Len(part) \in Nat
      /\ EncryptedSize(s.mode, size \div BlockSize, size % BlockSize) = Kept(s, part)
      /\ size \div BlockSize = Full(part) /\ size % BlockSize = Rest(part)
  <2>1. /\ part \in Seq(Byte) /\ size = Len(part)
        /\ EncryptedSize(s.mode, size \div BlockSize, size % BlockSize) = Kept(s, part)
    BY AnnouncedSizes
  <2> HIDE DEF part, size
  <2>2. QED
    BY <2>1, LenProperties DEF Full, Rest
<1>2. s.op \in {"encrypt", "decrypt"}
  BY ReadyFacts
<1>3. MaxVectorSize \in Nat /\ from \in Nat /\ ~ (from > Len(bytes)) /\ Len(part) <= MaxVectorSize
  <2>1. Len(bytes) \in Nat /\ from \in 0 .. Len(bytes)
    BY LenProperties
  <2>2. Len(part) = Len(bytes) - from
    BY <2>1, BytesBehind DEF Part
  <2> HIDE DEF part
  <2>3. QED
    BY <2>1, <2>2, SizesFit
<1>4. part = SubSeq(bytes, from + 1, Len(bytes))
  BY DEF Part
<1> HIDE DEF part
<1>5. CASE s.op = "encrypt"
  <2>1. EncryptBuffer(s, part) \in Seq(Byte) /\ Len(EncryptBuffer(s, part)) = Kept(s, part)
    BY <1>1, EncryptBufferFacts
  <2>2. r \in IF Kept(s, part) > MaxVectorSize THEN {Thrown("length_error")}
              ELSE IF Kept(s, part) = 0 /\ null_data THEN {Done(<<>>)}
              ELSE {Done(EncryptBuffer(s, part))}
    BY <1>1, <1>3, <1>4, <1>5 DEF Outcomes, DestSize
  <2> HIDE DEF size
  <2>3. Kept(s, part) = 0 => EncryptBuffer(s, part) = <<>>
    BY <2>1, EmptySeq
  <2>4. CASE Kept(s, part) > MaxVectorSize
    <3>1. Len(EncryptBuffer(s, part)) \in Nat
      BY <2>1, LenProperties
    <3>2. from + Len(EncryptBuffer(s, part)) > MaxVectorSize
      BY <1>3, <2>1, <2>4, <3>1
    <3>3. r.status # "done" /\ Refused(s, bytes, from)
      BY <1>5, <2>2, <2>4, <3>2 DEF Thrown, Refused, part
    <3>4. QED
      BY <3>3
  <2>5. CASE ~ (Kept(s, part) > MaxVectorSize)
    <3>1. r = Done(EncryptBuffer(s, part))
      BY <2>2, <2>3, <2>5
    <3>2. r.status = "done" /\ r.bytes = EncryptBuffer(s, part)
      BY <3>1 DEF Done
    <3>3. MadeFrom(s, bytes, from, r.bytes)
      BY <1>5, <3>2 DEF MadeFrom, part
    <3>4. Kept(s, part) \in Nat
      BY <1>1, <2>1, LenProperties
    <3>5. Len(r.bytes) <= MaxVectorSize
      BY <1>3, <2>1, <2>5, <3>2, <3>4
    <3>6. QED
      BY <2>1, <3>1, <3>2, <3>3, <3>5
  <2>6. QED
    BY <2>4, <2>5
<1>6. CASE s.op = "decrypt"
  <2>1. r \in IF LacksPadding(s.mode, Full(part), Rest(part)) THEN {Thrown("MISSING_PADDING_ERROR")}
              ELSE IF Len(part) = 0 /\ null_data THEN {Done(<<>>)}
              ELSE DecryptBuffer(s, part)
    BY <1>1, <1>3, <1>4, <1>6 DEF Outcomes, DestSize
  <2> HIDE DEF size
  <2>2. CASE LacksPadding(s.mode, Full(part), Rest(part))
    <3>1. r.status # "done"
      BY <2>1, <2>2 DEF Thrown
    <3>2. Refused(s, bytes, from)
      BY <1>6, <2>2 DEF Refused, LacksPadding, part
    <3>3. QED
      BY <3>1, <3>2
  <2>3. CASE ~ LacksPadding(s.mode, Full(part), Rest(part))
    <3>1. s.mode \in PaddedMode => Rest(part) = 0 /\ Full(part) # 0
      BY <2>3 DEF LacksPadding
    <3>2. Len(part) = 0 => Done(<<>>) \in DecryptBuffer(s, part)
      <4> SUFFICES ASSUME Len(part) = 0 PROVE Done(<<>>) \in DecryptBuffer(s, part)
        OBVIOUS
      <4>1. s.mode \notin PaddedMode
        <5>1. Full(part) = 0
          BY SizesFit DEF Full
        <5>2. QED
          BY <3>1, <5>1
      <4>2. \A x : SubSeq(x, 1, Len(part)) = <<>>
        BY SubSeqEmpty
      <4>3. QED
        BY <4>1, <4>2 DEF DecryptBuffer
    <3>3. r \in DecryptBuffer(s, part)
      BY <2>1, <2>3, <3>2
    <3>4. CASE r.status # "done"
      BY <1>6, <3>3, <3>4 DEF Refused, part
    <3>5. CASE r.status = "done"
      <4>1. PICK k \in 0 .. Len(part) : r = Done(SubSeq(Decrypted(s, part), 1, k))
        BY <1>1, <3>1, <3>3, <3>5, DecryptBufferDone
      <4>2. r.bytes = SubSeq(Decrypted(s, part), 1, k)
        BY <4>1 DEF Done
      <4>3. Decrypted(s, part) \in Seq(Byte) /\ k \in 0 .. Len(Decrypted(s, part)) /\ k <= Len(part) /\ k \in Nat
        <5>1. Decrypted(s, part) \in Seq(Byte) /\ Len(part) \in 0 .. Len(Decrypted(s, part))
          BY <1>1, DecryptedFacts
        <5>2. Len(Decrypted(s, part)) \in Nat
          BY <5>1, LenProperties
        <5>3. QED
          BY <1>1, <5>1, <5>2
      <4>4. r.bytes \in Seq(Byte) /\ Len(r.bytes) = k
        BY <4>2, <4>3, CutTo
      <4>5. r = Done(r.bytes)
        BY <4>1, <4>2
      <4>6. MadeFrom(s, bytes, from, r.bytes)
        BY <1>6, <3>1, <3>3, <4>5 DEF MadeFrom, part
      <4>7. Len(r.bytes) <= MaxVectorSize
        BY <1>1, <1>3, <2>3, <4>3, <4>4
      <4>8. QED
        BY <3>5, <4>4, <4>5, <4>6, <4>7
    <3>6. QED
      BY <3>4, <3>5
  <2>4. QED
    BY <2>2, <2>3
<1>7. QED
  BY <1>2, <1>5, <1>6

LEMMA OutcomesBeyond ==
  ASSUME NEW s, Ready(s), NEW bytes \in Seq(Byte),
         NEW from \in 0 .. SizeMod - 1, from > Len(bytes),
         NEW r \in Outcomes(s, bytes, from), r.status = "done"
  PROVE  /\ MadeFrom(s, bytes, from, r.bytes)
         /\ r.bytes \in Seq(Byte) /\ Len(r.bytes) <= MaxVectorSize
<1> DEFINE size == PixelsSize(bytes, from)
           full == size \div BlockSize
           rest == size % BlockSize
           dest == DestSize(s, size)
<1>1. /\ size = SizeMod - (from - Len(bytes)) /\ size \in 1 .. SizeMod - 1
      /\ full \in Nat /\ rest \in 0 .. BlockSize - 1 /\ size = full * BlockSize + rest
      /\ (full + 1) * BlockSize = full * BlockSize + BlockSize
      /\ (full + 1) * BlockSize <= SizeMod
  BY BeyondTheEnd
<1>2. /\ ~ (dest > MaxVectorSize)
      /\ (dest = 0 /\ r = Done(<<>>)) \/ (dest # 0 /\ r \in FromOutside(s, dest))
  <2>1. \/ r \in {Thrown("MISSING_PADDING_ERROR")}
        \/ r \in IF dest > MaxVectorSize THEN {Thrown("length_error")}
                 ELSE IF dest = 0 /\ null_data THEN {Done(<<>>)}
                 ELSE IF dest = 0 THEN {Thrown("signal")} ELSE FromOutside(s, dest)
    BY DEF Outcomes
  <2> HIDE DEF dest, size
  <2>2. QED
    BY <2>1 DEF Thrown
<1>3. s.op \in {"encrypt", "decrypt"}
  BY ReadyFacts
<1>4. /\ s.op = "decrypt" => dest = size
      /\ s.op = "encrypt" /\ s.mode \in PaddedMode => dest = ((full + 1) * BlockSize + 0) % SizeMod
      /\ s.op = "encrypt" /\ s.mode \notin PaddedMode => dest = (full * BlockSize + rest) % SizeMod
  BY DEF DestSize, EncryptedSize, InBytes
<1>5. Len(bytes) \in Nat /\ from \in Nat /\ SizeMod \in Nat \ {0} /\ BlockSize \in Nat \ {0}
      /\ MaxVectorSize \in Nat /\ ByteMax \in Nat
  BY LenProperties, SizesFit
<1>6. from - Len(bytes) = SizeMod - size
  <2> HIDE DEF size, full, rest, dest
  <2>1. QED
    BY <1>1, <1>5
<1> HIDE DEF size, full, rest, dest
(* A size in bytes of whole blocks only wraps to none.                      *)
<1>7. /\ dest \in Nat
      /\ s.mode \in PaddedMode /\ s.op = "encrypt" =>
           IF dest = 0 THEN SizeMod - size <= BlockSize ELSE dest - size \in 1 .. BlockSize
      /\ s.mode \notin PaddedMode \/ s.op = "decrypt" => dest = size
  <2> DEFINE x == full * BlockSize
             y == (full + 1) * BlockSize
  <2>1. x \in Nat /\ y = x + BlockSize /\ y <= SizeMod /\ size = x + rest /\ y \in Nat
    BY <1>1, <1>5
  <2>2. CASE s.op = "decrypt"
    BY <1>1, <1>4, <2>2
  <2>3. CASE s.op = "encrypt" /\ s.mode \notin PaddedMode
    <3>1. dest = size % SizeMod
      BY <1>1, <1>4, <2>3
    <3>2. size % SizeMod = size
      BY <1>1, <1>5, Unwrapped
    <3>3. QED
      BY <1>1, <2>3, <3>1, <3>2
  <2>4. CASE s.op = "encrypt" /\ s.mode \in PaddedMode
    <3>1. dest = (y + 0) % SizeMod
      BY <1>4, <2>4
    <3> HIDE DEF x, y
    <3>2. CASE y = SizeMod
      <4>1. dest = (1 * SizeMod + 0) % SizeMod /\ 0 \in 0 .. SizeMod - 1
        BY <1>5, <3>1, <3>2
      <4>2. dest = 0
        BY <1>5, <4>1, Division
      <4>3. SizeMod - size <= BlockSize
        BY <1>1, <1>5, <2>1, <3>2
      <4>4. QED
        BY <2>4, <4>2, <4>3
    <3>3. CASE y # SizeMod
      <4>1. y \in 0 .. SizeMod - 1 /\ y + 0 = y
        BY <1>5, <2>1, <3>3
      <4>2. dest = y
        BY <1>5, <3>1, <4>1, Unwrapped
      <4>3. y # 0 /\ y - size \in 1 .. BlockSize
        BY <1>1, <1>5, <2>1
      <4>4. QED
        BY <2>1, <2>4, <4>2, <4>3
    <3>4. QED
      BY <3>2, <3>3
  <2>5. QED
    BY <1>3, <2>2, <2>3, <2>4
<1>8. CASE dest = 0
  <2>1. r = Done(<<>>) /\ s.op = "encrypt" /\ s.mode \in PaddedMode /\ SizeMod - size <= BlockSize
    BY <1>1, <1>2, <1>3, <1>7, <1>8
  <2>2. r.bytes = <<>>
    BY <2>1 DEF Done
  <2>3. r.bytes \in Seq(Byte) /\ Len(r.bytes) = 0
    BY <2>2, EmptySeq
  <2>4. QED
    BY <1>5, <1>6, <2>1, <2>2, <2>3 DEF MadeFrom
<1>9. CASE dest # 0
  <2>1. PICK n \in 0 .. dest :
          /\ r.bytes \in [1 .. n -> Stray]
          /\ IF s.op = "decrypt" /\ s.mode \in PaddedMode THEN dest - n <= ByteMax ELSE n = dest
    <3>1. r \in FromOutside(s, dest) /\ dest \in 0 .. dest
      BY <1>2, <1>7, <1>9
    <3>2. CASE s.op = "decrypt" /\ s.mode \in PaddedMode
      <4>1. PICK n \in 0 .. dest : /\ dest - n <= ByteMax
                                   /\ r \in {Done(b) : b \in [1 .. n -> Stray]}
        BY <3>1, <3>2 DEF FromOutside, Thrown
      <4>2. r.bytes \in [1 .. n -> Stray]
        BY <4>1 DEF Done
      <4>3. QED
        BY <3>2, <4>1, <4>2
    <3>3. CASE ~ (s.op = "decrypt" /\ s.mode \in PaddedMode)
      <4>1. r \in {Done(b) : b \in [1 .. dest -> Stray]}
        BY <3>1, <3>3 DEF FromOutside, Thrown
      <4>2. r.bytes \in [1 .. dest -> Stray]
        BY <4>1 DEF Done
      <4>3. QED
        BY <3>1, <3>3, <4>2
    <3>4. QED
      BY <3>2, <3>3
  <2>2. r.bytes \in Seq(Byte) /\ Len(r.bytes) = n
    <3>1. r.bytes \in [1 .. n -> Byte] /\ n \in Nat
      BY <1>7, <2>1, FileUtilityAssumption
    <3>2. r.bytes \in Seq(Byte)
      BY <3>1, SeqDef
    <3>3. QED
      BY <3>1, <3>2, LenProperties
  <2>3. n <= MaxVectorSize /\ size <= MaxVectorSize
    BY <1>1, <1>2, <1>3, <1>5, <1>7, <1>9, <2>1
  <2>4. Grown(s, size, n)
    BY <1>1, <1>3, <1>5, <1>7, <1>9, <2>1 DEF Grown
  <2>5. QED
    BY <2>2, <2>3, <2>4 DEF MadeFrom, size
<1>10. QED
  BY <1>8, <1>9
-----------------------------------------------------------------------------
(***************************************************************************)
(* The inductive invariant.                                                *)
(***************************************************************************)
(* Files and what is made of them.                                          *)
FileText == {bytes \in Seq(Byte) : Len(bytes) <= MaxVectorSize}

Offset == 0 .. SizeMod - 1

Located(s, bytes, from) ==
  /\ from \in Offset
  /\ s.kind = "file" => from = 0
  /\ s.kind = "bmp" /\ Len(bytes) >= FieldEnd => from = BfOffBits[bytes[FieldEnd]]

ResultOf(s, bytes, from, all) ==
  \E pixels \in Seq(Byte) :
    /\ Len(pixels) <= MaxVectorSize
    /\ MadeFrom(s, bytes, from, pixels)
    /\ ReplacedSize(from, pixels) <= MaxVectorSize
    /\ all = ReplacePixels(bytes, from, pixels)

FileTypes ==
  /\ disk \in [Paths -> Seq(Byte) \cup {Missing}] /\ was \in [Paths -> Seq(Byte) \cup {Missing}]
  /\ queue \in Seq(Settings) /\ settings \in Settings
  /\ step \in {"start", "measure", "read", "locate", "crypt", "open", "write", "close", "ended"}
  /\ buffer \in FileText /\ offset \in Offset /\ result \in FileText
  /\ exit \in {-1, 0, 1, 2} /\ faults \in Nat
  /\ opened \in BOOLEAN /\ unflushed \in BOOLEAN

(* How far the utility has got.                                             *)
Progress ==
  /\ step = "ended" <=> exit # -1
  /\ step # "ended" => message = <<>> /\ ~ unflushed
  /\ step \in {"write", "close"} => opened
  /\ step \in {"start", "measure", "read", "locate", "crypt", "open"} => ~ opened
  /\ exit = 0 => opened \/ Damaged
  /\ opened => message = <<>>
  /\ opened /\ ~ Damaged /\ exit \in {1, 2} => faults > 0
  /\ unflushed => faults > 0
  /\ step = "read" => Input # Missing

(* What it has got by then.                                                 *)
Holds ==
  /\ step \notin {"start", "ended"} \/ opened \/ exit = 0 => Ready(settings)
  /\ step \in {"crypt", "open", "write", "close"} \/ opened \/ exit = 0 =>
       Located(settings, buffer, offset)
  /\ step \in {"open", "write", "close"} \/ opened \/ exit = 0 =>
       ResultOf(settings, buffer, offset, result)

OnDisk ==
  /\ ~ opened => disk = was
  /\ opened /\ ~ Damaged =>
       /\ \A p \in Paths \ {settings.output_path} : disk[p] = was[p]
       /\ Output \in Seq(Byte) /\ IsPrefix(Output, result)
  /\ step = "write" => Output = <<>>
  /\ exit = 0 /\ ~ Damaged => Output = result \/ unflushed

(* Why a utility fails that meets no fault.                                 *)
Reason ==
  \/ ~ Ready(settings)
  \/ was[settings.input_path] = Missing
  \/ was[settings.input_path] # Missing /\ Len(was[settings.input_path]) > MaxVectorSize
  \/ /\ buffer = was[settings.input_path]
     /\ \/ settings.kind = "bmp" /\ Len(buffer) < FieldEnd
        \/ Located(settings, buffer, offset) /\ Refused(settings, buffer, offset)

Faultless ==
  faults = 0 =>
    /\ step \in {"locate", "crypt", "open", "write", "close"} \/ exit = 0 =>
         buffer = was[settings.input_path]
    /\ exit \in {1, 2} => Reason

(* The run before this one.                                                 *)
Preceded ==
  \A before \in Range(origin) :
    before.opened =>
      /\ Ready(before.settings) /\ before.buffer \in FileText
      /\ Located(before.settings, before.buffer, before.offset)
      /\ ResultOf(before.settings, before.buffer, before.offset, before.result)
      /\ faults = 0 /\ ~ (Len(before.result) < before.offset) =>
           was[before.settings.output_path] = before.result

FileInv == FileTypes /\ Progress /\ Holds /\ OnDisk /\ Faultless /\ Preceded

-----------------------------------------------------------------------------
(* A utility that ends without a whole result on the disk.                  *)
LEMMA EndingKeeps ==
  ASSUME FileInv, step # "ended", step' = "ended", exit' \in {1, 2},
         UNCHANGED <<disk, control, buffer, offset, result, opened, unflushed>>,
         faults' \in Nat, faults' >= faults,
         opened => faults' > 0 /\ message' = message,
         faults' = 0 => Reason
  PROVE  FileInv'
<1>1. /\ disk' = disk /\ queue' = queue /\ settings' = settings /\ was' = was /\ origin' = origin
      /\ buffer' = buffer /\ offset' = offset /\ result' = result
      /\ opened' = opened /\ unflushed' = unflushed
  BY DEF control
<1>2. faults \in Nat /\ ~ unflushed
  BY DEF FileInv, FileTypes, Progress
<1>3. FileTypes'
  BY <1>1 DEF FileInv, FileTypes
<1>4. Progress'
  BY <1>1, <1>2 DEF FileInv, FileTypes, Progress, Damaged
<1>5. Holds'
  BY <1>1 DEF FileInv, Holds, Ready, Located, ResultOf
<1>6. OnDisk'
  BY <1>1 DEF FileInv, OnDisk, Output, Damaged
<1>7. Faultless'
  BY <1>1, <1>2 DEF FileInv, Faultless, Reason, Input
<1>8. Preceded'
  BY <1>1, <1>2 DEF FileInv, Preceded
<1>9. QED
  BY <1>3, <1>4, <1>5, <1>6, <1>7, <1>8 DEF FileInv

LEMMA RefuseMissingIvKeeps ==
  ASSUME FileInv, RefuseMissingIv PROVE FileInv'
<1>1. /\ step = "start" /\ settings.mode # "ECB" /\ settings.iv = <<>>
      /\ step' = "ended" /\ exit' = 1 /\ faults' = faults
      /\ UNCHANGED <<disk, control, buffer, offset, result, opened, unflushed>>
  BY DEF RefuseMissingIv, RequiresInitVector, End
<1>2. ~ opened /\ faults \in Nat /\ ~ Ready(settings)
  BY <1>1 DEF FileInv, FileTypes, Progress, Ready
<1>3. QED
  BY <1>1, <1>2, EndingKeeps DEF Reason

LEMMA RefuseTextKeeps ==
  ASSUME FileInv, RefuseText PROVE FileInv'
<1>1. /\ step = "start" /\ ~ TextsReadable
      /\ step' = "ended" /\ exit' = 1 /\ faults' = faults
      /\ UNCHANGED <<disk, control, buffer, offset, result, opened, unflushed>>
  BY DEF RefuseText, End
<1>2. ~ opened /\ faults \in Nat /\ ~ Ready(settings)
  BY <1>1 DEF FileInv, FileTypes, Progress, Ready, TextsReadable, RequiresInitVector
<1>3. QED
  BY <1>1, <1>2, EndingKeeps DEF Reason

LEMMA InputFailsKeeps ==
  ASSUME FileInv, InputFails PROVE FileInv'
<1>1. /\ step \in {"measure", "read"}
      /\ \/ Input = Missing /\ faults' = faults
         \/ Input # Missing /\ Len(Input) > MaxVectorSize /\ faults' = faults
         \/ faults' = faults + 1
      /\ step' = "ended" /\ exit' = 1
      /\ UNCHANGED <<disk, control, buffer, offset, result, opened, unflushed>>
  BY DEF InputFails, Fault, End
<1>2. ~ opened /\ faults \in Nat /\ disk = was
  BY <1>1 DEF FileInv, FileTypes, Progress, OnDisk
<1>3. faults' \in Nat /\ faults' >= faults /\ (faults' = 0 => Reason)
  BY <1>1, <1>2 DEF Reason, Input
<1>4. QED
  BY <1>1, <1>2, <1>3, EndingKeeps

LEMMA HeaderFaultsKeeps ==
  ASSUME FileInv, HeaderFaults PROVE FileInv'
<1>1. /\ step = "locate" /\ settings.kind = "bmp" /\ Len(buffer) < FieldEnd
      /\ step' = "ended" /\ exit' = 2 /\ faults' = faults
      /\ UNCHANGED <<disk, control, buffer, offset, result, opened, unflushed>>
  BY DEF HeaderFaults, End
<1>2. ~ opened /\ faults \in Nat /\ (faults = 0 => buffer = was[settings.input_path])
  BY <1>1 DEF FileInv, FileTypes, Progress, Faultless
<1>3. QED
  BY <1>1, <1>2, EndingKeeps DEF Reason

(* Every outcome of a box is one of the two.                                *)
LEMMA OutcomesAre ==
  ASSUME NEW s, Ready(s), NEW bytes \in FileText, NEW from \in Offset,
         NEW r \in Outcomes(s, bytes, from)
  PROVE  /\ r.status = "done" => /\ MadeFrom(s, bytes, from, r.bytes)
                                 /\ r.bytes \in Seq(Byte) /\ Len(r.bytes) <= MaxVectorSize
         /\ r.status # "done" => Refused(s, bytes, from)
<1>1. bytes \in Seq(Byte) /\ Len(bytes) <= MaxVectorSize /\ Len(bytes) \in Nat
      /\ from \in 0 .. SizeMod - 1 /\ from \in Nat
  BY LenProperties, SizesFit DEF FileText, Offset
<1>2. CASE from <= Len(bytes)
  BY <1>1, <1>2, OutcomesWithin
<1>3. CASE from > Len(bytes)
  <2>1. r.status = "done" => /\ MadeFrom(s, bytes, from, r.bytes)
                            /\ r.bytes \in Seq(Byte) /\ Len(r.bytes) <= MaxVectorSize
    BY <1>1, <1>3, OutcomesBeyond
  <2>2. Refused(s, bytes, from)
    BY <1>3 DEF Refused
  <2>3. QED
    BY <2>1, <2>2
<1>4. QED
  BY <1>1, <1>2, <1>3

(* The sum of the offset and the pixels' size, wrapped or not.              *)
LEMMA SizeOfSum ==
  ASSUME NEW from \in Offset, NEW pixels \in Seq(Byte), Len(pixels) <= MaxVectorSize
  PROVE  /\ from \in Nat /\ Len(pixels) \in Nat /\ ReplacedSize(from, pixels) \in Nat
         /\ from + Len(pixels) < SizeMod => /\ ReplacedSize(from, pixels) = from + Len(pixels)
                                           /\ ~ (ReplacedSize(from, pixels) < from)
         /\ ~ (from + Len(pixels) < SizeMod) =>
              /\ ReplacedSize(from, pixels) = from + Len(pixels) - SizeMod
              /\ ReplacedSize(from, pixels) < from
              /\ Len(pixels) - ReplacedSize(from, pixels) \in 1 .. Len(pixels)
<1> DEFINE n == Len(pixels)
           sum == from + n
           size == ReplacedSize(from, pixels)
<1>1. /\ n \in Nat /\ from \in Nat /\ from < SizeMod /\ n < SizeMod
      /\ SizeMod \in Nat \ {0} /\ sum \in Nat
  BY LenProperties, SizesFit DEF Offset
<1>2. size = sum % SizeMod
  BY DEF ReplacedSize
<1> HIDE DEF n, size
<1>3. sum < SizeMod => size = sum
  <2> HIDE DEF sum
  <2>1. QED
    BY <1>1, <1>2, Unwrapped
<1>4. ~ (sum < SizeMod) => size = sum - SizeMod
  <2> SUFFICES ASSUME ~ (sum < SizeMod) PROVE size = sum - SizeMod
    OBVIOUS
  <2> DEFINE r == sum - SizeMod
  <2>1. r \in 0 .. SizeMod - 1 /\ sum = 1 * SizeMod + r
    BY <1>1
  <2> HIDE DEF r, sum
  <2>2. sum % SizeMod = r
    BY <1>1, <2>1, Division
  <2>3. QED
    BY <1>2, <2>2 DEF r
<1>5. QED
  BY <1>1, <1>3, <1>4 DEF n, size

LEMMA CryptFailsKeeps ==
  ASSUME FileInv, CryptFails PROVE FileInv'
<1>1. PICK outcome \in Outcomes(settings, buffer, offset) :
        /\ outcome.status # "done" \/ ReplacedSize(offset, outcome.bytes) > MaxVectorSize
        /\ End(IF outcome.status = "signal" THEN 2 ELSE 1)
  BY DEF CryptFails
<1>2. /\ step = "crypt" /\ step' = "ended" /\ exit' \in {1, 2} /\ faults' = faults
      /\ UNCHANGED <<disk, control, buffer, offset, result, opened, unflushed>>
  BY <1>1 DEF CryptFails, End
<1>3. ~ opened /\ faults \in Nat /\ (faults = 0 => buffer = was[settings.input_path])
      /\ Ready(settings) /\ Located(settings, buffer, offset)
      /\ buffer \in FileText /\ offset \in Offset
  BY <1>2 DEF FileInv, FileTypes, Progress, Faultless, Holds
<1>4. Refused(settings, buffer, offset)
  <2>1. CASE outcome.status # "done"
    BY <1>3, <2>1, OutcomesAre
  <2>2. CASE outcome.status = "done"
    <3> DEFINE pixels == outcome.bytes
    <3>1. /\ MadeFrom(settings, buffer, offset, pixels)
          /\ pixels \in Seq(Byte) /\ Len(pixels) <= MaxVectorSize
      BY <1>3, <2>2, OutcomesAre
    <3>2. ReplacedSize(offset, pixels) > MaxVectorSize
      BY <1>1, <2>2
    <3> HIDE DEF pixels
    <3>3. CASE offset > Len(buffer)
      BY <3>3 DEF Refused
    <3>4. CASE ~ (offset > Len(buffer))
      <4>1. offset + Len(pixels) > MaxVectorSize
        <5>1. offset <= MaxVectorSize /\ offset \in Nat /\ Len(pixels) \in Nat
          BY <1>3, <3>1, <3>4, SizesFit, LenProperties DEF FileText, Offset
        <5>2. offset + Len(pixels) < SizeMod
          BY <3>1, <5>1, SizesFit
        <5>3. QED
          BY <1>3, <3>1, <3>2, <5>2, SizeOfSum
      <4>2. settings.op \in {"encrypt", "decrypt"}
        BY <1>3, ReadyFacts
      <4>3. /\ settings.op = "encrypt" => pixels = EncryptBuffer(settings, Part(buffer, offset))
            /\ settings.op = "decrypt" => Done(pixels) \in DecryptBuffer(settings, Part(buffer, offset))
        BY <3>1, <3>4 DEF MadeFrom
      <4>4. Done(pixels).bytes = pixels
        BY DEF Done
      <4>5. QED
        BY <4>1, <4>2, <4>3, <4>4 DEF Refused
    <3>5. QED
      BY <3>3, <3>4
  <2>3. QED
    BY <2>1, <2>2
<1>5. faults = 0 => Reason
  BY <1>3, <1>4 DEF Reason
<1>6. QED
  BY <1>2, <1>3, <1>5, EndingKeeps

LEMMA OutOfMemoryKeeps ==
  ASSUME FileInv, OutOfMemory PROVE FileInv'
<1>1. /\ step \in {"read", "crypt"} /\ step' = "ended" /\ exit' = 1 /\ faults' = faults + 1
      /\ UNCHANGED <<disk, control, buffer, offset, result, opened, unflushed>>
  BY DEF OutOfMemory, Fault, End
<1>2. ~ opened /\ faults \in Nat
  BY <1>1 DEF FileInv, FileTypes, Progress
<1>3. QED
  BY <1>1, <1>2, EndingKeeps

LEMMA OutputFailsKeeps ==
  ASSUME FileInv, OutputFails PROVE FileInv'
<1>1. /\ step = "open" /\ step' = "ended" /\ exit' = 1 /\ faults' = faults + 1
      /\ UNCHANGED <<disk, control, buffer, offset, result, opened, unflushed>>
  BY DEF OutputFails, Fault, End
<1>2. ~ opened /\ faults \in Nat
  BY <1>1 DEF FileInv, FileTypes, Progress
<1>3. QED
  BY <1>1, <1>2, EndingKeeps

LEMMA KillKeeps ==
  ASSUME FileInv, Kill PROVE FileInv'
<1>1. /\ step # "ended" /\ step' = "ended" /\ exit' = 2 /\ faults' = faults + 1 /\ message' = message
      /\ UNCHANGED <<disk, control, buffer, offset, result, opened, unflushed>>
  BY DEF Kill, Fault, End
<1>2. faults \in Nat
  BY <1>1 DEF FileInv, FileTypes
<1>3. QED
  BY <1>1, <1>2, EndingKeeps

-----------------------------------------------------------------------------
(* A utility that goes on without touching the disk.                        *)
LEMMA GoingOnKeeps ==
  ASSUME FileInv, ~ opened, UNCHANGED <<disk, control, exit, message, opened, unflushed>>,
         step \in {"start", "measure", "read", "locate", "crypt"},
         step' \in {"measure", "read", "locate", "crypt", "open"},
         step' = "read" => Input # Missing,
         Ready(settings),
         buffer' \in FileText, offset' \in Offset, result' \in FileText,
         faults' \in Nat, faults' >= faults,
         step' \in {"crypt", "open"} => Located(settings, buffer', offset'),
         step' = "open" => ResultOf(settings, buffer', offset', result'),
         faults' = 0 /\ step' \in {"locate", "crypt", "open"} => buffer' = was[settings.input_path]
  PROVE  FileInv'
<1>1. /\ disk' = disk /\ queue' = queue /\ settings' = settings /\ was' = was /\ origin' = origin
      /\ opened' = opened /\ unflushed' = unflushed /\ exit' = exit /\ message' = message
  BY DEF control
<1>2. faults \in Nat /\ ~ unflushed /\ exit = -1 /\ message = <<>>
  BY DEF FileInv, FileTypes, Progress
<1>3. FileTypes'
  BY <1>1 DEF FileInv, FileTypes
<1>4. Progress'
  BY <1>1, <1>2 DEF FileInv, FileTypes, Progress, Input
<1>5. Holds'
  BY <1>1, <1>2 DEF FileInv, Holds
<1>6. OnDisk'
  BY <1>1, <1>2 DEF FileInv, OnDisk, Output, Damaged
<1>7. Faultless'
  BY <1>1, <1>2 DEF FileInv, Faultless
<1>8. Preceded'
  BY <1>1, <1>2 DEF FileInv, Preceded
<1>9. QED
  BY <1>3, <1>4, <1>5, <1>6, <1>7, <1>8 DEF FileInv

LEMMA InitBoxKeeps ==
  ASSUME FileInv, InitBox PROVE FileInv'
<1>1. /\ step = "start" /\ step' = "measure" /\ faults' = faults
      /\ UNCHANGED <<disk, control, exit, message, opened, unflushed>>
      /\ buffer' = buffer /\ offset' = offset /\ result' = result
  BY DEF InitBox
<1>2. /\ ~ opened /\ faults \in Nat /\ buffer \in FileText /\ offset \in Offset /\ result \in FileText
      /\ settings \in Settings
  BY <1>1 DEF FileInv, FileTypes, Progress
<1>3. Ready(settings)
  BY <1>2 DEF InitBox, Ready, TextsReadable, RequiresInitVector
<1>4. QED
  BY <1>1, <1>2, <1>3, GoingOnKeeps

LEMMA GetFileSizeKeeps ==
  ASSUME FileInv, GetFileSize PROVE FileInv'
<1>1. /\ step = "measure" /\ step' = "read" /\ faults' = faults /\ Input # Missing
      /\ UNCHANGED <<disk, control, exit, message, opened, unflushed>>
      /\ buffer' = buffer /\ offset' = offset /\ result' = result
  BY DEF GetFileSize
<1>2. /\ ~ opened /\ faults \in Nat /\ buffer \in FileText /\ offset \in Offset /\ result \in FileText
      /\ Ready(settings)
  BY <1>1 DEF FileInv, FileTypes, Progress, Holds
<1>3. QED
  BY <1>1, <1>2, GoingOnKeeps

(* What read_file finds.                                                    *)
LEMMA InputIsText ==
  ASSUME FileInv, step = "read"
  PROVE  Input \in Seq(Byte) /\ Input = was[settings.input_path] /\ Ready(settings) /\ ~ opened
<1>1. /\ Input # Missing /\ ~ opened /\ disk = was /\ Ready(settings) /\ settings \in Settings
      /\ disk \in [Paths -> Seq(Byte) \cup {Missing}]
  BY DEF FileInv, FileTypes, Progress, OnDisk, Holds
<1>2. settings.input_path \in Paths
  BY <1>1 DEF Settings
<1>3. QED
  BY <1>1, <1>2 DEF Input

LEMMA ReadFileKeeps ==
  ASSUME FileInv, ReadFile PROVE FileInv'
<1>1. /\ step = "read" /\ step' = "locate" /\ faults' = faults
      /\ UNCHANGED <<disk, control, exit, message, opened, unflushed>>
      /\ buffer' = Input /\ offset' = offset /\ result' = result
  BY DEF ReadFile
<1>2. /\ faults \in Nat /\ offset \in Offset /\ result \in FileText
  BY <1>1 DEF FileInv, FileTypes
<1>3. Input \in FileText /\ Input = was[settings.input_path] /\ Ready(settings) /\ ~ opened
  BY <1>1, InputIsText DEF ReadFile, FileText
<1>4. QED
  BY <1>1, <1>2, <1>3, GoingOnKeeps

LEMMA CutOfText ==
  ASSUME NEW bytes \in Seq(Byte), NEW cut \in Prefixes(bytes)
  PROVE  cut \in Seq(Byte) /\ IsPrefix(cut, bytes)
<1>1. Len(bytes) \in Nat
  BY LenProperties
<1>2. PICK k \in 0 .. Len(bytes) : cut = SubSeq(bytes, 1, k)
  BY DEF Prefixes
<1>3. cut \in Seq(Byte) /\ Len(cut) = k /\ \A j \in 1 .. k : cut[j] = bytes[j]
  BY <1>1, <1>2, CutTo
<1>4. QED
  BY <1>1, <1>3, CutFacts

LEMMA ReadIsCutKeeps ==
  ASSUME FileInv, ReadIsCut PROVE FileInv'
<1>1. /\ step = "read" /\ step' = "locate" /\ faults' = faults + 1
      /\ UNCHANGED <<disk, control, exit, message, opened, unflushed>>
      /\ buffer' \in Prefixes(Input) /\ Len(buffer') <= MaxVectorSize
      /\ offset' = offset /\ result' = result
  BY DEF ReadIsCut, Fault
<1>2. /\ faults \in Nat /\ offset \in Offset /\ result \in FileText
  BY <1>1 DEF FileInv, FileTypes
<1>3. Input \in Seq(Byte) /\ Ready(settings) /\ ~ opened
  BY <1>1, InputIsText
<1>4. buffer' \in FileText
  BY <1>1, <1>3, CutOfText DEF FileText
<1>5. QED
  BY <1>1, <1>2, <1>3, <1>4, GoingOnKeeps

LEMMA ExtractPixelsOffsetKeeps ==
  ASSUME FileInv, ExtractPixelsOffset PROVE FileInv'
<1>1. /\ step = "locate" /\ step' = "crypt" /\ faults' = faults
      /\ UNCHANGED <<disk, control, exit, message, opened, unflushed>>
      /\ buffer' = buffer /\ result' = result
      /\ offset' \in IF settings.kind = "file" THEN {0}
                     ELSE {BfOffBits[byte] :
                             byte \in IF Len(buffer) < FieldEnd THEN Byte ELSE {buffer[FieldEnd]}}
  BY DEF ExtractPixelsOffset
<1>2. /\ ~ opened /\ faults \in Nat /\ buffer \in FileText /\ result \in FileText
      /\ Ready(settings) /\ settings.kind \in {"file", "bmp"}
      /\ faults = 0 => buffer = was[settings.input_path]
  BY <1>1 DEF FileInv, FileTypes, Progress, Holds, Faultless, Settings
<1>3. offset' \in Offset
  <2>1. Len(buffer) \in Nat /\ buffer \in Seq(Byte) /\ FieldEnd \in Nat \ {0}
    BY <1>2, LenProperties, FileUtilityAssumption DEF FileText
  <2>2. Len(buffer) >= FieldEnd => FieldEnd \in 1 .. Len(buffer)
    BY <2>1
  <2>3. Len(buffer) >= FieldEnd => buffer[FieldEnd] \in Byte
    BY <2>1, <2>2, ElementOfSeq
  <2>4. 0 \in Offset /\ \A byte \in Byte : BfOffBits[byte] \in Offset
    BY SizesFit, FileUtilityAssumption DEF Offset
  <2>5. QED
    BY <1>1, <2>1, <2>3, <2>4
<1>4. Located(settings, buffer', offset')
  <2>1. Len(buffer) \in Nat /\ FieldEnd \in Nat
    BY <1>2, LenProperties, FileUtilityAssumption DEF FileText
  <2>2. QED
    BY <1>1, <1>2, <1>3, <2>1 DEF Located
<1>5. QED
  BY <1>1, <1>2, <1>3, <1>4, GoingOnKeeps

LEMMA ReplacePixelsType ==
  ASSUME NEW bytes \in Seq(Byte), NEW from \in Nat, NEW pixels \in Seq(Byte),
         ~ (ReplacedSize(from, pixels) < from)
  PROVE  LET all == ReplacePixels(bytes, from, pixels)
         IN  /\ all \in Seq(Byte) /\ Len(all) = from + Len(pixels)
             /\ \A j \in 1 .. from : all[j] = IF j <= Len(bytes) THEN bytes[j] ELSE 0
             /\ \A j \in 1 .. Len(pixels) : all[from + j] = pixels[j]
<1> DEFINE head == [i \in 1 .. from |-> IF i <= Len(bytes) THEN bytes[i] ELSE 0]
<1>1. Len(bytes) \in Nat /\ Len(pixels) \in Nat
  BY LenProperties
<1>2. \A j \in 1 .. from : head[j] \in Byte
  <2>1. \A j \in 1 .. from : j <= Len(bytes) => j \in 1 .. Len(bytes)
    BY <1>1
  <2>2. 0 \in Byte
    BY SizesFit DEF Byte
  <2>3. QED
    BY <2>1, <2>2, ElementOfSeq
<1>3. head \in [1 .. from -> Byte] /\ \A j \in 1 .. from : head[j] = IF j <= Len(bytes) THEN bytes[j] ELSE 0
  BY <1>2
<1>4. ReplacePixels(bytes, from, pixels) = head \o pixels
  BY DEF ReplacePixels
<1> HIDE DEF head
<1>5. head \in Seq(Byte)
  BY <1>3, SeqDef
<1>6. Len(head) = from
  BY <1>3, <1>5, LenProperties
<1>7. /\ head \o pixels \in Seq(Byte) /\ Len(head \o pixels) = from + Len(pixels)
      /\ \A j \in 1 .. from + Len(pixels) :
           (head \o pixels)[j] = IF j <= from THEN head[j] ELSE pixels[j - from]
  <2>1. /\ head \o pixels \in Seq(Byte) /\ Len(head \o pixels) = Len(head) + Len(pixels)
        /\ \A j \in 1 .. Len(head) + Len(pixels) :
             (head \o pixels)[j] = IF j <= Len(head) THEN head[j] ELSE pixels[j - Len(head)]
    BY <1>5, ConcatProperties
  <2>2. QED
    BY <1>6, <2>1
<1>8. \A j \in 1 .. from : j \in 1 .. from + Len(pixels) /\ j <= from
  BY <1>1
<1>9. \A j \in 1 .. Len(pixels) :
        from + j \in 1 .. from + Len(pixels) /\ ~ (from + j <= from) /\ (from + j) - from = j
  BY <1>1
<1>10. QED
  BY <1>3, <1>4, <1>7, <1>8, <1>9

(* What replace_pixels makes of the buffer when the sum does not wrap.      *)
LEMMA ReplacedInPlace ==
  ASSUME NEW bytes \in Seq(Byte), NEW from \in Offset, NEW pixels \in Seq(Byte),
         Len(pixels) <= MaxVectorSize, from + Len(pixels) < SizeMod,
         NEW all, all = ReplacePixels(bytes, from, pixels)
  PROVE  /\ all \in Seq(Byte) /\ Len(all) = from + Len(pixels)
         /\ \A j \in 1 .. from : all[j] = IF j <= Len(bytes) THEN bytes[j] ELSE 0
         /\ \A j \in 1 .. Len(pixels) : all[from + j] = pixels[j]
<1>1. from \in Nat /\ ~ (ReplacedSize(from, pixels) < from)
  BY SizeOfSum
<1>2. QED
  BY <1>1, ReplacePixelsType

(* And when it does.                                                        *)
LEMMA ReplacedInFront ==
  ASSUME NEW bytes \in Seq(Byte), NEW from \in Offset, NEW pixels \in Seq(Byte),
         Len(pixels) <= MaxVectorSize, ~ (from + Len(pixels) < SizeMod),
         NEW all, all = ReplacePixels(bytes, from, pixels)
  PROVE  /\ all \in Seq(Byte) /\ Len(all) = from + Len(pixels) - SizeMod
         /\ Len(all) < from
<1> DEFINE size == ReplacedSize(from, pixels)
           k == Len(pixels) - size
<1>1. /\ size < from /\ size \in Nat /\ size = from + Len(pixels) - SizeMod
      /\ k \in 1 .. Len(pixels) /\ Len(pixels) \in Nat
  BY SizeOfSum
<1>2. all = SubSeq(pixels, k + 1, Len(pixels))
  BY <1>1 DEF ReplacePixels
<1> HIDE DEF size
<1>3. k \in 0 .. Len(pixels) /\ Len(pixels) - k = size
  BY <1>1
<1> HIDE DEF k
<1>4. all \in Seq(Byte) /\ Len(all) = size
  BY <1>2, <1>3, BytesBehind
<1>5. QED
  BY <1>1, <1>4

(* What the utilities write fits into a vector.  It is shorter than the     *)
(* offset when the sum wraps, and only then; and that takes an offset       *)
(* beyond the end and within a vector's size of the largest size_t.         *)
LEMMA ResultFacts ==
  ASSUME NEW s, Ready(s), NEW bytes \in FileText, NEW from \in Offset, NEW all,
         ResultOf(s, bytes, from, all)
  PROVE  /\ all \in FileText
         /\ Len(all) < from => /\ from > Len(bytes)
                               /\ from - Len(bytes) + MaxVectorSize >= SizeMod
                               /\ Grown(s, Len(bytes), Len(all))
         /\ ~ (Len(all) < from) =>
              \E pixels \in Seq(Byte) :
                /\ Len(pixels) <= MaxVectorSize /\ from + Len(pixels) < SizeMod
                /\ all = ReplacePixels(bytes, from, pixels)
                /\ MadeFrom(s, bytes, from, pixels)
                /\ from > Len(bytes) =>
                     /\ from - Len(bytes) <= BlockSize
                     /\ pixels = <<>> /\ s.op = "encrypt" /\ s.mode \in PaddedMode
<1>1. PICK pixels \in Seq(Byte) : /\ Len(pixels) <= MaxVectorSize
                                  /\ MadeFrom(s, bytes, from, pixels)
                                  /\ ReplacedSize(from, pixels) <= MaxVectorSize
                                  /\ all = ReplacePixels(bytes, from, pixels)
  BY DEF ResultOf
<1> DEFINE n == Len(pixels)
           len == Len(bytes)
<1>2. /\ bytes \in Seq(Byte) /\ len \in Nat /\ len <= MaxVectorSize
      /\ from \in Nat /\ from < SizeMod /\ n \in Nat /\ n <= MaxVectorSize
      /\ MaxVectorSize \in Nat /\ SizeMod \in Nat /\ ByteMax \in Nat /\ BlockSize \in Nat \ {0}
      /\ MaxVectorSize + ByteMax + BlockSize < SizeMod /\ 2 * MaxVectorSize < SizeMod
  BY <1>1, LenProperties, SizesFit DEF FileText, Offset
<1>3. s.op \in {"encrypt", "decrypt"}
  BY ReadyFacts
<1>4. CASE from + n < SizeMod
  <2>1. all \in Seq(Byte) /\ Len(all) = from + n /\ ReplacedSize(from, pixels) = from + n
    BY <1>1, <1>2, <1>4, ReplacedInPlace, SizeOfSum
  <2>2. all \in FileText /\ ~ (Len(all) < from) /\ from + n <= MaxVectorSize
    BY <1>1, <1>2, <2>1 DEF FileText
  <2>3. ASSUME from > len
        PROVE  /\ from - len <= BlockSize
               /\ pixels = <<>> /\ s.op = "encrypt" /\ s.mode \in PaddedMode
    <3> SUFFICES ASSUME PixelsSize(bytes, from) <= MaxVectorSize, Grown(s, PixelsSize(bytes, from), n)
                 PROVE  FALSE
      BY <1>1, <1>2, <2>3 DEF MadeFrom
    <3> DEFINE size == PixelsSize(bytes, from)
    <3>1. size = SizeMod - (from - len)
      BY <1>2, <2>3, BeyondTheEnd
    <3> HIDE DEF size, n, len
    <3>2. size = n \/ n - size \in 1 .. BlockSize \/ size - n \in 0 .. ByteMax
      BY DEF Grown, size, n
    <3>3. QED
      BY <1>2, <1>4, <2>2, <2>3, <3>1, <3>2
  <2>4. QED
    BY <1>1, <1>4, <2>2, <2>3
<1>5. CASE ~ (from + n < SizeMod)
  <2>1. /\ all \in Seq(Byte) /\ Len(all) = from + n - SizeMod /\ Len(all) < from
        /\ ReplacedSize(from, pixels) = from + n - SizeMod
    <3>1. all \in Seq(Byte) /\ Len(all) = from + n - SizeMod /\ Len(all) < from
      <4>1. bytes \in Seq(Byte) /\ ~ (from + Len(pixels) < SizeMod)
        BY <1>2, <1>5
      <4>2. QED
        BY <1>1, <4>1, ReplacedInFront
    <3>2. ReplacedSize(from, pixels) = from + n - SizeMod
      BY <1>1, <1>5, SizeOfSum
    <3>3. QED
      BY <3>1, <3>2
  <2>2. all \in FileText
    BY <1>1, <2>1 DEF FileText
  <2>3. from > len /\ n # 0
    BY <1>2, <1>5
  <2>4. PixelsSize(bytes, from) <= MaxVectorSize /\ Grown(s, PixelsSize(bytes, from), n)
    <3>1. n = 0 \/ (PixelsSize(bytes, from) <= MaxVectorSize /\ Grown(s, PixelsSize(bytes, from), n))
      BY <1>1, <1>2, <2>3, EmptySeq DEF MadeFrom
    <3>2. QED
      BY <2>3, <3>1
  <2> DEFINE size == PixelsSize(bytes, from)
             made == Len(all)
  <2>5. size = SizeMod - (from - len) /\ size \in Nat
    BY <1>2, <2>3, BeyondTheEnd
  <2>6. made = from + n - SizeMod /\ made \in Nat
    BY <1>2, <1>5, <2>1
  <2> HIDE DEF size, made, n, len
  <2>7. made - len = n - size /\ len - made = size - n
    BY <1>2, <2>5, <2>6
  <2>8. Grown(s, len, made)
    <3>1. Grown(s, size, n)
      BY <2>4 DEF size
    <3>2. made = len <=> n = size
      BY <1>2, <2>5, <2>6
    <3>3. QED
      BY <2>7, <3>1, <3>2 DEF Grown
  <2>9. from - len + MaxVectorSize >= SizeMod
    BY <1>2, <2>4, <2>5 DEF size
  <2>10. QED
    BY <2>1, <2>2, <2>3, <2>8, <2>9 DEF made, len
<1>6. QED
  BY <1>4, <1>5

LEMMA CryptKeeps ==
  ASSUME FileInv, Crypt PROVE FileInv'
<1>1. PICK outcome \in Outcomes(settings, buffer, offset) :
        /\ outcome.status = "done"
        /\ ReplacedSize(offset, outcome.bytes) <= MaxVectorSize
        /\ result' = ReplacePixels(buffer, offset, outcome.bytes)
  BY DEF Crypt
<1>2. /\ step = "crypt" /\ step' = "open" /\ faults' = faults
      /\ UNCHANGED <<disk, control, exit, message, opened, unflushed>>
      /\ buffer' = buffer /\ offset' = offset
  BY DEF Crypt
<1>3. /\ ~ opened /\ faults \in Nat /\ buffer \in FileText /\ offset \in Offset
      /\ Ready(settings) /\ Located(settings, buffer, offset)
      /\ faults = 0 => buffer = was[settings.input_path]
  BY <1>2 DEF FileInv, FileTypes, Progress, Holds, Faultless
<1>4. /\ MadeFrom(settings, buffer, offset, outcome.bytes)
      /\ outcome.bytes \in Seq(Byte) /\ Len(outcome.bytes) <= MaxVectorSize
  BY <1>1, <1>3, OutcomesAre
<1>5. ResultOf(settings, buffer, offset, result')
  BY <1>1, <1>4 DEF ResultOf
<1>6. result' \in FileText
  BY <1>3, <1>5, ResultFacts
<1>7. QED
  BY <1>2, <1>3, <1>5, <1>6, GoingOnKeeps

-----------------------------------------------------------------------------
(* A utility that has a whole result and writes it.                         *)
Puts(bytes) ==
  /\ disk' = [disk EXCEPT ![settings.output_path] = bytes]
  /\ UNCHANGED <<control, buffer, offset, result, message>>
  /\ opened' = TRUE
  /\ IsPrefix(bytes, result)
  /\ \/ step' = "write" /\ bytes = <<>> /\ exit' = -1
     \/ step' = "close" /\ exit' = -1
     \/ step' = "ended" /\ exit' = 0 /\ (bytes = result \/ unflushed')
     \/ step' = "ended" /\ exit' = 1 /\ faults' > 0
  /\ unflushed' \in BOOLEAN /\ (unflushed' => faults' > 0 /\ step' = "ended")
  /\ faults' \in Nat /\ faults' >= faults

LEMMA PuttingKeeps ==
  ASSUME FileInv, step \in {"open", "write", "close"}, NEW bytes \in Seq(Byte), Puts(bytes)
  PROVE  FileInv'
<1>1. /\ queue' = queue /\ settings' = settings /\ was' = was /\ origin' = origin
      /\ buffer' = buffer /\ offset' = offset /\ result' = result /\ message' = message
      /\ disk' = [disk EXCEPT ![settings.output_path] = bytes]
      /\ opened' = TRUE /\ IsPrefix(bytes, result)
  BY DEF control, Puts
<1>2. /\ \/ step' = "write" /\ bytes = <<>> /\ exit' = -1
         \/ step' = "close" /\ exit' = -1
         \/ step' = "ended" /\ exit' = 0 /\ (bytes = result \/ unflushed')
         \/ step' = "ended" /\ exit' = 1 /\ faults' > 0
      /\ unflushed' \in BOOLEAN /\ (unflushed' => faults' > 0 /\ step' = "ended")
      /\ faults' \in Nat /\ faults' >= faults
  BY DEF Puts
<1>3. faults \in Nat /\ message = <<>> /\ settings \in Settings
      /\ disk \in [Paths -> Seq(Byte) \cup {Missing}]
  BY DEF FileInv, FileTypes, Progress
<1>4. settings.output_path \in Paths /\ settings.input_path \in Paths
  BY <1>3 DEF Settings
<1>5. /\ disk' \in [Paths -> Seq(Byte) \cup {Missing}]
      /\ disk'[settings.output_path] = bytes
      /\ \A p \in Paths \ {settings.output_path} : disk'[p] = disk[p]
  BY <1>1, <1>3, <1>4
<1>6. FileTypes'
  BY <1>1, <1>2, <1>5 DEF FileInv, FileTypes
<1>7. Progress'
  BY <1>1, <1>2, <1>3 DEF FileInv, FileTypes, Progress, Damaged
<1>8. Holds'
  BY <1>1 DEF FileInv, Holds
<1>9. OnDisk'
  <2>1. Output' = bytes
    BY <1>1, <1>5 DEF Output
  <2>2. Damaged' \/ \A p \in Paths \ {settings'.output_path} : disk'[p] = was'[p]
    BY <1>1, <1>5 DEF FileInv, OnDisk, Damaged
  <2>3. QED
    BY <1>1, <1>2, <2>1, <2>2 DEF OnDisk
<1>10. Faultless'
  BY <1>1, <1>2, <1>3 DEF FileInv, Faultless
<1>11. Preceded'
  BY <1>1, <1>2, <1>3 DEF FileInv, Preceded
<1>12. QED
  BY <1>6, <1>7, <1>8, <1>9, <1>10, <1>11 DEF FileInv

LEMMA NothingIsText == <<>> \in FileText /\ <<>> \in Seq(Byte) /\ 0 \in Offset
<1>1. <<>> \in Seq(Byte) /\ Len(<<>>) = 0
  BY EmptySeq
<1>2. 0 <= MaxVectorSize
  BY SizesFit
<1>3. 0 \in Offset
  BY SizesFit DEF Offset
<1>4. QED
  BY <1>1, <1>2, <1>3 DEF FileText

LEMMA NothingIsPrefix ==
  ASSUME NEW bytes \in Seq(Byte)
  PROVE  IsPrefix(<<>>, bytes)
<1>1. <<>> \in Seq(Byte) /\ Len(<<>>) = 0 /\ Len(bytes) \in Nat
  BY EmptySeq, LenProperties
<1> DEFINE none == <<>>
<1>2. none \in Seq(Byte) /\ Len(none) = 0
  BY <1>1
<1> HIDE DEF none
<1>3. Len(none) <= Len(bytes) /\ \A j \in 1 .. Len(none) : none[j] = bytes[j]
  BY <1>1, <1>2
<1>4. IsPrefix(none, bytes)
  BY <1>2, <1>3, CutFacts
<1>5. QED
  BY <1>4 DEF none

LEMMA OpenOutputKeeps ==
  ASSUME FileInv, OpenOutput PROVE FileInv'
<1>1. /\ step = "open" /\ step' = "write" /\ opened' = TRUE
      /\ disk' = [disk EXCEPT ![settings.output_path] = <<>>]
      /\ UNCHANGED <<control, buffer, offset, result, message>>
      /\ exit' = exit /\ faults' = faults /\ unflushed' = unflushed
  BY DEF OpenOutput
<1>2. exit = -1 /\ faults \in Nat /\ unflushed = FALSE /\ result \in Seq(Byte)
  BY <1>1 DEF FileInv, FileTypes, Progress, FileText
<1>3. <<>> \in Seq(Byte) /\ IsPrefix(<<>>, result)
  BY <1>2, NothingIsText, NothingIsPrefix
<1>4. /\ opened' = TRUE /\ unflushed' \in BOOLEAN /\ ~ unflushed'
      /\ faults' \in Nat /\ faults' >= faults
  <2>1. opened' = TRUE /\ unflushed' = FALSE
    BY <1>1, <1>2
  <2>2. faults' \in Nat /\ faults' >= faults
    BY <1>1, <1>2
  <2>3. QED
    BY <2>1, <2>2
<1>5. Puts(<<>>)
  <2>1. /\ disk' = [disk EXCEPT ![settings.output_path] = <<>>]
        /\ UNCHANGED <<control, buffer, offset, result, message>>
        /\ step' = "write" /\ exit' = -1
    BY <1>1, <1>2
  <2>2. QED
    BY <1>3, <1>4, <2>1 DEF Puts
<1>6. QED
  BY <1>1, <1>3, <1>5, PuttingKeeps

LEMMA WriteKeeps ==
  ASSUME FileInv, Write PROVE FileInv'
<1>1. PICK bytes \in Prefixes(result) : disk' = [disk EXCEPT ![settings.output_path] = bytes]
  BY DEF Write, Reaches
<1>2. /\ step = "write" /\ step' = "close" /\ opened' = opened
      /\ UNCHANGED <<control, buffer, offset, result, message>>
      /\ exit' = exit /\ faults' = faults /\ unflushed' = unflushed
  BY DEF Write
<1>3. exit = -1 /\ faults \in Nat /\ unflushed = FALSE /\ opened = TRUE /\ result \in FileText
  BY <1>2 DEF FileInv, FileTypes, Progress
<1>4. bytes \in Seq(Byte) /\ IsPrefix(bytes, result)
  BY <1>3, CutOfText DEF FileText
<1>5. /\ opened' = TRUE /\ unflushed' \in BOOLEAN /\ ~ unflushed'
      /\ faults' \in Nat /\ faults' >= faults
  <2>1. opened' = TRUE /\ unflushed' = FALSE
    BY <1>2, <1>3
  <2>2. faults' \in Nat /\ faults' >= faults
    BY <1>2, <1>3
  <2>3. QED
    BY <2>1, <2>2
<1>6. Puts(bytes)
  <2>1. UNCHANGED <<control, buffer, offset, result, message>> /\ step' = "close" /\ exit' = -1
    BY <1>2, <1>3
  <2>2. QED
    BY <1>1, <1>4, <1>5, <2>1 DEF Puts
<1>7. QED
  BY <1>2, <1>4, <1>6, PuttingKeeps

LEMMA WriteFailsKeeps ==
  ASSUME FileInv, WriteFails PROVE FileInv'
<1>1. PICK bytes \in Prefixes(result) : disk' = [disk EXCEPT ![settings.output_path] = bytes]
  BY DEF WriteFails, Reaches
<1>2. /\ step = "write" /\ step' = "ended" /\ exit' = 1 /\ opened' = opened
      /\ UNCHANGED <<control, buffer, offset, result, message>>
      /\ faults' = faults + 1 /\ unflushed' = unflushed
  BY DEF WriteFails, Fault, End
<1>3. faults \in Nat /\ unflushed = FALSE /\ opened = TRUE /\ result \in FileText
  BY <1>2 DEF FileInv, FileTypes, Progress
<1>4. bytes \in Seq(Byte) /\ IsPrefix(bytes, result)
  BY <1>3, CutOfText DEF FileText
<1>5. /\ opened' = TRUE /\ unflushed' \in BOOLEAN /\ ~ unflushed'
      /\ faults' \in Nat /\ faults' >= faults /\ faults' > 0
  <2>1. opened' = TRUE /\ unflushed' = FALSE
    BY <1>2, <1>3
  <2>2. faults' \in Nat /\ faults' >= faults /\ faults' > 0
    BY <1>2, <1>3
  <2>3. QED
    BY <2>1, <2>2
<1>6. Puts(bytes)
  <2>1. UNCHANGED <<control, buffer, offset, result, message>> /\ step' = "ended" /\ exit' = 1
    BY <1>2
  <2>2. QED
    BY <1>1, <1>4, <1>5, <2>1 DEF Puts
<1>7. QED
  BY <1>2, <1>4, <1>6, PuttingKeeps

LEMMA CloseKeeps ==
  ASSUME FileInv, Close PROVE FileInv'
<1>1. /\ step = "close" /\ step' = "ended" /\ exit' = 0 /\ opened' = opened
      /\ disk' = [disk EXCEPT ![settings.output_path] = result]
      /\ UNCHANGED <<control, buffer, offset, result, message>>
      /\ faults' = faults /\ unflushed' = unflushed
  BY DEF Close, Reaches, End
<1>2. faults \in Nat /\ unflushed = FALSE /\ opened = TRUE /\ result \in Seq(Byte)
  BY <1>1 DEF FileInv, FileTypes, Progress, FileText
<1>3. IsPrefix(result, result)
  BY <1>2, CutFacts, LenProperties
<1>4. /\ opened' = TRUE /\ unflushed' \in BOOLEAN /\ ~ unflushed'
      /\ faults' \in Nat /\ faults' >= faults
  <2>1. opened' = TRUE /\ unflushed' = FALSE
    BY <1>1, <1>2
  <2>2. faults' \in Nat /\ faults' >= faults
    BY <1>1, <1>2
  <2>3. QED
    BY <2>1, <2>2
<1>5. Puts(result)
  <2>1. /\ disk' = [disk EXCEPT ![settings.output_path] = result]
        /\ UNCHANGED <<control, buffer, offset, result, message>>
        /\ step' = "ended" /\ exit' = 0
    BY <1>1
  <2>2. QED
    BY <1>3, <1>4, <2>1 DEF Puts
<1>6. QED
  BY <1>1, <1>2, <1>5, PuttingKeeps

LEMMA CloseFailsKeeps ==
  ASSUME FileInv, CloseFails PROVE FileInv'
<1>1. PICK bytes \in Prefixes(result) : disk' = [disk EXCEPT ![settings.output_path] = bytes]
  BY DEF CloseFails, Reaches
<1>2. /\ step = "close" /\ step' = "ended" /\ exit' = 0 /\ opened' = opened
      /\ UNCHANGED <<control, buffer, offset, result, message>>
      /\ faults' = faults + 1 /\ unflushed' = TRUE
  BY DEF CloseFails, Fault, End
<1>3. faults \in Nat /\ opened = TRUE /\ result \in FileText
  BY <1>2 DEF FileInv, FileTypes, Progress
<1>4. bytes \in Seq(Byte) /\ IsPrefix(bytes, result)
  BY <1>3, CutOfText DEF FileText
<1>5. Puts(bytes)
  BY <1>1, <1>2, <1>3, <1>4 DEF Puts
<1>6. QED
  BY <1>2, <1>4, <1>5, PuttingKeeps

(* Pixels were copied in front of the buffer, and anything may follow.      *)
LEMMA HeapFaultsKeeps ==
  ASSUME FileInv, HeapFaults PROVE FileInv'
<1>1. /\ step \in {"open", "write", "close"} /\ Damaged
      /\ step' = "ended" /\ exit' \in 0 .. 2
      /\ queue' = queue /\ settings' = settings /\ was' = was /\ origin' = origin
      /\ buffer' = buffer /\ offset' = offset /\ result' = result /\ message' = message
      /\ faults' = faults /\ unflushed' = unflushed
  BY DEF HeapFaults, End, control
<1>2. \/ disk' = disk /\ opened' = opened
      \/ /\ \E p \in Paths, bytes \in Prefixes(result) : disk' = [disk EXCEPT ![p] = bytes]
         /\ opened' = TRUE
  BY DEF HeapFaults
<1>3. /\ faults \in Nat /\ message = <<>> /\ ~ unflushed /\ settings \in Settings
      /\ disk \in [Paths -> Seq(Byte) \cup {Missing}]
      /\ buffer \in FileText /\ offset \in Offset /\ result \in FileText
      /\ Ready(settings) /\ Located(settings, buffer, offset)
      /\ ResultOf(settings, buffer, offset, result)
      /\ faults = 0 => buffer = was[settings.input_path]
  BY <1>1 DEF FileInv, FileTypes, Progress, Holds, Faultless
<1>4. Damaged'
  BY <1>1 DEF Damaged
<1>5. disk' \in [Paths -> Seq(Byte) \cup {Missing}]
  <2>1. \A bytes \in Prefixes(result) : bytes \in Seq(Byte)
    BY <1>3, CutOfText DEF FileText
  <2>2. QED
    BY <1>2, <1>3, <2>1
<1>6. exit' \in {0, 1, 2} /\ opened' \in BOOLEAN
  <2>1. exit' \in {0, 1, 2}
    BY <1>1
  <2>2. opened \in BOOLEAN
    BY DEF FileInv, FileTypes
  <2>3. QED
    BY <1>2, <2>1, <2>2
<1>7. FileTypes'
  BY <1>1, <1>5, <1>6 DEF FileInv, FileTypes
<1>8. Progress'
  BY <1>1, <1>3, <1>4, <1>6 DEF Progress
<1>9. Holds'
  BY <1>1, <1>3 DEF Holds
<1>10. OnDisk'
  BY <1>1, <1>2, <1>4 DEF FileInv, OnDisk
<1>11. Faultless'
  <2>1. Refused(settings, buffer, offset)
    BY <1>1, <1>3, ResultFacts DEF Damaged, Refused
  <2>2. faults = 0 => Reason
    BY <1>3, <2>1 DEF Reason
  <2>3. QED
    BY <1>1, <1>3, <2>2 DEF Faultless, Reason
<1>12. Preceded'
  BY <1>1 DEF FileInv, Preceded
<1>13. QED
  BY <1>7, <1>8, <1>9, <1>10, <1>11, <1>12 DEF FileInv

-----------------------------------------------------------------------------
LEMMA ReplaceKeeps ==
  ASSUME FileInv, Replace PROVE FileInv'
<1>1. PICK bytes \in Replacements :
        /\ disk' = [disk EXCEPT ![settings.input_path] = bytes]
        /\ was' = [was EXCEPT ![settings.input_path] = bytes]
  BY DEF Replace
<1>2. /\ step = "read" /\ faults' = faults + 1
      /\ queue' = queue /\ settings' = settings /\ origin' = origin /\ step' = step
      /\ buffer' = buffer /\ offset' = offset /\ result' = result /\ exit' = exit
      /\ message' = message /\ opened' = opened /\ unflushed' = unflushed
  BY DEF Replace, Fault
<1>3. /\ disk = was /\ ~ opened /\ faults \in Nat /\ exit = -1 /\ settings \in Settings
      /\ disk \in [Paths -> Seq(Byte) \cup {Missing}]
  BY <1>2 DEF FileInv, FileTypes, Progress, OnDisk
<1>4. bytes \in Seq(Byte) /\ bytes # Missing
  BY FileUtilityAssumption
<1>5. disk' = was' /\ disk' \in [Paths -> Seq(Byte) \cup {Missing}]
      /\ disk'[settings.input_path] = bytes
  <2>1. settings.input_path \in Paths
    BY <1>3 DEF Settings
  <2>2. QED
    BY <1>1, <1>3, <1>4, <2>1
<1>6. FileTypes'
  BY <1>2, <1>5 DEF FileInv, FileTypes
<1>7. Progress'
  BY <1>2, <1>4, <1>5 DEF FileInv, Progress, Input, Damaged
<1>8. Holds'
  BY <1>2 DEF FileInv, Holds
<1>9. OnDisk'
  BY <1>2, <1>3, <1>5 DEF OnDisk
<1>10. Faultless'
  BY <1>2, <1>3 DEF Faultless
<1>11. Preceded'
  BY <1>2, <1>3 DEF FileInv, Preceded
<1>12. QED
  BY <1>6, <1>7, <1>8, <1>9, <1>10, <1>11 DEF FileInv

LEMMA LaunchKeeps ==
  ASSUME FileInv, Launch PROVE FileInv'
<1>1. /\ step = "ended" /\ queue # <<>>
      /\ settings' = Head(queue) /\ queue' = Tail(queue)
      /\ origin' = <<[settings |-> settings, buffer |-> buffer, offset |-> offset, result |-> result,
                      opened |-> opened]>>
      /\ step' = "start" /\ buffer' = <<>> /\ offset' = 0 /\ result' = <<>>
      /\ exit' = -1 /\ message' = <<>> /\ was' = disk /\ disk' = disk
      /\ opened' = FALSE /\ unflushed' = FALSE /\ faults' = faults
  BY DEF Launch
<1>2. FileTypes'
  <2>1. queue \in Seq(Settings) /\ disk \in [Paths -> Seq(Byte) \cup {Missing}] /\ faults \in Nat
    BY DEF FileInv, FileTypes
  <2>2. Head(queue) \in Settings /\ Tail(queue) \in Seq(Settings)
    BY <1>1, <2>1, HeadTailProperties
  <2>3. <<>> \in FileText /\ 0 \in Offset
    BY NothingIsText
  <2>4. QED
    BY <1>1, <2>1, <2>2, <2>3 DEF FileTypes
<1>3. Progress' /\ Holds' /\ OnDisk' /\ Faultless'
  BY <1>1 DEF Progress, Holds, OnDisk, Faultless
<1>4. Preceded'
  <2> DEFINE b == [settings |-> settings, buffer |-> buffer, offset |-> offset, result |-> result,
                   opened |-> opened]
  <2>1. Range(origin') = {b}
    BY <1>1 DEF Range
  <2>2. /\ b.settings = settings /\ b.buffer = buffer /\ b.offset = offset /\ b.result = result
        /\ b.opened = opened
    OBVIOUS
  <2> HIDE DEF b
  <2>3. ASSUME opened
        PROVE  /\ Ready(settings) /\ buffer \in FileText
               /\ Located(settings, buffer, offset) /\ ResultOf(settings, buffer, offset, result)
               /\ faults = 0 /\ ~ (Len(result) < offset) => disk[settings.output_path] = result
    BY <1>1, <2>3 DEF FileInv, FileTypes, Progress, Holds, OnDisk, Output, Damaged
  <2>4. QED
    BY <1>1, <2>1, <2>2, <2>3 DEF Preceded
<1>5. QED
  BY <1>2, <1>3, <1>4 DEF FileInv

LEMMA InitHolds == FilesInit => FileInv
<1> SUFFICES ASSUME FilesInit PROVE FileInv
  OBVIOUS
<1>1. PICK session \in Sessions : settings = Head(session) /\ queue = Tail(session)
  BY DEF FilesInit
<1>2. /\ disk \in Disks /\ step = "start" /\ buffer = <<>> /\ offset = 0 /\ result = <<>>
      /\ exit = -1 /\ message = <<>> /\ faults = 0 /\ was = disk
      /\ opened = FALSE /\ unflushed = FALSE /\ origin = <<>>
  BY DEF FilesInit
<1>3. FileTypes
  <2>1. session \in Seq(Settings) /\ session # <<>>
    BY FileUtilityAssumption
  <2>2. settings \in Settings /\ queue \in Seq(Settings)
    BY <1>1, <2>1, HeadTailProperties
  <2>3. disk \in [Paths -> Seq(Byte) \cup {Missing}]
    BY <1>2, FileUtilityAssumption
  <2>4. <<>> \in FileText /\ 0 \in Offset
    BY NothingIsText
  <2>5. QED
    BY <1>2, <2>2, <2>3, <2>4 DEF FileTypes
<1>4. Progress /\ Holds /\ OnDisk /\ Faultless
  BY <1>2 DEF Progress, Holds, OnDisk, Faultless
<1>5. Preceded
  <2>1. Range(origin) = {}
    BY <1>2 DEF Range
  <2>2. QED
    BY <2>1 DEF Preceded
<1>6. QED
  BY <1>3, <1>4, <1>5 DEF FileInv

THEOREM FilesAreInvariant == FilesSpec => []FileInv
<1>1. ASSUME FileInv, [FilesNext]_filesVars PROVE FileInv'
  <2>1. CASE FilesNext
    BY <1>1, <2>1, LaunchKeeps, RefuseMissingIvKeeps, RefuseTextKeeps, InitBoxKeeps,
       GetFileSizeKeeps, ReplaceKeeps, ReadFileKeeps, InputFailsKeeps, ReadIsCutKeeps,
       ExtractPixelsOffsetKeeps, HeaderFaultsKeeps, CryptKeeps, CryptFailsKeeps, OutOfMemoryKeeps,
       HeapFaultsKeeps, OpenOutputKeeps, OutputFailsKeeps, WriteKeeps, WriteFailsKeeps, CloseKeeps, CloseFailsKeeps,
       KillKeeps DEF FilesNext
  <2>2. CASE UNCHANGED filesVars
    BY <1>1, <2>2 DEF filesVars, control, FileInv, FileTypes, Progress, Holds, OnDisk, Faultless, Preceded,
                      Input, Output, Damaged, Reason
  <2>3. QED
    BY <1>1, <2>1, <2>2
<1>2. QED
  BY <1>1, InitHolds, PTL DEF FilesSpec

-----------------------------------------------------------------------------
(***************************************************************************)
(* What follows from the invariant.                                        *)
(***************************************************************************)
(* No file but the output changes, and the output is a cut of the result,   *)
(* unless the heap was damaged: write_file, and everything in the utilities *)
(* that comes before it.                                                    *)
THEOREM ResultIsCut == FilesSpec => []OutputIsCut
<1>1. FileInv => OutputIsCut
  <2> SUFFICES ASSUME FileInv PROVE OutputIsCut
    OBVIOUS
  <2>1. /\ ~ opened => disk = was
        /\ opened /\ ~ Damaged => /\ \A p \in Paths \ {settings.output_path} : disk[p] = was[p]
                                  /\ IsPrefix(Output, result)
        /\ exit = 0 /\ ~ Damaged => Output = result \/ unflushed
    BY DEF FileInv, OnDisk
  <2>2. /\ opened => message = <<>>
        /\ exit = 0 /\ ~ Damaged => opened
        /\ exit = 1 /\ opened /\ ~ Damaged => faults > 0
    BY DEF FileInv, Progress
  <2>3. QED
    BY <2>1, <2>2 DEF OutputIsCut
<1>2. QED
  BY <1>1, FilesAreInvariant, PTL

(* What replace_pixels leaves of the file, and what it puts into it.        *)
LEMMA Replaced ==
  ASSUME NEW bytes \in Seq(Byte), NEW from \in Offset, NEW pixels \in Seq(Byte),
         Len(pixels) <= MaxVectorSize, from + Len(pixels) < SizeMod,
         NEW all, all = ReplacePixels(bytes, from, pixels)
  PROVE  /\ all \in Seq(Byte) /\ Len(all) = from + Len(pixels) /\ from \in 0 .. Len(all)
         /\ Part(all, from) = pixels
         /\ \A j \in 1 .. from : all[j] = IF j <= Len(bytes) THEN bytes[j] ELSE 0
         /\ \A j \in 1 .. Len(pixels) : all[from + j] = pixels[j]
<1>1. /\ all \in Seq(Byte) /\ Len(all) = from + Len(pixels) /\ Len(pixels) \in Nat /\ from \in Nat
      /\ \A j \in 1 .. from : all[j] = IF j <= Len(bytes) THEN bytes[j] ELSE 0
      /\ \A j \in 1 .. Len(pixels) : all[from + j] = pixels[j]
  BY ReplacedInPlace, SizeOfSum
<1>2. from \in 0 .. Len(all) /\ Len(all) - from = Len(pixels)
  BY <1>1
<1>3. /\ Part(all, from) \in Seq(Byte) /\ Len(Part(all, from)) = Len(pixels)
      /\ \A j \in 1 .. Len(pixels) : Part(all, from)[j] = all[from + j]
  BY <1>1, <1>2, BytesBehind DEF Part
<1>4. Part(all, from) = pixels
  BY <1>1, <1>3, SeqEqual
<1>5. QED
  BY <1>1, <1>2, <1>4

LEMMA SameHead ==
  ASSUME NEW a \in Seq(Byte), NEW b \in Seq(Byte), NEW k \in 0 .. Len(a), k <= Len(b),
         \A j \in 1 .. k : a[j] = b[j]
  PROVE  SubSeq(a, 1, k) = SubSeq(b, 1, k)
<1>1. k \in 0 .. Len(b)
  BY LenProperties
<1>2. /\ SubSeq(a, 1, k) \in Seq(Byte) /\ Len(SubSeq(a, 1, k)) = k
      /\ \A j \in 1 .. k : SubSeq(a, 1, k)[j] = a[j]
  BY CutTo
<1>3. /\ SubSeq(b, 1, k) \in Seq(Byte) /\ Len(SubSeq(b, 1, k)) = k
      /\ \A j \in 1 .. k : SubSeq(b, 1, k)[j] = b[j]
  BY <1>1, CutTo
<1>4. QED
  BY <1>2, <1>3, SeqEqual

(* What is made of the bytes behind the offset follows the mode.            *)
LEMMA MadeFollows ==
  ASSUME NEW s, Ready(s), NEW bytes \in Seq(Byte), NEW from \in 0 .. Len(bytes),
         NEW pixels, MadeFrom(s, bytes, from, pixels)
  PROVE  /\ Part(bytes, from) \in Seq(Byte)
         /\ s.op = "encrypt" =>
              /\ Follows(s, Part(bytes, from), pixels)
              /\ Len(pixels) = Kept(s, Part(bytes, from))
         /\ s.op = "decrypt" =>
              /\ Follows(s, pixels, Part(bytes, from))
              /\ s.mode \notin PaddedMode => Len(pixels) = Len(Part(bytes, from))
<1> DEFINE read == Part(bytes, from)
<1>1. read \in Seq(Byte)
  BY BytesBehind DEF Part
<1>2. /\ s.op = "encrypt" => pixels = EncryptBuffer(s, read)
      /\ s.op = "decrypt" =>
           /\ s.mode \in PaddedMode => Full(read) # 0
           /\ Done(pixels) \in DecryptBuffer(s, read)
  <2>1. ~ (from > Len(bytes))
    BY LenProperties
  <2>2. QED
    BY <2>1 DEF MadeFrom
<1> HIDE DEF read
<1>3. CASE s.op = "encrypt"
  <2>1. Follows(s, read, EncryptBuffer(s, read))
    BY <1>1, <1>3, EncryptBufferFollows
  <2>2. Len(EncryptBuffer(s, read)) = Kept(s, read)
    BY <1>1, EncryptBufferFacts
  <2>3. QED
    BY <1>1, <1>2, <1>3, <2>1, <2>2 DEF read
<1>4. CASE s.op = "decrypt"
  <2> DEFINE r == Done(pixels)
  <2>1. r \in DecryptBuffer(s, read) /\ r.status = "done" /\ r.bytes = pixels
    BY <1>2, <1>4 DEF Done
  <2> HIDE DEF r
  <2>2. s.mode \in PaddedMode => Full(read) # 0
    BY <1>2, <1>4
  <2>3. PICK k \in 0 .. Len(read) : /\ r = Done(SubSeq(Decrypted(s, read), 1, k))
                                    /\ s.mode \notin PaddedMode => k = Len(read)
    BY <1>1, <2>1, <2>2, DecryptBufferDone
  <2>4. pixels = SubSeq(Decrypted(s, read), 1, k)
    BY <2>1, <2>3 DEF Done
  <2>5. Follows(s, SubSeq(Decrypted(s, read), 1, k), read)
    BY <1>1, <1>4, DecryptBufferFollows
  <2>6. Len(pixels) = k
    <3>1. Decrypted(s, read) \in Seq(Byte) /\ Len(read) \in 0 .. Len(Decrypted(s, read))
      BY <1>1, DecryptedFacts
    <3>2. k \in 0 .. Len(Decrypted(s, read))
      BY <1>1, <3>1, LenProperties
    <3>3. QED
      BY <2>4, <3>1, <3>2, CutTo
  <2>7. QED
    BY <1>1, <1>4, <2>3, <2>4, <2>5, <2>6 DEF read
<1>5. s.op \in {"encrypt", "decrypt"}
  BY ReadyFacts
<1>6. QED
  BY <1>3, <1>4, <1>5

(* The part before the offset is written as it is, the rest as the mode     *)
(* says; an offset beyond the end is either within a block of it, and       *)
(* nothing is encrypted, or so large that the sizes wrap around: the        *)
(* utilities around Box::encrypt_buffer and Box::decrypt_buffer.            *)
THEOREM WrittenFollowsMode == FilesSpec => []PixelsFollowMode
<1>1. ASSUME FileInv, exit = 0, ~ unflushed
      PROVE  /\ buffer \in FileText /\ offset \in Offset /\ Ready(settings)
             /\ ResultOf(settings, buffer, offset, result)
             /\ ~ Damaged => Output = result
  BY <1>1 DEF FileInv, FileTypes, Progress, Holds, OnDisk
<1>2. ASSUME FileInv, exit = 0, ~ unflushed, Damaged PROVE PixelsFollowMode
  <2>1. /\ buffer \in FileText /\ offset \in Offset /\ Ready(settings)
        /\ ResultOf(settings, buffer, offset, result)
    BY <1>1, <1>2
  <2>2. /\ offset > Len(buffer) /\ offset - Len(buffer) + MaxVectorSize >= SizeMod
        /\ Grown(settings, Len(buffer), Len(result))
    BY <1>2, <2>1, ResultFacts DEF Damaged
  <2>3. ~ (offset <= Len(buffer))
    BY <2>1, <2>2, LenProperties DEF FileText, Offset
  <2>4. QED
    BY <1>2, <2>2, <2>3 DEF PixelsFollowMode, Grown
<1>3. ASSUME FileInv, exit = 0, ~ unflushed, ~ Damaged PROVE PixelsFollowMode
  <2> DEFINE s == settings
             read == Part(buffer, offset)
             written == Part(Output, offset)
             plain == IF s.op = "encrypt" THEN read ELSE written
             coded == IF s.op = "encrypt" THEN written ELSE read
             padded == s.mode \in PaddedMode
  <2>1. Output = result /\ buffer \in FileText /\ offset \in Offset
        /\ Ready(s) /\ ResultOf(s, buffer, offset, result)
    BY <1>1, <1>3
  <2>2. buffer \in Seq(Byte) /\ Len(buffer) \in Nat /\ offset \in Nat
    BY <2>1, LenProperties DEF FileText, Offset
  <2>3. PICK pixels \in Seq(Byte) :
          /\ Len(pixels) <= MaxVectorSize /\ offset + Len(pixels) < SizeMod
          /\ MadeFrom(s, buffer, offset, pixels)
          /\ Output = ReplacePixels(buffer, offset, pixels)
          /\ offset > Len(buffer) =>
               /\ offset - Len(buffer) <= BlockSize
               /\ pixels = <<>> /\ s.op = "encrypt" /\ s.mode \in PaddedMode
    BY <1>3, <2>1, ResultFacts DEF Damaged
  <2>4. /\ Output \in Seq(Byte) /\ Len(Output) = offset + Len(pixels) /\ offset \in 0 .. Len(Output)
        /\ written = pixels /\ Len(pixels) \in Nat
        /\ \A j \in 1 .. offset : Output[j] = IF j <= Len(buffer) THEN buffer[j] ELSE 0
    BY <2>1, <2>2, <2>3, Replaced, LenProperties
  <2>5. s.mode \in Mode /\ s.op \in {"encrypt", "decrypt"}
    BY <2>1, ReadyFacts
  <2>6. ASSUME offset <= Len(buffer)
        PROVE  /\ SubSeq(Output, 1, offset) = SubSeq(buffer, 1, offset)
               /\ Follows(s, plain, coded)
               /\ padded /\ s.op = "encrypt" => Len(coded) = (Full(plain) + 1) * BlockSize
               /\ ~ padded => Len(coded) = Len(plain)
    <3>1. SubSeq(Output, 1, offset) = SubSeq(buffer, 1, offset)
      <4>1. \A j \in 1 .. offset : Output[j] = buffer[j]
        BY <2>2, <2>4, <2>6
      <4>2. QED
        BY <2>2, <2>4, <2>6, <4>1, SameHead
    <3>2. offset \in 0 .. Len(buffer)
      BY <2>2, <2>6
    <3>3. /\ s.op = "encrypt" => Follows(s, read, pixels) /\ Len(pixels) = Kept(s, read)
          /\ s.op = "decrypt" =>
               /\ Follows(s, pixels, read)
               /\ s.mode \notin PaddedMode => Len(pixels) = Len(read)
      <4> HIDE DEF s
      <4>1. QED
        BY <2>1, <2>2, <2>3, <3>2, MadeFollows
    <3> HIDE DEF read, written, s
    <3>4. CASE s.op = "encrypt"
      BY <2>4, <3>1, <3>3, <3>4 DEF Kept
    <3>5. CASE s.op = "decrypt"
      BY <2>4, <3>1, <3>3, <3>5
    <3>6. QED
      BY <2>5, <3>4, <3>5 DEF s
  <2>7. ASSUME offset > Len(buffer)
        PROVE  /\ padded /\ s.op = "encrypt" /\ offset - Len(buffer) <= BlockSize
               /\ Len(Output) = offset
               /\ \A i \in 1 .. offset : Output[i] = IF i <= Len(buffer) THEN buffer[i] ELSE 0
    <3>1. Len(Output) = offset
      BY <2>2, <2>3, <2>4, <2>7
    <3>2. QED
      BY <2>3, <2>4, <2>7, <3>1
  <2>8. ASSUME Follows(s, plain, coded)
        PROVE  \A n \in DOMAIN [m \in 1 .. Full(plain) |-> BlockAt(plain, m)] :
                 Encrypts(s.mode, s.key, InitVector(s), [m \in 1 .. Full(plain) |-> BlockAt(plain, m)],
                          [m \in 1 .. Full(coded) |-> BlockAt(coded, m)], n)
    <3> HIDE DEF plain, coded, s
    <3>1. QED
      BY <2>8 DEF Follows, BlocksOf
  <2>9. QED
    BY <1>3, <2>6, <2>7, <2>8 DEF PixelsFollowMode, Part
<1>4. FileInv => PixelsFollowMode
  BY <1>2, <1>3 DEF PixelsFollowMode
<1>5. QED
  BY <1>4, FilesAreInvariant, PTL

-----------------------------------------------------------------------------
(* A run that decrypts: with settings t, it has read a cut of what a run    *)
(* with settings s made of the bytes b from offset o on.                    *)
Undone(s, b, o, whole, t, cut) ==
  /\ Twins(s, t) /\ t.kind = s.kind
  /\ b \in FileText /\ Located(s, b, o) /\ ResultOf(s, b, o, whole)
  /\ cut \in Seq(Byte) /\ IsPrefix(cut, whole)
  /\ s.kind = "bmp" => Len(cut) >= FieldEnd /\ o \in FieldEnd .. Len(b)

(* What the run that encrypted has made, and where the other one begins.    *)
LEMMA WhatWasMade ==
  ASSUME NEW s, NEW b, NEW o, NEW whole, NEW t, NEW cut, Undone(s, b, o, whole, t, cut)
  PROVE  /\ o \in 0 .. Len(b) /\ o \in Nat
         /\ Part(b, o) \in Seq(Byte) /\ Len(Part(b, o)) = Len(b) - o
         /\ \A j \in 1 .. Len(b) - o : Part(b, o)[j] = b[o + j]
         /\ whole \in FileText /\ whole \in Seq(Byte) /\ o \in 0 .. Len(whole)
         /\ Part(whole, o) = EncryptBuffer(s, Part(b, o))
         /\ Len(EncryptBuffer(s, Part(b, o))) <= MaxVectorSize
         /\ \A j \in 1 .. o : whole[j] = b[j]
<1>1. /\ b \in Seq(Byte) /\ Len(b) \in Nat /\ Len(b) <= MaxVectorSize /\ FieldEnd \in Nat \ {0}
      /\ s.kind \in {"file", "bmp"} /\ s.op = "encrypt"
  BY LenProperties, FileUtilityAssumption DEF Undone, Twins, Ready, Settings, FileText
<1>2. o \in 0 .. Len(b)
  <2>1. CASE s.kind = "file"
    BY <1>1, <2>1 DEF Undone, Located
  <2>2. CASE s.kind = "bmp"
    BY <1>1, <2>2 DEF Undone
  <2>3. QED
    BY <1>1, <2>1, <2>2
<1>3. /\ Part(b, o) \in Seq(Byte) /\ Len(Part(b, o)) = Len(b) - o
      /\ \A j \in 1 .. Len(b) - o : Part(b, o)[j] = b[o + j]
  BY <1>1, <1>2, BytesBehind DEF Part
<1>4. PICK pixels \in Seq(Byte) : /\ Len(pixels) <= MaxVectorSize
                                  /\ MadeFrom(s, b, o, pixels)
                                  /\ whole = ReplacePixels(b, o, pixels)
  BY DEF Undone, ResultOf
<1>5. pixels = EncryptBuffer(s, Part(b, o))
  BY <1>1, <1>2, <1>4 DEF MadeFrom
<1>6. o \in Nat /\ o \in Offset /\ o + Len(pixels) < SizeMod
  <2>1. Len(pixels) \in Nat
    BY LenProperties
  <2>2. QED
    BY <1>1, <1>2, <1>4, <2>1, SizesFit DEF Offset
<1>7. /\ whole \in Seq(Byte) /\ o \in 0 .. Len(whole) /\ Part(whole, o) = pixels
      /\ \A j \in 1 .. o : whole[j] = IF j <= Len(b) THEN b[j] ELSE 0
  BY <1>1, <1>4, <1>6, Replaced
<1>8. \A j \in 1 .. o : whole[j] = b[j]
  BY <1>1, <1>2, <1>7
<1>9. whole \in FileText
  BY <1>6, ResultFacts DEF Undone, Twins
<1>10. QED
  BY <1>2, <1>3, <1>4, <1>5, <1>6, <1>7, <1>8, <1>9

LEMMA SameOffset ==
  ASSUME NEW s, NEW b, NEW o, NEW whole, NEW t, NEW cut, Undone(s, b, o, whole, t, cut),
         NEW from, Located(t, cut, from)
  PROVE  from = o
<1>1. /\ s.kind \in {"file", "bmp"} /\ t.kind = s.kind /\ Located(s, b, o)
      /\ b \in Seq(Byte) /\ Len(b) \in Nat /\ FieldEnd \in Nat \ {0}
  BY LenProperties, FileUtilityAssumption DEF Undone, Twins, Ready, Settings, FileText
<1>2. CASE s.kind = "file"
  BY <1>1, <1>2 DEF Located
<1>3. CASE s.kind = "bmp"
  <2>1. Len(cut) >= FieldEnd /\ o \in FieldEnd .. Len(b)
    BY <1>3 DEF Undone
  <2>2. from = BfOffBits[cut[FieldEnd]]
    BY <1>1, <1>3, <2>1 DEF Located
  <2>3. o = BfOffBits[b[FieldEnd]]
    <3>1. Len(b) >= FieldEnd
      BY <1>1, <2>1
    <3>2. QED
      BY <1>1, <1>3, <3>1 DEF Located
  <2>4. /\ whole \in Seq(Byte) /\ cut \in Seq(Byte) /\ IsPrefix(cut, whole)
        /\ \A j \in 1 .. o : whole[j] = b[j]
    BY WhatWasMade DEF Undone
  <2>5. cut[FieldEnd] = whole[FieldEnd]
    <3>1. \A j \in 1 .. Len(cut) : cut[j] = whole[j]
      BY <2>4, CutFacts
    <3>2. FieldEnd \in 1 .. Len(cut)
      BY <1>1, <2>1, <2>4, LenProperties
    <3>3. QED
      BY <3>1, <3>2
  <2>6. FieldEnd \in 1 .. o
    BY <1>1, <2>1
  <2>7. QED
    BY <2>2, <2>3, <2>4, <2>5, <2>6
<1>4. QED
  BY <1>1, <1>2, <1>3

(* The part of the cut that is decrypted.                                   *)
LEMMA CutOfWhole ==
  ASSUME NEW s, NEW b, NEW o, NEW whole, NEW t, NEW cut, Undone(s, b, o, whole, t, cut),
         o <= Len(cut)
  PROVE  /\ Part(cut, o) \in Seq(Byte)
         /\ IsPrefix(Part(cut, o), EncryptBuffer(s, Part(b, o)))
         /\ \A j \in 1 .. o : cut[j] = b[j]
<1>1. /\ cut \in Seq(Byte) /\ whole \in Seq(Byte) /\ Len(cut) \in Nat /\ Len(whole) \in Nat
      /\ o \in Nat /\ o \in 0 .. Len(whole) /\ Part(whole, o) = EncryptBuffer(s, Part(b, o))
      /\ \A j \in 1 .. o : whole[j] = b[j]
      /\ IsPrefix(cut, whole)
  BY WhatWasMade, LenProperties DEF Undone
<1>2. Len(cut) <= Len(whole) /\ \A j \in 1 .. Len(cut) : cut[j] = whole[j]
  BY <1>1, CutFacts
<1>3. o \in 0 .. Len(cut)
  BY <1>1
<1>4. /\ Part(cut, o) \in Seq(Byte) /\ Len(Part(cut, o)) = Len(cut) - o
      /\ \A j \in 1 .. Len(cut) - o : Part(cut, o)[j] = cut[o + j]
  BY <1>1, <1>3, BytesBehind DEF Part
<1>5. /\ Part(whole, o) \in Seq(Byte) /\ Len(Part(whole, o)) = Len(whole) - o
      /\ \A j \in 1 .. Len(whole) - o : Part(whole, o)[j] = whole[o + j]
  BY <1>1, BytesBehind DEF Part
<1>6. Len(Part(cut, o)) <= Len(Part(whole, o))
  BY <1>1, <1>2, <1>4, <1>5
<1>7. \A j \in 1 .. Len(Part(cut, o)) : Part(cut, o)[j] = Part(whole, o)[j]
  <2>1. \A j \in 1 .. Len(cut) - o : o + j \in 1 .. Len(cut) /\ j \in 1 .. Len(whole) - o
    BY <1>1, <1>2
  <2>2. QED
    BY <1>2, <1>4, <1>5, <2>1
<1>8. IsPrefix(Part(cut, o), Part(whole, o))
  BY <1>4, <1>5, <1>6, <1>7, CutFacts
<1>9. \A j \in 1 .. o : cut[j] = b[j]
  BY <1>1, <1>2
<1>10. QED
  BY <1>1, <1>4, <1>8, <1>9

(* The whole of what was made is neither too long nor lacks its padding.    *)
LEMMA WholeIsLeft ==
  ASSUME NEW s, NEW t, Twins(s, t), NEW bytes \in Seq(Byte)
  PROVE  LeftOf(s, t, bytes, EncryptBuffer(s, bytes))
<1> DEFINE e == EncryptBuffer(s, bytes)
<1>1. Ready(s)
  BY DEF Twins
<1>2. e \in Seq(Byte) /\ Len(e) = Kept(s, bytes)
  BY <1>1, EncryptBufferFacts
<1> HIDE DEF e
<1>3. IsPrefix(e, e)
  BY <1>2, LenProperties, CutFacts
<1>4. s.mode \in PaddedMode => Rest(e) = 0 /\ Full(e) # 0
  <2> SUFFICES ASSUME s.mode \in PaddedMode PROVE Rest(e) = 0 /\ Full(e) # 0
    OBVIOUS
  <2> DEFINE q == Full(bytes) + 1
             x == q * BlockSize
  <2>1. q \in Nat \ {0} /\ BlockSize \in Nat \ {0} /\ x \in Nat
    BY FullAndRest, BlockSizeAssumption
  <2>2. Len(e) = x
    BY <1>2 DEF Kept
  <2>3. x = q * BlockSize + 0
    BY <2>1
  <2> HIDE DEF x
  <2>4. Len(e) = q * BlockSize + 0 /\ 0 \in 0 .. BlockSize - 1
    BY <2>1, <2>2, <2>3
  <2> HIDE DEF q
  <2>5. Full(e) = q /\ Rest(e) = 0
    BY <1>2, <2>1, <2>4, FullOf
  <2>6. QED
    BY <2>1, <2>5
<1>5. QED
  BY <1>2, <1>3, <1>4 DEF LeftOf, e

LEMMA WholeIsNotRefused ==
  ASSUME NEW s, NEW b, NEW o, NEW whole, NEW t, Undone(s, b, o, whole, t, whole)
  PROVE  ~ Refused(t, whole, o)
<1> DEFINE bytes == Part(b, o)
           e == EncryptBuffer(s, bytes)
<1>1. /\ o \in Nat /\ bytes \in Seq(Byte) /\ whole \in Seq(Byte) /\ o \in 0 .. Len(whole)
      /\ Part(whole, o) = e
      /\ Len(b) \in Nat /\ Len(b) <= MaxVectorSize /\ Len(bytes) = Len(b) - o
  BY WhatWasMade, LenProperties DEF Undone, FileText
<1>2. Twins(s, t) /\ t.op = "decrypt" /\ t.mode = s.mode
  BY DEF Undone, Twins
<1>3. LeftOf(s, t, bytes, e)
  BY <1>1, <1>2, WholeIsLeft
<1>4. DecryptBuffer(t, e) = {Done(bytes)}
  BY <1>3, DecryptionOfCut
<1>5. s.mode \in PaddedMode => Rest(e) = 0 /\ Full(e) # 0
  BY <1>3 DEF LeftOf
<1> HIDE DEF bytes, e
<1>6. ~ (o > Len(whole)) /\ ~ (o + Len(bytes) > MaxVectorSize)
  BY <1>1, SizesFit, LenProperties
<1>7. \A r \in DecryptBuffer(t, e) : ~ (r.status # "done" \/ o + Len(r.bytes) > MaxVectorSize)
  BY <1>4, <1>6 DEF Done
<1>8. QED
  BY <1>1, <1>2, <1>5, <1>6, <1>7 DEF Refused

(* What the run that decrypts makes of the cut.                             *)
LEMMA UndoneIsCut ==
  ASSUME NEW s, NEW b, NEW o, NEW whole, NEW t, NEW cut, Undone(s, b, o, whole, t, cut),
         NEW all, ResultOf(t, cut, o, all)
  PROVE  /\ all \in Seq(Byte) /\ IsPrefix(all, b) /\ ~ (Len(all) < o)
         /\ cut = whole => all = b
<1> DEFINE bytes == Part(b, o)
           e == EncryptBuffer(s, bytes)
           left == Part(cut, o)
<1>1. /\ Twins(s, t) /\ t.op = "decrypt" /\ t.mode = s.mode
      /\ b \in Seq(Byte) /\ cut \in Seq(Byte) /\ Len(b) \in Nat /\ Len(cut) \in Nat
      /\ Len(b) <= MaxVectorSize /\ Ready(t)
  BY LenProperties, TwinsReady DEF Undone, Twins, FileText
<1>2. /\ o \in 0 .. Len(b) /\ o \in Nat
      /\ bytes \in Seq(Byte) /\ Len(bytes) = Len(b) - o
      /\ \A j \in 1 .. Len(b) - o : bytes[j] = b[o + j]
      /\ Part(whole, o) = e
  BY WhatWasMade
<1>3. cut \in FileText /\ o \in Offset
  <2>1. whole \in FileText /\ IsPrefix(cut, whole) /\ Len(whole) \in Nat
    BY WhatWasMade, LenProperties DEF Undone
  <2>2. Len(cut) <= Len(whole)
    BY <1>1, <2>1, CutFacts DEF FileText
  <2>3. QED
    BY <1>1, <1>2, <2>1, <2>2, SizesFit DEF FileText, Offset
(* No cut is so short that the sizes could wrap around.                      *)
<1>4. ~ (Len(all) < o)
  <2> SUFFICES ASSUME Len(all) < o PROVE FALSE
    OBVIOUS
  <2>1. o - Len(cut) + MaxVectorSize >= SizeMod
    BY <1>1, <1>3, ResultFacts
  <2>2. QED
    BY <1>1, <1>2, <2>1, SizesFit
<1>5. PICK pixels \in Seq(Byte) :
        /\ Len(pixels) <= MaxVectorSize /\ o + Len(pixels) < SizeMod
        /\ all = ReplacePixels(cut, o, pixels)
        /\ MadeFrom(t, cut, o, pixels)
        /\ o > Len(cut) => t.op = "encrypt"
  BY <1>1, <1>3, <1>4, ResultFacts
<1>6. /\ o <= Len(cut)
      /\ t.mode \in PaddedMode => Rest(left) = 0 /\ Full(left) # 0
      /\ Done(pixels) \in DecryptBuffer(t, left)
  <2>1. ~ (o > Len(cut))
    BY <1>1, <1>5
  <2>2. QED
    BY <1>1, <1>2, <1>5, <2>1 DEF MadeFrom
<1>7. /\ left \in Seq(Byte) /\ IsPrefix(left, e)
      /\ \A j \in 1 .. o : cut[j] = b[j]
  BY <1>6, CutOfWhole
<1>8. LeftOf(s, t, bytes, left)
  BY <1>1, <1>2, <1>6, <1>7 DEF LeftOf
<1> HIDE DEF left
<1>9. IsPrefix(pixels, bytes)
  <2> DEFINE r == Done(pixels)
  <2>1. r \in DecryptBuffer(t, left) /\ r.status = "done" /\ r.bytes = pixels
    BY <1>6 DEF Done
  <2> HIDE DEF r
  <2>2. IsPrefix(r.bytes, bytes)
    BY <1>8, <2>1, DecryptionOfCut
  <2>3. QED
    BY <2>1, <2>2
<1>10. Len(pixels) <= Len(bytes) /\ \A j \in 1 .. Len(pixels) : pixels[j] = bytes[j]
  BY <1>2, <1>9, CutFacts
<1>11. /\ all \in Seq(Byte) /\ Len(all) = o + Len(pixels) /\ Len(pixels) \in Nat
       /\ \A j \in 1 .. o : all[j] = IF j <= Len(cut) THEN cut[j] ELSE 0
       /\ \A j \in 1 .. Len(pixels) : all[o + j] = pixels[j]
  BY <1>1, <1>3, <1>5, Replaced, LenProperties
<1> HIDE DEF bytes
<1>12. Len(all) <= Len(b)
  BY <1>1, <1>2, <1>10, <1>11
<1>13. \A j \in 1 .. Len(all) : all[j] = b[j]
  <2> SUFFICES ASSUME NEW j \in 1 .. Len(all) PROVE all[j] = b[j]
    OBVIOUS
  <2>1. CASE j <= o
    <3>1. j \in 1 .. o /\ j <= Len(cut)
      BY <1>1, <1>2, <1>6, <2>1
    <3>2. QED
      BY <1>7, <1>11, <3>1
  <2>2. CASE ~ (j <= o)
    <3>1. PICK i \in 1 .. Len(pixels) : j = o + i
      <4>1. j - o \in 1 .. Len(pixels) /\ j = o + (j - o)
        BY <1>2, <1>11, <2>2
      <4>2. QED
        BY <4>1
    <3>2. i \in 1 .. Len(b) - o
      BY <1>1, <1>2, <1>10, <1>11
    <3>3. QED
      BY <1>2, <1>10, <1>11, <3>1, <3>2
  <2>3. QED
    BY <2>1, <2>2
<1>14. IsPrefix(all, b)
  BY <1>1, <1>11, <1>12, <1>13, CutFacts
<1>15. ASSUME cut = whole PROVE all = b
  <2>1. left = e
    BY <1>2, <1>15 DEF left
  <2>2. DecryptBuffer(t, left) = {Done(bytes)}
    BY <1>8, <2>1, DecryptionOfCut
  <2>3. pixels = bytes
    BY <1>6, <2>2 DEF Done
  <2>4. Len(all) = Len(b)
    BY <1>1, <1>2, <1>11, <2>3
  <2>5. QED
    BY <1>1, <1>11, <1>13, <2>4, SeqEqual
<1>16. QED
  BY <1>4, <1>11, <1>14, <1>15

LEMMA CutOfCut ==
  ASSUME NEW a \in Seq(Byte), NEW b \in Seq(Byte), NEW c \in Seq(Byte),
         IsPrefix(a, b), IsPrefix(b, c)
  PROVE  IsPrefix(a, c)
<1>1. Len(a) \in Nat /\ Len(b) \in Nat /\ Len(c) \in Nat
  BY LenProperties
<1>2. Len(a) <= Len(b) /\ \A j \in 1 .. Len(a) : a[j] = b[j]
  BY CutFacts
<1>3. Len(b) <= Len(c) /\ \A j \in 1 .. Len(b) : b[j] = c[j]
  BY CutFacts
<1>4. Len(a) <= Len(c) /\ \A j \in 1 .. Len(a) : a[j] = c[j]
  <2>1. \A j \in 1 .. Len(a) : j \in 1 .. Len(b)
    BY <1>1, <1>2
  <2>2. QED
    BY <1>1, <1>2, <1>3, <2>1
<1>5. QED
  BY <1>4, CutFacts

(* Decrypting gives back the file that was encrypted, or a cut of it where  *)
(* the ciphertext was cut: the utilities run one after the other.           *)
THEOREM DecryptionIsCut == FilesSpec => []DecryptsToCut
<1>1. FileInv => DecryptsToCut
  <2> SUFFICES ASSUME FileInv, NEW before \in Range(origin), Undoes(before)
               PROVE  /\ opened => IsPrefix(Output, before.buffer)
                      /\ step = "ended" /\ faults = 0 => exit = 0 /\ Output = before.buffer
    BY DEF DecryptsToCut
  <2> DEFINE s == before.settings
             b == before.buffer
             o == before.offset
             whole == before.result
             t == settings
  <2>1. /\ s.op = "encrypt" /\ t.op = "decrypt"
        /\ t.kind = s.kind /\ t.mode = s.mode /\ t.key = s.key /\ t.iv = s.iv
        /\ t.input_path = s.output_path /\ before.opened /\ IsPrefix(buffer, whole)
        /\ t.kind = "bmp" => Len(buffer) >= FieldEnd /\ o \in FieldEnd .. Len(b)
    <3>1. \A f \in {"kind", "mode", "key", "iv"} : t[f] = s[f]
      BY DEF Undoes
    <3>2. t.kind = s.kind /\ t.mode = s.mode /\ t.key = s.key /\ t.iv = s.iv
      BY <3>1
    <3>3. QED
      BY <3>2 DEF Undoes
  <2>2. /\ Ready(s) /\ b \in FileText /\ Located(s, b, o) /\ ResultOf(s, b, o, whole)
        /\ faults = 0 /\ ~ (Len(whole) < o) => was[s.output_path] = whole
    BY <2>1 DEF FileInv, Preceded
  <2>3. t \in Settings /\ buffer \in Seq(Byte)
    BY DEF FileInv, FileTypes, FileText
  <2>4. Undone(s, b, o, whole, t, buffer)
    <3> HIDE DEF s, b, o, whole, t
    <3>1. QED
      BY <2>1, <2>2, <2>3 DEF Undone, Twins
  <2> HIDE DEF s, b, o, whole
  <2>5. ASSUME opened \/ exit = 0
        PROVE  /\ ~ Damaged
               /\ opened => IsPrefix(Output, b)
               /\ Output = result /\ buffer = whole => Output = b
    <3>1. /\ Located(t, buffer, offset) /\ ResultOf(t, buffer, offset, result)
          /\ opened /\ ~ Damaged => Output \in Seq(Byte) /\ IsPrefix(Output, result)
      BY <2>5 DEF FileInv, Holds, OnDisk
    <3> HIDE DEF t
    <3>2. offset = o
      BY <2>4, <3>1, SameOffset
    <3>3. result \in Seq(Byte) /\ IsPrefix(result, b) /\ (buffer = whole => result = b)
          /\ ~ (Len(result) < offset)
      BY <2>4, <3>1, <3>2, UndoneIsCut
    <3>4. QED
      BY <2>2, <3>1, <3>3, CutOfCut DEF Damaged, FileText
  <2>6. ASSUME step = "ended", faults = 0 PROVE exit = 0 /\ Output = b
    <3>1. exit \in {0, 1, 2} /\ ~ unflushed
      BY <2>6 DEF FileInv, FileTypes, Progress
    <3>2. /\ whole # Missing /\ ~ (Len(whole) > MaxVectorSize)
          /\ was[t.input_path] = whole
      <4>1. whole \in FileText /\ o \in 0 .. Len(whole) /\ Len(whole) \in Nat
        BY <2>4, WhatWasMade, LenProperties
      <4>2. whole # Missing /\ ~ (Len(whole) > MaxVectorSize) /\ ~ (Len(whole) < o)
        BY <4>1, SizesFit, FileUtilityAssumption DEF FileText
      <4>3. QED
        BY <2>1, <2>2, <2>6, <4>2
    <3>3. ~ Reason
      <4> SUFFICES ASSUME Reason PROVE FALSE
        OBVIOUS
      <4>1. Ready(t)
        BY <2>4, TwinsReady DEF Undone
      <4>2. /\ buffer = whole
            /\ \/ t.kind = "bmp" /\ Len(buffer) < FieldEnd
               \/ Located(t, buffer, offset) /\ Refused(t, buffer, offset)
        BY <3>2, <4>1 DEF Reason
      <4>3. ~ (t.kind = "bmp" /\ Len(buffer) < FieldEnd)
        <5>1. Len(buffer) \in Nat /\ FieldEnd \in Nat
          BY <2>3, LenProperties, FileUtilityAssumption
        <5>2. QED
          BY <2>1, <5>1
      <4> HIDE DEF t
      <4>4. offset = o
        BY <2>4, <4>2, <4>3, SameOffset
      <4>5. Undone(s, b, o, whole, t, whole)
        BY <2>4, <4>2
      <4>6. ~ Refused(t, whole, o)
        BY <4>5, WholeIsNotRefused
      <4>7. QED
        BY <4>2, <4>3, <4>4, <4>6
    <3>4. exit = 0
      BY <2>6, <3>1, <3>3 DEF FileInv, Faultless
    <3>5. buffer = whole /\ Output = result
      <4>1. ~ Damaged
        BY <2>5, <3>4
      <4>2. QED
        BY <2>6, <3>1, <3>2, <3>4, <4>1 DEF FileInv, Faultless, OnDisk
    <3>6. QED
      BY <2>5, <3>4, <3>5
  <2>7. QED
    BY <2>5, <2>6 DEF b
<1>2. QED
  BY <1>1, FilesAreInvariant, PTL

-----------------------------------------------------------------------------
(***************************************************************************)
(* The utilities for blocks: BlockUtility.                                  *)
(***************************************************************************)

(* The first separator of a command line.                                   *)
LEMMA FirstSeparator ==
  ASSUME NEW words \in Seq(Word)
  PROVE  LET end == SelectInSeq(words, LAMBDA w : w = Separator)
         IN  /\ end = 0 /\ \A i \in 1 .. Len(words) : words[i] # Separator
             \/ /\ end \in 1 .. Len(words) /\ words[end] = Separator
                /\ \A i \in 1 .. end - 1 : words[i] # Separator
<1> DEFINE I == {i \in 1 .. Len(words) : words[i] = Separator}
           end == SelectInSeq(words, LAMBDA w : w = Separator)
<1>1. end = IF I # {} THEN Min(I) ELSE 0
  BY DEF SelectInSeq
<1>2. Len(words) \in Nat /\ I \in SUBSET (1 .. Len(words))
  BY LenProperties
<1> HIDE DEF end
<1>3. \/ end = 0 /\ \A i \in 1 .. Len(words) : words[i] # Separator
      \/ /\ end \in 1 .. Len(words) /\ words[end] = Separator
         /\ \A i \in 1 .. end - 1 : words[i] # Separator
  <2>1. CASE I = {}
    BY <1>1, <2>1
  <2>2. CASE I # {}
    <3>1. end \in I /\ \A y \in I : end <= y
      BY <1>1, <1>2, <2>2, FirstPosition, Zenon
    <3>2. QED
      BY <1>2, <3>1
  <2>3. QED
    BY <2>1, <2>2
<1>4. QED
  BY <1>3, Zenon DEF end

-----------------------------------------------------------------------------
(* Lines and what is picked of them.                                        *)
Labels ==
  {"", "Key", "Initialization vector", "Round keys", "Plaintext", "Ciphertext",
   "Next initialization vector"}

Printable == [label : Labels, bytes : Word]

Chosen(lines, labels) ==
  [n \in DOMAIN lines |-> IF lines[n].label \in labels THEN <<lines[n].bytes>> ELSE <<>>]

LEMMA ChosenType ==
  ASSUME NEW lines \in Seq(Printable), NEW labels
  PROVE  /\ Chosen(lines, labels) \in Seq(Seq(Word))
         /\ Len(Chosen(lines, labels)) = Len(lines)
         /\ \A n \in 1 .. Len(lines) :
              Chosen(lines, labels)[n] =
                IF lines[n].label \in labels THEN <<lines[n].bytes>> ELSE <<>>
         /\ Picked(lines, labels) = FlattenSeq(Chosen(lines, labels))
<1> DEFINE e(n) == IF lines[n].label \in labels THEN <<lines[n].bytes>> ELSE <<>>
           c == Chosen(lines, labels)
<1>1. DOMAIN lines = 1 .. Len(lines) /\ Len(lines) \in Nat
  BY LenProperties
<1>2. c = [n \in 1 .. Len(lines) |-> e(n)]
  BY <1>1 DEF Chosen
<1>3. ASSUME NEW n \in 1 .. Len(lines) PROVE e(n) \in Seq(Word)
  <2>0. lines[n] \in Printable
    BY ElementOfSeq
  <2>1. lines[n].bytes \in Word
    BY <2>0 DEF Printable
  <2>2. <<lines[n].bytes>> \in Seq(Word) /\ <<>> \in Seq(Word)
    BY <2>1, EmptySeq
  <2>3. QED
    BY <2>2
<1> HIDE DEF e, c
<1>4. c \in [1 .. Len(lines) -> Seq(Word)]
  BY <1>2, <1>3
<1>5. c \in Seq(Seq(Word)) /\ Len(c) = Len(lines)
  BY <1>1, <1>4, SeqDef
<1>6. \A n \in 1 .. Len(lines) : c[n] = e(n)
  BY <1>2
<1>7. Picked(lines, labels) = FlattenSeq(c)
  BY DEF Picked, c, Chosen
<1>8. QED
  BY <1>5, <1>6, <1>7 DEF c, e

LEMMA PickedType ==
  ASSUME NEW lines \in Seq(Printable), NEW labels
  PROVE  Picked(lines, labels) \in Seq(Word) /\ (lines = <<>> => Picked(lines, labels) = <<>>)
<1>1. Chosen(lines, labels) \in Seq(Seq(Word)) /\ Len(Chosen(lines, labels)) = Len(lines)
      /\ Picked(lines, labels) = FlattenSeq(Chosen(lines, labels))
  BY ChosenType
<1>2. lines = <<>> => Chosen(lines, labels) = <<>>
  BY <1>1, EmptySeq
<1>3. QED
  BY <1>1, <1>2, FlattenType

LEMMA PickedAppend ==
  ASSUME NEW lines \in Seq(Printable), NEW l \in Printable, NEW labels
  PROVE  Picked(Append(lines, l), labels) =
           IF l.label \in labels THEN Append(Picked(lines, labels), l.bytes)
           ELSE Picked(lines, labels)
<1> DEFINE t == Append(lines, l)
           n == Len(lines)
           c == Chosen(lines, labels)
           d == Chosen(t, labels)
           x == IF l.label \in labels THEN <<l.bytes>> ELSE <<>>
<1>1. /\ t \in Seq(Printable) /\ Len(t) = n + 1 /\ n \in Nat /\ t[n + 1] = l
      /\ \A i \in 1 .. n : t[i] = lines[i]
  BY AppendProperties, LenProperties
<1>2. l.bytes \in Word
  BY DEF Printable
<1>3. x \in Seq(Word)
  <2>1. <<l.bytes>> \in Seq(Word) /\ <<>> \in Seq(Word)
    BY <1>2, EmptySeq
  <2>2. QED
    BY <2>1
<1> HIDE DEF t
<1>4. /\ c \in Seq(Seq(Word)) /\ Len(c) = n /\ Picked(lines, labels) = FlattenSeq(c)
      /\ \A i \in 1 .. n : c[i] = IF lines[i].label \in labels THEN <<lines[i].bytes>> ELSE <<>>
  BY ChosenType
<1>5. /\ d \in Seq(Seq(Word)) /\ Len(d) = n + 1 /\ Picked(t, labels) = FlattenSeq(d)
      /\ \A i \in 1 .. n + 1 : d[i] = IF t[i].label \in labels THEN <<t[i].bytes>> ELSE <<>>
  <2>1. /\ d \in Seq(Seq(Word)) /\ Len(d) = Len(t) /\ Picked(t, labels) = FlattenSeq(d)
        /\ \A i \in 1 .. Len(t) : d[i] = IF t[i].label \in labels THEN <<t[i].bytes>> ELSE <<>>
    BY <1>1, ChosenType
  <2>2. QED
    BY <1>1, <2>1
<1>6. d[n + 1] = x /\ \A i \in 1 .. n : d[i] = c[i]
  <2>1. n + 1 \in 1 .. n + 1 /\ \A i \in 1 .. n : i \in 1 .. n + 1
    BY <1>1
  <2>2. QED
    BY <1>1, <1>4, <1>5, <2>1, Zenon
<1> HIDE DEF c, d, x
<1>7. d = Append(c, x)
  <2>1. /\ Append(c, x) \in Seq(Seq(Word)) /\ Len(Append(c, x)) = n + 1
        /\ Append(c, x)[n + 1] = x /\ \A i \in 1 .. n : Append(c, x)[i] = c[i]
    BY <1>3, <1>4, AppendProperties
  <2>2. \A i \in 1 .. n + 1 : i = n + 1 \/ i \in 1 .. n
    BY <1>1
  <2>3. \A i \in 1 .. Len(d) : d[i] = Append(c, x)[i]
    BY <1>5, <1>6, <2>1, <2>2
  <2>4. QED
    BY <1>5, <2>1, <2>3, SeqEqual, Zenon
<1>8. FlattenSeq(d) = FlattenSeq(c) \o x
  BY <1>3, <1>4, <1>7, FlattenAppend
<1>9. FlattenSeq(c) \in Seq(Word)
  BY <1>4, FlattenType
<1>10. CASE l.label \in labels
  <2>1. x = <<l.bytes>>
    BY <1>10 DEF x
  <2>2. Append(FlattenSeq(c), l.bytes) = FlattenSeq(c) \o <<l.bytes>>
    BY <1>2, <1>9, AppendIsConcat
  <2>3. QED
    BY <1>4, <1>5, <1>8, <1>10, <2>1, <2>2 DEF t
<1>11. CASE l.label \notin labels
  <2>1. x = <<>>
    BY <1>11 DEF x
  <2>2. FlattenSeq(c) \o <<>> = FlattenSeq(c)
    BY <1>9, ConcatEmptySeq
  <2>3. QED
    BY <1>4, <1>5, <1>8, <1>11, <2>1, <2>2 DEF t
<1>12. QED
  BY <1>10, <1>11

(* Nothing is picked of lines that have other labels.                       *)
LEMMA PickedNone ==
  ASSUME NEW lines \in Seq(Printable), NEW labels,
         \A n \in 1 .. Len(lines) : lines[n].label \notin labels
  PROVE  Picked(lines, labels) = <<>>
<1> DEFINE N == Len(lines)
           T == {n \in 0 .. N : Picked(SubSeq(lines, 1, n), labels) = <<>>}
<1>1. N \in Nat /\ <<>> \in Seq(Printable)
  BY LenProperties, EmptySeq
<1>2. 0 \in T
  <2>1. SubSeq(lines, 1, 0) = <<>>
    BY SubSeqEmpty
  <2>2. Picked(<<>>, labels) = <<>>
    BY <1>1, PickedType, Zenon
  <2>3. 0 \in 0 .. N
    BY <1>1
  <2>4. QED
    BY <2>1, <2>2, <2>3, Zenon
<1>3. ASSUME NEW n \in 0 .. N - 1, n \in T PROVE n + 1 \in T
  <2> DEFINE a == SubSeq(lines, 1, n)
             l == lines[n + 1]
  <2>1. a \in Seq(Printable) /\ SubSeq(lines, 1, n + 1) = Append(a, l)
    <3>1. 1 \in 1 .. Len(lines) /\ n \in 1 - 1 .. Len(lines) - 1
      BY <1>1
    <3>2. QED
      BY <3>1, PartAppend
  <2>2. n + 1 \in 1 .. N /\ n + 1 \in 0 .. N
    BY <1>1
  <2>3. l \in Printable /\ l.label \notin labels
    BY <2>2, ElementOfSeq
  <2> HIDE DEF a, l
  <2>4. Picked(Append(a, l), labels) = Picked(a, labels)
    BY <2>1, <2>3, PickedAppend
  <2>5. Picked(a, labels) = <<>>
    BY <1>3 DEF a
  <2>6. QED
    BY <2>1, <2>2, <2>4, <2>5, Zenon
<1> HIDE DEF T
<1>4. N \in T
  BY <1>1, <1>2, <1>3, SetInduction
<1>5. SubSeq(lines, 1, N) = lines
  BY SubSeqFull
<1>6. QED
  BY <1>4, <1>5, Zenon DEF T

(* What is picked depends on the lines' labels alone.                       *)
LEMMA PickedAlike ==
  ASSUME NEW lines \in Seq(Printable), NEW A, NEW B,
         \A n \in 1 .. Len(lines) : lines[n].label \in A <=> lines[n].label \in B
  PROVE  Picked(lines, A) = Picked(lines, B)
<1>1. DOMAIN lines = 1 .. Len(lines)
  BY LenProperties
<1>2. [n \in DOMAIN lines |-> IF lines[n].label \in A THEN <<lines[n].bytes>> ELSE <<>>]
      = [n \in DOMAIN lines |-> IF lines[n].label \in B THEN <<lines[n].bytes>> ELSE <<>>]
  BY <1>1
<1>3. QED
  BY <1>2, Zenon DEF Picked

-----------------------------------------------------------------------------
(* The inductive invariant.                                                 *)
Group == [key : Word, iv : Seq(Word), blocks : Seq(Word)]

IvCount == IF RequiresInitVector(command.mode) THEN 1 ELSE 0

BlocksTypes ==
  /\ command \in CommandLine
  /\ src \in Seq(Word)
  /\ inputs \in Seq(Group) /\ \A i \in 1 .. Len(inputs) : Len(inputs[i].iv) = IvCount
  /\ phase \in {"parse", "blocks", "ended"}
  /\ cipher \in [key : Word, iv : Word]
  /\ todo \in Seq(Word)
  /\ printed \in Seq(Seq(Printable))
  /\ exit_code \in {-1, 0, 1}
  /\ earlier \in Seq(Group)

(* What is read of a group.  In ECB, where nothing depends on it, a block   *)
(* stands for the initialization vector that is left to chance.             *)
ReadableGroup(g) ==
  /\ Readable(g.key, KeySize[command.algorithm])
  /\ \A i \in 1 .. Len(g.iv) : Readable(g.iv[i], BlockSize)

KeyOf(g) == FromString(g.key, KeySize[command.algorithm])

IvOf(g) == IF g.iv = <<>> THEN [i \in 1 .. BlockSize |-> 0] ELSE FromString(g.iv[1], BlockSize)

SourcesOf(g) == [n \in DOMAIN g.blocks |-> FromString(g.blocks[n], BlockSize)]

(* What was printed for it.                                                 *)
ResultsOf(lines) == Picked(lines, {"", ResultLabel})

DumpedOf(lines) == Picked(lines, {SourceLabel})

NextIvsOf(lines) == Picked(lines, {"Next initialization vector"})

PlainOf(g, lines) == IF IsEncryption THEN SourcesOf(g) ELSE ResultsOf(lines)

CodedOf(g, lines) == IF IsEncryption THEN ResultsOf(lines) ELSE SourcesOf(g)

ChainedOf(g, lines, n) ==
  Chained(command.mode, KeyOf(g), IvOf(g), PlainOf(g, lines), CodedOf(g, lines), n)

Dumps == command.verbose /\ ~ command.use_boxes

Dumped(lines) == IF Dumps THEN Len(ResultsOf(lines)) ELSE 0

Bare(lines) == \A n \in 1 .. Len(lines) : lines[n].label = ""

FollowsMode(g, lines) ==
  /\ ResultsOf(lines) \in Seq(Block) /\ Len(ResultsOf(lines)) <= Len(g.blocks)
  /\ \A n \in 1 .. Len(ResultsOf(lines)) :
       /\ Readable(g.blocks[n], BlockSize)
       /\ Encrypts(command.mode, KeyOf(g), IvOf(g), PlainOf(g, lines), CodedOf(g, lines), n)
  /\ Len(DumpedOf(lines)) = Dumped(lines)
  /\ \A n \in 1 .. Len(DumpedOf(lines)) : DumpedOf(lines)[n] = SourcesOf(g)[n]
  /\ Len(NextIvsOf(lines)) = IF RequiresInitVector(command.mode) THEN Dumped(lines) ELSE 0
  /\ \A n \in 1 .. Len(NextIvsOf(lines)) : NextIvsOf(lines)[n] = ChainedOf(g, lines, n)
  /\ Dumps \/ Bare(lines)

Finished(g, lines) == ReadableGroup(g) /\ Len(ResultsOf(lines)) = Len(g.blocks)

(* Every word is in a group or still to come.                               *)
Parsed ==
  /\ inputs = <<>> => Positional(command.args) = src
  /\ inputs # <<>> => \/ src = <<>> /\ Positional(command.args) = Joined
                      \/ Positional(command.args) = Joined \o (<<Separator>> \o src)
  /\ phase = "blocks" \/ printed # <<>> \/ exit_code = 0 => src = <<>>

(* Groups are finished one after another.                                   *)
Groups ==
  /\ Len(printed) <= Len(inputs)
  /\ \A i \in 1 .. Len(printed) : FollowsMode(inputs[i], printed[i])
  /\ \A i \in 1 .. Len(printed) - 1 : Finished(inputs[i], printed[i])

(* The wrapper or box of the group at hand.                                 *)
Underway(g, lines) ==
  /\ ReadableGroup(g)
  /\ todo = SubSeq(g.blocks, Len(ResultsOf(lines)) + 1, Len(g.blocks))
  /\ cipher.key = KeyOf(g) /\ cipher.iv \in Block
  /\ RequiresInitVector(command.mode) => cipher.iv = ChainedOf(g, lines, Len(ResultsOf(lines)))

Phases ==
  /\ phase = "parse" => printed = <<>>
  /\ phase = "blocks" => printed # <<>> /\ Underway(inputs[Len(printed)], printed[Len(printed)])
  /\ phase = "ended" <=> exit_code # -1

Exits ==
  /\ ExitTellsOutput
  /\ exit_code = 0 => \A i \in 1 .. Len(printed) : Finished(inputs[i], printed[i])

(* A group that was encrypted, and the one the script gives back for it.    *)
Returned(g, b) ==
  /\ ReadableGroup(g) /\ Len(g.iv) = IvCount
  /\ b.key = g.key /\ b.iv = g.iv
  /\ b.blocks \in Seq(Block) /\ Len(b.blocks) = Len(g.blocks)
  /\ \A n \in 1 .. Len(b.blocks) :
       /\ Readable(g.blocks[n], BlockSize)
       /\ Encrypts(command.mode, KeyOf(g), IvOf(g), SourcesOf(g), b.blocks, n)

Unparsed(s) ==
  IF s = <<>> THEN <<>> ELSE Tail(FlattenSeq([i \in DOMAIN s |-> ToArgs(s[i])]))

GivenBack(back) ==
  /\ Len(back) = Len(earlier) /\ Len(inputs) <= Len(back)
  /\ \A i \in 1 .. Len(back) : Returned(earlier[i], back[i])
  /\ \A i \in 1 .. Len(inputs) : inputs[i] = back[i]
  /\ src = Unparsed(SubSeq(back, Len(inputs) + 1, Len(back)))

ReadingBack ==
  earlier # <<>> =>
    ~ IsEncryption /\ exit_code # 1 /\ {back \in Seq(Group) : GivenBack(back)} # {}

BlocksInv ==
  BlocksTypes /\ Parsed /\ Groups /\ Phases /\ Exits /\ ReadingBack

-----------------------------------------------------------------------------
(* Texts that can be read.                                                  *)
LEMMA ReadText ==
  ASSUME NEW text \in Word, NEW size \in Nat \ {0}, Readable(text, size)
  PROVE  FromString(text, size) \in [1 .. size -> Byte] /\ text # Separator
<1>1. Len(text) \in Nat /\ Len(text) >= size /\ \A i \in 1 .. size : text[i] \in Byte
  BY LenProperties DEF Readable, Word
<1>2. FromString(text, size) \in Seq(Byte) /\ Len(FromString(text, size)) = size
  BY <1>1, SubSeqProperties DEF FromString
<1>3. FromString(text, size) \in [1 .. size -> Byte]
  BY <1>2, LenProperties
<1>4. text # Separator
  <2>1. text[1] \in Byte
    BY <1>1
  <2>2. -1 \notin Byte
    BY BlockSizeAssumption DEF Byte
  <2>3. Separator[1] = -1
    BY DEF Separator
  <2>4. QED
    BY <2>1, <2>2, <2>3
<1>5. QED
  BY <1>3, <1>4

LEMMA BytesAreInt == Byte \subseteq Int
  BY BlockSizeAssumption DEF Byte

(* A block as a text.                                                       *)
LEMMA BlockText ==
  ASSUME NEW b \in Block
  PROVE  /\ b \in Word /\ Len(b) = BlockSize /\ Readable(b, BlockSize)
         /\ FromString(b, BlockSize) = b /\ b # Separator
<1>1. BlockSize \in Nat \ {0}
  BY BlockSizeAssumption
<1>2. b \in Seq(Byte) /\ Len(b) = BlockSize
  BY <1>1, SeqDef DEF Block
<1>3. b \in Word
  BY <1>2, BytesAreInt, SeqMonotonic, Zenon DEF Word
<1>4. Readable(b, BlockSize)
  BY <1>1, <1>2 DEF Readable, Block
<1>5. FromString(b, BlockSize) = b
  BY <1>2, SubSeqFull DEF FromString
<1>6. b # Separator
  BY <1>1, <1>3, <1>4, ReadText
<1>7. QED
  BY <1>2, <1>3, <1>4, <1>5, <1>6

LEMMA BlockTexts ==
  ASSUME NEW s \in Seq(Block) PROVE s \in Seq(Word)
<1>1. Block \subseteq Word
  BY BlockText
<1>2. QED
  BY <1>1, SeqMonotonic

LEMMA CommandFacts ==
  BlocksTypes =>
    /\ command.mode \in Mode /\ command.op \in {"encrypt", "decrypt"}
    /\ command.algorithm \in Algorithm
    /\ command.verbose \in BOOLEAN /\ command.use_boxes \in BOOLEAN
    /\ command.args \in Seq(Word)
    /\ KeySize[command.algorithm] \in Nat \ {0}
    /\ [1 .. KeySize[command.algorithm] -> Byte] \subseteq Key
<1> SUFFICES ASSUME BlocksTypes
             PROVE  /\ command.mode \in Mode /\ command.op \in {"encrypt", "decrypt"}
                    /\ command.algorithm \in Algorithm
                    /\ command.verbose \in BOOLEAN /\ command.use_boxes \in BOOLEAN
                    /\ command.args \in Seq(Word)
                    /\ KeySize[command.algorithm] \in Nat \ {0}
                    /\ [1 .. KeySize[command.algorithm] -> Byte] \subseteq Key
  BY Zenon
<1>1. command \in CommandLine
  BY DEF BlocksTypes
<1>2. /\ command.mode \in Mode /\ command.op \in {"encrypt", "decrypt"}
      /\ command.algorithm \in Algorithm
      /\ command.verbose \in BOOLEAN /\ command.use_boxes \in BOOLEAN
      /\ command.args \in Seq(Word)
  BY <1>1 DEF CommandLine
<1>3. KeySize[command.algorithm] \in Nat \ {0}
  BY <1>2, BlockUtilityAssumption
<1>4. [1 .. KeySize[command.algorithm] -> Byte] \subseteq Key
  BY <1>2, BlockUtilityAssumption
<1>5. QED
  BY <1>2, <1>3, <1>4

(* The key and the initialization vector of a group that can be read.       *)
LEMMA GroupFacts ==
  ASSUME BlocksTypes, NEW g \in Group, Len(g.iv) = IvCount
  PROVE  /\ ReadableGroup(g) => KeyOf(g) \in Key /\ IvOf(g) \in Block /\ g.key # Separator
         /\ RequiresInitVector(command.mode) => g.iv = <<g.iv[1]>> /\ g.iv[1] \in Word
         /\ ~ RequiresInitVector(command.mode) => g.iv = <<>>
         /\ ReadableGroup(g) /\ RequiresInitVector(command.mode) => g.iv[1] # Separator
<1>1. g.key \in Word /\ g.iv \in Seq(Word)
  BY DEF Group
<1>2. /\ KeySize[command.algorithm] \in Nat \ {0} /\ BlockSize \in Nat \ {0}
      /\ [1 .. KeySize[command.algorithm] -> Byte] \subseteq Key
  BY CommandFacts, BlockSizeAssumption
<1>3. ASSUME RequiresInitVector(command.mode)
      PROVE  Len(g.iv) = 1 /\ g.iv = <<g.iv[1]>> /\ g.iv[1] \in Word /\ g.iv # <<>>
  <2>1. Len(g.iv) = 1
    BY <1>3 DEF IvCount
  <2>2. g.iv[1] \in Word
    BY <1>1, <2>1, ElementOfSeq
  <2>3. <<g.iv[1]>> \in Seq(Word) /\ Len(<<g.iv[1]>>) = 1 /\ <<g.iv[1]>>[1] = g.iv[1]
    BY <2>2
  <2>4. \A i \in 1 .. Len(g.iv) : g.iv[i] = <<g.iv[1]>>[i]
    BY <2>1, <2>3
  <2>5. g.iv = <<g.iv[1]>>
    BY <1>1, <2>1, <2>3, <2>4, SeqEqual
  <2>6. QED
    BY <2>1, <2>2, <2>5
<1>4. ASSUME ~ RequiresInitVector(command.mode) PROVE g.iv = <<>>
  <2>1. Len(g.iv) = 0
    BY <1>4 DEF IvCount
  <2>2. QED
    BY <1>1, <2>1, EmptySeq
<1>5. ASSUME ReadableGroup(g)
      PROVE  /\ KeyOf(g) \in Key /\ g.key # Separator
             /\ RequiresInitVector(command.mode) =>
                  FromString(g.iv[1], BlockSize) \in Block /\ g.iv[1] # Separator
  <2>1. KeyOf(g) \in [1 .. KeySize[command.algorithm] -> Byte] /\ g.key # Separator
    BY <1>1, <1>2, <1>5, ReadText DEF ReadableGroup, KeyOf
  <2>2. ASSUME RequiresInitVector(command.mode)
        PROVE  FromString(g.iv[1], BlockSize) \in Block /\ g.iv[1] # Separator
    <3>1. Len(g.iv) = 1 /\ g.iv[1] \in Word
      BY <1>3, <2>2
    <3>2. Readable(g.iv[1], BlockSize)
      BY <1>5, <3>1 DEF ReadableGroup
    <3>3. QED
      BY <1>2, <3>1, <3>2, ReadText DEF Block
  <2>3. QED
    BY <1>2, <2>1, <2>2
<1>6. ASSUME ReadableGroup(g) PROVE IvOf(g) \in Block
  <2>1. CASE RequiresInitVector(command.mode)
    BY <1>3, <1>5, <1>6, <2>1 DEF IvOf
  <2>2. CASE ~ RequiresInitVector(command.mode)
    <3>1. IvOf(g) = [i \in 1 .. BlockSize |-> 0]
      BY <1>4, <2>2 DEF IvOf
    <3>2. 0 \in Byte
      BY BlockSizeAssumption DEF Byte
    <3>3. QED
      BY <3>1, <3>2 DEF Block
  <2>3. QED
    BY <2>1, <2>2
<1>7. QED
  BY <1>3, <1>4, <1>5, <1>6

-----------------------------------------------------------------------------
(* The equations and chained values up to block m look at no later block.   *)
LEMMA AgreeingBlocksDecide ==
  ASSUME NEW aMode \in Mode, NEW aKey, NEW iv, NEW P, NEW C, NEW P2, NEW C2,
         NEW m \in Nat, Agree(P2, P, m), Agree(C2, C, m)
  PROVE  /\ \A n \in 0 .. m :
              Chained(aMode, aKey, iv, P2, C2, n) = Chained(aMode, aKey, iv, P, C, n)
         /\ \A n \in 1 .. m :
              Encrypts(aMode, aKey, iv, P2, C2, n) <=> Encrypts(aMode, aKey, iv, P, C, n)
<1>1. \A k \in 1 .. m : P2[k] = P[k] /\ C2[k] = C[k]
  BY DEF Agree
<1>2. QED
  BY <1>1, EarlierBlocksDecide, Zenon

(* The block after those that follow their mode.  In ECB, where nothing     *)
(* depends on it, the chaining value may be any block.                      *)
EncryptsNext(aMode, aKey, iv, P, C, D, n, c) ==
  /\ (\A k \in 1 .. n : P[k] \in Block) /\ (\A k \in 1 .. n - 1 : C[k] \in Block)
  /\ Agree(D, C, n - 1)
  /\ aMode # "ECB" => c = Chained(aMode, aKey, iv, P, C, n - 1)
  /\ D[n] = EncryptBlock(aMode, aKey, c, P[n]).output

LEMMA EncryptedNext ==
  ASSUME NEW aMode \in Mode, NEW aKey \in Key, NEW iv \in Block,
         NEW P, NEW C, NEW D, NEW n \in Nat \ {0}, NEW c \in Block,
         EncryptsNext(aMode, aKey, iv, P, C, D, n, c)
  PROVE  /\ EncryptBlock(aMode, aKey, c, P[n]).output \in Block
         /\ EncryptBlock(aMode, aKey, c, P[n]).iv \in Block
         /\ Encrypts(aMode, aKey, iv, P, D, n)
         /\ aMode # "ECB" =>
              EncryptBlock(aMode, aKey, c, P[n]).iv = Chained(aMode, aKey, iv, P, D, n)
         /\ \A k \in 1 .. n - 1 :
              /\ Encrypts(aMode, aKey, iv, P, D, k) <=> Encrypts(aMode, aKey, iv, P, C, k)
              /\ Chained(aMode, aKey, iv, P, D, k) = Chained(aMode, aKey, iv, P, C, k)
<1> DEFINE e == EncryptBlock(aMode, aKey, c, P[n])
           d == IF aMode = "ECB" THEN iv ELSE c
           Q == [k \in 1 .. n |-> P[k]]
           E == [k \in 1 .. n |-> D[k]]
           N == n - 1
<1>0. /\ \A k \in 1 .. n : P[k] \in Block
      /\ \A k \in 1 .. n - 1 : C[k] \in Block
      /\ Agree(D, C, n - 1)
      /\ aMode # "ECB" => c = Chained(aMode, aKey, iv, P, C, n - 1)
      /\ D[n] = e.output
  BY DEF EncryptsNext
<1>1. /\ n \in 1 .. n /\ N \in Nat /\ n - 1 \in 0 .. N /\ P[n] \in Block
      /\ \A k \in 1 .. N : k \in 0 .. N
  BY <1>0
<1>2. e.output \in Block /\ e.iv \in Block
  BY <1>1, CryptType
<1>3. /\ \A k \in 1 .. N : D[k] = C[k]
      /\ D[n] = e.output /\ \A k \in 1 .. n : D[k] \in Block
  <2>1. D[n] = e.output /\ \A k \in 1 .. N : D[k] = C[k]
    BY <1>0 DEF Agree
  <2>2. \A k \in 1 .. n : k = n \/ k \in 1 .. N
    BY <1>1
  <2>3. QED
    BY <1>0, <1>2, <2>1, <2>2
<1>4. /\ \A k \in 0 .. N : Chained(aMode, aKey, iv, P, D, k) = Chained(aMode, aKey, iv, P, C, k)
      /\ \A k \in 1 .. N : Encrypts(aMode, aKey, iv, P, D, k) <=> Encrypts(aMode, aKey, iv, P, C, k)
  <2>1. Agree(P, P, N) /\ Agree(D, C, N) /\ N \in Nat
    BY <1>0, <1>1, <1>3 DEF Agree
  <2> HIDE DEF N
  <2>2. QED
    BY <2>1, AgreeingBlocksDecide
<1>5. /\ Q \in [1 .. n -> Block] /\ E \in [1 .. n -> Block]
      /\ \A k \in 1 .. n : Q[k] = P[k] /\ E[k] = D[k]
  BY <1>0, <1>3
<1> HIDE DEF Q, E
<1>6. /\ \A k \in 0 .. n : Chained(aMode, aKey, iv, Q, E, k) = Chained(aMode, aKey, iv, P, D, k)
      /\ \A k \in 1 .. n : Encrypts(aMode, aKey, iv, Q, E, k) <=> Encrypts(aMode, aKey, iv, P, D, k)
  <2>1. Agree(Q, P, n) /\ Agree(E, D, n) /\ n \in Nat
    BY <1>5 DEF Agree
  <2>2. QED
    BY <2>1, AgreeingBlocksDecide
<1>7. d \in Block /\ d = Chained(aMode, aKey, iv, Q, E, n - 1)
  <2>1. n - 1 \in 0 .. n
    BY <1>1
  <2>2. Chained(aMode, aKey, iv, Q, E, n - 1) = Chained(aMode, aKey, iv, P, C, n - 1)
    BY <1>1, <1>4, <1>6, <2>1
  <2>3. CASE aMode = "ECB"
    BY <2>2, <2>3 DEF Chained
  <2>4. CASE aMode # "ECB"
    BY <1>0, <2>2, <2>4
  <2>5. QED
    BY <2>3, <2>4
<1>8. e.output = EncryptBlock(aMode, aKey, d, P[n]).output
  <2>1. CASE aMode = "ECB"
    BY <2>1 DEF EncryptBlock, EncryptBlockEcb
  <2>2. CASE aMode # "ECB"
    BY <2>2
  <2>3. QED
    BY <2>1, <2>2
<1>9. E[n] = EncryptBlock(aMode, aKey, d, Q[n]).output
  BY <1>1, <1>3, <1>5, <1>8
<1> HIDE DEF d, e, N
<1>10. /\ Encrypts(aMode, aKey, iv, Q, E, n)
       /\ EncryptBlock(aMode, aKey, d, Q[n]).iv = Chained(aMode, aKey, iv, Q, E, n)
  <2>1. n \in Nat /\ n \in 1 .. n
    BY <1>1
  <2>2. Q \in [1 .. n -> Block] /\ E \in [1 .. n -> Block]
    BY <1>5
  <2>3. QED
    BY <1>7, <1>9, <2>1, <2>2, EncryptStep
<1>11. Encrypts(aMode, aKey, iv, P, D, n)
  BY <1>1, <1>6, <1>10
<1>12. aMode # "ECB" => e.iv = Chained(aMode, aKey, iv, P, D, n)
  <2>1. n \in 0 .. n
    OBVIOUS
  <2>2. Chained(aMode, aKey, iv, Q, E, n) = Chained(aMode, aKey, iv, P, D, n)
    BY <1>6, <2>1
  <2>3. QED
    BY <1>1, <1>5, <1>10, <2>2 DEF d, e
<1>13. QED
  BY <1>1, <1>2, <1>4, <1>11, <1>12 DEF e, N

DecryptsFrom(aMode, aKey, iv, P, C, n, c) ==
  c = Chained(aMode, aKey, iv, P, C, n - 1) /\ P[n] = DecryptBlock(aMode, aKey, c, C[n]).output

LEMMA DecryptLast ==
  ASSUME NEW aMode \in Mode, NEW aKey \in Key, NEW iv \in Block, NEW n \in Nat \ {0},
         NEW P \in [1 .. n -> Block], NEW C \in [1 .. n -> Block], NEW c \in Block,
         DecryptsFrom(aMode, aKey, iv, P, C, n, c)
  PROVE  /\ Encrypts(aMode, aKey, iv, P, C, n)
         /\ DecryptBlock(aMode, aKey, c, C[n]).iv = Chained(aMode, aKey, iv, P, C, n)
<1>1. /\ c = Chained(aMode, aKey, iv, P, C, n - 1) /\ P[n] = DecryptBlock(aMode, aKey, c, C[n]).output
      /\ n \in Nat /\ n \in 1 .. n
  BY DEF DecryptsFrom
<1>2. QED
  BY <1>1, DecryptStep

DecryptsNext(aMode, aKey, iv, P, C, R, n, c) ==
  /\ (\A k \in 1 .. n : C[k] \in Block) /\ (\A k \in 1 .. n - 1 : P[k] \in Block)
  /\ Agree(R, P, n - 1)
  /\ aMode # "ECB" => c = Chained(aMode, aKey, iv, P, C, n - 1)
  /\ R[n] = DecryptBlock(aMode, aKey, c, C[n]).output

LEMMA DecryptedNext ==
  ASSUME NEW aMode \in Mode, NEW aKey \in Key, NEW iv \in Block,
         NEW C, NEW P, NEW R, NEW n \in Nat \ {0}, NEW c \in Block,
         DecryptsNext(aMode, aKey, iv, P, C, R, n, c)
  PROVE  /\ DecryptBlock(aMode, aKey, c, C[n]).output \in Block
         /\ DecryptBlock(aMode, aKey, c, C[n]).iv \in Block
         /\ Encrypts(aMode, aKey, iv, R, C, n)
         /\ aMode # "ECB" =>
              DecryptBlock(aMode, aKey, c, C[n]).iv = Chained(aMode, aKey, iv, R, C, n)
         /\ \A k \in 1 .. n - 1 :
              /\ Encrypts(aMode, aKey, iv, R, C, k) <=> Encrypts(aMode, aKey, iv, P, C, k)
              /\ Chained(aMode, aKey, iv, R, C, k) = Chained(aMode, aKey, iv, P, C, k)
<1> DEFINE e == DecryptBlock(aMode, aKey, c, C[n])
           d == IF aMode = "ECB" THEN iv ELSE c
           Q == [k \in 1 .. n |-> R[k]]
           E == [k \in 1 .. n |-> C[k]]
           N == n - 1
<1>0. /\ \A k \in 1 .. n : C[k] \in Block
      /\ \A k \in 1 .. n - 1 : P[k] \in Block
      /\ Agree(R, P, n - 1)
      /\ aMode # "ECB" => c = Chained(aMode, aKey, iv, P, C, n - 1)
      /\ R[n] = e.output
  BY DEF DecryptsNext
<1>1. /\ n \in 1 .. n /\ N \in Nat /\ n - 1 \in 0 .. N /\ C[n] \in Block
      /\ \A k \in 1 .. N : k \in 0 .. N
  BY <1>0
<1>2. e.output \in Block /\ e.iv \in Block
  BY <1>1, CryptType
<1>3. /\ \A k \in 1 .. N : R[k] = P[k]
      /\ R[n] = e.output /\ \A k \in 1 .. n : R[k] \in Block
  <2>1. R[n] = e.output /\ \A k \in 1 .. N : R[k] = P[k]
    BY <1>0 DEF Agree
  <2>2. \A k \in 1 .. n : k = n \/ k \in 1 .. N
    BY <1>1
  <2>3. QED
    BY <1>0, <1>2, <2>1, <2>2
<1>4. /\ \A k \in 0 .. N : Chained(aMode, aKey, iv, R, C, k) = Chained(aMode, aKey, iv, P, C, k)
      /\ \A k \in 1 .. N : Encrypts(aMode, aKey, iv, R, C, k) <=> Encrypts(aMode, aKey, iv, P, C, k)
  <2>1. Agree(R, P, N) /\ Agree(C, C, N) /\ N \in Nat
    BY <1>0, <1>1, <1>3 DEF Agree
  <2> HIDE DEF N
  <2>2. QED
    BY <2>1, AgreeingBlocksDecide
<1>5. /\ Q \in [1 .. n -> Block] /\ E \in [1 .. n -> Block]
      /\ \A k \in 1 .. n : Q[k] = R[k] /\ E[k] = C[k]
  BY <1>0, <1>3
<1> HIDE DEF Q, E
<1>6. /\ \A k \in 0 .. n : Chained(aMode, aKey, iv, Q, E, k) = Chained(aMode, aKey, iv, R, C, k)
      /\ \A k \in 1 .. n : Encrypts(aMode, aKey, iv, Q, E, k) <=> Encrypts(aMode, aKey, iv, R, C, k)
  <2>1. Agree(Q, R, n) /\ Agree(E, C, n) /\ n \in Nat
    BY <1>5 DEF Agree
  <2>2. QED
    BY <2>1, AgreeingBlocksDecide
<1>7. d \in Block /\ d = Chained(aMode, aKey, iv, Q, E, n - 1)
  <2>1. n - 1 \in 0 .. n
    BY <1>1
  <2>2. Chained(aMode, aKey, iv, Q, E, n - 1) = Chained(aMode, aKey, iv, P, C, n - 1)
    BY <1>1, <1>4, <1>6, <2>1
  <2>3. CASE aMode = "ECB"
    BY <2>2, <2>3 DEF Chained
  <2>4. CASE aMode # "ECB"
    BY <1>0, <2>2, <2>4
  <2>5. QED
    BY <2>3, <2>4
<1>8. e.output = DecryptBlock(aMode, aKey, d, C[n]).output
  <2>1. CASE aMode = "ECB"
    BY <2>1 DEF DecryptBlock, DecryptBlockEcb
  <2>2. CASE aMode # "ECB"
    BY <2>2
  <2>3. QED
    BY <2>1, <2>2
<1>9. Q[n] = DecryptBlock(aMode, aKey, d, E[n]).output
  BY <1>1, <1>3, <1>5, <1>8
<1> HIDE DEF d, e, N
<1>10. /\ Encrypts(aMode, aKey, iv, Q, E, n)
       /\ DecryptBlock(aMode, aKey, d, E[n]).iv = Chained(aMode, aKey, iv, Q, E, n)
  <2>1. n \in Nat /\ n \in 1 .. n
    BY <1>1
  <2>2. Q \in [1 .. n -> Block] /\ E \in [1 .. n -> Block]
    BY <1>5
  <2>3. DecryptsFrom(aMode, aKey, iv, Q, E, n, d)
    BY <1>7, <1>9 DEF DecryptsFrom
  <2>4. QED
    BY <1>7, <2>1, <2>2, <2>3, DecryptLast
<1>11. Encrypts(aMode, aKey, iv, R, C, n)
  BY <1>1, <1>6, <1>10
<1>12. aMode # "ECB" => e.iv = Chained(aMode, aKey, iv, R, C, n)
  <2>1. n \in 0 .. n
    OBVIOUS
  <2>2. Chained(aMode, aKey, iv, Q, E, n) = Chained(aMode, aKey, iv, R, C, n)
    BY <1>6, <2>1
  <2>3. QED
    BY <1>1, <1>5, <1>10, <2>2 DEF d, e
<1>13. QED
  BY <1>1, <1>2, <1>4, <1>11, <1>12 DEF e, N

(* What is picked of the lines printed for a block, with and without the    *)
(* verbose ones.                                                            *)
LEMMA PickedBare ==
  ASSUME NEW lines \in Seq(Printable), NEW y \in Word
  PROVE  /\ lines \o <<Line("", y)>> \in Seq(Printable)
         /\ ResultsOf(lines \o <<Line("", y)>>) = Append(ResultsOf(lines), y)
         /\ DumpedOf(lines \o <<Line("", y)>>) = DumpedOf(lines)
         /\ NextIvsOf(lines \o <<Line("", y)>>) = NextIvsOf(lines)
         /\ Bare(lines) => Bare(lines \o <<Line("", y)>>)
<1> DEFINE l == Line("", y)
<1>1. l \in Printable /\ l.label = "" /\ l.bytes = y
  BY Zenon DEF Line, Printable, Labels
<1> HIDE DEF l
<1>2. /\ lines \o <<l>> = Append(lines, l)
      /\ Append(lines, l) \in Seq(Printable)
      /\ Len(Append(lines, l)) = Len(lines) + 1 /\ Len(lines) \in Nat
      /\ Append(lines, l)[Len(lines) + 1] = l
      /\ \A n \in 1 .. Len(lines) : Append(lines, l)[n] = lines[n]
  <2>1. lines \o <<l>> = Append(lines, l)
    BY <1>1, AppendIsConcat, Zenon
  <2>2. /\ Append(lines, l) \in Seq(Printable)
        /\ Len(Append(lines, l)) = Len(lines) + 1 /\ Len(lines) \in Nat
        /\ Append(lines, l)[Len(lines) + 1] = l
        /\ \A n \in 1 .. Len(lines) : Append(lines, l)[n] = lines[n]
    <3>1. l \in Printable
      BY <1>1, Zenon
    <3>2. QED
      BY <3>1, AppendProperties, LenProperties
  <2>3. QED
    BY <2>1, <2>2
<1>3. /\ Picked(Append(lines, l), {"", ResultLabel}) = Append(Picked(lines, {"", ResultLabel}), y)
      /\ Picked(Append(lines, l), {SourceLabel}) = Picked(lines, {SourceLabel})
      /\ Picked(Append(lines, l), {"Next initialization vector"})
           = Picked(lines, {"Next initialization vector"})
  <2>1. "" \in {"", ResultLabel} /\ "" \notin {SourceLabel} /\ "" \notin {"Next initialization vector"}
    BY DEF ResultLabel, SourceLabel
  <2>2. QED
    BY <1>1, <2>1, PickedAppend, Zenon
<1>4. Bare(lines) => Bare(Append(lines, l))
  <2>1. \A n \in 1 .. Len(Append(lines, l)) : n \in 1 .. Len(lines) \/ n = Len(lines) + 1
    BY <1>2
  <2>2. QED
    BY <1>1, <1>2, <2>1, Zenon DEF Bare
<1>5. QED
  BY <1>2, <1>3, <1>4, Zenon DEF l, ResultsOf, DumpedOf, NextIvsOf

LEMMA PickedLine ==
  ASSUME NEW lines \in Seq(Printable), NEW l \in Printable
  PROVE  /\ Append(lines, l) \in Seq(Printable)
         /\ l.label = SourceLabel =>
              /\ ResultsOf(Append(lines, l)) = ResultsOf(lines)
              /\ DumpedOf(Append(lines, l)) = Append(DumpedOf(lines), l.bytes)
              /\ NextIvsOf(Append(lines, l)) = NextIvsOf(lines)
         /\ l.label = ResultLabel =>
              /\ ResultsOf(Append(lines, l)) = Append(ResultsOf(lines), l.bytes)
              /\ DumpedOf(Append(lines, l)) = DumpedOf(lines)
              /\ NextIvsOf(Append(lines, l)) = NextIvsOf(lines)
         /\ l.label = "Next initialization vector" =>
              /\ ResultsOf(Append(lines, l)) = ResultsOf(lines)
              /\ DumpedOf(Append(lines, l)) = DumpedOf(lines)
              /\ NextIvsOf(Append(lines, l)) = Append(NextIvsOf(lines), l.bytes)
<1>0. Append(lines, l) \in Seq(Printable)
  BY AppendProperties
<1>1. \A labels :
        /\ l.label \in labels => Picked(Append(lines, l), labels) = Append(Picked(lines, labels), l.bytes)
        /\ l.label \notin labels => Picked(Append(lines, l), labels) = Picked(lines, labels)
  BY PickedAppend
<1>2. /\ l.label = SourceLabel =>
           /\ l.label \notin {"", ResultLabel} /\ l.label \in {SourceLabel}
           /\ l.label \notin {"Next initialization vector"}
      /\ l.label = ResultLabel =>
           /\ l.label \in {"", ResultLabel} /\ l.label \notin {SourceLabel}
           /\ l.label \notin {"Next initialization vector"}
      /\ l.label = "Next initialization vector" =>
           /\ l.label \notin {"", ResultLabel} /\ l.label \notin {SourceLabel}
           /\ l.label \in {"Next initialization vector"}
  BY Zenon DEF SourceLabel, ResultLabel
<1>3. QED
  BY <1>0, <1>1, <1>2, Zenon DEF ResultsOf, DumpedOf, NextIvsOf

LEMMA OnePutBehind ==
  ASSUME NEW S, NEW s \in Seq(S), NEW a \in S, NEW b \in S, NEW c \in S
  PROVE  /\ s \o <<a, b>> = Append(Append(s, a), b)
         /\ s \o (<<a, b>> \o <<>>) = Append(Append(s, a), b)
         /\ s \o (<<a, b>> \o <<c>>) = Append(Append(Append(s, a), b), c)
<1>1. /\ <<a>> \in Seq(S) /\ <<b>> \in Seq(S) /\ <<c>> \in Seq(S) /\ <<a, b>> \in Seq(S)
      /\ <<a, b>> \o <<>> = <<a, b>> /\ <<a>> \o <<b>> = <<a, b>>
  <2>1. <<a>> \in Seq(S) /\ <<b>> \in Seq(S) /\ <<c>> \in Seq(S)
    OBVIOUS
  <2>2. <<a, b>> \in Seq(S)
    OBVIOUS
  <2>3. <<a, b>> \o <<>> = <<a, b>>
    BY <2>2, ConcatEmptySeq
  <2>4. <<a>> \o <<b>> = <<a, b>>
    <3>1. Append(<<a>>, b) = <<a>> \o <<b>>
      BY <2>1, AppendIsConcat
    <3>2. Append(<<a>>, b) = <<a, b>>
      <4> DEFINE u == <<a>>
                 v == <<a, b>>
      <4>1. u \in Seq(S) /\ Len(u) = 1 /\ u[1] = a
        BY <2>1
      <4>2. v \in Seq(S) /\ Len(v) = 2 /\ v[1] = a /\ v[2] = b
        BY <2>2
      <4> HIDE DEF u, v
      <4>3. /\ Append(u, b) \in Seq(S) /\ Len(Append(u, b)) = 2
            /\ Append(u, b)[1] = a /\ Append(u, b)[2] = b
        <5>0. u \in Seq(S) /\ b \in S
          BY <4>1
        <5>1. /\ Append(u, b) \in Seq(S) /\ Len(Append(u, b)) = Len(u) + 1
              /\ Append(u, b)[Len(u) + 1] = b
              /\ \A i \in 1 .. Len(u) : Append(u, b)[i] = u[i]
          BY <5>0, AppendProperties
        <5>2. QED
          BY <4>1, <5>1
      <4>4. \A i \in 1 .. Len(v) : Append(u, b)[i] = v[i]
        BY <4>2, <4>3
      <4>5. Append(u, b) = v
        BY <4>2, <4>3, <4>4, SeqEqual
      <4>6. QED
        BY <4>5 DEF u, v
    <3>3. QED
      BY <3>1, <3>2, Zenon
  <2>5. QED
    BY <2>1, <2>2, <2>3, <2>4
<1>2. Append(s, a) = s \o <<a>> /\ Append(s, a) \in Seq(S)
  BY AppendIsConcat, AppendProperties
<1>3. Append(Append(s, a), b) = (s \o <<a>>) \o <<b>> /\ Append(Append(s, a), b) \in Seq(S)
  BY <1>2, AppendIsConcat, AppendProperties
<1>4. (s \o <<a>>) \o <<b>> = s \o (<<a>> \o <<b>>)
  BY <1>1, Regroup DEF Associates
<1>5. Append(Append(Append(s, a), b), c) = Append(Append(s, a), b) \o <<c>>
  BY <1>3, AppendIsConcat
<1>6. (s \o <<a, b>>) \o <<c>> = s \o (<<a, b>> \o <<c>>)
  BY <1>1, Regroup DEF Associates
<1>7. QED
  BY <1>1, <1>3, <1>4, <1>5, <1>6, Zenon

LEMMA PickedDump ==
  ASSUME NEW lines \in Seq(Printable), NEW x \in Word, NEW y \in Word, NEW v \in Word
  PROVE  LET t == lines \o (<<Line(SourceLabel, x), Line(ResultLabel, y)>> \o DumpNextIv(v))
         IN  /\ t \in Seq(Printable)
             /\ ResultsOf(t) = Append(ResultsOf(lines), y)
             /\ DumpedOf(t) = Append(DumpedOf(lines), x)
             /\ NextIvsOf(t) = IF RequiresInitVector(command.mode)
                               THEN Append(NextIvsOf(lines), v) ELSE NextIvsOf(lines)
<1> DEFINE t == lines \o (<<Line(SourceLabel, x), Line(ResultLabel, y)>> \o DumpNextIv(v))
           a == Line(SourceLabel, x)
           b == Line(ResultLabel, y)
           c == Line("Next initialization vector", v)
           t1 == Append(lines, a)
           t2 == Append(t1, b)
           t3 == Append(t2, c)
<1>1. /\ a \in Printable /\ a.label = SourceLabel /\ a.bytes = x
      /\ b \in Printable /\ b.label = ResultLabel /\ b.bytes = y
      /\ c \in Printable /\ c.label = "Next initialization vector" /\ c.bytes = v
  BY Zenon DEF Line, Printable, Labels, SourceLabel, ResultLabel
<1>2. t = IF RequiresInitVector(command.mode) THEN lines \o (<<a, b>> \o <<c>>)
          ELSE lines \o (<<a, b>> \o <<>>)
  BY Zenon DEF DumpNextIv
<1> HIDE DEF a, b, c, t
<1>3. t = IF RequiresInitVector(command.mode) THEN t3 ELSE t2
  <2>1. lines \o (<<a, b>> \o <<>>) = t2 /\ lines \o (<<a, b>> \o <<c>>) = t3
    <3>1. a \in Printable /\ b \in Printable /\ c \in Printable
      BY <1>1, Zenon
    <3>2. QED
      BY <3>1, OnePutBehind
  <2>2. QED
    BY <1>2, <2>1, Zenon
<1> HIDE DEF t1, t2, t3
<1>4. /\ t1 \in Seq(Printable) /\ ResultsOf(t1) = ResultsOf(lines)
      /\ DumpedOf(t1) = Append(DumpedOf(lines), x) /\ NextIvsOf(t1) = NextIvsOf(lines)
  BY <1>1, PickedLine, Zenon DEF t1
<1>5. /\ t2 \in Seq(Printable) /\ ResultsOf(t2) = Append(ResultsOf(t1), y)
      /\ DumpedOf(t2) = DumpedOf(t1) /\ NextIvsOf(t2) = NextIvsOf(t1)
  BY <1>1, <1>4, PickedLine, Zenon DEF t2
<1>6. /\ t3 \in Seq(Printable) /\ ResultsOf(t3) = ResultsOf(t2)
      /\ DumpedOf(t3) = DumpedOf(t2) /\ NextIvsOf(t3) = Append(NextIvsOf(t2), v)
  BY <1>1, <1>5, PickedLine, Zenon DEF t3
<1>7. /\ t \in Seq(Printable)
      /\ ResultsOf(t) = Append(ResultsOf(lines), y)
      /\ DumpedOf(t) = Append(DumpedOf(lines), x)
      /\ NextIvsOf(t) = IF RequiresInitVector(command.mode)
                        THEN Append(NextIvsOf(lines), v) ELSE NextIvsOf(lines)
  BY <1>3, <1>4, <1>5, <1>6, Zenon
<1>8. QED
  BY <1>7, Zenon DEF t

LEMMA SourceBlock ==
  ASSUME NEW g \in Group, NEW n \in 1 .. Len(g.blocks), Readable(g.blocks[n], BlockSize)
  PROVE  SourcesOf(g)[n] = FromString(g.blocks[n], BlockSize) /\ SourcesOf(g)[n] \in Block
<1>1. g.blocks \in Seq(Word)
  BY DEF Group
<1>2. g.blocks[n] \in Word /\ n \in DOMAIN g.blocks
  BY <1>1, ElementOfSeq, LenProperties
<1>3. BlockSize \in Nat \ {0}
  BY BlockSizeAssumption
<1>4. FromString(g.blocks[n], BlockSize) \in Block
  BY <1>2, <1>3, ReadText DEF Block
<1>5. QED
  BY <1>2, <1>4 DEF SourcesOf

(* What the wrapper or box makes of block n of a group, chained to c.       *)
Crypted(g, c, n) ==
  IF IsEncryption THEN EncryptBlock(command.mode, KeyOf(g), c, SourcesOf(g)[n])
  ELSE DecryptBlock(command.mode, KeyOf(g), c, SourcesOf(g)[n])

(* More lines, those that are printed for it.                               *)
Adds(lines, more, x, r) ==
  /\ more \in Seq(Printable)
  /\ ResultsOf(more) = Append(ResultsOf(lines), r.output)
  /\ Dumps => /\ DumpedOf(more) = Append(DumpedOf(lines), x)
              /\ NextIvsOf(more) = IF RequiresInitVector(command.mode)
                                   THEN Append(NextIvsOf(lines), r.iv) ELSE NextIvsOf(lines)
  /\ ~ Dumps => /\ DumpedOf(more) = DumpedOf(lines) /\ NextIvsOf(more) = NextIvsOf(lines)
                /\ Bare(lines) => Bare(more)

(* A group with as many results as n - 1 and a wrapper or box for the next. *)
ReadyFor(g, lines, n, c) ==
  /\ Len(g.iv) = IvCount /\ ReadableGroup(g) /\ FollowsMode(g, lines)
  /\ n = Len(ResultsOf(lines)) + 1
  /\ Readable(g.blocks[n], BlockSize)
  /\ RequiresInitVector(command.mode) => c = ChainedOf(g, lines, n - 1)

LEMMA CryptedNext ==
  ASSUME BlocksTypes, NEW g \in Group, NEW lines \in Seq(Printable), NEW n \in 1 .. Len(g.blocks),
         NEW c \in Block, ReadyFor(g, lines, n, c), NEW more,
         Adds(lines, more, SourcesOf(g)[n], Crypted(g, c, n))
  PROVE  /\ Crypted(g, c, n).output \in Block /\ Crypted(g, c, n).iv \in Block
         /\ ResultsOf(more) \in Seq(Block) /\ Len(ResultsOf(more)) = n
         /\ Encrypts(command.mode, KeyOf(g), IvOf(g), PlainOf(g, more), CodedOf(g, more), n)
         /\ RequiresInitVector(command.mode) => Crypted(g, c, n).iv = ChainedOf(g, more, n)
         /\ \A j \in 1 .. n - 1 :
              /\ Encrypts(command.mode, KeyOf(g), IvOf(g), PlainOf(g, more), CodedOf(g, more), j)
              /\ ChainedOf(g, more, j) = ChainedOf(g, lines, j)
<1> DEFINE o == command.mode
           k == KeyOf(g)
           v == IvOf(g)
           S == SourcesOf(g)
           R == ResultsOf(lines)
           T == ResultsOf(more)
           r == Crypted(g, c, n)
<1>1. /\ o \in Mode /\ k \in Key /\ v \in Block
      /\ RequiresInitVector(command.mode) <=> o # "ECB"
  <2>1. Len(g.iv) = IvCount /\ ReadableGroup(g)
    BY DEF ReadyFor
  <2>2. k \in Key /\ v \in Block
    BY <2>1, GroupFacts
  <2>3. QED
    BY <2>2, CommandFacts DEF RequiresInitVector
<1>2. /\ n = Len(R) + 1 /\ R \in Seq(Block) /\ Readable(g.blocks[n], BlockSize)
      /\ \A j \in 1 .. Len(R) :
           Readable(g.blocks[j], BlockSize) /\ Encrypts(o, k, v, PlainOf(g, lines), CodedOf(g, lines), j)
  BY DEF ReadyFor, FollowsMode
<1>3. Len(R) \in Nat /\ n \in Nat \ {0} /\ n \in 1 .. n /\ 1 .. n - 1 = 1 .. Len(R)
  BY <1>2, LenProperties
<1>4. \A j \in 1 .. n : S[j] \in Block
  <2> SUFFICES ASSUME NEW j \in 1 .. n PROVE S[j] \in Block
    OBVIOUS
  <2>0. g.blocks \in Seq(Word)
    BY DEF Group
  <2>1. j \in 1 .. Len(g.blocks) /\ Readable(g.blocks[j], BlockSize)
    BY <1>2, <1>3, <2>0, LenProperties
  <2>2. QED
    BY <2>1, SourceBlock
<1>5. r.output \in Block /\ r.iv \in Block
  <2>1. S[n] \in Block
    BY <1>3, <1>4
  <2>2. QED
    BY <1>1, <2>1, CryptType DEF Crypted
<1>6. /\ T \in Seq(Block) /\ Len(T) = n /\ T[n] = r.output /\ \A j \in 1 .. n - 1 : T[j] = R[j]
  <2>1. T = Append(R, r.output)
    BY DEF Adds
  <2> HIDE DEF T, R, r
  <2>2. /\ Append(R, r.output) \in Seq(Block) /\ Len(Append(R, r.output)) = Len(R) + 1
        /\ Append(R, r.output)[Len(R) + 1] = r.output
        /\ \A j \in 1 .. Len(R) : Append(R, r.output)[j] = R[j]
    <3>1. R \in Seq(Block) /\ r.output \in Block
      BY <1>2, <1>5
    <3>2. QED
      BY <3>1, AppendProperties
  <2>3. QED
    BY <1>2, <1>3, <2>1, <2>2
<1>7. Agree(T, R, n - 1)
  BY <1>6 DEF Agree
<1>8. /\ \A j \in 1 .. n - 1 : R[j] \in Block
      /\ o # "ECB" => c = ChainedOf(g, lines, n - 1)
  BY <1>1, <1>2, <1>3, ElementOfSeq DEF ReadyFor
<1> DEFINE Goal == /\ Encrypts(o, k, v, PlainOf(g, more), CodedOf(g, more), n)
                   /\ o # "ECB" => r.iv = ChainedOf(g, more, n)
                   /\ \A j \in 1 .. n - 1 :
                        /\ Encrypts(o, k, v, PlainOf(g, more), CodedOf(g, more), j)
                             <=> Encrypts(o, k, v, PlainOf(g, lines), CodedOf(g, lines), j)
                        /\ ChainedOf(g, more, j) = ChainedOf(g, lines, j)
<1> HIDE DEF Goal
<1>9. ASSUME IsEncryption PROVE Goal
  <2>1. /\ PlainOf(g, lines) = S /\ PlainOf(g, more) = S
        /\ CodedOf(g, lines) = R /\ CodedOf(g, more) = T
        /\ r = EncryptBlock(o, k, c, S[n])
        /\ \A j : ChainedOf(g, lines, j) = Chained(o, k, v, S, R, j)
                  /\ ChainedOf(g, more, j) = Chained(o, k, v, S, T, j)
    BY <1>9 DEF PlainOf, CodedOf, ChainedOf, Crypted
  <2> HIDE DEF o, k, v, S, R, T, r
  <2>2. T[n] = EncryptBlock(o, k, c, S[n]).output /\ (o # "ECB" => c = Chained(o, k, v, S, R, n - 1))
    BY <1>6, <1>8, <2>1
  <2>3. /\ Encrypts(o, k, v, S, T, n)
        /\ o # "ECB" => EncryptBlock(o, k, c, S[n]).iv = Chained(o, k, v, S, T, n)
        /\ \A j \in 1 .. n - 1 :
             /\ Encrypts(o, k, v, S, T, j) <=> Encrypts(o, k, v, S, R, j)
             /\ Chained(o, k, v, S, T, j) = Chained(o, k, v, S, R, j)
    <3>1. o \in Mode /\ k \in Key /\ v \in Block /\ n \in Nat \ {0}
      BY <1>1, <1>3
    <3>2. \A j \in 1 .. n - 1 : R[j] \in Block
      BY <1>8
    <3>3. EncryptsNext(o, k, v, S, R, T, n, c)
      BY <1>4, <1>7, <2>2, <3>2 DEF EncryptsNext
    <3>4. QED
      BY <3>1, <3>3, EncryptedNext
  <2>4. QED
    BY <2>1, <2>3 DEF Goal
<1>10. ASSUME ~ IsEncryption PROVE Goal
  <2>1. /\ PlainOf(g, lines) = R /\ PlainOf(g, more) = T
        /\ CodedOf(g, lines) = S /\ CodedOf(g, more) = S
        /\ r = DecryptBlock(o, k, c, S[n])
        /\ \A j : ChainedOf(g, lines, j) = Chained(o, k, v, R, S, j)
                  /\ ChainedOf(g, more, j) = Chained(o, k, v, T, S, j)
    BY <1>10 DEF PlainOf, CodedOf, ChainedOf, Crypted
  <2> HIDE DEF o, k, v, S, R, T, r
  <2>2. T[n] = DecryptBlock(o, k, c, S[n]).output /\ (o # "ECB" => c = Chained(o, k, v, R, S, n - 1))
    BY <1>6, <1>8, <2>1
  <2>3. /\ Encrypts(o, k, v, T, S, n)
        /\ o # "ECB" => DecryptBlock(o, k, c, S[n]).iv = Chained(o, k, v, T, S, n)
        /\ \A j \in 1 .. n - 1 :
             /\ Encrypts(o, k, v, T, S, j) <=> Encrypts(o, k, v, R, S, j)
             /\ Chained(o, k, v, T, S, j) = Chained(o, k, v, R, S, j)
    <3>1. o \in Mode /\ k \in Key /\ v \in Block /\ n \in Nat \ {0}
      BY <1>1, <1>3
    <3>2. \A j \in 1 .. n - 1 : R[j] \in Block
      BY <1>8
    <3>3. DecryptsNext(o, k, v, R, S, T, n, c)
      BY <1>4, <1>7, <2>2, <3>2 DEF DecryptsNext
    <3>4. QED
      BY <3>1, <3>3, DecryptedNext
  <2>4. QED
    BY <2>1, <2>3 DEF Goal
<1>11. \A j \in 1 .. n - 1 : Encrypts(o, k, v, PlainOf(g, lines), CodedOf(g, lines), j)
  BY <1>2, <1>3
<1>12. Goal
  BY <1>9, <1>10
<1>13. QED
  BY <1>1, <1>5, <1>6, <1>11, <1>12 DEF Goal

LEMMA FollowsNext ==
  ASSUME BlocksTypes, NEW g \in Group, NEW lines \in Seq(Printable), NEW n \in 1 .. Len(g.blocks),
         NEW c \in Block, ReadyFor(g, lines, n, c), NEW more,
         Adds(lines, more, SourcesOf(g)[n], Crypted(g, c, n))
  PROVE  FollowsMode(g, more)
<1> DEFINE R == ResultsOf(lines)
           T == ResultsOf(more)
           r == Crypted(g, c, n)
<1>1. /\ r.output \in Block /\ r.iv \in Block
      /\ T \in Seq(Block) /\ Len(T) = n
      /\ Encrypts(command.mode, KeyOf(g), IvOf(g), PlainOf(g, more), CodedOf(g, more), n)
      /\ RequiresInitVector(command.mode) => r.iv = ChainedOf(g, more, n)
      /\ \A j \in 1 .. n - 1 :
           /\ Encrypts(command.mode, KeyOf(g), IvOf(g), PlainOf(g, more), CodedOf(g, more), j)
           /\ ChainedOf(g, more, j) = ChainedOf(g, lines, j)
  BY CryptedNext
<1>2. FollowsMode(g, lines) /\ n = Len(R) + 1 /\ Readable(g.blocks[n], BlockSize)
  BY DEF ReadyFor
<1>3. Len(R) \in Nat /\ n \in Nat /\ Len(g.blocks) \in Nat
  <2>1. R \in Seq(Block) /\ g.blocks \in Seq(Word)
    BY <1>2 DEF FollowsMode, Group
  <2>2. QED
    BY <2>1, LenProperties
<1> HIDE DEF R, T, r
<1>4. /\ DumpedOf(lines) \in Seq(Word) /\ NextIvsOf(lines) \in Seq(Word)
      /\ SourcesOf(g)[n] \in Word /\ r.iv \in Word
  <2>1. SourcesOf(g)[n] \in Block
    BY <1>2, SourceBlock
  <2>2. \A b \in Block : b \in Word
    BY BlockText
  <2>3. QED
    BY <1>1, <2>1, <2>2, PickedType, Zenon DEF DumpedOf, NextIvsOf
<1>5. /\ Len(DumpedOf(lines)) \in Nat /\ Len(NextIvsOf(lines)) \in Nat
      /\ Len(Append(DumpedOf(lines), SourcesOf(g)[n])) = Len(DumpedOf(lines)) + 1
      /\ Append(DumpedOf(lines), SourcesOf(g)[n])[Len(DumpedOf(lines)) + 1] = SourcesOf(g)[n]
      /\ \A j \in 1 .. Len(DumpedOf(lines)) :
           Append(DumpedOf(lines), SourcesOf(g)[n])[j] = DumpedOf(lines)[j]
  BY <1>4, AppendProperties, LenProperties
<1>6. /\ Len(Append(NextIvsOf(lines), r.iv)) = Len(NextIvsOf(lines)) + 1
      /\ Append(NextIvsOf(lines), r.iv)[Len(NextIvsOf(lines)) + 1] = r.iv
      /\ \A j \in 1 .. Len(NextIvsOf(lines)) :
           Append(NextIvsOf(lines), r.iv)[j] = NextIvsOf(lines)[j]
  BY <1>4, AppendProperties
<1>7. /\ Len(DumpedOf(lines)) = IF Dumps THEN n - 1 ELSE 0
      /\ \A j \in 1 .. Len(DumpedOf(lines)) : DumpedOf(lines)[j] = SourcesOf(g)[j]
      /\ Len(NextIvsOf(lines)) =
           IF RequiresInitVector(command.mode) THEN IF Dumps THEN n - 1 ELSE 0 ELSE 0
      /\ \A j \in 1 .. Len(NextIvsOf(lines)) : NextIvsOf(lines)[j] = ChainedOf(g, lines, j)
      /\ Dumps \/ Bare(lines)
  BY <1>2, <1>3 DEF FollowsMode, Dumped, R
<1>8. /\ Dumps => /\ DumpedOf(more) = Append(DumpedOf(lines), SourcesOf(g)[n])
                  /\ NextIvsOf(more) = IF RequiresInitVector(command.mode)
                                       THEN Append(NextIvsOf(lines), r.iv) ELSE NextIvsOf(lines)
      /\ ~ Dumps => /\ DumpedOf(more) = DumpedOf(lines) /\ NextIvsOf(more) = NextIvsOf(lines)
                    /\ Bare(lines) => Bare(more)
  BY DEF Adds, r
<1>9. /\ T \in Seq(Block) /\ Len(T) <= Len(g.blocks)
      /\ \A j \in 1 .. Len(T) :
           /\ Readable(g.blocks[j], BlockSize)
           /\ Encrypts(command.mode, KeyOf(g), IvOf(g), PlainOf(g, more), CodedOf(g, more), j)
  <2>1. \A j \in 1 .. n - 1 : Readable(g.blocks[j], BlockSize)
    BY <1>2, <1>3 DEF FollowsMode, R
  <2>2. \A j \in 1 .. n : j = n \/ j \in 1 .. n - 1
    BY <1>3
  <2>3. n <= Len(g.blocks)
    BY <1>3
  <2>4. QED
    BY <1>1, <1>2, <2>1, <2>2, <2>3
<1>10. /\ Len(DumpedOf(more)) = IF Dumps THEN Len(T) ELSE 0
       /\ \A j \in 1 .. Len(DumpedOf(more)) : DumpedOf(more)[j] = SourcesOf(g)[j]
  <2>1. CASE Dumps
    <3>1. /\ DumpedOf(more) = Append(DumpedOf(lines), SourcesOf(g)[n])
          /\ Len(DumpedOf(lines)) = n - 1
      BY <1>7, <1>8, <2>1
    <3>2. /\ Len(DumpedOf(more)) = n /\ DumpedOf(more)[n] = SourcesOf(g)[n]
          /\ \A j \in 1 .. n - 1 : DumpedOf(more)[j] = SourcesOf(g)[j]
      BY <1>3, <1>5, <1>7, <3>1
    <3>3. \A j \in 1 .. n : j = n \/ j \in 1 .. n - 1
      BY <1>3
    <3>4. QED
      BY <1>1, <2>1, <3>2, <3>3
  <2>2. CASE ~ Dumps
    <3>1. DumpedOf(more) = DumpedOf(lines) /\ Len(DumpedOf(lines)) = 0
      BY <1>7, <1>8, <2>2
    <3>2. QED
      BY <1>7, <2>2, <3>1
  <2>3. QED
    BY <2>1, <2>2
<1>11. /\ Len(NextIvsOf(more)) =
            IF RequiresInitVector(command.mode) THEN IF Dumps THEN Len(T) ELSE 0 ELSE 0
       /\ \A j \in 1 .. Len(NextIvsOf(more)) : NextIvsOf(more)[j] = ChainedOf(g, more, j)
  <2>1. CASE Dumps /\ RequiresInitVector(command.mode)
    <3>1. /\ NextIvsOf(more) = Append(NextIvsOf(lines), r.iv)
          /\ Len(NextIvsOf(lines)) = n - 1
      BY <1>7, <1>8, <2>1
    <3>2. /\ Len(NextIvsOf(more)) = n /\ NextIvsOf(more)[n] = r.iv
          /\ \A j \in 1 .. n - 1 : NextIvsOf(more)[j] = ChainedOf(g, lines, j)
      BY <1>3, <1>6, <1>7, <3>1
    <3>3. \A j \in 1 .. n : j = n \/ j \in 1 .. n - 1
      BY <1>3
    <3>4. \A j \in 1 .. n : NextIvsOf(more)[j] = ChainedOf(g, more, j)
      BY <1>1, <2>1, <3>2, <3>3
    <3>5. QED
      BY <1>1, <2>1, <3>2, <3>4
  <2>2. CASE ~ (Dumps /\ RequiresInitVector(command.mode))
    <3>1. NextIvsOf(more) = NextIvsOf(lines) /\ Len(NextIvsOf(lines)) = 0
      BY <1>7, <1>8, <2>2
    <3>2. QED
      BY <2>2, <3>1
  <2>3. QED
    BY <2>1, <2>2
<1>12. Dumps \/ Bare(more)
  BY <1>7, <1>8
<1>13. QED
  BY <1>9, <1>10, <1>11, <1>12 DEF FollowsMode, T, Dumped

-----------------------------------------------------------------------------
(* While the command line stays, so does what is said of groups and lines.  *)
LEMMA SameCommand ==
  ASSUME command' = command, NEW g, NEW lines
  PROVE  /\ FollowsMode(g, lines)' <=> FollowsMode(g, lines)
         /\ Finished(g, lines)' <=> Finished(g, lines)
         /\ ReadableGroup(g)' <=> ReadableGroup(g)
         /\ ResultsOf(lines)' = ResultsOf(lines)
         /\ KeyOf(g)' = KeyOf(g)
         /\ IvCount' = IvCount /\ IsEncryption' = IsEncryption
         /\ \A n : ChainedOf(g, lines, n)' = ChainedOf(g, lines, n)
  BY DEF FollowsMode, Finished, ReadableGroup, ResultsOf, KeyOf, IvCount, IsEncryption, ChainedOf,
         PlainOf, CodedOf, Dumped, Dumps, DumpedOf, NextIvsOf, SourceLabel, ResultLabel

LEMMA SameReading ==
  ASSUME UNCHANGED <<command, src, inputs, earlier>>, exit_code' # 1, ReadingBack
  PROVE  ReadingBack'
  BY DEF ReadingBack, GivenBack, Returned, IsEncryption, ReadableGroup, IvCount, KeyOf

LEMMA SameParsed ==
  ASSUME UNCHANGED <<command, src, inputs>>, Parsed,
         phase' = "blocks" \/ printed' # <<>> \/ exit_code' = 0 => src = <<>>
  PROVE  Parsed'
  BY Zenon DEF Parsed, Joined, Positional, ToArgs

LEMMA StillRunning == ASSUME exit_code' = -1 PROVE Exits'
  BY DEF Exits, ExitTellsOutput

(* The group at hand, its lines, and the number of the next block.          *)
Begun == inputs[Len(printed)]

Shown == printed[Len(printed)]

NextBlock == Len(ResultsOf(Shown)) + 1

LEMMA InGroup ==
  ASSUME BlocksInv, phase = "blocks"
  PROVE  /\ Len(printed) \in 1 .. Len(printed) /\ Len(printed) \in 1 .. Len(inputs)
         /\ Begun \in Group /\ Len(Begun.iv) = IvCount /\ Begun.blocks \in Seq(Word)
         /\ Shown \in Seq(Printable)
         /\ FollowsMode(Begun, Shown) /\ Underway(Begun, Shown)
         /\ NextBlock \in Nat /\ NextBlock >= 1 /\ NextBlock <= Len(Begun.blocks) + 1
         /\ todo = SubSeq(Begun.blocks, NextBlock, Len(Begun.blocks))
         /\ src = <<>> /\ exit_code = -1
<1>1. BlocksTypes /\ Parsed /\ Groups /\ Phases
  BY DEF BlocksInv
<1>2. /\ printed # <<>> /\ Underway(Begun, Shown) /\ exit_code = -1 /\ src = <<>>
  BY <1>1 DEF Phases, Parsed, Begun, Shown
<1>3. printed \in Seq(Seq(Printable)) /\ inputs \in Seq(Group)
  BY <1>1 DEF BlocksTypes
<1>4. Len(printed) \in 1 .. Len(printed) /\ Len(printed) \in 1 .. Len(inputs)
  <2>1. Len(printed) \in Nat \ {0}
    BY <1>2, <1>3, EmptySeq
  <2>2. Len(inputs) \in Nat /\ Len(printed) <= Len(inputs)
    BY <1>1, <1>3, LenProperties DEF Groups
  <2>3. QED
    BY <2>1, <2>2
<1>5. Begun \in Group /\ Shown \in Seq(Printable)
  BY <1>3, <1>4, ElementOfSeq DEF Begun, Shown
<1>6. Len(Begun.iv) = IvCount /\ FollowsMode(Begun, Shown)
  BY <1>1, <1>4 DEF BlocksTypes, Groups, Begun, Shown
<1>7. Begun.blocks \in Seq(Word)
  BY <1>5 DEF Group
<1>8. ResultsOf(Shown) \in Seq(Block) /\ Len(ResultsOf(Shown)) <= Len(Begun.blocks)
  BY <1>6 DEF FollowsMode
<1>9. NextBlock \in Nat /\ NextBlock >= 1 /\ NextBlock <= Len(Begun.blocks) + 1
  BY <1>7, <1>8, LenProperties DEF NextBlock
<1>10. todo = SubSeq(Begun.blocks, NextBlock, Len(Begun.blocks))
  BY <1>2 DEF Underway, NextBlock
<1>11. QED
  BY <1>2, <1>4, <1>5, <1>6, <1>7, <1>9, <1>10

LEMMA AtBlock ==
  ASSUME BlocksInv, phase = "blocks", todo # <<>>
  PROVE  /\ NextBlock \in 1 .. Len(Begun.blocks)
         /\ Head(todo) = Begun.blocks[NextBlock]
         /\ Tail(todo) = SubSeq(Begun.blocks, NextBlock + 1, Len(Begun.blocks))
         /\ Tail(todo) \in Seq(Word) /\ Head(todo) \in Word
         /\ cipher.key = KeyOf(Begun) /\ cipher.iv \in Block
         /\ Readable(Head(todo), BlockSize) =>
              /\ ReadyFor(Begun, Shown, NextBlock, cipher.iv)
              /\ SourcesOf(Begun)[NextBlock] = FromString(Head(todo), BlockSize)
              /\ SourcesOf(Begun)[NextBlock] \in Block
<1>1. /\ Begun \in Group /\ Len(Begun.iv) = IvCount /\ Begun.blocks \in Seq(Word)
      /\ FollowsMode(Begun, Shown) /\ Underway(Begun, Shown)
      /\ NextBlock \in Nat /\ NextBlock >= 1 /\ NextBlock <= Len(Begun.blocks) + 1
      /\ todo = SubSeq(Begun.blocks, NextBlock, Len(Begun.blocks))
  BY InGroup
<1>2. todo \in Seq(Word) /\ Len(Begun.blocks) \in Nat
  BY <1>1, LenProperties DEF BlocksInv, BlocksTypes
<1>3. NextBlock \in 1 .. Len(Begun.blocks)
  <2>1. CASE NextBlock = Len(Begun.blocks) + 1
    <3>1. SubSeq(Begun.blocks, NextBlock, Len(Begun.blocks)) = <<>>
      BY <1>1, <1>2, <2>1, SubSeqEmpty
    <3>2. QED
      BY <1>1, <3>1
  <2>2. QED
    BY <1>1, <1>2, <2>1
<1>4. Begun.blocks[NextBlock] \in Word
  BY <1>1, <1>3, ElementOfSeq
<1>5. /\ Head(todo) = Begun.blocks[NextBlock]
      /\ Tail(todo) = SubSeq(Begun.blocks, NextBlock + 1, Len(Begun.blocks))
  <2> DEFINE s == Begun.blocks
             m == NextBlock
  <2>1. s \in Seq(Word) /\ m \in 1 .. Len(s) /\ todo = SubSeq(s, m, Len(s)) /\ Len(s) \in Nat
    BY <1>1, <1>2, <1>3
  <2> HIDE DEF s, m
  <2>2. \A j \in m .. Len(s) : s[j] \in Word
    BY <2>1, ElementOfSeq
  <2>3. todo = <<s[m]>> \o SubSeq(s, m + 1, Len(s))
    <3>1. m \in Int /\ Len(s) \in m .. Len(s) /\ Len(s) \in Int /\ m <= Len(s)
      BY <2>1
    <3>2. QED
      BY <2>1, <3>1, SubSeqRecursiveFirst
  <2>4. SubSeq(s, m + 1, Len(s)) \in Seq(Word)
    BY <2>1, <2>2, SubSeqProperties
  <2>5. QED
    BY <2>1, <2>2, <2>3, <2>4 DEF s, m
<1>6. Tail(todo) \in Seq(Word) /\ Head(todo) \in Word
  BY <1>2, HeadTailProperties
<1>7. cipher.key = KeyOf(Begun) /\ cipher.iv \in Block
  BY <1>1 DEF Underway
<1>8. ASSUME Readable(Head(todo), BlockSize)
      PROVE  /\ ReadyFor(Begun, Shown, NextBlock, cipher.iv)
             /\ SourcesOf(Begun)[NextBlock] = FromString(Head(todo), BlockSize)
             /\ SourcesOf(Begun)[NextBlock] \in Block
  <2>1. Readable(Begun.blocks[NextBlock], BlockSize)
    BY <1>5, <1>8
  <2>2. SourcesOf(Begun)[NextBlock] = FromString(Begun.blocks[NextBlock], BlockSize) /\ SourcesOf(Begun)[NextBlock] \in Block
    BY <1>1, <1>3, <2>1, SourceBlock
  <2>3. Len(ResultsOf(Shown)) \in Nat /\ NextBlock = Len(ResultsOf(Shown)) + 1 /\ NextBlock - 1 = Len(ResultsOf(Shown))
    BY <1>1, LenProperties DEF FollowsMode, NextBlock
  <2>4. RequiresInitVector(command.mode) => cipher.iv = ChainedOf(Begun, Shown, NextBlock - 1)
    BY <1>1, <2>3 DEF Underway
  <2>5. ReadyFor(Begun, Shown, NextBlock, cipher.iv)
    BY <1>1, <2>1, <2>3, <2>4 DEF ReadyFor, Underway
  <2>6. QED
    BY <1>5, <2>2, <2>5
<1>9. QED
  BY <1>3, <1>5, <1>6, <1>7, <1>8, Zenon

(* A block goes through, in whichever way.                                  *)
LEMMA ProcessStep ==
  ASSUME BlocksInv, phase = "blocks", todo # <<>>, Readable(Head(todo), BlockSize),
         NEW r, r = Crypted(Begun, cipher.iv, NextBlock), NEW added,
         Adds(Shown, Shown \o added, SourcesOf(Begun)[NextBlock], r), PrintBlock(r, added)
  PROVE  BlocksInv'
<1> DEFINE i == Len(printed)
           g == Begun
           n == NextBlock
           more == Shown \o added
<1>1. /\ i \in 1 .. Len(printed) /\ i \in 1 .. Len(inputs)
      /\ g \in Group /\ Len(g.iv) = IvCount /\ Shown \in Seq(Printable)
      /\ src = <<>> /\ exit_code = -1
  BY InGroup
<1>2. /\ n \in 1 .. Len(g.blocks) /\ n \in Nat
      /\ Tail(todo) = SubSeq(g.blocks, n + 1, Len(g.blocks)) /\ Tail(todo) \in Seq(Word)
      /\ cipher.key = KeyOf(g) /\ cipher.iv \in Block
      /\ ReadyFor(g, Shown, n, cipher.iv)
  BY AtBlock, InGroup, Zenon
<1>3. /\ command' = command /\ src' = src /\ inputs' = inputs /\ phase' = phase
      /\ exit_code' = exit_code /\ earlier' = earlier
      /\ todo' = Tail(todo) /\ cipher' = [cipher EXCEPT !.iv = r.iv]
      /\ printed' = [printed EXCEPT ![i] = more]
  <2>1. printed' = [printed EXCEPT ![i] = printed[i] \o added]
    BY DEF PrintBlock
  <2>2. QED
    BY <2>1 DEF PrintBlock, Shown
<1>4. BlocksTypes /\ Parsed /\ Groups /\ Phases /\ ReadingBack
  BY DEF BlocksInv
<1>5. /\ r.output \in Block /\ r.iv \in Block
      /\ Len(ResultsOf(more)) = n
      /\ RequiresInitVector(command.mode) => r.iv = ChainedOf(g, more, n)
      /\ FollowsMode(g, more) /\ more \in Seq(Printable)
  <2>1. Adds(Shown, more, SourcesOf(g)[n], Crypted(g, cipher.iv, n))
    OBVIOUS
  <2>2. more \in Seq(Printable)
    BY <2>1 DEF Adds
  <2> HIDE DEF g, n, more
  <2>3. FollowsMode(g, more)
    BY <1>1, <1>2, <1>4, <2>1, FollowsNext
  <2>4. /\ Crypted(g, cipher.iv, n).output \in Block /\ Crypted(g, cipher.iv, n).iv \in Block
        /\ Len(ResultsOf(more)) = n
        /\ RequiresInitVector(command.mode) => Crypted(g, cipher.iv, n).iv = ChainedOf(g, more, n)
    BY <1>1, <1>2, <1>4, <2>1, CryptedNext
  <2>5. QED
    BY <2>2, <2>3, <2>4 DEF g, n
<1> HIDE DEF more
<1>6. /\ printed' \in Seq(Seq(Printable)) /\ Len(printed') = i /\ printed'[i] = more
      /\ \A j \in 1 .. i - 1 : printed'[j] = printed[j]
      /\ i \in Nat
  <2>1. printed \in Seq(Seq(Printable)) /\ more \in Seq(Printable)
    BY <1>4, <1>5 DEF BlocksTypes
  <2>2. i \in Nat /\ i \in 1 .. i /\ \A j \in 1 .. i - 1 : j \in 1 .. i /\ j # i
    BY <2>1, <1>1, LenProperties
  <2>3. /\ [printed EXCEPT ![i] = more] \in Seq(Seq(Printable))
        /\ Len([printed EXCEPT ![i] = more]) = Len(printed)
        /\ \A j \in 1 .. Len(printed) :
             [printed EXCEPT ![i] = more][j] = IF j = i THEN more ELSE printed[j]
    BY <1>1, <2>1, ExceptSeq
  <2>4. QED
    BY <1>3, <2>2, <2>3
<1>7. BlocksTypes'
  <2>1. r.iv \in Word
    BY <1>5, BlockText
  <2>2. cipher' \in [key : Word, iv : Word]
    BY <1>3, <1>4, <2>1, Zenon DEF BlocksTypes
  <2>3. QED
    BY <1>2, <1>3, <1>4, <1>6, <2>2 DEF BlocksTypes, IvCount
<1>8. Parsed'
  BY <1>1, <1>3, <1>4, SameParsed
<1>9. Groups'
  <2>1. /\ \A j \in 1 .. i - 1 : FollowsMode(inputs[j], printed[j]) /\ Finished(inputs[j], printed[j])
        /\ i <= Len(inputs)
    BY <1>1, <1>4, <1>6 DEF Groups
  <2>2. \A j \in 1 .. i : j = i \/ j \in 1 .. i - 1
    BY <1>6
  <2>3. \A j \in 1 .. i : FollowsMode(inputs[j], printed'[j])
    BY <1>5, <1>6, <2>1, <2>2, Zenon DEF Begun
  <2>4. \A j \in 1 .. i - 1 : Finished(inputs[j], printed'[j])
    BY <1>6, <2>1, Zenon
  <2>5. /\ \A j \in 1 .. i : FollowsMode(inputs[j], printed[j])'
        /\ \A j \in 1 .. i - 1 : Finished(inputs[j], printed[j])'
    BY <1>3, <2>3, <2>4, SameCommand
  <2>6. QED
    BY <1>3, <1>6, <2>1, <2>5 DEF Groups
<1>10. Phases'
  <2>1. /\ ReadableGroup(g) /\ cipher'.key = KeyOf(g) /\ cipher'.iv = r.iv
    <3>1. ReadableGroup(g)
      BY <1>2 DEF ReadyFor
    <3>2. cipher \in [key : Word, iv : Word]
      BY <1>4 DEF BlocksTypes
    <3>3. QED
      BY <1>2, <1>3, <3>1, <3>2
  <2> HIDE DEF g, n
  <2>3. inputs'[Len(printed')] = g /\ printed'[Len(printed')] = more /\ printed' # <<>>
    <3>1. Len(printed') # 0
      BY <1>1, <1>6
    <3>2. QED
      BY <1>3, <1>6, <3>1 DEF g, Begun
  <2>2. /\ ReadableGroup(inputs[Len(printed)])' <=> ReadableGroup(g)
        /\ ResultsOf(printed[Len(printed)])' = ResultsOf(more)
        /\ KeyOf(inputs[Len(printed)])' = KeyOf(g)
        /\ \A m : ChainedOf(inputs[Len(printed)], printed[Len(printed)], m)' = ChainedOf(g, more, m)
    <3>1. command' = command
      BY <1>3
    <3>2. ReadableGroup(inputs[Len(printed)])' <=> ReadableGroup(g)
      BY <2>3, <3>1, SameCommand, Zenon
    <3>3. ResultsOf(printed[Len(printed)])' = ResultsOf(more)
      BY <2>3, <3>1, SameCommand, Zenon
    <3>4. KeyOf(inputs[Len(printed)])' = KeyOf(g)
      BY <2>3, <3>1, SameCommand, Zenon
    <3>5. \A m : ChainedOf(inputs[Len(printed)], printed[Len(printed)], m)' = ChainedOf(g, more, m)
      BY <2>3, <3>1, SameCommand, Zenon
    <3>6. QED
      BY <3>2, <3>3, <3>4, <3>5
  <2>4. Underway(inputs[Len(printed)], printed[Len(printed)])'
    <3>1. ReadableGroup(inputs[Len(printed)])'
      BY <2>1, <2>2
    <3>2. todo' = SubSeq(inputs'[Len(printed')].blocks, Len(ResultsOf(printed[Len(printed)])') + 1,
                         Len(inputs'[Len(printed')].blocks))
      BY <1>2, <1>3, <1>5, <2>2, <2>3, Zenon DEF g, n
    <3>3. cipher'.key = KeyOf(inputs[Len(printed)])' /\ cipher'.iv \in Block
      BY <1>5, <2>1, <2>2
    <3>4. RequiresInitVector(command.mode)' =>
            cipher'.iv = ChainedOf(inputs[Len(printed)], printed[Len(printed)],
                                   Len(ResultsOf(printed[Len(printed)])))'
      BY <1>3, <1>5, <2>1, <2>2
    <3>5. QED
      BY <3>1, <3>2, <3>3, <3>4 DEF Underway
  <2>5. QED
    BY <1>1, <1>3, <1>4, <2>3, <2>4 DEF Phases
<1>11. Exits'
  BY <1>1, <1>3, StillRunning
<1>12. ReadingBack'
  BY <1>1, <1>3, <1>4, SameReading
<1>13. QED
  BY <1>7, <1>8, <1>9, <1>10, <1>11, <1>12 DEF BlocksInv

LEMMA AddsBare ==
  ASSUME NEW lines \in Seq(Printable), NEW x, NEW r, r.output \in Word, ~ Dumps
  PROVE  Adds(lines, lines \o <<Line("", r.output)>>, x, r)
<1> DEFINE more == lines \o <<Line("", r.output)>>
<1>1. /\ more \in Seq(Printable) /\ ResultsOf(more) = Append(ResultsOf(lines), r.output)
      /\ DumpedOf(more) = DumpedOf(lines) /\ NextIvsOf(more) = NextIvsOf(lines)
      /\ Bare(lines) => Bare(more)
  BY PickedBare, Zenon
<1> HIDE DEF more
<1>2. Adds(lines, more, x, r)
  BY <1>1 DEF Adds
<1>3. QED
  BY <1>2, Zenon DEF more

LEMMA AddsDump ==
  ASSUME NEW lines \in Seq(Printable), NEW x \in Word, NEW r, r.output \in Word, r.iv \in Word, Dumps
  PROVE  Adds(lines,
              lines \o (<<Line(SourceLabel, x), Line(ResultLabel, r.output)>> \o DumpNextIv(r.iv)), x, r)
<1> DEFINE more == lines \o (<<Line(SourceLabel, x), Line(ResultLabel, r.output)>> \o DumpNextIv(r.iv))
<1>1. /\ more \in Seq(Printable) /\ ResultsOf(more) = Append(ResultsOf(lines), r.output)
      /\ DumpedOf(more) = Append(DumpedOf(lines), x)
      /\ NextIvsOf(more) = IF RequiresInitVector(command.mode)
                           THEN Append(NextIvsOf(lines), r.iv) ELSE NextIvsOf(lines)
  BY PickedDump, Zenon
<1> HIDE DEF more
<1>2. Adds(lines, more, x, r)
  BY <1>1 DEF Adds
<1>3. QED
  BY <1>2 DEF more

(* What comes out of a block that can be read.                              *)
LEMMA CryptedType ==
  ASSUME BlocksInv, phase = "blocks", todo # <<>>, Readable(Head(todo), BlockSize),
         NEW r, r = Crypted(Begun, cipher.iv, NextBlock)
  PROVE  /\ r.output \in Word /\ r.iv \in Word /\ Shown \in Seq(Printable)
         /\ SourcesOf(Begun)[NextBlock] \in Word /\ SourcesOf(Begun)[NextBlock] = FromString(Head(todo), BlockSize)
<1>1. /\ SourcesOf(Begun)[NextBlock] = FromString(Head(todo), BlockSize) /\ SourcesOf(Begun)[NextBlock] \in Block
      /\ cipher.iv \in Block /\ ReadyFor(Begun, Shown, NextBlock, cipher.iv)
  BY AtBlock
<1>2. Begun \in Group /\ Len(Begun.iv) = IvCount /\ Shown \in Seq(Printable)
  BY InGroup
<1>3. BlocksTypes
  BY DEF BlocksInv
<1>4. KeyOf(Begun) \in Key /\ command.mode \in Mode
  <2>1. ReadableGroup(Begun)
    BY <1>1 DEF ReadyFor
  <2>2. QED
    BY <1>2, <1>3, <2>1, GroupFacts, CommandFacts
<1>5. r.output \in Block /\ r.iv \in Block
  <2> DEFINE o == command.mode
             k == KeyOf(Begun)
             v == cipher.iv
             x == SourcesOf(Begun)[NextBlock]
  <2>1. o \in Mode /\ k \in Key /\ v \in Block /\ x \in Block
    BY <1>1, <1>4
  <2>2. r = IF IsEncryption THEN EncryptBlock(o, k, v, x) ELSE DecryptBlock(o, k, v, x)
    BY DEF Crypted
  <2> HIDE DEF o, k, v, x
  <2>3. /\ EncryptBlock(o, k, v, x).output \in Block /\ EncryptBlock(o, k, v, x).iv \in Block
        /\ DecryptBlock(o, k, v, x).output \in Block /\ DecryptBlock(o, k, v, x).iv \in Block
    BY <2>1, CryptType
  <2>4. QED
    BY <2>2, <2>3
<1>6. QED
  BY <1>1, <1>2, <1>5, BlockText

LEMMA EncryptWithModeKeeps == ASSUME BlocksInv, EncryptWithMode PROVE BlocksInv'
<1> DEFINE x == FromString(Head(todo), BlockSize)
           r == EncryptBlock(command.mode, cipher.key, cipher.iv, x)
<1>1. /\ phase = "blocks" /\ todo # <<>> /\ Readable(Head(todo), BlockSize)
      /\ command.op = "encrypt" /\ command.use_boxes = FALSE
      /\ PrintBlock(r, IF command.verbose
                       THEN <<Line("Plaintext", x), Line("Ciphertext", r.output)>> \o DumpNextIv(r.iv)
                       ELSE <<Line("", r.output)>>)
  BY Zenon DEF EncryptWithMode, Process
<1>2. cipher.key = KeyOf(Begun) /\ x = SourcesOf(Begun)[NextBlock]
  BY <1>1, AtBlock, Zenon
<1>3. r = Crypted(Begun, cipher.iv, NextBlock)
  BY <1>1, <1>2, Zenon DEF Crypted, IsEncryption
<1> HIDE DEF r
<1>4. /\ r.output \in Word /\ r.iv \in Word /\ Shown \in Seq(Printable)
      /\ SourcesOf(Begun)[NextBlock] \in Word
  BY <1>1, <1>3, CryptedType, Zenon
<1>5. Dumps <=> command.verbose
  BY <1>1, Zenon DEF Dumps
<1>6. SourceLabel = "Plaintext" /\ ResultLabel = "Ciphertext"
  BY <1>1, Zenon DEF SourceLabel, ResultLabel, IsEncryption
<1>7. CASE command.verbose
  <2> DEFINE added == <<Line(SourceLabel, x), Line(ResultLabel, r.output)>> \o DumpNextIv(r.iv)
  <2>1. PrintBlock(r, added)
    BY <1>1, <1>6, <1>7
  <2>2. Adds(Shown, Shown \o added, SourcesOf(Begun)[NextBlock], r)
    BY <1>2, <1>4, <1>5, <1>7, AddsDump
  <2> HIDE DEF added
  <2>3. QED
    BY <1>1, <1>3, <2>1, <2>2, ProcessStep, Zenon
<1>8. CASE ~ command.verbose
  <2> DEFINE added == <<Line("", r.output)>>
  <2>1. PrintBlock(r, added)
    BY <1>1, <1>8, Zenon
  <2>2. Adds(Shown, Shown \o added, SourcesOf(Begun)[NextBlock], r)
    BY <1>4, <1>5, <1>8, AddsBare, Zenon
  <2> HIDE DEF added
  <2>3. QED
    BY <1>1, <1>3, <2>1, <2>2, ProcessStep, Zenon
<1>9. QED
  BY <1>7, <1>8

LEMMA DecryptWithModeKeeps == ASSUME BlocksInv, DecryptWithMode PROVE BlocksInv'
<1> DEFINE x == FromString(Head(todo), BlockSize)
           r == DecryptBlock(command.mode, cipher.key, cipher.iv, x)
<1>1. /\ phase = "blocks" /\ todo # <<>> /\ Readable(Head(todo), BlockSize)
      /\ command.op = "decrypt" /\ command.use_boxes = FALSE
      /\ PrintBlock(r, IF command.verbose
                       THEN <<Line("Ciphertext", x), Line("Plaintext", r.output)>> \o DumpNextIv(r.iv)
                       ELSE <<Line("", r.output)>>)
  BY Zenon DEF DecryptWithMode, Process
<1>2. cipher.key = KeyOf(Begun) /\ x = SourcesOf(Begun)[NextBlock]
  BY <1>1, AtBlock, Zenon
<1>3. r = Crypted(Begun, cipher.iv, NextBlock)
  BY <1>1, <1>2, Zenon DEF Crypted, IsEncryption
<1> HIDE DEF r
<1>4. /\ r.output \in Word /\ r.iv \in Word /\ Shown \in Seq(Printable)
      /\ SourcesOf(Begun)[NextBlock] \in Word
  BY <1>1, <1>3, CryptedType, Zenon
<1>5. Dumps <=> command.verbose
  BY <1>1, Zenon DEF Dumps
<1>6. SourceLabel = "Ciphertext" /\ ResultLabel = "Plaintext"
  BY <1>1, Zenon DEF SourceLabel, ResultLabel, IsEncryption
<1>7. CASE command.verbose
  <2> DEFINE added == <<Line(SourceLabel, x), Line(ResultLabel, r.output)>> \o DumpNextIv(r.iv)
  <2>1. PrintBlock(r, added)
    BY <1>1, <1>6, <1>7
  <2>2. Adds(Shown, Shown \o added, SourcesOf(Begun)[NextBlock], r)
    BY <1>2, <1>4, <1>5, <1>7, AddsDump
  <2> HIDE DEF added
  <2>3. QED
    BY <1>1, <1>3, <2>1, <2>2, ProcessStep, Zenon
<1>8. CASE ~ command.verbose
  <2> DEFINE added == <<Line("", r.output)>>
  <2>1. PrintBlock(r, added)
    BY <1>1, <1>8, Zenon
  <2>2. Adds(Shown, Shown \o added, SourcesOf(Begun)[NextBlock], r)
    BY <1>4, <1>5, <1>8, AddsBare, Zenon
  <2> HIDE DEF added
  <2>3. QED
    BY <1>1, <1>3, <2>1, <2>2, ProcessStep, Zenon
<1>9. QED
  BY <1>7, <1>8

(* The boxes interface dumps nothing.                                       *)
LEMMA EncryptUsingBoxKeeps == ASSUME BlocksInv, EncryptUsingBox PROVE BlocksInv'
<1> DEFINE x == FromString(Head(todo), BlockSize)
           r == EncryptBlock(command.mode, cipher.key, cipher.iv, x)
           added == <<Line("", r.output)>>
<1>1. /\ phase = "blocks" /\ todo # <<>> /\ Readable(Head(todo), BlockSize)
      /\ command.op = "encrypt" /\ command.use_boxes = TRUE
      /\ PrintBlock(r, added)
  BY Zenon DEF EncryptUsingBox, Process
<1>2. cipher.key = KeyOf(Begun) /\ x = SourcesOf(Begun)[NextBlock]
  BY <1>1, AtBlock, Zenon
<1>3. r = Crypted(Begun, cipher.iv, NextBlock)
  BY <1>1, <1>2, Zenon DEF Crypted, IsEncryption
<1> HIDE DEF r
<1>4. r.output \in Word /\ Shown \in Seq(Printable)
  BY <1>1, <1>3, CryptedType, Zenon
<1>5. ~ Dumps
  BY <1>1, Zenon DEF Dumps
<1>6. Adds(Shown, Shown \o added, SourcesOf(Begun)[NextBlock], r)
  BY <1>4, <1>5, AddsBare, Zenon
<1> HIDE DEF added
<1>7. QED
  BY <1>1, <1>3, <1>6, ProcessStep

LEMMA DecryptUsingBoxKeeps == ASSUME BlocksInv, DecryptUsingBox PROVE BlocksInv'
<1> DEFINE x == FromString(Head(todo), BlockSize)
           r == DecryptBlock(command.mode, cipher.key, cipher.iv, x)
           added == <<Line("", r.output)>>
<1>1. /\ phase = "blocks" /\ todo # <<>> /\ Readable(Head(todo), BlockSize)
      /\ command.op = "decrypt" /\ command.use_boxes = TRUE
      /\ PrintBlock(r, added)
  BY Zenon DEF DecryptUsingBox, Process
<1>2. cipher.key = KeyOf(Begun) /\ x = SourcesOf(Begun)[NextBlock]
  BY <1>1, AtBlock, Zenon
<1>3. r = Crypted(Begun, cipher.iv, NextBlock)
  BY <1>1, <1>2, Zenon DEF Crypted, IsEncryption
<1> HIDE DEF r
<1>4. r.output \in Word /\ Shown \in Seq(Printable)
  BY <1>1, <1>3, CryptedType, Zenon
<1>5. ~ Dumps
  BY <1>1, Zenon DEF Dumps
<1>6. Adds(Shown, Shown \o added, SourcesOf(Begun)[NextBlock], r)
  BY <1>4, <1>5, AddsBare, Zenon
<1> HIDE DEF added
<1>7. QED
  BY <1>1, <1>3, <1>6, ProcessStep

-----------------------------------------------------------------------------
(* The message of a parse error, whole: what() asks for its size first.     *)
LEMMA NamesText ==
  ASSUME NEW text \in Word, NEW what \in Word, Len(what) = 1,
         cerr = FormatErrorMessage(ErrorParse(text, what))
  PROVE  Names(text, what) /\ cerr # <<>>
<1> DEFINE n == IF Len(text) < SrcSize THEN Len(text) ELSE SrcSize - 1
           m == <<CouldntParse>> \o SubSeq(text, 1, n) \o <<As>> \o what
<1>1. /\ text \in Seq(Int) /\ what \in Seq(Int) /\ Len(text) \in Nat
      /\ SrcSize \in Nat \ {0} /\ WhatSize \in Nat /\ WhatSize > 1
  BY ErrorsAssumption, BlockUtilityAssumption, LenProperties DEF Word
<1>2. n \in 0 .. Len(text) /\ (n = Len(text) \/ n = SrcSize - 1)
  BY <1>1
<1>3. FillString(SrcSize, text) = SubSeq(text, 1, n)
  BY DEF FillString
<1>4. FillString(WhatSize, what) = what
  <2>1. FillString(WhatSize, what) = SubSeq(what, 1, Len(what))
    BY <1>1 DEF FillString
  <2>2. QED
    BY <1>1, <2>1, SubSeqFull
<1> HIDE DEF n
<1>5. Message(ErrorParse(text, what)) = m
  BY <1>3, <1>4, Zenon DEF Message, ErrorParse
<1>6. m \in Seq(Int) /\ Len(m) \in Nat /\ m # <<>>
  <2>1. SubSeq(text, 1, n) \in Seq(Int)
    <3>1. \A i \in 1 .. n : text[i] \in Int
      BY <1>1, <1>2, ElementOfSeq
    <3>2. n \in Int
      BY <1>2
    <3>3. QED
      BY <3>1, <3>2, SubSeqProperties
  <2>2. <<CouldntParse>> \in Seq(Int) /\ <<As>> \in Seq(Int) /\ Len(<<CouldntParse>>) = 1
    BY DEF CouldntParse, As
  <2> DEFINE a == <<CouldntParse>>
             b == SubSeq(text, 1, n)
             c == <<As>>
  <2>3. a \in Seq(Int) /\ b \in Seq(Int) /\ c \in Seq(Int) /\ Len(a) = 1
    BY <2>1, <2>2
  <2> HIDE DEF a, b, c
  <2>4. a \o b \in Seq(Int) /\ Len(a \o b) = Len(a) + Len(b)
    BY <2>3, ConcatProperties, Zenon
  <2>5. (a \o b) \o c \in Seq(Int) /\ Len((a \o b) \o c) = Len(a \o b) + Len(c)
    BY <2>3, <2>4, ConcatProperties, Zenon
  <2>6. /\ ((a \o b) \o c) \o what \in Seq(Int)
        /\ Len(((a \o b) \o c) \o what) = Len((a \o b) \o c) + Len(what)
    BY <1>1, <2>5, ConcatProperties, Zenon
  <2>7. Len(b) \in Nat /\ Len(c) \in Nat
    BY <2>3, LenProperties
  <2>8. m = ((a \o b) \o c) \o what
    BY DEF a, b, c
  <2> HIDE DEF m
  <2>9. m \in Seq(Int) /\ Len(m) = 1 + Len(b) + Len(c) + 1
    BY <2>3, <2>4, <2>5, <2>6, <2>8
  <2>10. Len(m) \in Nat /\ Len(m) # 0
    BY <2>7, <2>9
  <2>11. QED
    BY <2>9, <2>10, EmptySeq
<1> HIDE DEF m
<1>7. FillString(Len(m) + 1, m) = m
  <2>1. FillString(Len(m) + 1, m) = SubSeq(m, 1, Len(m))
    BY <1>6 DEF FillString
  <2>2. QED
    BY <1>6, <2>1, SubSeqFull
<1>8. cerr = m
  BY <1>5, <1>7 DEF FormatErrorMessage, FormatError, AnnouncedSize
<1>9. QED
  BY <1>2, <1>6, <1>8, Zenon DEF Names, m

LEMMA NameFacts ==
  /\ BlockName \in Word /\ Len(BlockName) = 1
  /\ \A a \in Algorithm : KeyName[a] \in Word /\ Len(KeyName[a]) = 1
<1>1. <<-20>> \in Seq(Int) /\ <<-21>> \in Seq(Int) /\ <<-22>> \in Seq(Int)
  OBVIOUS
<1>2. /\ KeyName["AES128"] = <<-20>> /\ KeyName["AES192"] = <<-21>> /\ KeyName["AES256"] = <<-22>>
      /\ BlockName = <<-20>>
  BY DEF KeyName, BlockName
<1>3. BlockName \in Word /\ Len(BlockName) = 1
  BY <1>1, <1>2 DEF Word
<1>4. ASSUME NEW a \in Algorithm PROVE KeyName[a] \in Word /\ Len(KeyName[a]) = 1
  <2>1. CASE a = "AES128"
    BY <1>1, <1>2, <2>1, Zenon DEF Word
  <2>2. CASE a = "AES192"
    BY <1>1, <1>2, <2>2, Zenon DEF Word
  <2>3. CASE a = "AES256"
    BY <1>1, <1>2, <2>3, Zenon DEF Word
  <2>4. QED
    BY <2>1, <2>2, <2>3 DEF Algorithm
<1>5. QED
  BY <1>3, <1>4

(* A text that cannot be read, and the error thrown for it.                 *)
Refuses(text, size, what) ==
  ~ Readable(text, size) /\ cerr = FormatErrorMessage(ErrorParse(text, what))

RefusedText ==
  \/ Refuses(Begun.key, KeySize[command.algorithm], KeyName[command.algorithm])
  \/ Len(Begun.iv) = 1 /\ Refuses(Begun.iv[1], BlockSize, BlockName)
  \/ NextBlock \in 1 .. Len(Begun.blocks) /\ Refuses(Begun.blocks[NextBlock], BlockSize, BlockName)

TextOf ==
  [text : Word, size : Nat, what : Word, label : {"Key", "Initialization vector", "Block"}]

LEMMA OneText ==
  ASSUME NEW S, NEW x \in S PROVE <<x>> \in Seq(S) /\ Range(<<x>>) = {x}
<1>1. <<x>> \in Seq(S) /\ Len(<<x>>) = 1 /\ <<x>>[1] = x
  OBVIOUS
<1>2. DOMAIN <<x>> = 1 .. 1
  BY <1>1, LenProperties
<1>3. QED
  BY <1>1, <1>2 DEF Range

LEMMA TextType ==
  ASSUME NEW text \in Word, NEW size \in Nat, NEW what \in Word
  PROVE  /\ [text |-> text, size |-> size, what |-> what, label |-> "Key"] \in TextOf
         /\ [text |-> text, size |-> size, what |-> what,
             label |-> "Initialization vector"] \in TextOf
         /\ [text |-> text, size |-> size, what |-> what, label |-> "Block"] \in TextOf
  BY DEF TextOf

LEMMA TellsRefusal ==
  (/\ BlocksTypes /\ exit_code = 1 /\ RefusedText
   /\ printed # <<>> /\ Len(printed) <= Len(inputs)
   /\ \A i \in 1 .. Len(printed) - 1 : Finished(inputs[i], printed[i]))
  => Exits
<1> SUFFICES ASSUME BlocksTypes, exit_code = 1, RefusedText,
                    printed # <<>>, Len(printed) <= Len(inputs),
                    \A i \in 1 .. Len(printed) - 1 : Finished(inputs[i], printed[i])
             PROVE  Exits
  OBVIOUS
<1> DEFINE i == Len(printed)
           g == inputs[i]
           n == Len(Results(i)) + 1
           last == IF n \in DOMAIN g.blocks
                   THEN <<[text |-> g.blocks[n], size |-> BlockSize,
                           what |-> BlockName, label |-> "Block"]>>
                   ELSE <<>>
           texts == KeyText(g) \o IvText(g) \o last
           Bad(t) == ~ Readable(t.text, t.size) /\ Names(t.text, t.what)
<1>1. /\ i \in 1 .. Len(printed) /\ g = Begun /\ g \in Group /\ n = NextBlock
      /\ g.blocks \in Seq(Word) /\ g.iv \in Seq(Word) /\ g.key \in Word
  <2>1. i \in 1 .. Len(printed) /\ i \in 1 .. Len(inputs)
    <3>1. printed \in Seq(Seq(Printable)) /\ inputs \in Seq(Group)
      BY DEF BlocksTypes
    <3>2. Len(printed) \in Nat \ {0} /\ Len(inputs) \in Nat
      BY <3>1, EmptySeq, LenProperties
    <3>3. QED
      BY <3>2
  <2>2. inputs \in Seq(Group)
    BY DEF BlocksTypes
  <2>3. g \in Group
    BY <2>1, <2>2, ElementOfSeq
  <2>4. n = NextBlock
    BY DEF Results, Lines, NextBlock, ResultsOf, Shown
  <2>5. QED
    BY <2>1, <2>3, <2>4 DEF Begun, Group
<1>2. /\ KeySize[command.algorithm] \in Nat /\ BlockSize \in Nat /\ command.algorithm \in Algorithm
      /\ KeyName[command.algorithm] \in Word /\ Len(KeyName[command.algorithm]) = 1
      /\ BlockName \in Word /\ Len(BlockName) = 1
  BY CommandFacts, NameFacts, BlockSizeAssumption
<1>3. \A j \in 1 .. i - 1 : Complete(j)
  BY Zenon DEF Finished, Complete, Results, Lines, ResultsOf
<1> DEFINE k == [text |-> g.key, size |-> KeySize[command.algorithm],
                 what |-> KeyName[command.algorithm], label |-> "Key"]
           v == [text |-> g.iv[1], size |-> BlockSize, what |-> BlockName,
                 label |-> "Initialization vector"]
           b == [text |-> g.blocks[n], size |-> BlockSize, what |-> BlockName, label |-> "Block"]
<1>4. KeyText(g) \in Seq(TextOf) /\ Range(KeyText(g)) = {k}
  <2>1. KeyText(g) = <<k>>
    BY DEF KeyText
  <2>2. k \in TextOf
    BY <1>1, <1>2, TextType, Zenon
  <2> HIDE DEF k
  <2>3. QED
    BY <2>1, <2>2, OneText
<1>5. IvText(g) \in Seq(TextOf) /\ (Len(g.iv) = 1 => v \in Range(IvText(g)))
  <2>1. DOMAIN g.iv = 1 .. Len(g.iv) /\ Len(g.iv) \in Nat /\ \A j \in 1 .. Len(g.iv) : g.iv[j] \in Word
    BY <1>1, LenProperties, ElementOfSeq
  <2> DEFINE e(j) == [text |-> g.iv[j], size |-> BlockSize, what |-> BlockName,
                      label |-> "Initialization vector"]
  <2>0. \A j \in 1 .. Len(g.iv) : e(j) \in TextOf
    BY <1>2, <2>1, TextType, Zenon
  <2>2. IvText(g) \in [1 .. Len(g.iv) -> TextOf]
    <3>1. IvText(g) = [j \in 1 .. Len(g.iv) |-> e(j)]
      BY <2>1 DEF IvText
    <3> HIDE DEF e
    <3>2. QED
      BY <2>0, <3>1
  <2>3. IvText(g) \in Seq(TextOf)
    BY <2>1, <2>2, SeqDef
  <2>4. Len(g.iv) = 1 => IvText(g)[1] = v /\ 1 \in DOMAIN IvText(g)
    BY <2>1 DEF IvText
  <2>5. QED
    BY <2>3, <2>4, Zenon DEF Range
<1>6. last \in Seq(TextOf) /\ (n \in 1 .. Len(g.blocks) => b \in Range(last))
  <2>1. CASE n \in DOMAIN g.blocks
    <3>1. g.blocks[n] \in Word
      <4> HIDE DEF n
      <4>1. n \in 1 .. Len(g.blocks)
        BY <1>1, <2>1, LenProperties
      <4>2. QED
        BY <1>1, <4>1, ElementOfSeq
    <3>2. b \in TextOf
      BY <1>2, <3>1, TextType, Zenon
    <3>3. last = <<b>>
      BY <2>1
    <3> HIDE DEF b, last
    <3>4. QED
      BY <3>2, <3>3, OneText
  <2>2. CASE n \notin DOMAIN g.blocks
    <3>1. last = <<>> /\ n \notin 1 .. Len(g.blocks)
      BY <1>1, <2>2, LenProperties
    <3>2. QED
      BY <3>1, EmptySeq
  <2>3. QED
    BY <2>1, <2>2
<1> HIDE DEF last
<1>7. Range(texts) = (Range(KeyText(g)) \cup Range(IvText(g))) \cup Range(last)
  <2> DEFINE x == KeyText(g)
             y == IvText(g)
  <2>1. x \in Seq(TextOf) /\ y \in Seq(TextOf) /\ last \in Seq(TextOf)
    BY <1>4, <1>5, <1>6, Zenon
  <2> HIDE DEF x, y
  <2>2. x \o y \in Seq(TextOf) /\ Range(x \o y) = Range(x) \cup Range(y)
    <3>1. x \o y \in Seq(TextOf)
      BY <2>1, ConcatProperties
    <3>2. Range(x \o y) = Range(x) \cup Range(y)
      BY <2>1, RangeConcatenation, Zenon
    <3>3. QED
      BY <3>1, <3>2
  <2>3. Range((x \o y) \o last) = Range(x \o y) \cup Range(last)
    <3> DEFINE z == x \o y
    <3>1. z \in Seq(TextOf)
      BY <2>2
    <3> HIDE DEF z
    <3>2. Range(z \o last) = Range(z) \cup Range(last)
      BY <2>1, <3>1, RangeConcatenation, Zenon
    <3>3. QED
      BY <3>2 DEF z
  <2>4. QED
    BY <2>2, <2>3 DEF x, y
<1>8. cerr # <<>> /\ \E t \in Range(texts) : Bad(t)
  <2>1. CASE Refuses(Begun.key, KeySize[command.algorithm], KeyName[command.algorithm])
    <3>1. Names(g.key, KeyName[command.algorithm]) /\ cerr # <<>> /\ ~ Readable(g.key, KeySize[command.algorithm])
      BY <1>1, <1>2, <2>1, NamesText DEF Refuses
    <3>2. k \in Range(texts) /\ Bad(k)
      BY <1>4, <1>7, <3>1
    <3>3. QED
      BY <3>1, <3>2
  <2>2. CASE Len(Begun.iv) = 1 /\ Refuses(Begun.iv[1], BlockSize, BlockName)
    <3>0. g.iv[1] \in Word
      BY <1>1, <2>2, ElementOfSeq
    <3>1. Names(g.iv[1], BlockName) /\ cerr # <<>> /\ ~ Readable(g.iv[1], BlockSize)
      BY <1>1, <1>2, <2>2, <3>0, NamesText DEF Refuses
    <3>2. v \in Range(texts) /\ Bad(v)
      BY <1>1, <1>5, <1>7, <2>2, <3>1, Zenon
    <3>3. QED
      BY <3>1, <3>2, Zenon
  <2>3. CASE NextBlock \in 1 .. Len(Begun.blocks) /\ Refuses(Begun.blocks[NextBlock], BlockSize, BlockName)
    <3>0. g.blocks[n] \in Word /\ n \in 1 .. Len(g.blocks)
      BY <1>1, <2>3, ElementOfSeq
    <3>1. Names(g.blocks[n], BlockName) /\ cerr # <<>> /\ ~ Readable(g.blocks[n], BlockSize)
      BY <1>1, <1>2, <2>3, <3>0, NamesText DEF Refuses
    <3>2. b \in Range(texts) /\ Bad(b)
      BY <1>6, <1>7, <3>0, <3>1
    <3>3. QED
      BY <3>1, <3>2
  <2>4. QED
    BY <2>1, <2>2, <2>3 DEF RefusedText
<1>9. ExitTellsOutput
  BY <1>3, <1>8 DEF ExitTellsOutput, last
<1>10. QED
  BY <1>9 DEF Exits

-----------------------------------------------------------------------------
(* Cutting joined words apart again.                                        *)
LEMMA CutBehind ==
  ASSUME NEW S, NEW h \in Seq(S), NEW w \in Seq(S), NEW n \in Nat, n = Len(h) + 1
  PROVE  SubSeq(h \o w, n, Len(h \o w)) = w
<1>1. Len(h) \in Nat /\ Len(w) \in Nat /\ Len(h \o w) = Len(h) + Len(w)
  BY ConcatProperties, LenProperties
<1> DEFINE a == Len(h) + 1
           z == Len(h \o w)
<1>2. CASE w = <<>>
  <2>1. z < a /\ z \in Int /\ a \in Int
    BY <1>1, <1>2
  <2>2. SubSeq(h \o w, a, z) = <<>>
    BY <2>1, SubSeqEmpty
  <2>3. QED
    BY <1>2, <2>2
<1>3. CASE w # <<>>
  <2>1. Len(w) # 0
    BY <1>3, EmptySeq
  <2>2. /\ a \in Len(h) + 1 .. Len(h) + Len(w) /\ z \in Len(h) + 1 .. Len(h) + Len(w)
        /\ a - Len(h) = 1 /\ z - Len(h) = Len(w)
    BY <1>1, <2>1
  <2> HIDE DEF a, z
  <2>3. SubSeq(h \o w, a, z) = SubSeq(w, a - Len(h), z - Len(h))
    BY <2>2, SubSeqOfConcat2
  <2>4. SubSeq(w, 1, Len(w)) = w
    BY SubSeqFull
  <2>5. QED
    BY <2>2, <2>3, <2>4 DEF a, z
<1>4. QED
  BY <1>2, <1>3

LEMMA CutInFront ==
  ASSUME NEW S, NEW h \in Seq(S), NEW w \in Seq(S)
  PROVE  SubSeq(h \o w, 1, Len(h)) = h
<1>1. Len(h) \in Nat
  BY LenProperties
<1>2. CASE h = <<>>
  <2>1. SubSeq(h \o w, 1, 0) = <<>>
    BY SubSeqEmpty
  <2>2. QED
    BY <1>2, <2>1
<1>3. CASE h # <<>>
  <2>1. Len(h) # 0
    BY <1>3, EmptySeq
  <2>2. 1 \in 1 .. Len(h) /\ Len(h) \in 1 .. Len(h)
    BY <1>1, <2>1
  <2>3. SubSeq(h \o w, 1, Len(h)) = SubSeq(h, 1, Len(h))
    BY <2>2, SubSeqOfConcat1
  <2>4. SubSeq(h, 1, Len(h)) = h
    BY SubSeqFull
  <2>5. QED
    BY <2>3, <2>4
<1>4. QED
  BY <1>2, <1>3

LEMMA SeparatorType == Separator \in Word /\ <<Separator>> \in Seq(Word) /\ Len(<<Separator>>) = 1
<1>1. Separator \in Word
  BY DEF Separator, Word
<1>2. QED
  BY <1>1

NoSeparator(words) == \A i \in 1 .. Len(words) : words[i] # Separator

(* What parse_blocks makes of words, and what it leaves.                    *)
LEMMA ParseWords ==
  ASSUME NEW words \in Seq(Word)
  PROVE  LET blocks == ParseBlocks(words)
             rest == SubSeq(words, Len(blocks) + 2, Len(words))
         IN  /\ blocks \in Seq(Word) /\ rest \in Seq(Word)
             /\ \/ words = blocks /\ rest = <<>>
                \/ words = blocks \o (<<Separator>> \o rest)
<1> DEFINE end == SelectInSeq(words, LAMBDA w : w = Separator)
           blocks == ParseBlocks(words)
           rest == SubSeq(words, Len(blocks) + 2, Len(words))
<1>1. \/ end = 0 /\ \A i \in 1 .. Len(words) : words[i] # Separator
      \/ /\ end \in 1 .. Len(words) /\ words[end] = Separator
         /\ \A i \in 1 .. end - 1 : words[i] # Separator
  BY FirstSeparator, Zenon
<1>2. blocks = IF end = 0 THEN words ELSE SubSeq(words, 1, end - 1)
  BY DEF ParseBlocks
<1>3. Len(words) \in Nat /\ \A i \in 1 .. Len(words) : words[i] \in Word
  BY LenProperties, ElementOfSeq
<1> HIDE DEF end, blocks
<1>4. /\ blocks \in Seq(Word) /\ rest \in Seq(Word)
      /\ \/ words = blocks /\ rest = <<>>
         \/ words = blocks \o (<<Separator>> \o rest)
  <2>1. CASE end = 0
    <3>1. blocks = words
      BY <1>2, <2>1
    <3>2. SubSeq(words, Len(words) + 2, Len(words)) = <<>>
      BY <1>3, SubSeqEmpty
    <3>3. <<>> \in Seq(Word)
      BY EmptySeq
    <3>4. QED
      BY <3>1, <3>2, <3>3
  <2>2. CASE end # 0
    <3>1. end \in 1 .. Len(words) /\ words[end] = Separator /\ blocks = SubSeq(words, 1, end - 1)
      BY <1>1, <1>2, <2>2
    <3>2. /\ end \in Nat /\ end - 1 \in Int /\ end + 1 \in Int /\ Len(words) \in Int
          /\ 1 \in 1 .. Len(words) + 1 /\ end - 1 \in 1 - 1 .. Len(words)
          /\ Len(words) \in end - 1 .. Len(words) /\ (end - 1) + 1 = end
          /\ Len(words) \in end .. Len(words)
          /\ \A i \in 1 .. end - 1 : i \in 1 .. Len(words)
          /\ \A i \in end + 1 .. Len(words) : i \in 1 .. Len(words)
          /\ (end - 1) - 1 + 1 = end - 1 /\ (end - 1) + 2 = end + 1
      BY <1>3, <3>1
    <3>3. blocks \in Seq(Word) /\ Len(blocks) = end - 1
      <4>1. \A i \in 1 .. end - 1 : words[i] \in Word
        BY <1>3, <3>2
      <4>2. /\ SubSeq(words, 1, end - 1) \in Seq(Word)
            /\ Len(SubSeq(words, 1, end - 1)) = IF 1 <= end - 1 THEN (end - 1) - 1 + 1 ELSE 0
        BY <3>2, <4>1, SubSeqProperties
      <4>3. QED
        BY <3>1, <3>2, <4>2
    <3>4. rest = SubSeq(words, end + 1, Len(words)) /\ rest \in Seq(Word)
      <4>1. \A i \in end + 1 .. Len(words) : words[i] \in Word
        BY <1>3, <3>2
      <4>2. SubSeq(words, end + 1, Len(words)) \in Seq(Word)
        BY <3>2, <4>1, SubSeqProperties
      <4>3. QED
        BY <3>2, <3>3, <4>2
    <3>5. words = SubSeq(words, 1, end - 1) \o SubSeq(words, end, Len(words))
      <4>1. SubSeq(words, 1, end - 1) \o SubSeq(words, (end - 1) + 1, Len(words))
              = SubSeq(words, 1, Len(words))
        BY <3>2, ConcatAdjacentSubSeq, Zenon
      <4>2. SubSeq(words, 1, Len(words)) = words
        BY SubSeqFull
      <4>3. QED
        BY <3>2, <4>1, <4>2
    <3>6. SubSeq(words, end, Len(words)) = <<words[end]>> \o SubSeq(words, end + 1, Len(words))
      BY <3>1, <3>2, SubSeqRecursiveFirst
    <3> HIDE DEF rest
    <3>7. words = blocks \o (<<Separator>> \o rest)
      BY <3>1, <3>4, <3>5, <3>6, Zenon
    <3>8. QED
      BY <3>3, <3>4, <3>7, Zenon
  <2>3. QED
    BY <2>1, <2>2
<1>5. QED
  BY <1>4 DEF blocks

LEMMA ParseAgain ==
  ASSUME NEW b \in Seq(Word), NoSeparator(b), NEW t \in Seq(Word)
  PROVE  /\ ParseBlocks(b) = b /\ SubSeq(b, Len(b) + 2, Len(b)) = <<>>
         /\ ParseBlocks(b \o (<<Separator>> \o t)) = b
         /\ SubSeq(b \o (<<Separator>> \o t), Len(b) + 2, Len(b \o (<<Separator>> \o t))) = t
<1>1. Len(b) \in Nat
  BY LenProperties
<1>2. ParseBlocks(b) = b
  <2> DEFINE end == SelectInSeq(b, LAMBDA w : w = Separator)
  <2>1. \/ end = 0 /\ \A i \in 1 .. Len(b) : b[i] # Separator
        \/ end \in 1 .. Len(b) /\ b[end] = Separator
    BY FirstSeparator, Zenon
  <2>2. ParseBlocks(b) = IF end = 0 THEN b ELSE SubSeq(b, 1, end - 1)
    BY DEF ParseBlocks
  <2> HIDE DEF end
  <2>3. QED
    BY <2>1, <2>2 DEF NoSeparator
<1>3. SubSeq(b, Len(b) + 2, Len(b)) = <<>>
  BY <1>1, SubSeqEmpty
<1> DEFINE s == <<Separator>>
           r == s \o t
           w == b \o r
<1>4. s \in Seq(Word) /\ Len(s) = 1 /\ s[1] = Separator
  BY SeparatorType
<1> HIDE DEF s
<1>5. r \in Seq(Word) /\ Len(r) = 1 + Len(t) /\ Len(t) \in Nat /\ r[1] = Separator
  <2>1. /\ r \in Seq(Word) /\ Len(r) = Len(s) + Len(t)
        /\ \A i \in 1 .. Len(s) + Len(t) : r[i] = IF i <= Len(s) THEN s[i] ELSE t[i - Len(s)]
    <3>1. s \in Seq(Word)
      BY <1>4
    <3>2. QED
      BY <3>1, ConcatProperties
  <2>2. Len(t) \in Nat
    BY LenProperties
  <2>3. 1 \in 1 .. Len(s) + Len(t) /\ 1 <= Len(s)
    BY <1>4, <2>2
  <2>4. QED
    BY <1>4, <2>1, <2>2, <2>3
<1> HIDE DEF r
<1>6. /\ w \in Seq(Word) /\ Len(w) = Len(b) + Len(r)
      /\ \A i \in 1 .. Len(b) + Len(r) : w[i] = IF i <= Len(b) THEN b[i] ELSE r[i - Len(b)]
  <2>1. r \in Seq(Word)
    BY <1>5
  <2>2. QED
    BY <2>1, ConcatProperties
<1>7. ParseBlocks(w) = b
  <2> DEFINE end == SelectInSeq(w, LAMBDA x : x = Separator)
  <2>1. \/ end = 0 /\ \A i \in 1 .. Len(w) : w[i] # Separator
        \/ /\ end \in 1 .. Len(w) /\ w[end] = Separator
           /\ \A i \in 1 .. end - 1 : w[i] # Separator
    <3> HIDE DEF w
    <3>1. w \in Seq(Word)
      BY <1>6
    <3>2. QED
      BY <3>1, FirstSeparator, Zenon
  <2>2. ParseBlocks(w) = IF end = 0 THEN w ELSE SubSeq(w, 1, end - 1)
    BY DEF ParseBlocks
  <2> HIDE DEF end, w
  <2>3. /\ Len(b) + 1 \in 1 .. Len(w) /\ w[Len(b) + 1] = Separator
        /\ \A i \in 1 .. Len(b) : w[i] # Separator /\ i \in 1 .. Len(w)
    <3>1. /\ Len(b) + 1 \in 1 .. Len(b) + Len(r) /\ ~ (Len(b) + 1 <= Len(b))
          /\ (Len(b) + 1) - Len(b) = 1
          /\ \A i \in 1 .. Len(b) : i \in 1 .. Len(b) + Len(r) /\ i <= Len(b)
      BY <1>1, <1>5
    <3>2. w[Len(b) + 1] = r[(Len(b) + 1) - Len(b)]
      BY <1>6, <3>1
    <3>3. QED
      BY <1>5, <1>6, <3>1, <3>2, Zenon DEF NoSeparator
  <2>4. end = Len(b) + 1
    <3>1. end # 0
      BY <2>1, <2>3
    <3>2. end \in 1 .. Len(w) /\ w[end] = Separator /\ \A i \in 1 .. end - 1 : w[i] # Separator
      BY <2>1, <3>1
    <3>3. end \notin 1 .. Len(b)
      BY <2>3, <3>2
    <3>4. Len(b) + 1 \notin 1 .. end - 1
      BY <2>3, <3>2
    <3>5. end \in Nat
      BY <3>2
    <3>6. QED
      BY <1>1, <3>2, <3>3, <3>4, <3>5
  <2>5. SubSeq(b \o r, 1, Len(b)) = b
    BY <1>5, CutInFront
  <2>6. end # 0 /\ end - 1 = Len(b)
    BY <1>1, <2>4
  <2>7. QED
    BY <2>2, <2>5, <2>6 DEF w
<1>8. SubSeq(w, Len(b) + 2, Len(w)) = t
  <2> DEFINE h == b \o s
  <2>1. w = h \o t
    <3>1. b \in Seq(Word) /\ s \in Seq(Word) /\ t \in Seq(Word)
      BY <1>4
    <3>2. Associates(Word)
      BY Regroup
    <3>3. QED
      BY <3>1, <3>2, Zenon DEF Associates, r
  <2>2. h \in Seq(Word) /\ Len(h) = Len(b) + Len(s)
    <3>1. s \in Seq(Word)
      BY <1>4
    <3>2. QED
      BY <3>1, ConcatProperties
  <2>3. Len(b) + 2 \in Nat /\ Len(b) + 2 = Len(h) + 1
    BY <1>1, <1>4, <2>2
  <2> HIDE DEF h, w
  <2>4. SubSeq(h \o t, Len(b) + 2, Len(h \o t)) = t
    BY <2>2, <2>3, CutBehind
  <2>5. QED
    BY <2>1, <2>4
<1>9. QED
  BY <1>2, <1>3, <1>7, <1>8 DEF r, s

(* The words of a group, which ToArgs puts behind a separator.              *)
WordsOf(g) == <<g.key>> \o g.iv \o g.blocks

LEMMA SeparatorInFront ==
  ASSUME NEW s \in Seq(Word)
  PROVE  /\ <<Separator>> \o s \in Seq(Word) /\ <<Separator>> \o s # <<>>
         /\ (<<Separator>> \o s)[1] = Separator /\ Tail(<<Separator>> \o s) = s
<1> DEFINE t == <<Separator>>
           r == t \o s
<1>1. t \in Seq(Word) /\ Len(t) = 1 /\ t[1] = Separator
  BY SeparatorType
<1> HIDE DEF t
<1>2. /\ r \in Seq(Word) /\ Len(r) = Len(t) + Len(s)
      /\ \A i \in 1 .. Len(t) + Len(s) : r[i] = IF i <= Len(t) THEN t[i] ELSE s[i - Len(t)]
  <2>1. t \in Seq(Word)
    BY <1>1
  <2>2. QED
    BY <2>1, ConcatProperties
<1>3. Len(s) \in Nat
  BY LenProperties
<1>4. 1 \in 1 .. Len(t) + Len(s) /\ 1 <= Len(t)
  BY <1>1, <1>3
<1>5. r[1] = Separator /\ r # <<>>
  BY <1>1, <1>2, <1>3, <1>4
<1>6. Tail(r) = s
  <2>1. SubSeq(r, 2, Len(r)) = s
    <3>1. 2 \in Nat /\ 2 = Len(t) + 1 /\ t \in Seq(Word)
      BY <1>1
    <3>2. QED
      BY <3>1, CutBehind
  <2>2. Tail(r) = SubSeq(r, 2, Len(r))
    <3> HIDE DEF r
    <3>1. QED
      BY <1>2, <1>5, TailIsSubSeq
  <2>3. QED
    BY <2>1, <2>2
<1>7. QED
  BY <1>2, <1>5, <1>6 DEF r, t

LEMMA WordsFacts ==
  ASSUME NEW g \in Group
  PROVE  /\ WordsOf(g) \in Seq(Word) /\ WordsOf(g) # <<>>
         /\ ToArgs(g) = <<Separator>> \o WordsOf(g)
         /\ ToArgs(g) \in Seq(Word) /\ Tail(ToArgs(g)) = WordsOf(g)
<1> DEFINE a == <<Separator>>
           k == <<g.key>>
           v == g.iv
           b == g.blocks
<1>1. g.key \in Word /\ v \in Seq(Word) /\ b \in Seq(Word)
  BY DEF Group
<1>2. a \in Seq(Word) /\ k \in Seq(Word) /\ Len(k) = 1 /\ <<Separator, g.key>> \in Seq(Word)
  BY <1>1, SeparatorType
<1>3. a \o k = <<Separator, g.key>>
  <2> DEFINE e == <<>>
             x == Separator
             y == g.key
  <2>1. e \in Seq(Word) /\ x \in Word /\ y \in Word
    BY <1>1, SeparatorType, EmptySeq
  <2> HIDE DEF e, x, y
  <2>2. e \o <<x, y>> = Append(Append(e, x), y)
    BY <2>1, OnePutBehind
  <2>3. Append(e, x) \in Seq(Word) /\ Append(e, x) = e \o <<x>>
    BY <2>1, AppendIsConcat, AppendProperties
  <2>4. Append(Append(e, x), y) = (e \o <<x>>) \o <<y>>
    BY <2>1, <2>3, AppendIsConcat
  <2>5. e \o <<x>> = <<x>> /\ e \o <<x, y>> = <<x, y>>
    <3>1. <<x>> \in Seq(Word) /\ <<x, y>> \in Seq(Word)
      BY <2>1
    <3>2. QED
      BY <3>1, ConcatEmptySeq DEF e
  <2>6. QED
    BY <2>2, <2>4, <2>5, Zenon DEF x, y
<1>4. ToArgs(g) = ((a \o k) \o v) \o b /\ WordsOf(g) = (k \o v) \o b
  BY <1>3, Zenon DEF ToArgs, WordsOf
<1> HIDE DEF a, k, v, b
<1>5. k \o v \in Seq(Word) /\ Len(k \o v) = Len(k) + Len(v)
  BY <1>1, <1>2, ConcatProperties, Zenon
<1>6. (k \o v) \o b \in Seq(Word) /\ Len((k \o v) \o b) = Len(k \o v) + Len(b)
  BY <1>1, <1>5, ConcatProperties
<1>7. ((a \o k) \o v) \o b = a \o ((k \o v) \o b)
  <2>1. Associates(Word) /\ a \o k \in Seq(Word)
    BY <1>2, Regroup, ConcatProperties
  <2>2. (a \o k) \o v = a \o (k \o v)
    BY <1>1, <1>2, <2>1 DEF Associates
  <2>3. (a \o (k \o v)) \o b = a \o ((k \o v) \o b)
    BY <1>1, <1>2, <1>5, <2>1 DEF Associates
  <2>4. QED
    BY <2>2, <2>3
<1>8. Len(v) \in Nat /\ Len(b) \in Nat
  BY <1>1, LenProperties
<1>9. Len(WordsOf(g)) = 1 + Len(v) + Len(b)
  BY <1>2, <1>4, <1>5, <1>6
<1>10. WordsOf(g) # <<>>
  BY <1>8, <1>9
<1>11. ToArgs(g) = <<Separator>> \o WordsOf(g) /\ WordsOf(g) \in Seq(Word)
  BY <1>4, <1>6, <1>7, Zenon DEF a
<1>12. QED
  BY <1>10, <1>11, SeparatorInFront

(* What is read of a command line when a group is parsed.                   *)
GroupParsed ==
  LET iv == IF RequiresInitVector(command.mode) THEN <<src[2]>> ELSE <<>>
  IN  [key |-> Head(src), iv |-> iv, blocks |-> ParseBlocks(SubSeq(src, 2 + Len(iv), Len(src)))]

WordsLeft ==
  LET iv == IF RequiresInitVector(command.mode) THEN <<src[2]>> ELSE <<>>
      words == SubSeq(src, 2 + Len(iv), Len(src))
  IN  SubSeq(words, Len(ParseBlocks(words)) + 2, Len(words))

LEMMA ParseFacts ==
  ASSUME src \in Seq(Word), src # <<>>, RequiresInitVector(command.mode) => Len(src) > 1
  PROVE  /\ GroupParsed \in Group /\ Len(GroupParsed.iv) = IvCount
         /\ WordsLeft \in Seq(Word)
         /\ \/ src = WordsOf(GroupParsed) /\ WordsLeft = <<>>
            \/ src = WordsOf(GroupParsed) \o (<<Separator>> \o WordsLeft)
<1> DEFINE iv == IF RequiresInitVector(command.mode) THEN <<src[2]>> ELSE <<>>
           words == SubSeq(src, 2 + Len(iv), Len(src))
           blocks == ParseBlocks(words)
           rest == SubSeq(words, Len(blocks) + 2, Len(words))
           aKey == <<src[1]>>
<1>1. /\ Len(src) \in Nat \ {0} /\ src[1] \in Word /\ Head(src) = src[1]
      /\ RequiresInitVector(command.mode) => src[2] \in Word
  <2>1. Len(src) \in Nat \ {0}
    BY EmptySeq
  <2>2. 1 \in 1 .. Len(src) /\ (RequiresInitVector(command.mode) => 2 \in 1 .. Len(src))
    BY <2>1
  <2>3. QED
    BY <2>1, <2>2, ElementOfSeq
<1>2. iv \in Seq(Word) /\ Len(iv) = IvCount /\ IvCount \in {0, 1}
  <2>1. CASE RequiresInitVector(command.mode)
    BY <1>1, <2>1 DEF IvCount
  <2>2. CASE ~ RequiresInitVector(command.mode)
    <3>1. <<>> \in Seq(Word)
      BY EmptySeq
    <3>2. QED
      BY <2>2, <3>1 DEF IvCount
  <2>3. QED
    BY <2>1, <2>2
<1>3. words \in Seq(Word) /\ src = (aKey \o iv) \o words
  <2>1. CASE RequiresInitVector(command.mode)
    <3>1. Len(iv) = 1 /\ 2 + Len(iv) = 3 /\ iv = <<src[2]>>
      BY <2>1
    <3>2. words = SubSeq(src, 3, Len(src))
      BY <3>1
    <3>3. \A i \in 3 .. Len(src) : src[i] \in Word
      BY <1>1, ElementOfSeq
    <3>4. words \in Seq(Word)
      BY <1>1, <3>2, <3>3, SubSeqProperties
    <3>5. src = <<src[1]>> \o SubSeq(src, 2, Len(src))
      <4>1. 1 \in 1 .. Len(src) /\ Len(src) \in 1 .. Len(src)
        BY <1>1
      <4>2. SubSeq(src, 1, Len(src)) = <<src[1]>> \o SubSeq(src, 1 + 1, Len(src))
        BY <4>1, SubSeqRecursiveFirst
      <4>3. QED
        BY <4>2, SubSeqFull
    <3>6. SubSeq(src, 2, Len(src)) = <<src[2]>> \o SubSeq(src, 3, Len(src))
      <4>1. 2 \in 1 .. Len(src) /\ Len(src) \in 2 .. Len(src)
        BY <1>1, <2>1
      <4>2. SubSeq(src, 2, Len(src)) = <<src[2]>> \o SubSeq(src, 2 + 1, Len(src))
        BY <4>1, SubSeqRecursiveFirst, Zenon
      <4>3. QED
        BY <4>2
    <3> DEFINE second == <<src[2]>>
    <3>7. aKey \in Seq(Word) /\ second \in Seq(Word)
      BY <1>1, <2>1
    <3>8. src = aKey \o (second \o words)
      BY <3>2, <3>5, <3>6, Zenon
    <3>9. iv = second
      BY <3>1
    <3> HIDE DEF aKey, second, words, iv
    <3>10. (aKey \o second) \o words = aKey \o (second \o words)
      BY <3>4, <3>7, Regroup DEF Associates
    <3>11. QED
      BY <3>4, <3>8, <3>9, <3>10
  <2>2. CASE ~ RequiresInitVector(command.mode)
    <3>1. Len(iv) = 0 /\ 2 + Len(iv) = 2 /\ iv = <<>>
      BY <2>2
    <3>2. words = SubSeq(src, 2, Len(src))
      BY <3>1
    <3>3. \A i \in 2 .. Len(src) : src[i] \in Word
      BY <1>1, ElementOfSeq
    <3>4. words \in Seq(Word)
      BY <1>1, <3>2, <3>3, SubSeqProperties
    <3>5. src = <<src[1]>> \o SubSeq(src, 2, Len(src))
      <4>1. 1 \in 1 .. Len(src) /\ Len(src) \in 1 .. Len(src)
        BY <1>1
      <4>2. SubSeq(src, 1, Len(src)) = <<src[1]>> \o SubSeq(src, 1 + 1, Len(src))
        BY <4>1, SubSeqRecursiveFirst
      <4>3. QED
        BY <4>2, SubSeqFull
    <3>6. aKey \o <<>> = aKey
      <4>1. aKey \in Seq(Word)
        BY <1>1
      <4>2. QED
        BY <4>1, ConcatEmptySeq
    <3>7. QED
      BY <3>1, <3>2, <3>4, <3>5, <3>6, Zenon
  <2>3. QED
    BY <2>1, <2>2, Zenon
<1> HIDE DEF words
<1>4. /\ blocks \in Seq(Word) /\ rest \in Seq(Word)
      /\ \/ words = blocks /\ rest = <<>>
         \/ words = blocks \o (<<Separator>> \o rest)
  BY <1>3, ParseWords, Zenon
<1>5. GroupParsed = [key |-> Head(src), iv |-> iv, blocks |-> blocks] /\ WordsLeft = rest
  BY DEF GroupParsed, WordsLeft, words
<1> HIDE DEF blocks, rest, iv
<1>6. GroupParsed \in Group /\ Len(GroupParsed.iv) = IvCount
  BY <1>1, <1>2, <1>4, <1>5 DEF Group
<1>7. WordsOf(GroupParsed) = (aKey \o iv) \o blocks
  BY <1>1, <1>5 DEF WordsOf
<1>8. CASE words = blocks /\ rest = <<>>
  BY <1>3, <1>4, <1>5, <1>6, <1>7, <1>8, Zenon
<1>9. CASE words = blocks \o (<<Separator>> \o rest)
  <2> DEFINE h == aKey \o iv
             r == <<Separator>> \o rest
  <2>1. r \in Seq(Word) /\ h \in Seq(Word)
    <3>1. aKey \in Seq(Word)
      BY <1>1
    <3>2. QED
      BY <1>2, <1>4, <3>1, SeparatorInFront, ConcatProperties
  <2>2. src = h \o (blocks \o r) /\ WordsOf(GroupParsed) = h \o blocks
    BY <1>3, <1>7, <1>9, Zenon
  <2> HIDE DEF h, r
  <2>3. h \o (blocks \o r) = (h \o blocks) \o r
    <3>1. h \in Seq(Word) /\ blocks \in Seq(Word) /\ r \in Seq(Word)
      BY <1>4, <2>1
    <3>2. Associates(Word)
      BY Regroup
    <3>3. QED
      BY <3>1, <3>2 DEF Associates
  <2>4. src = WordsOf(GroupParsed) \o r
    BY <2>2, <2>3
  <2>5. QED
    BY <1>4, <1>5, <1>6, <2>4, Zenon DEF r
<1>10. QED
  BY <1>4, <1>8, <1>9, Zenon

(* The words that stand for groups.                                         *)
ArgsOf(s) == [i \in DOMAIN s |-> ToArgs(s[i])]

LEMMA ArgsType ==
  ASSUME NEW s \in Seq(Group)
  PROVE  /\ ArgsOf(s) \in Seq(Seq(Word)) /\ Len(ArgsOf(s)) = Len(s)
         /\ \A i \in 1 .. Len(s) : ArgsOf(s)[i] = ToArgs(s[i])
<1>1. DOMAIN s = 1 .. Len(s) /\ Len(s) \in Nat /\ \A i \in 1 .. Len(s) : s[i] \in Group
  BY LenProperties, ElementOfSeq
<1>2. \A i \in 1 .. Len(s) : ToArgs(s[i]) \in Seq(Word)
  BY <1>1, WordsFacts
<1>3. ArgsOf(s) \in [1 .. Len(s) -> Seq(Word)] /\ \A i \in 1 .. Len(s) : ArgsOf(s)[i] = ToArgs(s[i])
  BY <1>1, <1>2 DEF ArgsOf
<1>4. QED
  BY <1>1, <1>3, SeqDef

LEMMA UnparsedFirst ==
  ASSUME NEW s \in Seq(Group), s # <<>>
  PROVE  /\ FlattenSeq(ArgsOf(s)) = <<Separator>> \o Unparsed(s)
         /\ Unparsed(s) = WordsOf(s[1]) \o FlattenSeq(ArgsOf(Tail(s)))
         /\ Unparsed(s) \in Seq(Word)
<1> DEFINE a == ArgsOf(s)
           t == Tail(s)
           w == WordsOf(s[1])
           f == FlattenSeq(ArgsOf(t))
           x == <<Separator>>
<1>1. Len(s) \in Nat \ {0} /\ s[1] \in Group
  <2>1. Len(s) \in Nat \ {0}
    BY EmptySeq
  <2>2. 1 \in 1 .. Len(s)
    BY <2>1
  <2>3. QED
    BY <2>1, <2>2, ElementOfSeq
<1>2. /\ t \in Seq(Group) /\ Len(t) = Len(s) - 1 /\ \A i \in 1 .. Len(t) : t[i] = s[i + 1]
  BY HeadTailProperties
<1>3. /\ a \in Seq(Seq(Word)) /\ Len(a) = Len(s) /\ \A i \in 1 .. Len(s) : a[i] = ToArgs(s[i])
  BY ArgsType
<1> HIDE DEF a, t
<1>4. /\ ArgsOf(t) \in Seq(Seq(Word)) /\ Len(ArgsOf(t)) = Len(t)
      /\ \A i \in 1 .. Len(t) : ArgsOf(t)[i] = ToArgs(t[i])
  BY <1>2, ArgsType
<1>5. a # <<>> /\ Head(a) = ToArgs(s[1])
  <2>1. a # <<>>
    BY <1>1, <1>3
  <2>2. 1 \in 1 .. Len(s) /\ Head(a) = a[1]
    BY <1>1
  <2>3. QED
    BY <1>3, <2>1, <2>2
<1>6. Tail(a) = ArgsOf(t)
  <2>1. /\ Tail(a) \in Seq(Seq(Word)) /\ Len(Tail(a)) = Len(a) - 1
        /\ \A i \in 1 .. Len(Tail(a)) : Tail(a)[i] = a[i + 1]
    BY <1>3, <1>5, HeadTailProperties
  <2>2. Len(Tail(a)) = Len(ArgsOf(t))
    BY <1>2, <1>3, <1>4, <2>1
  <2>3. ASSUME NEW i \in 1 .. Len(Tail(a)) PROVE Tail(a)[i] = ArgsOf(t)[i]
    <3>1. i + 1 \in 1 .. Len(s) /\ i \in 1 .. Len(t)
      BY <1>1, <1>2, <1>3, <2>1
    <3>2. QED
      BY <1>2, <1>3, <1>4, <2>1, <3>1, Zenon
  <2>4. QED
    BY <1>4, <2>1, <2>2, <2>3, SeqEqual, Zenon
<1>7. FlattenSeq(a) = ToArgs(s[1]) \o f /\ f \in Seq(Word)
  <2>1. FlattenSeq(a) = Head(a) \o FlattenSeq(Tail(a))
    BY <1>3, <1>5, FlattenFirst
  <2>2. f \in Seq(Word)
    BY <1>4, FlattenType
  <2>3. QED
    BY <1>5, <1>6, <2>1, <2>2, Zenon
<1>8. ToArgs(s[1]) = x \o w /\ w \in Seq(Word) /\ x \in Seq(Word)
  BY <1>1, WordsFacts, SeparatorType
<1> HIDE DEF w, f, x
<1>9. FlattenSeq(a) = x \o (w \o f)
  <2>1. Associates(Word)
    BY Regroup
  <2>2. (x \o w) \o f = x \o (w \o f)
    BY <1>7, <1>8, <2>1, Zenon DEF Associates
  <2>3. QED
    BY <1>7, <1>8, <2>2
<1>10. w \o f \in Seq(Word)
  BY <1>7, <1>8, ConcatProperties
<1>11. Tail(x \o (w \o f)) = w \o f
  BY <1>10, SeparatorInFront DEF x
<1>12. Unparsed(s) = w \o f
  BY <1>9, <1>11, Zenon DEF Unparsed, a, ArgsOf
<1>13. QED
  BY <1>9, <1>10, <1>12 DEF a, x, w, f, t

LEMMA UnparsedNext ==
  ASSUME NEW s \in Seq(Group), s # <<>>
  PROVE  /\ Tail(s) = <<>> => Unparsed(s) = WordsOf(s[1])
         /\ Tail(s) # <<>> => Unparsed(s) = WordsOf(s[1]) \o (<<Separator>> \o Unparsed(Tail(s)))
<1>1. Tail(s) \in Seq(Group) /\ s[1] \in Group
  <2>1. Len(s) \in Nat \ {0}
    BY EmptySeq
  <2>2. 1 \in 1 .. Len(s)
    BY <2>1
  <2>3. QED
    BY <2>2, ElementOfSeq, HeadTailProperties
<1>2. Unparsed(s) = WordsOf(s[1]) \o FlattenSeq(ArgsOf(Tail(s)))
  BY UnparsedFirst
<1>3. CASE Tail(s) = <<>>
  <2>1. Len(ArgsOf(Tail(s))) = 0 /\ ArgsOf(Tail(s)) \in Seq(Seq(Word))
    BY <1>1, <1>3, ArgsType, Zenon
  <2>2. FlattenSeq(ArgsOf(Tail(s))) = <<>>
    BY <2>1, EmptySeq, FlattenType
  <2>3. WordsOf(s[1]) \o <<>> = WordsOf(s[1])
    BY <1>1, WordsFacts, ConcatEmptySeq
  <2>4. QED
    BY <1>2, <1>3, <2>2, <2>3, Zenon
<1>4. CASE Tail(s) # <<>>
  <2>1. FlattenSeq(ArgsOf(Tail(s))) = <<Separator>> \o Unparsed(Tail(s))
    BY <1>1, <1>4, UnparsedFirst, Zenon
  <2>2. QED
    BY <1>2, <1>4, <2>1, Zenon
<1>5. QED
  BY <1>3, <1>4, Zenon

LEMMA UnparsedType == ASSUME NEW s \in Seq(Group) PROVE Unparsed(s) \in Seq(Word)
<1>1. CASE s = <<>>
  BY <1>1, EmptySeq DEF Unparsed
<1>2. CASE s # <<>>
  BY <1>2, UnparsedFirst
<1>3. QED
  BY <1>1, <1>2

(* The first "--" is dropped.                                               *)
LEMMA PositionalFacts ==
  ASSUME NEW args \in Seq(Word)
  PROVE  /\ Positional(args) \in Seq(Word)
         /\ (args # <<>> /\ args[1] = Separator) => Positional(args) = Tail(args)
<1> DEFINE end == SelectInSeq(args, LAMBDA v : v = Separator)
           there == \E i \in 1 .. Len(args) : args[i] = Separator
           cut == SubSeq(args, 1, end - 1) \o SubSeq(args, end + 1, Len(args))
<1>1. \/ end = 0 /\ \A i \in 1 .. Len(args) : args[i] # Separator
      \/ /\ end \in 1 .. Len(args) /\ args[end] = Separator
         /\ \A i \in 1 .. end - 1 : args[i] # Separator
  BY FirstSeparator, Zenon
<1>2. Positional(args) = IF there THEN cut ELSE args
  BY DEF Positional, RemoveFirst, RemoveAt
<1> HIDE DEF end
<1>3. Len(args) \in Nat /\ \A i \in 1 .. Len(args) : args[i] \in Word
  BY LenProperties, ElementOfSeq
<1>4. CASE end = 0
  BY <1>1, <1>2, <1>3, <1>4
<1>5. CASE end # 0
  <2>1. end \in 1 .. Len(args) /\ \A i \in 1 .. end - 1 : args[i] # Separator
    BY <1>1, <1>5
  <2>2. Positional(args) = cut
    BY <1>1, <1>2, <1>5, Zenon
  <2>3. /\ end \in Nat /\ end - 1 \in Int /\ end + 1 \in Int /\ Len(args) \in Int
        /\ \A i \in 1 .. end - 1 : i \in 1 .. Len(args)
        /\ \A i \in end + 1 .. Len(args) : i \in 1 .. Len(args)
    BY <1>3, <2>1
  <2>4. SubSeq(args, 1, end - 1) \in Seq(Word)
    <3>1. \A i \in 1 .. end - 1 : args[i] \in Word
      BY <1>3, <2>3
    <3>2. QED
      BY <2>3, <3>1, SubSeqProperties
  <2>5. SubSeq(args, end + 1, Len(args)) \in Seq(Word)
    <3>1. \A i \in end + 1 .. Len(args) : args[i] \in Word
      BY <1>3, <2>3
    <3>2. QED
      BY <2>3, <3>1, SubSeqProperties
  <2>6. cut \in Seq(Word)
    BY <2>4, <2>5, ConcatProperties
  <2>7. ASSUME args # <<>>, args[1] = Separator PROVE cut = Tail(args)
    <3>1. end = 1
      <4>1. 1 \notin 1 .. end - 1
        BY <2>1, <2>7
      <4>2. QED
        BY <2>1, <2>3, <4>1
    <3>2. end - 1 = 0 /\ end + 1 = 2
      BY <3>1
    <3>3. SubSeq(args, 1, 0) = <<>> /\ SubSeq(args, 2, Len(args)) = Tail(args)
      BY <2>7, SubSeqEmpty, TailIsSubSeq
    <3>4. <<>> \o Tail(args) = Tail(args)
      BY <2>7, HeadTailProperties, ConcatEmptySeq
    <3>5. QED
      BY <3>2, <3>3, <3>4
  <2>8. QED
    BY <2>2, <2>6, <2>7, Zenon
<1>6. QED
  BY <1>4, <1>5

(* The groups joined by separators.                                         *)
JoinedArgs(s) == [i \in DOMAIN s |-> IF i = 1 THEN Tail(ToArgs(s[i])) ELSE ToArgs(s[i])]

JoinedOf(s) == FlattenSeq(JoinedArgs(s))

LEMMA JoinedType ==
  ASSUME NEW s \in Seq(Group)
  PROVE  /\ JoinedArgs(s) \in Seq(Seq(Word)) /\ Len(JoinedArgs(s)) = Len(s)
         /\ \A i \in 1 .. Len(s) :
              JoinedArgs(s)[i] = IF i = 1 THEN WordsOf(s[i]) ELSE <<Separator>> \o WordsOf(s[i])
         /\ JoinedOf(s) \in Seq(Word) /\ (s = <<>> => JoinedOf(s) = <<>>)
<1>1. DOMAIN s = 1 .. Len(s) /\ Len(s) \in Nat /\ \A i \in 1 .. Len(s) : s[i] \in Group
  BY LenProperties, ElementOfSeq
<1> DEFINE e(i) == IF i = 1 THEN WordsOf(s[i]) ELSE <<Separator>> \o WordsOf(s[i])
<1>2. ASSUME NEW i \in 1 .. Len(s)
      PROVE  /\ (IF i = 1 THEN Tail(ToArgs(s[i])) ELSE ToArgs(s[i])) = e(i)
             /\ e(i) \in Seq(Word)
  <2>1. /\ Tail(ToArgs(s[i])) = WordsOf(s[i]) /\ ToArgs(s[i]) = <<Separator>> \o WordsOf(s[i])
        /\ WordsOf(s[i]) \in Seq(Word) /\ ToArgs(s[i]) \in Seq(Word)
    BY <1>1, WordsFacts, Zenon
  <2>2. QED
    BY <2>1, Zenon
<1> HIDE DEF e
<1>3. JoinedArgs(s) = [i \in 1 .. Len(s) |-> e(i)]
  BY <1>1, <1>2 DEF JoinedArgs
<1>4. JoinedArgs(s) \in [1 .. Len(s) -> Seq(Word)] /\ \A i \in 1 .. Len(s) : JoinedArgs(s)[i] = e(i)
  BY <1>2, <1>3
<1>5. JoinedArgs(s) \in Seq(Seq(Word)) /\ Len(JoinedArgs(s)) = Len(s)
  BY <1>1, <1>4, SeqDef
<1>6. JoinedOf(s) \in Seq(Word) /\ (JoinedArgs(s) = <<>> => JoinedOf(s) = <<>>)
  BY <1>5, FlattenType DEF JoinedOf
<1>7. s = <<>> => JoinedArgs(s) = <<>>
  BY <1>5, EmptySeq
<1>8. QED
  BY <1>4, <1>5, <1>6, <1>7 DEF e

LEMMA JoinedAppend ==
  ASSUME NEW s \in Seq(Group), NEW g \in Group
  PROVE  /\ s = <<>> => JoinedOf(Append(s, g)) = WordsOf(g)
         /\ s # <<>> => JoinedOf(Append(s, g)) = JoinedOf(s) \o (<<Separator>> \o WordsOf(g))
<1> DEFINE t == Append(s, g)
           n == Len(s)
           a == JoinedArgs(s)
           b == JoinedArgs(t)
           x == IF n = 0 THEN WordsOf(g) ELSE <<Separator>> \o WordsOf(g)
<1>1. /\ t \in Seq(Group) /\ Len(t) = n + 1 /\ n \in Nat /\ t[n + 1] = g
      /\ \A i \in 1 .. n : t[i] = s[i]
  BY AppendProperties, LenProperties
<1> HIDE DEF t
<1>2. /\ a \in Seq(Seq(Word)) /\ Len(a) = n
      /\ \A i \in 1 .. n : a[i] = IF i = 1 THEN WordsOf(s[i]) ELSE <<Separator>> \o WordsOf(s[i])
  BY JoinedType, Zenon
<1>3. /\ b \in Seq(Seq(Word)) /\ Len(b) = Len(t)
      /\ \A i \in 1 .. Len(t) : b[i] = IF i = 1 THEN WordsOf(t[i]) ELSE <<Separator>> \o WordsOf(t[i])
  BY <1>1, JoinedType, Zenon
<1>4. x \in Seq(Word)
  BY WordsFacts, SeparatorInFront
<1>5. b[n + 1] = x /\ \A i \in 1 .. n : b[i] = a[i]
  <2>1. n + 1 \in 1 .. Len(t) /\ (n + 1 = 1 <=> n = 0) /\ \A i \in 1 .. n : i \in 1 .. Len(t)
    BY <1>1
  <2>2. QED
    BY <1>1, <1>2, <1>3, <2>1, Zenon
<1> HIDE DEF a, b, x
<1>6. b = Append(a, x)
  <2>1. /\ Append(a, x) \in Seq(Seq(Word)) /\ Len(Append(a, x)) = Len(a) + 1
        /\ Append(a, x)[Len(a) + 1] = x /\ \A i \in 1 .. Len(a) : Append(a, x)[i] = a[i]
    <3>1. a \in Seq(Seq(Word))
      BY <1>2
    <3>2. QED
      BY <1>4, <3>1, AppendProperties
  <2>2. \A i \in 1 .. n + 1 : i = n + 1 \/ i \in 1 .. n
    BY <1>1
  <2>3. \A i \in 1 .. Len(b) : b[i] = Append(a, x)[i]
    BY <1>1, <1>2, <1>3, <1>5, <2>1, <2>2
  <2>4. Len(b) = Len(Append(a, x))
    BY <1>1, <1>2, <1>3, <2>1
  <2>5. QED
    BY <1>3, <2>1, <2>3, <2>4, SeqEqual, Zenon
<1>7. FlattenSeq(b) = FlattenSeq(a) \o x
  BY <1>2, <1>4, <1>6, FlattenAppend
<1>8. CASE s = <<>>
  <2>1. JoinedOf(s) = <<>> /\ n = 0
    BY <1>8, JoinedType, Zenon
  <2>2. <<>> \o x = x
    BY <1>4, ConcatEmptySeq
  <2>3. QED
    BY <1>7, <1>8, <2>1, <2>2, Zenon DEF JoinedOf, a, b, t, x
<1>9. CASE s # <<>>
  <2>1. n # 0
    BY <1>9, EmptySeq
  <2>2. QED
    BY <1>7, <1>9, <2>1 DEF JoinedOf, a, b, t, x
<1>10. QED
  BY <1>8, <1>9

(* A group that was put on the command line is parsed as it was.            *)
LEMMA ParseGiven ==
  ASSUME NEW b \in Group, Len(b.iv) = IvCount, NoSeparator(b.blocks), NEW t \in Seq(Word),
         src \in Seq(Word),
         \/ src = WordsOf(b) /\ t = <<>>
         \/ src = WordsOf(b) \o (<<Separator>> \o t)
  PROVE  /\ GroupParsed = b /\ WordsLeft = t
         /\ src # <<>> /\ (RequiresInitVector(command.mode) => Len(src) > 1)
<1> DEFINE aKey == <<b.key>>
           h == aKey \o b.iv
           words == IF src = WordsOf(b) THEN b.blocks ELSE b.blocks \o (<<Separator>> \o t)
           iv == IF RequiresInitVector(command.mode) THEN <<src[2]>> ELSE <<>>
<1>1. /\ b.key \in Word /\ b.iv \in Seq(Word) /\ b.blocks \in Seq(Word)
      /\ <<Separator>> \o t \in Seq(Word)
  BY SeparatorInFront DEF Group
<1>2. aKey \in Seq(Word) /\ Len(aKey) = 1 /\ aKey[1] = b.key
  BY <1>1
<1>3. WordsOf(b) = h \o b.blocks
  BY DEF WordsOf
<1>4. IvCount \in {0, 1} /\ (RequiresInitVector(command.mode) <=> IvCount = 1)
  BY DEF IvCount
<1> HIDE DEF aKey
<1>5. /\ h \in Seq(Word) /\ Len(h) = 1 + IvCount
      /\ h[1] = b.key /\ (IvCount = 1 => h[2] = b.iv[1])
  <2>1. /\ h \in Seq(Word) /\ Len(h) = Len(aKey) + Len(b.iv)
        /\ \A i \in 1 .. Len(aKey) + Len(b.iv) :
             h[i] = IF i <= Len(aKey) THEN aKey[i] ELSE b.iv[i - Len(aKey)]
    <3>1. aKey \in Seq(Word)
      BY <1>2
    <3>2. QED
      BY <1>1, <3>1, ConcatProperties, Zenon
  <2>2. 1 \in 1 .. Len(aKey) + Len(b.iv) /\ 1 <= Len(aKey)
    BY <1>2, <1>4
  <2>3. IvCount = 1 => 2 \in 1 .. Len(aKey) + Len(b.iv) /\ ~ (2 <= Len(aKey)) /\ 2 - Len(aKey) = 1
    BY <1>2
  <2>4. QED
    BY <1>2, <1>4, <2>1, <2>2, <2>3
<1> HIDE DEF h
<1>6. words \in Seq(Word) /\ src = h \o words
  <2>1. CASE src = WordsOf(b)
    BY <1>1, <1>3, <2>1
  <2>2. CASE src # WordsOf(b)
    <3>1. src = (h \o b.blocks) \o (<<Separator>> \o t)
      BY <1>3, <2>2, Zenon
    <3> DEFINE r == <<Separator>> \o t
               c == b.blocks
    <3>2. r \in Seq(Word) /\ c \in Seq(Word) /\ h \in Seq(Word) /\ src = (h \o c) \o r
      BY <1>1, <1>5, <3>1
    <3>3. words = c \o r
      BY <2>2, Zenon
    <3> HIDE DEF r, c, words
    <3>4. (h \o c) \o r = h \o (c \o r)
      <4>1. Associates(Word)
        BY Regroup
      <4>2. QED
        BY <3>2, <4>1 DEF Associates
    <3>5. c \o r \in Seq(Word)
      BY <3>2, ConcatProperties
    <3>6. QED
      BY <3>2, <3>3, <3>4, <3>5
  <2>3. QED
    BY <2>1, <2>2, Zenon
<1> HIDE DEF words
<1>7. /\ Len(words) \in Nat /\ Len(src) = 1 + IvCount + Len(words)
      /\ src[1] = b.key /\ (IvCount = 1 => src[2] = b.iv[1])
  <2>1. /\ Len(h \o words) = Len(h) + Len(words)
        /\ \A i \in 1 .. Len(h) + Len(words) :
             (h \o words)[i] = IF i <= Len(h) THEN h[i] ELSE words[i - Len(h)]
    <3>1. h \in Seq(Word) /\ words \in Seq(Word)
      BY <1>5, <1>6
    <3>2. QED
      BY <3>1, ConcatProperties
  <2>2. Len(words) \in Nat
    BY <1>6, LenProperties
  <2>3. 1 \in 1 .. Len(h) + Len(words) /\ 1 <= Len(h)
    BY <1>4, <1>5, <2>2
  <2>4. IvCount = 1 => 2 \in 1 .. Len(h) + Len(words) /\ 2 <= Len(h)
    BY <1>4, <1>5, <2>2
  <2>5. QED
    BY <1>5, <1>6, <2>1, <2>2, <2>3, <2>4
<1>8. src # <<>> /\ (RequiresInitVector(command.mode) => Len(src) > 1) /\ Head(src) = b.key
  <2>1. Len(src) # 0
    BY <1>4, <1>7
  <2>2. src # <<>>
    BY <2>1, EmptySeq
  <2>3. QED
    BY <1>4, <1>7, <2>2
<1>9. iv = b.iv
  <2>1. CASE RequiresInitVector(command.mode)
    <3>1. Len(b.iv) = 1 /\ src[2] = b.iv[1]
      BY <1>4, <1>7, <2>1
    <3>2. b.iv[1] \in Word
      BY <1>1, <3>1, ElementOfSeq
    <3>3. iv = <<b.iv[1]>> /\ <<b.iv[1]>> \in Seq(Word)
      BY <2>1, <3>1, <3>2
    <3>4. Len(<<b.iv[1]>>) = 1 /\ \A i \in 1 .. Len(b.iv) : b.iv[i] = <<b.iv[1]>>[i]
      BY <3>1
    <3>5. QED
      BY <1>1, <3>1, <3>3, <3>4, SeqEqual
  <2>2. CASE ~ RequiresInitVector(command.mode)
    <3>1. Len(b.iv) = 0
      BY <1>4, <2>2
    <3>2. QED
      BY <1>1, <2>2, <3>1, EmptySeq
  <2>3. QED
    BY <2>1, <2>2
<1> HIDE DEF iv
<1>10. SubSeq(src, 2 + Len(iv), Len(src)) = words
  <2>1. 2 + Len(iv) \in Nat /\ 2 + Len(iv) = Len(h) + 1
    BY <1>4, <1>5, <1>9
  <2>2. SubSeq(h \o words, 2 + Len(iv), Len(h \o words)) = words
    BY <1>5, <1>6, <2>1, CutBehind, Zenon
  <2>3. QED
    BY <1>6, <2>2
<1>11. ParseBlocks(words) = b.blocks /\ SubSeq(words, Len(b.blocks) + 2, Len(words)) = t
  <2> DEFINE c == b.blocks
  <2>1. c \in Seq(Word) /\ NoSeparator(c)
    BY <1>1
  <2> HIDE DEF c
  <2>2. /\ ParseBlocks(c) = c /\ SubSeq(c, Len(c) + 2, Len(c)) = <<>>
        /\ ParseBlocks(c \o (<<Separator>> \o t)) = c
        /\ SubSeq(c \o (<<Separator>> \o t), Len(c) + 2, Len(c \o (<<Separator>> \o t))) = t
    BY <2>1, ParseAgain, Zenon
  <2>3. CASE src = WordsOf(b)
    <3>1. words = c
      BY <2>3 DEF words, c
    <3>2. t = <<>>
      <4>1. CASE src = WordsOf(b) \o (<<Separator>> \o t)
        <5> DEFINE w == WordsOf(b)
                   r == <<Separator>> \o t
        <5>1. w \in Seq(Word) /\ r \in Seq(Word) /\ w \o r = w /\ r # <<>>
          BY <2>3, <4>1, WordsFacts, SeparatorInFront
        <5> HIDE DEF w, r
        <5>2. r = <<>>
          BY <5>1, ConcatEqualIffEmpty
        <5>3. QED
          BY <5>1, <5>2
      <4>2. QED
        BY <4>1
    <3>3. QED
      BY <2>2, <3>1, <3>2 DEF c
  <2>4. CASE src # WordsOf(b)
    <3>1. words = c \o (<<Separator>> \o t)
      BY <2>4, Zenon DEF words, c
    <3>2. QED
      BY <2>2, <3>1, Zenon DEF c
  <2>5. QED
    BY <2>3, <2>4, Zenon
<1>12. GroupParsed = [key |-> b.key, iv |-> b.iv, blocks |-> b.blocks] /\ WordsLeft = t
  BY <1>8, <1>9, <1>10, <1>11, Zenon DEF GroupParsed, WordsLeft, iv
<1>13. b = [key |-> b.key, iv |-> b.iv, blocks |-> b.blocks]
  BY DEF Group
<1>14. QED
  BY <1>8, <1>12, <1>13

LEMMA SameGroups ==
  ASSUME UNCHANGED <<command, inputs, printed>>, Groups
  PROVE  Groups'
<1>1. command' = command
  OBVIOUS
<1>2. /\ \A i \in 1 .. Len(printed) : FollowsMode(inputs[i], printed[i])' <=> FollowsMode(inputs[i], printed[i])
      /\ \A i \in 1 .. Len(printed) : Finished(inputs[i], printed[i])' <=> Finished(inputs[i], printed[i])
  <2>1. inputs' = inputs /\ printed' = printed
    OBVIOUS
  <2>2. QED
    BY <1>1, <2>1, SameCommand
<1>3. QED
  BY <1>2 DEF Groups

(* Nothing that the script has decrypted is refused.                        *)
LEMMA GivenGroup ==
  ASSUME BlocksInv, earlier # <<>>, NEW i \in 1 .. Len(inputs)
  PROVE  ReadableGroup(inputs[i]) /\ inputs[i].blocks \in Seq(Block)
<1>1. BlocksTypes /\ ReadingBack
  BY DEF BlocksInv
<1>2. PICK back \in Seq(Group) : GivenBack(back)
  BY <1>1 DEF ReadingBack
<1>3. Returned(earlier[i], back[i]) /\ inputs[i] = back[i]
  <2>1. Len(inputs) <= Len(back) /\ Len(inputs) \in Nat /\ Len(back) \in Nat
    BY <1>1, <1>2, LenProperties DEF GivenBack, BlocksTypes
  <2>2. i \in 1 .. Len(back)
    BY <2>1
  <2>3. QED
    BY <1>2, <2>2 DEF GivenBack
<1>4. QED
  BY <1>3, Zenon DEF Returned, ReadableGroup

LEMMA RefuseBlockKeeps == ASSUME BlocksInv, RefuseBlock PROVE BlocksInv'
<1> DEFINE text == Head(todo)
<1>1. /\ phase = "blocks" /\ todo # <<>> /\ ~ Readable(text, BlockSize)
      /\ UNCHANGED <<command, src, inputs, cipher, todo, printed, earlier>>
      /\ phase' = "ended" /\ exit_code' = 1
      /\ cerr' = FormatErrorMessage(ErrorParse(text, BlockName))
  BY DEF RefuseBlock, Throw, ExitWith
<1>2. BlocksTypes /\ Parsed /\ Groups /\ Phases /\ ReadingBack
  BY DEF BlocksInv
<1>3. /\ Len(printed) \in 1 .. Len(inputs) /\ printed # <<>> /\ src = <<>>
      /\ NextBlock \in 1 .. Len(Begun.blocks) /\ text = Begun.blocks[NextBlock]
  <2>1. printed # <<>>
    BY <1>1, <1>2 DEF Phases
  <2>2. QED
    BY <1>1, <2>1, InGroup, AtBlock
<1>4. BlocksTypes'
  BY <1>1, <1>2 DEF BlocksTypes, IvCount
<1>5. Parsed'
  BY <1>1, <1>2, <1>3, SameParsed
<1>6. Groups'
  BY <1>1, <1>2, SameGroups
<1>7. Phases'
  BY <1>1 DEF Phases
<1>8. RefusedText'
  <2>1. NextBlock' = NextBlock /\ Begun' = Begun
    BY <1>1 DEF NextBlock, Shown, Begun, ResultsOf, ResultLabel, IsEncryption
  <2>2. Refuses(Begun.blocks[NextBlock], BlockSize, BlockName)'
    BY <1>1, <1>3, <2>1 DEF Refuses
  <2>3. QED
    BY <1>3, <2>1, <2>2 DEF RefusedText
<1>9. Exits'
  <2>1. (/\ BlocksTypes /\ exit_code = 1 /\ RefusedText
         /\ printed # <<>> /\ Len(printed) <= Len(inputs)
         /\ \A i \in 1 .. Len(printed) - 1 : Finished(inputs[i], printed[i]))'
    BY <1>1, <1>3, <1>4, <1>6, <1>8 DEF Groups
  <2>2. QED
    BY <2>1, TellsRefusal, PTL
<1>10. ReadingBack'
  <2>1. CASE earlier = <<>>
    BY <1>1, <2>1 DEF ReadingBack
  <2>2. CASE earlier # <<>>
    <3>1. Begun.blocks \in Seq(Block)
      BY <1>3, <2>2, GivenGroup DEF Begun
    <3>2. text \in Block
      BY <1>3, <3>1, ElementOfSeq
    <3>3. QED
      BY <1>1, <3>2, BlockText
  <2>3. QED
    BY <2>1, <2>2
<1>11. QED
  BY <1>4, <1>5, <1>6, <1>7, <1>9, <1>10 DEF BlocksInv

LEMMA StutterKeeps == ASSUME BlocksInv, UNCHANGED blocksVars PROVE BlocksInv'
<1>1. /\ command' = command /\ src' = src /\ inputs' = inputs /\ phase' = phase
      /\ cipher' = cipher /\ todo' = todo /\ printed' = printed
      /\ exit_code' = exit_code /\ cerr' = cerr /\ earlier' = earlier
  BY DEF blocksVars
<1>2. BlocksTypes /\ Parsed /\ Groups /\ Phases /\ Exits /\ ReadingBack
  BY DEF BlocksInv
<1>3. BlocksTypes'
  BY <1>1, <1>2 DEF BlocksTypes, IvCount
<1>4. Parsed'
  BY <1>1, <1>2, SameParsed, Zenon DEF Parsed
<1>5. Groups'
  BY <1>1, <1>2, SameGroups
<1>6. Phases'
  BY <1>1, <1>2, Zenon
  DEF Phases, Underway, ReadableGroup, ResultsOf, KeyOf, ChainedOf, IvOf, PlainOf, CodedOf,
      SourcesOf, ResultLabel, IsEncryption
<1>7. Exits'
  <2>1. (\A i : Complete(i)' <=> Complete(i)) /\ \A i : Results(i)' = Results(i)
    BY <1>1 DEF Complete, Results, Lines, ResultLabel, IsEncryption
  <2>2. /\ \A g : KeyText(g)' = KeyText(g) /\ IvText(g)' = IvText(g)
        /\ \A t, w : Names(t, w)' <=> Names(t, w)
    BY <1>1 DEF KeyText, IvText, Names
  <2>3. ExitTellsOutput'
    BY <1>1, <1>2, <2>1, <2>2 DEF Exits, ExitTellsOutput
  <2>4. \A g, lines : Finished(g, lines)' <=> Finished(g, lines)
    BY <1>1 DEF Finished, ReadableGroup, ResultsOf, ResultLabel, IsEncryption
  <2>5. QED
    BY <1>1, <1>2, <2>3, <2>4 DEF Exits
<1>8. ReadingBack'
  <2>1. exit_code' # 1 \/ earlier = <<>>
    BY <1>1, <1>2 DEF ReadingBack
  <2>2. QED
    BY <1>1, <1>2, <2>1, SameReading DEF ReadingBack
<1>9. QED
  BY <1>3, <1>4, <1>5, <1>6, <1>7, <1>8 DEF BlocksInv

(* The words that were printed are parsed into the groups they came from.   *)
LEMMA ParsesBack ==
  ASSUME BlocksInv, NEW back \in Seq(Group), GivenBack(back), src # <<>>
  PROVE  /\ Len(inputs) + 1 \in 1 .. Len(back) /\ GroupParsed = back[Len(inputs) + 1]
         /\ WordsLeft = Unparsed(SubSeq(back, Len(inputs) + 2, Len(back)))
         /\ RequiresInitVector(command.mode) => Len(src) > 1
<1> DEFINE k == Len(inputs) + 1
           n == Len(back)
           s == SubSeq(back, k, n)
<1>1. BlocksTypes
  BY DEF BlocksInv
<1>2. k \in Nat /\ k >= 1 /\ n \in Nat /\ k - 1 <= n /\ src = Unparsed(s) /\ src \in Seq(Word)
  BY <1>1, LenProperties DEF GivenBack, BlocksTypes
<1>3. k \in 1 .. n
  <2>1. CASE k > n
    <3>1. s = <<>>
      BY <1>2, <2>1, SubSeqEmpty
    <3>2. QED
      BY <1>2, <3>1 DEF Unparsed
  <2>2. QED
    BY <1>2, <2>1
<1>4. Returned(earlier[k], back[k])
  BY <1>3 DEF GivenBack
<1>5. back[k] \in Group /\ \A i \in k .. n : back[i] \in Group
  BY <1>2, <1>3, ElementOfSeq
<1> HIDE DEF k, n
<1>6. s \in Seq(Group) /\ s # <<>> /\ s[1] = back[k] /\ Tail(s) = SubSeq(back, k + 1, n)
      /\ Tail(s) \in Seq(Group)
  <2>1. s \in Seq(Group) /\ Len(s) = n - k + 1 /\ s[1] = back[k]
    <3>1. /\ SubSeq(back, k, n) \in Seq(Group)
          /\ Len(SubSeq(back, k, n)) = IF k <= n THEN n - k + 1 ELSE 0
          /\ \A i \in 1 .. n - k + 1 : SubSeq(back, k, n)[i] = back[k + i - 1]
      BY <1>2, <1>5, SubSeqProperties
    <3>2. 1 \in 1 .. n - k + 1 /\ k + 1 - 1 = k
      BY <1>2, <1>3
    <3>3. QED
      BY <1>3, <3>1, <3>2
  <2>2. s # <<>>
    <3>1. Len(s) # 0
      BY <1>2, <1>3, <2>1
    <3>2. QED
      BY <2>1, <3>1, EmptySeq, Zenon
  <2>3. n \in k .. Len(back) /\ k \in 1 .. Len(back)
    BY <1>3 DEF n
  <2>4. Tail(s) = SubSeq(back, k + 1, n)
    BY <2>3, HeadTailOfSubSeq
  <2>5. Tail(s) \in Seq(Group)
    BY <2>1, <2>2, HeadTailProperties, Zenon
  <2>6. QED
    BY <2>1, <2>2, <2>4, <2>5, Zenon
<1> DEFINE b == back[k]
           t == Unparsed(Tail(s))
<1> HIDE DEF s
<1>7. t \in Seq(Word)
  BY <1>6, UnparsedType, Zenon
<1>8. \/ src = WordsOf(b) /\ t = <<>>
      \/ src = WordsOf(b) \o (<<Separator>> \o t)
  BY <1>2, <1>6, UnparsedNext, Zenon DEF Unparsed
<1>9. b \in Group /\ Len(b.iv) = IvCount /\ NoSeparator(b.blocks)
  <2>1. b.blocks \in Seq(Block) /\ Len(b.iv) = IvCount
    BY <1>4 DEF Returned
  <2>2. \A i \in 1 .. Len(b.blocks) : b.blocks[i] \in Block
    BY <2>1, ElementOfSeq
  <2>3. \A x \in Block : x # Separator
    BY BlockText
  <2>4. QED
    BY <1>5, <2>1, <2>2, <2>3 DEF NoSeparator
<1> HIDE DEF b, t
<1>10. GroupParsed = b /\ WordsLeft = t /\ (RequiresInitVector(command.mode) => Len(src) > 1)
  BY <1>2, <1>7, <1>8, <1>9, ParseGiven, Zenon
<1>11. t = Unparsed(SubSeq(back, Len(inputs) + 2, Len(back)))
  <2>1. k + 1 = Len(inputs) + 2
    BY <1>1, LenProperties DEF k, BlocksTypes
  <2>2. QED
    BY <1>6, <2>1, Zenon DEF t, n
<1>12. QED
  BY <1>3, <1>10, <1>11 DEF b, k, n

LEMMA RefuseWithoutIvKeeps == ASSUME BlocksInv, RefuseWithoutIv PROVE BlocksInv'
<1>1. /\ phase = "parse" /\ Len(src) = 1 /\ RequiresInitVector(command.mode)
      /\ UNCHANGED <<command, src, inputs, cipher, todo, printed, earlier>>
      /\ phase' = "ended" /\ exit_code' = 1 /\ cerr' = <<>>
  BY DEF RefuseWithoutIv, ExitWith
<1>2. BlocksTypes /\ Parsed /\ Groups /\ Phases /\ ReadingBack
  BY DEF BlocksInv
<1>3. printed = <<>>
  BY <1>1, <1>2 DEF Phases
<1>4. BlocksTypes'
  BY <1>1, <1>2 DEF BlocksTypes, IvCount
<1>5. Parsed'
  BY <1>1, <1>2, <1>3, SameParsed
<1>6. Groups'
  BY <1>1, <1>2, SameGroups
<1>7. Phases'
  BY <1>1 DEF Phases
<1>8. Exits'
  BY <1>1, <1>3 DEF Exits, ExitTellsOutput
<1>9. ReadingBack'
  <2>1. CASE earlier = <<>>
    BY <1>1, <2>1 DEF ReadingBack
  <2>2. CASE earlier # <<>>
    <3>1. PICK back \in Seq(Group) : GivenBack(back)
      BY <1>2, <2>2 DEF ReadingBack
    <3>2. src # <<>>
      <4>1. Len(src) # 0 /\ src \in Seq(Word)
        BY <1>1, <1>2 DEF BlocksTypes
      <4>2. QED
        BY <4>1, EmptySeq
    <3>3. Len(src) > 1
      BY <1>1, <3>1, <3>2, ParsesBack
    <3>4. QED
      BY <1>1, <3>3
  <2>3. QED
    BY <2>1, <2>2
<1>10. QED
  BY <1>4, <1>5, <1>6, <1>7, <1>8, <1>9 DEF BlocksInv

LEMMA ParseInputKeeps == ASSUME BlocksInv, ParseInput PROVE BlocksInv'
<1> DEFINE g == GroupParsed
           rest == WordsLeft
           sep == <<Separator>>
<1>1. /\ phase = "parse" /\ src # <<>> /\ (RequiresInitVector(command.mode) => Len(src) > 1)
      /\ inputs' = Append(inputs, g) /\ src' = rest
      /\ UNCHANGED <<command, phase, cipher, todo, printed, exit_code, cerr, earlier>>
  BY DEF ParseInput, GroupParsed, WordsLeft
<1>2. BlocksTypes /\ Parsed /\ Groups /\ Phases /\ ReadingBack
  BY DEF BlocksInv
<1>3. printed = <<>> /\ exit_code = -1
  BY <1>1, <1>2 DEF Phases
<1>4. src \in Seq(Word) /\ inputs \in Seq(Group)
  BY <1>2 DEF BlocksTypes
<1>5. /\ g \in Group /\ Len(g.iv) = IvCount /\ rest \in Seq(Word)
      /\ \/ src = WordsOf(g) /\ rest = <<>>
         \/ src = WordsOf(g) \o (sep \o rest)
  BY <1>1, <1>4, ParseFacts, Zenon
<1> HIDE DEF g, rest
<1>6. /\ inputs' \in Seq(Group) /\ Len(inputs') = Len(inputs) + 1 /\ Len(inputs) \in Nat
      /\ inputs'[Len(inputs) + 1] = g /\ inputs' # <<>>
      /\ \A i \in 1 .. Len(inputs) : inputs'[i] = inputs[i]
  BY <1>1, <1>4, <1>5, AppendProperties, LenProperties
<1>7. \A i \in 1 .. Len(inputs') : i = Len(inputs) + 1 \/ i \in 1 .. Len(inputs)
  BY <1>6
<1>8. BlocksTypes'
  <2>1. \A i \in 1 .. Len(inputs') : Len(inputs'[i].iv) = IvCount
    BY <1>2, <1>5, <1>6, <1>7, Zenon DEF BlocksTypes
  <2>2. QED
    BY <1>1, <1>2, <1>5, <1>6, <2>1, Zenon DEF BlocksTypes, IvCount
<1>9. Parsed'
  <2>1. /\ inputs = <<>> => JoinedOf(inputs') = WordsOf(g)
        /\ inputs # <<>> => JoinedOf(inputs') = JoinedOf(inputs) \o (sep \o WordsOf(g))
    BY <1>1, <1>4, <1>5, JoinedAppend, Zenon
  <2>2. Joined = JoinedOf(inputs) /\ Joined' = JoinedOf(inputs')
    BY DEF Joined, JoinedOf, JoinedArgs
  <2>3. /\ inputs = <<>> => Positional(command.args) = src
        /\ inputs # <<>> => Positional(command.args) = JoinedOf(inputs) \o (sep \o src)
    BY <1>1, <1>2, <2>2 DEF Parsed
  <2>4. /\ JoinedOf(inputs) \in Seq(Word) /\ WordsOf(g) \in Seq(Word) /\ sep \in Seq(Word)
        /\ sep \o rest \in Seq(Word) /\ sep \o WordsOf(g) \in Seq(Word)
    BY <1>4, <1>5, JoinedType, WordsFacts, SeparatorInFront, SeparatorType
  <2>5. \/ rest = <<>> /\ Positional(command.args) = JoinedOf(inputs')
        \/ Positional(command.args) = JoinedOf(inputs') \o (sep \o rest)
    <3>1. CASE inputs = <<>>
      BY <1>5, <2>1, <2>3, <3>1
    <3>2. CASE inputs # <<>>
      <4>1. CASE src = WordsOf(g) /\ rest = <<>>
        BY <2>1, <2>3, <3>2, <4>1, Zenon
      <4>2. CASE src = WordsOf(g) \o (sep \o rest)
        <5> DEFINE j == JoinedOf(inputs)
                   w == WordsOf(g)
                   r == sep \o rest
        <5>1. /\ Positional(command.args) = j \o (sep \o (w \o r))
              /\ JoinedOf(inputs') = j \o (sep \o w)
              /\ j \in Seq(Word) /\ w \in Seq(Word) /\ r \in Seq(Word)
              /\ sep \in Seq(Word) /\ sep \o w \in Seq(Word)
          BY <2>1, <2>3, <2>4, <3>2, <4>2, Zenon
        <5> HIDE DEF j, w, r, sep
        <5>2. sep \o (w \o r) = (sep \o w) \o r /\ j \o ((sep \o w) \o r) = (j \o (sep \o w)) \o r
          <6>1. Associates(Word)
            BY Regroup
          <6>2. QED
            BY <5>1, <6>1, Zenon DEF Associates
        <5>3. Positional(command.args) = JoinedOf(inputs') \o r
          BY <5>1, <5>2
        <5>4. QED
          BY <5>3 DEF r, sep
      <4>3. QED
        BY <1>5, <4>1, <4>2, Zenon
    <3>3. QED
      BY <3>1, <3>2
  <2>6. QED
    BY <1>1, <1>3, <1>6, <2>2, <2>5 DEF Parsed
<1>10. Groups'
  <2>1. Len(printed) = 0 /\ printed' = printed
    BY <1>1, <1>3
  <2>2. QED
    BY <1>6, <2>1 DEF Groups
<1>11. Phases'
  BY <1>1, <1>3 DEF Phases
<1>12. Exits'
  BY <1>1, <1>3, StillRunning
<1>13. ReadingBack'
  <2>1. CASE earlier = <<>>
    BY <1>1, <2>1 DEF ReadingBack
  <2>2. CASE earlier # <<>>
    <3>1. PICK back \in Seq(Group) : GivenBack(back)
      BY <1>2, <2>2 DEF ReadingBack
    <3>2. /\ Len(inputs) + 1 \in 1 .. Len(back) /\ g = back[Len(inputs) + 1]
          /\ rest = Unparsed(SubSeq(back, Len(inputs) + 2, Len(back)))
      BY <1>1, <3>1, ParsesBack DEF g, rest
    <3>3. GivenBack(back)'
      <4>1. \A i \in 1 .. Len(inputs') : inputs'[i] = back[i]
        BY <1>6, <1>7, <3>1, <3>2 DEF GivenBack
      <4>2. src' = Unparsed(SubSeq(back, Len(inputs') + 1, Len(back)))
        <5>1. Len(inputs') + 1 = Len(inputs) + 2
          BY <1>6
        <5>2. QED
          BY <1>1, <3>2, <5>1
      <4>3. Len(back) = Len(earlier)' /\ Len(inputs') <= Len(back)
        BY <1>1, <1>6, <3>1, <3>2 DEF GivenBack
      <4>4. \A i \in 1 .. Len(back) : Returned(earlier[i], back[i])'
        BY <1>1, <3>1 DEF GivenBack, Returned, ReadableGroup, IvCount, KeyOf
      <4>5. QED
        BY <4>1, <4>2, <4>3, <4>4 DEF GivenBack
    <3>4. IsEncryption' = IsEncryption
      BY <1>1 DEF IsEncryption
    <3>5. QED
      BY <1>1, <1>2, <1>3, <2>2, <3>3, <3>4 DEF ReadingBack
  <2>3. QED
    BY <2>1, <2>2
<1>14. QED
  BY <1>8, <1>9, <1>10, <1>11, <1>12, <1>13 DEF BlocksInv

(* The groups before the current one are printed when it begins.            *)
LEMMA AllDone ==
  ASSUME BlocksInv, BetweenInputs
  PROVE  /\ src = <<>> /\ exit_code = -1
         /\ \A i \in 1 .. Len(printed) : Finished(inputs[i], printed[i])
<1>1. BlocksTypes /\ Parsed /\ Groups /\ Phases
  BY DEF BlocksInv
<1>2. CASE phase = "parse"
  <2>1. src = <<>> /\ printed = <<>> /\ exit_code = -1
    BY <1>1, <1>2 DEF BetweenInputs, Phases
  <2>2. QED
    BY <2>1
<1>3. CASE phase = "blocks"
  <2>1. /\ todo = <<>> /\ src = <<>> /\ exit_code = -1
        /\ Begun.blocks \in Seq(Word) /\ Underway(Begun, Shown)
        /\ NextBlock \in Nat /\ NextBlock >= 1 /\ NextBlock <= Len(Begun.blocks) + 1
        /\ todo = SubSeq(Begun.blocks, NextBlock, Len(Begun.blocks))
        /\ FollowsMode(Begun, Shown)
    BY <1>3, InGroup DEF BetweenInputs
  <2>2. Len(ResultsOf(Shown)) = Len(Begun.blocks)
    <3> DEFINE s == Begun.blocks
               m == NextBlock
    <3>1. s \in Seq(Word) /\ m \in Nat /\ m >= 1 /\ m <= Len(s) + 1 /\ SubSeq(s, m, Len(s)) = <<>>
          /\ Len(s) \in Nat
      BY <2>1, LenProperties
    <3> HIDE DEF s, m
    <3>2. CASE m <= Len(s)
      <4>1. \A i \in m .. Len(s) : s[i] \in Word
        BY <3>1, ElementOfSeq
      <4>2. Len(SubSeq(s, m, Len(s))) = Len(s) - m + 1
        <5>1. m \in Int /\ Len(s) \in Int
          BY <3>1
        <5>2. Len(SubSeq(s, m, Len(s))) = IF m <= Len(s) THEN Len(s) - m + 1 ELSE 0
          BY <4>1, <5>1, SubSeqProperties
        <5>3. QED
          BY <3>2, <5>2
      <4>3. Len(SubSeq(s, m, Len(s))) = 0
        BY <3>1, EmptySeq
      <4>4. QED
        BY <3>1, <3>2, <4>2, <4>3
    <3>3. CASE ~ (m <= Len(s))
      <4>1. m = Len(s) + 1
        BY <3>1, <3>3
      <4>2. Len(ResultsOf(Shown)) \in Nat
        BY <2>1, LenProperties DEF FollowsMode
      <4>3. QED
        BY <3>1, <4>1, <4>2 DEF m, s, NextBlock
    <3>4. QED
      BY <3>2, <3>3
  <2>3. Finished(inputs[Len(printed)], printed[Len(printed)])
    BY <2>1, <2>2 DEF Finished, Underway, Begun, Shown
  <2>4. \A i \in 1 .. Len(printed) : i = Len(printed) \/ i \in 1 .. Len(printed) - 1
    <3>1. Len(printed) \in Nat
      BY <1>1, LenProperties DEF BlocksTypes
    <3>2. QED
      BY <3>1
  <2>5. QED
    BY <1>1, <2>1, <2>3, <2>4 DEF Groups
<1>4. QED
  BY <1>2, <1>3 DEF BetweenInputs

LEMMA ReturnKeeps == ASSUME BlocksInv, Return PROVE BlocksInv'
<1>1. /\ BetweenInputs /\ Len(printed) = Len(inputs)
      /\ UNCHANGED <<command, src, inputs, cipher, todo, printed, earlier>>
      /\ phase' = "ended" /\ exit_code' = 0 /\ cerr' = <<>>
  BY DEF Return, ExitWith
<1>2. BlocksTypes /\ Parsed /\ Groups /\ Phases /\ ReadingBack
  BY DEF BlocksInv
<1>3. src = <<>> /\ \A i \in 1 .. Len(printed) : Finished(inputs[i], printed[i])
  BY <1>1, AllDone
<1>4. BlocksTypes'
  BY <1>1, <1>2 DEF BlocksTypes, IvCount
<1>5. Parsed'
  BY <1>1, <1>2, <1>3, SameParsed
<1>6. Groups'
  BY <1>1, <1>2, SameGroups
<1>7. Phases'
  BY <1>1 DEF Phases
<1>8. Exits'
  <2>1. \A i \in 1 .. Len(printed) : Finished(inputs[i], printed[i])'
    BY <1>1, <1>3, Zenon DEF Finished, ReadableGroup, ResultsOf, ResultLabel, IsEncryption
  <2>2. \A i \in 1 .. Len(printed)' : Finished(inputs[i], printed[i])'
    BY <1>1, <2>1
  <2>3. \A i \in 1 .. Len(printed)' : Complete(i)'
    BY <2>2, Zenon DEF Finished, Complete, Results, Lines, ResultsOf
  <2>4. DOMAIN printed' = 1 .. Len(printed')
    BY <1>4, LenProperties DEF BlocksTypes
  <2>5. ExitTellsOutput'
    BY <1>1, <2>3, <2>4 DEF ExitTellsOutput
  <2>6. QED
    BY <2>2, <2>5 DEF Exits
<1>9. ReadingBack'
  BY <1>1, <1>2, SameReading
<1>10. QED
  BY <1>4, <1>5, <1>6, <1>7, <1>8, <1>9 DEF BlocksInv

-----------------------------------------------------------------------------
(* A wrapper or a box is constructed for a group: its texts are read in one *)
(* order or the other.                                                      *)
KeyEntry(g) ==
  [text |-> g.key, size |-> KeySize[command.algorithm],
   what |-> KeyName[command.algorithm], label |-> "Key"]

IvEntry(g) ==
  [text |-> g.iv[1], size |-> BlockSize, what |-> BlockName, label |-> "Initialization vector"]

TextsOf(g, texts) ==
  /\ texts \in Seq(TextOf)
  /\ Range(texts) = {KeyEntry(g)} \cup IF RequiresInitVector(command.mode) THEN {IvEntry(g)} ELSE {}

LEMMA TextsInOrder ==
  ASSUME BlocksTypes, NEW g \in Group, Len(g.iv) = IvCount
  PROVE  TextsOf(g, IvText(g) \o KeyText(g)) /\ TextsOf(g, KeyText(g) \o IvText(g))
<1>1. /\ KeySize[command.algorithm] \in Nat /\ BlockSize \in Nat /\ command.algorithm \in Algorithm
      /\ KeyName[command.algorithm] \in Word /\ BlockName \in Word
      /\ g.key \in Word
  BY CommandFacts, NameFacts, BlockSizeAssumption DEF Group
<1> DEFINE k == KeyText(g)
           v == IvText(g)
<1>2. k \in Seq(TextOf) /\ Range(k) = {KeyEntry(g)}
  <2>1. k = <<KeyEntry(g)>>
    BY DEF KeyText, KeyEntry
  <2>2. KeyEntry(g) \in TextOf
    BY <1>1, TextType, Zenon DEF KeyEntry
  <2>3. QED
    BY <2>1, <2>2, OneText
<1>3. v \in Seq(TextOf) /\ Range(v) = IF RequiresInitVector(command.mode) THEN {IvEntry(g)} ELSE {}
  <2>1. CASE RequiresInitVector(command.mode)
    <3>1. g.iv = <<g.iv[1]>> /\ g.iv[1] \in Word
      BY <2>1, GroupFacts
    <3>2. IvEntry(g) \in TextOf
      BY <1>1, <3>1, TextType, Zenon DEF IvEntry
    <3>3. v = <<IvEntry(g)>>
      <4>1. DOMAIN g.iv = 1 .. 1
        BY <3>1
      <4>2. v = [i \in 1 .. 1 |-> IvEntry(g)]
        BY <4>1 DEF IvText, IvEntry
      <4>3. QED
        BY <4>2
    <3>4. QED
      BY <2>1, <3>2, <3>3, OneText
  <2>2. CASE ~ RequiresInitVector(command.mode)
    <3>1. g.iv = <<>>
      BY <2>2, GroupFacts
    <3>2. v = <<>>
      BY <3>1 DEF IvText
    <3>3. Range(v) = {}
      BY <3>2 DEF Range
    <3>4. QED
      BY <2>2, <3>2, <3>3, EmptySeq
  <2>3. QED
    BY <2>1, <2>2
<1> HIDE DEF k, v
<1>4. v \o k \in Seq(TextOf) /\ k \o v \in Seq(TextOf)
  BY <1>2, <1>3, ConcatProperties
<1>5. Range(v \o k) = Range(v) \cup Range(k) /\ Range(k \o v) = Range(k) \cup Range(v)
  <2>1. v \in Seq(TextOf) /\ k \in Seq(TextOf)
    BY <1>2, <1>3
  <2>2. Range(v \o k) = Range(v) \cup Range(k)
    BY <2>1, RangeConcatenation, Zenon
  <2>3. Range(k \o v) = Range(k) \cup Range(v)
    BY <2>1, RangeConcatenation, Zenon
  <2>4. QED
    BY <2>2, <2>3
<1>6. TextsOf(g, v \o k) /\ TextsOf(g, k \o v)
  BY <1>2, <1>3, <1>4, <1>5 DEF TextsOf
<1>7. QED
  BY <1>6 DEF k, v

(* The first text that cannot be read.                                      *)
LEMMA FirstUnreadable ==
  ASSUME NEW texts \in Seq(TextOf)
  PROVE  LET bad == SelectInSeq(texts, LAMBDA t : ~ Readable(t.text, t.size))
         IN  \/ bad = 0 /\ \A i \in 1 .. Len(texts) : Readable(texts[i].text, texts[i].size)
             \/ /\ bad \in 1 .. Len(texts) /\ ~ Readable(texts[bad].text, texts[bad].size)
                /\ \A i \in 1 .. bad - 1 : Readable(texts[i].text, texts[i].size)
<1> DEFINE I == {i \in 1 .. Len(texts) : ~ Readable(texts[i].text, texts[i].size)}
           bad == SelectInSeq(texts, LAMBDA t : ~ Readable(t.text, t.size))
<1>1. bad = IF I # {} THEN Min(I) ELSE 0
  BY DEF SelectInSeq
<1>2. Len(texts) \in Nat /\ I \in SUBSET (1 .. Len(texts))
  BY LenProperties
<1> HIDE DEF bad
<1>3. \/ bad = 0 /\ \A i \in 1 .. Len(texts) : Readable(texts[i].text, texts[i].size)
      \/ /\ bad \in 1 .. Len(texts) /\ ~ Readable(texts[bad].text, texts[bad].size)
         /\ \A i \in 1 .. bad - 1 : Readable(texts[i].text, texts[i].size)
  <2>1. CASE I = {}
    BY <1>1, <2>1
  <2>2. CASE I # {}
    <3>1. bad \in I /\ \A y \in I : bad <= y
      BY <1>1, <1>2, <2>2, FirstPosition, Zenon
    <3>2. QED
      BY <1>2, <3>1
  <2>3. QED
    BY <2>1, <2>2
<1>4. QED
  BY <1>3, Zenon DEF bad

(* What is printed before the first block is no block.                      *)
Fresh(lines) ==
  \A n \in 1 .. Len(lines) :
    lines[n].label \in {"Key", "Initialization vector", "Round keys"}

LEMMA FreshLines ==
  ASSUME NEW g \in Group, NEW lines \in Seq(Printable), lines = <<>> \/ Dumps, Fresh(lines)
  PROVE  FollowsMode(g, lines) /\ ResultsOf(lines) = <<>>
<1>1. ResultsOf(lines) = <<>> /\ DumpedOf(lines) = <<>> /\ NextIvsOf(lines) = <<>>
  <2>1. \A n \in 1 .. Len(lines) : lines[n].label \notin {"", ResultLabel}
    BY Zenon DEF ResultLabel, Fresh
  <2>2. \A n \in 1 .. Len(lines) : lines[n].label \notin {SourceLabel}
    BY Zenon DEF SourceLabel, Fresh
  <2>3. \A n \in 1 .. Len(lines) : lines[n].label \notin {"Next initialization vector"}
    BY Zenon DEF Fresh
  <2>4. QED
    BY <2>1, <2>2, <2>3, PickedNone, Zenon DEF ResultsOf, DumpedOf, NextIvsOf
<1>2. Len(ResultsOf(lines)) = 0 /\ ResultsOf(lines) \in Seq(Block)
  BY <1>1, EmptySeq
<1>3. Len(DumpedOf(lines)) = 0 /\ Len(NextIvsOf(lines)) = 0 /\ Dumped(lines) = 0
  BY <1>1, <1>2 DEF Dumped
<1>4. Len(g.blocks) \in Nat
  <2>1. g.blocks \in Seq(Word)
    BY DEF Group
  <2>2. QED
    BY <2>1, LenProperties
<1>5. Dumps \/ Bare(lines)
  <2>1. CASE lines = <<>>
    <3>1. Len(lines) = 0
      BY <2>1, EmptySeq
    <3>2. QED
      BY <3>1 DEF Bare
  <2>2. QED
    BY <2>1
<1>6. QED
  BY <1>1, <1>2, <1>3, <1>4, <1>5 DEF FollowsMode

(* The lines that name the texts read.                                      *)
AllRead(read) ==
  \A i \in 1 .. Len(read) :
    /\ Readable(read[i].text, read[i].size) /\ read[i].size # 0
    /\ read[i].label \in {"Key", "Initialization vector"}

LEMMA TextLines ==
  ASSUME NEW read \in Seq(TextOf), AllRead(read), NEW aKey \in Word
  PROVE  LET lines == [i \in DOMAIN read |->
                         Line(read[i].label, FromString(read[i].text, read[i].size))]
             more == lines \o <<Line("Round keys", aKey)>>
         IN  /\ lines \in Seq(Printable) /\ Fresh(lines)
             /\ more \in Seq(Printable) /\ Fresh(more)
<1> DEFINE lines == [i \in DOMAIN read |->
                       Line(read[i].label, FromString(read[i].text, read[i].size))]
           last == Line("Round keys", aKey)
           more == lines \o <<last>>
           Fits(l) == l.label \in {"Key", "Initialization vector", "Round keys"}
<1>1. DOMAIN read = 1 .. Len(read) /\ Len(read) \in Nat /\ \A i \in 1 .. Len(read) : read[i] \in TextOf
  BY LenProperties, ElementOfSeq
<1>2. \A i \in 1 .. Len(read) : FromString(read[i].text, read[i].size) \in Word
  <2> SUFFICES ASSUME NEW i \in 1 .. Len(read)
               PROVE  FromString(read[i].text, read[i].size) \in Word
    OBVIOUS
  <2> DEFINE t == read[i].text
             n == read[i].size
  <2>1. t \in Word /\ n \in Nat \ {0} /\ Readable(t, n)
    BY <1>1, Zenon DEF TextOf, AllRead
  <2> HIDE DEF t, n
  <2>2. FromString(t, n) \in [1 .. n -> Byte]
    BY <2>1, ReadText
  <2>3. FromString(t, n) \in Seq(Byte)
    BY <2>1, <2>2, SeqDef
  <2>4. FromString(t, n) \in Word
    BY <2>3, BytesAreInt, SeqMonotonic, Zenon DEF Word
  <2>5. QED
    BY <2>4 DEF t, n
<1>3. \A i \in 1 .. Len(read) : lines[i] \in Printable /\ Fits(lines[i])
  BY <1>1, <1>2, Zenon DEF Line, Printable, Labels, AllRead
<1>4. lines \in Seq(Printable) /\ Len(lines) = Len(read)
  <2>1. lines \in [1 .. Len(read) -> Printable]
    BY <1>1, <1>3, Zenon
  <2> HIDE DEF lines
  <2>2. Len(read) \in Nat
    BY <1>1
  <2>3. lines \in Seq(Printable)
    BY <2>1, <2>2, SeqDef
  <2>4. DOMAIN lines = 1 .. Len(read) /\ DOMAIN lines = 1 .. Len(lines) /\ Len(lines) \in Nat
    BY <2>1, <2>3, LenProperties
  <2>5. QED
    BY <2>2, <2>3, <2>4
<1>5. last \in Printable
  BY DEF Line, Printable, Labels
<1>6. Fits(last) /\ \A n \in 1 .. Len(lines) : Fits(lines[n])
  BY <1>3, <1>4, Zenon DEF Line
<1> HIDE DEF lines, last, Fits
<1>7. more = Append(lines, last)
  BY <1>4, <1>5, AppendIsConcat
<1>8. /\ Append(lines, last) \in Seq(Printable)
      /\ Len(Append(lines, last)) = Len(lines) + 1 /\ Len(lines) \in Nat
      /\ Append(lines, last)[Len(lines) + 1] = last
      /\ \A n \in 1 .. Len(lines) : Append(lines, last)[n] = lines[n]
  BY <1>4, <1>5, AppendProperties, LenProperties
<1> HIDE DEF more
<1>9. more \in Seq(Printable) /\ \A n \in 1 .. Len(more) : Fits(more[n])
  <2>1. Len(more) = Len(lines) + 1 /\ Len(lines) \in Nat
    BY <1>7, <1>8
  <2>2. \A n \in 1 .. Len(more) : n = Len(lines) + 1 \/ n \in 1 .. Len(lines)
    BY <2>1
  <2>3. QED
    BY <1>6, <1>7, <1>8, <2>2
<1>10. QED
  BY <1>4, <1>6, <1>9, Zenon DEF lines, last, more, Fits, Fresh

(* The texts of a group are read up to the first that cannot be.            *)
ReadOf(texts) ==
  LET bad == SelectInSeq(texts, LAMBDA t : ~ Readable(t.text, t.size))
  IN  IF bad = 0 THEN texts ELSE SubSeq(texts, 1, bad - 1)

LEMMA ReadTexts ==
  ASSUME BlocksTypes, NEW g \in Group, Len(g.iv) = IvCount, NEW texts, TextsOf(g, texts)
  PROVE  LET bad == SelectInSeq(texts, LAMBDA t : ~ Readable(t.text, t.size))
         IN  /\ ReadOf(texts) \in Seq(TextOf) /\ AllRead(ReadOf(texts))
             /\ bad = 0 => ReadableGroup(g)
             /\ bad # 0 =>
                  /\ bad \in 1 .. Len(texts) /\ ~ ReadableGroup(g)
                  /\ ~ Readable(texts[bad].text, texts[bad].size)
                  /\ \/ texts[bad] = KeyEntry(g)
                     \/ Len(g.iv) = 1 /\ texts[bad] = IvEntry(g)
<1> DEFINE bad == SelectInSeq(texts, LAMBDA t : ~ Readable(t.text, t.size))
           read == ReadOf(texts)
<1>1. /\ texts \in Seq(TextOf) /\ Len(texts) \in Nat
      /\ Range(texts) = {texts[i] : i \in 1 .. Len(texts)}
      /\ Range(texts) = {KeyEntry(g)} \cup IF RequiresInitVector(command.mode) THEN {IvEntry(g)} ELSE {}
  BY RangeEquality, LenProperties, Zenon DEF TextsOf
<1>2. \/ bad = 0 /\ \A i \in 1 .. Len(texts) : Readable(texts[i].text, texts[i].size)
      \/ /\ bad \in 1 .. Len(texts) /\ ~ Readable(texts[bad].text, texts[bad].size)
         /\ \A i \in 1 .. bad - 1 : Readable(texts[i].text, texts[i].size)
  BY <1>1, FirstUnreadable, Zenon
<1>3. read = IF bad = 0 THEN texts ELSE SubSeq(texts, 1, bad - 1)
  BY DEF ReadOf
<1> HIDE DEF bad, read
<1>4. Len(g.iv) = 1 <=> RequiresInitVector(command.mode)
  BY DEF IvCount
<1>5. \A i \in 1 .. Len(texts) : texts[i] = KeyEntry(g) \/ (Len(g.iv) = 1 /\ texts[i] = IvEntry(g))
  <2>1. \A i \in 1 .. Len(texts) : texts[i] \in Range(texts)
    BY <1>1
  <2>2. QED
    BY <1>1, <1>4, <2>1, Zenon
<1>6. \A i \in 1 .. Len(texts) :
        texts[i].size # 0 /\ texts[i].label \in {"Key", "Initialization vector"}
  <2>1. KeySize[command.algorithm] # 0 /\ BlockSize # 0
    BY CommandFacts, BlockSizeAssumption
  <2>2. /\ KeyEntry(g).size # 0 /\ KeyEntry(g).label = "Key"
        /\ IvEntry(g).size # 0 /\ IvEntry(g).label = "Initialization vector"
    BY <2>1 DEF KeyEntry, IvEntry
  <2>3. QED
    BY <1>5, <2>2, Zenon
<1>7. /\ read \in Seq(TextOf) /\ Len(read) <= Len(texts) /\ Len(read) \in Nat
      /\ \A i \in 1 .. Len(read) : read[i] = texts[i] /\ Readable(texts[i].text, texts[i].size)
  <2>1. CASE bad = 0
    BY <1>1, <1>2, <1>3, <2>1
  <2>2. CASE bad # 0
    <3>1. bad \in 1 .. Len(texts) /\ \A i \in 1 .. bad - 1 : Readable(texts[i].text, texts[i].size)
      BY <1>2, <2>2
    <3>2. \A i \in 1 .. bad - 1 : i \in 1 .. Len(texts)
      BY <1>1, <3>1
    <3>3. \A i \in 1 .. bad - 1 : texts[i] \in TextOf
      BY <1>1, <3>2, ElementOfSeq
    <3>4. bad - 1 \in Int /\ 1 \in Int /\ bad - 1 - 1 + 1 = bad - 1
      BY <1>1, <3>1
    <3>5. /\ SubSeq(texts, 1, bad - 1) \in Seq(TextOf)
          /\ Len(SubSeq(texts, 1, bad - 1)) = bad - 1
          /\ \A i \in 1 .. bad - 1 : SubSeq(texts, 1, bad - 1)[i] = texts[i]
      <4>1. /\ SubSeq(texts, 1, bad - 1) \in Seq(TextOf)
            /\ Len(SubSeq(texts, 1, bad - 1)) = IF 1 <= bad - 1 THEN bad - 1 - 1 + 1 ELSE 0
            /\ \A i \in 1 .. bad - 1 - 1 + 1 : SubSeq(texts, 1, bad - 1)[i] = texts[1 + i - 1]
        BY <3>3, <3>4, SubSeqProperties
      <4>2. \A i \in 1 .. bad - 1 : 1 + i - 1 = i
        BY <3>4
      <4>3. QED
        BY <3>1, <3>4, <4>1, <4>2
    <3>6. QED
      BY <1>1, <1>3, <2>2, <3>1, <3>5
  <2>3. QED
    BY <2>1, <2>2
<1>8. AllRead(read)
  <2>1. \A i \in 1 .. Len(read) : i \in 1 .. Len(texts)
    BY <1>1, <1>7
  <2>2. QED
    BY <1>6, <1>7, <2>1, Zenon DEF AllRead
<1>9. ASSUME bad = 0 PROVE ReadableGroup(g)
  <2>1. \A t \in Range(texts) : Readable(t.text, t.size)
    BY <1>1, <1>2, <1>9
  <2>2. Readable(g.key, KeySize[command.algorithm])
    <3>1. KeyEntry(g) \in Range(texts)
      BY <1>1, Zenon
    <3>2. QED
      BY <2>1, <3>1 DEF KeyEntry
  <2>3. ASSUME Len(g.iv) = 1 PROVE Readable(g.iv[1], BlockSize)
    <3>1. IvEntry(g) \in Range(texts)
      BY <1>1, <1>4, <2>3, Zenon
    <3>2. QED
      BY <2>1, <3>1, Zenon DEF IvEntry
  <2>4. \A i \in 1 .. Len(g.iv) : i = 1 /\ Len(g.iv) = 1
    BY DEF IvCount
  <2>5. QED
    BY <2>2, <2>3, <2>4 DEF ReadableGroup
<1>10. ASSUME bad # 0
       PROVE  /\ bad \in 1 .. Len(texts) /\ ~ ReadableGroup(g)
              /\ ~ Readable(texts[bad].text, texts[bad].size)
              /\ \/ texts[bad] = KeyEntry(g)
                 \/ Len(g.iv) = 1 /\ texts[bad] = IvEntry(g)
  <2>1. bad \in 1 .. Len(texts) /\ ~ Readable(texts[bad].text, texts[bad].size)
    BY <1>2, <1>10
  <2>2. texts[bad] = KeyEntry(g) \/ (Len(g.iv) = 1 /\ texts[bad] = IvEntry(g))
    BY <1>5, <2>1
  <2>3. ~ ReadableGroup(g)
    <3>1. CASE texts[bad] = KeyEntry(g)
      BY <2>1, <3>1 DEF KeyEntry, ReadableGroup
    <3>2. CASE Len(g.iv) = 1 /\ texts[bad] = IvEntry(g)
      <4>1. ~ Readable(g.iv[1], BlockSize)
        <5>1. IvEntry(g).text = g.iv[1] /\ IvEntry(g).size = BlockSize
          BY DEF IvEntry
        <5>2. texts[bad] = IvEntry(g)
          BY <3>2
        <5>3. ~ Readable(texts[bad].text, texts[bad].size)
          BY <2>1
        <5>4. QED
          BY <5>1, <5>2, <5>3, Zenon
      <4>2. 1 \in 1 .. Len(g.iv)
        BY <3>2
      <4>3. QED
        BY <4>1, <4>2 DEF ReadableGroup
    <3>3. QED
      BY <2>2, <3>1, <3>2
  <2>4. QED
    BY <2>1, <2>2, <2>3
<1>11. QED
  BY <1>7, <1>8, <1>9, <1>10 DEF bad, read

LEMMA CurrentType ==
  ASSUME BlocksTypes, Len(printed) < Len(inputs)
  PROVE  Current \in Group /\ Len(Current.iv) = IvCount
<1>1. inputs \in Seq(Group) /\ printed \in Seq(Seq(Printable))
  BY DEF BlocksTypes
<1>2. Len(printed) + 1 \in 1 .. Len(inputs)
  <2>1. Len(inputs) \in Nat /\ Len(printed) \in Nat
    BY <1>1, LenProperties
  <2>2. QED
    BY <2>1
<1>3. QED
  BY <1>1, <1>2, ElementOfSeq DEF Current, BlocksTypes

LEMMA ConstructKeeps ==
  ASSUME BlocksInv, BetweenInputs, Len(printed) < Len(inputs),
         NEW texts, TextsOf(Current, texts), NEW shows \in BOOLEAN, shows => Dumps,
         Construct(texts, shows)
  PROVE  BlocksInv'
<1> DEFINE g == Current
           k == Len(printed) + 1
           bad == SelectInSeq(texts, LAMBDA t : ~ Readable(t.text, t.size))
           read == IF bad = 0 THEN texts ELSE SubSeq(texts, 1, bad - 1)
           lines == [i \in DOMAIN read |-> Line(read[i].label, FromString(read[i].text, read[i].size))]
           aKey == FromString(g.key, KeySize[command.algorithm])
           roundKeys == IF bad = 0 THEN <<Line("Round keys", aKey)>> ELSE <<>>
           new == IF shows THEN lines \o roundKeys ELSE <<>>
<1>1. /\ printed' = Append(printed, new)
      /\ UNCHANGED <<command, src, inputs, earlier>>
      /\ bad # 0 => /\ phase' = "ended" /\ exit_code' = 1
                    /\ cerr' = FormatErrorMessage(ErrorParse(texts[bad].text, texts[bad].what))
                    /\ UNCHANGED <<cipher, todo>>
      /\ bad = 0 => /\ \E iv \in IF g.iv = <<>> THEN Leftovers ELSE {FromString(g.iv[1], BlockSize)} :
                         cipher' = [key |-> aKey, iv |-> iv]
                    /\ todo' = g.blocks /\ phase' = "blocks"
                    /\ UNCHANGED <<exit_code, cerr>>
  BY Zenon DEF Construct, Throw, ExitWith
<1>2. BlocksTypes /\ Parsed /\ Groups /\ Phases /\ ReadingBack
  BY DEF BlocksInv
<1>3. /\ src = <<>> /\ exit_code = -1
      /\ \A i \in 1 .. Len(printed) : Finished(inputs[i], printed[i])
  BY AllDone
<1>4. /\ inputs \in Seq(Group) /\ printed \in Seq(Seq(Printable))
      /\ Len(printed) \in Nat /\ k \in 1 .. Len(inputs) /\ k = Len(printed) + 1
  <2>1. inputs \in Seq(Group) /\ printed \in Seq(Seq(Printable))
    BY <1>2 DEF BlocksTypes
  <2>2. Len(inputs) \in Nat /\ Len(printed) \in Nat /\ Len(printed) < Len(inputs)
    BY <2>1, LenProperties
  <2>3. QED
    BY <2>1, <2>2
<1>5. g \in Group /\ Len(g.iv) = IvCount /\ g = inputs[k]
  <2>1. g = inputs[k]
    BY DEF Current
  <2>2. QED
    BY <1>2, <1>4, <2>1, ElementOfSeq DEF BlocksTypes
<1>6. /\ read \in Seq(TextOf) /\ AllRead(read)
      /\ bad = 0 => ReadableGroup(g)
      /\ bad # 0 =>
           /\ bad \in 1 .. Len(texts) /\ ~ ReadableGroup(g)
           /\ ~ Readable(texts[bad].text, texts[bad].size)
           /\ \/ texts[bad] = KeyEntry(g)
              \/ Len(g.iv) = 1 /\ texts[bad] = IvEntry(g)
  <2>1. ReadOf(texts) = read
    BY DEF ReadOf
  <2>2. TextsOf(g, texts)
    OBVIOUS
  <2> HIDE DEF g
  <2>3. QED
    BY <1>2, <1>5, <2>1, <2>2, ReadTexts, Zenon
<1>7. aKey = KeyOf(g) /\ (bad = 0 => aKey \in Word)
  <2>1. aKey = KeyOf(g)
    BY DEF KeyOf
  <2>2. ASSUME bad = 0 PROVE aKey \in Word
    <3> DEFINE n == KeySize[command.algorithm]
    <3>1. n \in Nat \ {0} /\ g.key \in Word /\ Readable(g.key, n)
      BY <1>2, <1>5, <1>6, <2>2, CommandFacts DEF Group, ReadableGroup
    <3> HIDE DEF n
    <3>2. FromString(g.key, n) \in [1 .. n -> Byte]
      BY <3>1, ReadText
    <3>3. FromString(g.key, n) \in Seq(Byte)
      BY <3>1, <3>2, SeqDef
    <3>4. FromString(g.key, n) \in Word
      BY <3>3, BytesAreInt, SeqMonotonic, Zenon DEF Word
    <3>5. QED
      BY <3>4 DEF n
  <2>3. QED
    BY <2>1, <2>2
<1> HIDE DEF g, k, bad, read, aKey
<1>8. /\ new \in Seq(Printable) /\ Fresh(new) /\ (new = <<>> \/ Dumps)
  <2>1. CASE ~ shows
    <3>1. new = <<>>
      BY <2>1
    <3> HIDE DEF new
    <3>2. Len(new) = 0 /\ new \in Seq(Printable)
      BY <3>1, EmptySeq
    <3>3. QED
      BY <3>1, <3>2 DEF Fresh
  <2>2. CASE shows /\ bad # 0
    <3>1. lines \in Seq(Printable) /\ Fresh(lines)
      <4>1. <<>> \in Word
        BY EmptySeq DEF Word
      <4>2. QED
        BY <1>6, <4>1, TextLines, Zenon
    <3>2. new = lines \o <<>>
      BY <2>2
    <3> HIDE DEF lines
    <3>3. lines \o <<>> = lines
      BY <3>1, ConcatEmptySeq
    <3>4. QED
      BY <2>2, <3>1, <3>2, <3>3
  <2>3. CASE shows /\ bad = 0
    <3>1. aKey \in Word
      BY <1>7, <2>3
    <3>2. /\ lines \o <<Line("Round keys", aKey)>> \in Seq(Printable)
          /\ Fresh(lines \o <<Line("Round keys", aKey)>>)
      BY <1>6, <3>1, TextLines, Zenon
    <3>3. new = lines \o <<Line("Round keys", aKey)>>
      BY <2>3, Zenon
    <3> HIDE DEF lines, new
    <3>4. QED
      BY <2>3, <3>2, <3>3, Zenon
  <2>4. QED
    BY <2>1, <2>2, <2>3, Zenon
<1> HIDE DEF lines, roundKeys, new
<1>9. FollowsMode(g, new) /\ ResultsOf(new) = <<>> /\ Len(ResultsOf(new)) = 0
  BY <1>5, <1>8, FreshLines, EmptySeq
<1>10. /\ printed' \in Seq(Seq(Printable)) /\ Len(printed') = k /\ printed'[k] = new
       /\ \A i \in 1 .. Len(printed) : printed'[i] = printed[i]
       /\ printed' # <<>>
  <2>1. printed \in Seq(Seq(Printable)) /\ new \in Seq(Printable)
    BY <1>4, <1>8
  <2>2. /\ Append(printed, new) \in Seq(Seq(Printable)) /\ Append(printed, new) # <<>>
        /\ Len(Append(printed, new)) = Len(printed) + 1
        /\ \A i \in 1 .. Len(printed) : Append(printed, new)[i] = printed[i]
        /\ Append(printed, new)[Len(printed) + 1] = new
    BY <2>1, AppendProperties
  <2>3. printed' = Append(printed, new) /\ k = Len(printed) + 1
    BY <1>1, <1>4
  <2>4. QED
    BY <2>2, <2>3
<1>11. /\ Parsed' /\ Groups' /\ command' = command
  <2>1. Parsed'
    BY <1>1, <1>2, <1>3, SameParsed
  <2>2. command' = command /\ inputs' = inputs
    BY <1>1
  <2>3. \A i \in 1 .. k : i = k \/ i \in 1 .. Len(printed)
    BY <1>4
  <2>4. \A i \in 1 .. Len(printed) : FollowsMode(inputs[i], printed[i])
    BY <1>2 DEF Groups
  <2>5. \A i \in 1 .. k : FollowsMode(inputs[i], printed'[i])
    BY <1>5, <1>9, <1>10, <2>3, <2>4
  <2>6. \A i \in 1 .. k - 1 : Finished(inputs[i], printed'[i])
    <3>1. \A i \in 1 .. k - 1 : i \in 1 .. Len(printed)
      BY <1>4
    <3>2. QED
      BY <1>3, <1>10, <3>1
  <2>7. /\ \A i \in 1 .. k : FollowsMode(inputs[i], printed[i])'
        /\ \A i \in 1 .. k - 1 : Finished(inputs[i], printed[i])'
    BY <2>2, <2>5, <2>6, SameCommand
  <2>8. k <= Len(inputs')
    <3>1. Len(inputs) \in Nat
      BY <1>4, LenProperties
    <3>2. QED
      BY <1>4, <2>2, <3>1
  <2>9. Groups'
    BY <1>10, <2>7, <2>8 DEF Groups
  <2>10. QED
    BY <2>1, <2>2, <2>9
<1>12. CASE bad # 0
  <2>1. /\ phase' = "ended" /\ exit_code' = 1 /\ cipher' = cipher /\ todo' = todo
        /\ cerr' = FormatErrorMessage(ErrorParse(texts[bad].text, texts[bad].what))
        /\ src' = src /\ inputs' = inputs /\ earlier' = earlier
    BY <1>1, <1>12
  <2>2. BlocksTypes'
    BY <1>2, <1>10, <1>11, <2>1 DEF BlocksTypes, IvCount
  <2>3. Phases'
    BY <2>1 DEF Phases
  <2>4. Begun' = g
    BY <1>5, <1>10, <2>1 DEF Begun
  <2>5. RefusedText'
    <3>1. CASE texts[bad] = KeyEntry(g)
      <4> DEFINE n == KeySize[command.algorithm]
                 what == KeyName[command.algorithm]
      <4>1. KeyEntry(g).text = g.key /\ KeyEntry(g).size = n /\ KeyEntry(g).what = what
        BY DEF KeyEntry
      <4>2. ~ Readable(texts[bad].text, texts[bad].size)
        BY <1>6, <1>12
      <4>3. ~ Readable(g.key, n)
        BY <3>1, <4>1, <4>2, Zenon
      <4>4. cerr' = FormatErrorMessage(ErrorParse(g.key, what))
        BY <2>1, <3>1, <4>1, Zenon
      <4>5. Refuses(Begun.key, KeySize[command.algorithm], KeyName[command.algorithm])'
        BY <1>11, <2>4, <4>3, <4>4 DEF Refuses
      <4>6. QED
        BY <4>5 DEF RefusedText
    <3>2. CASE Len(g.iv) = 1 /\ texts[bad] = IvEntry(g)
      <4>1. IvEntry(g).text = g.iv[1] /\ IvEntry(g).size = BlockSize /\ IvEntry(g).what = BlockName
        BY DEF IvEntry
      <4>2. texts[bad] = IvEntry(g)
        BY <3>2
      <4>3. ~ Readable(texts[bad].text, texts[bad].size)
        BY <1>6, <1>12
      <4>4. ~ Readable(g.iv[1], BlockSize)
        BY <4>1, <4>2, <4>3, Zenon
      <4>5. cerr' = FormatErrorMessage(ErrorParse(g.iv[1], BlockName))
        <5>1. cerr' = FormatErrorMessage(ErrorParse(texts[bad].text, texts[bad].what))
          BY <2>1
        <5>2. QED
          BY <4>1, <4>2, <5>1, Zenon
      <4>6. Refuses(Begun.iv[1], BlockSize, BlockName)'
        BY <2>4, <4>4, <4>5 DEF Refuses
      <4>7. Len(Begun.iv)' = 1
        BY <2>4, <3>2
      <4>8. QED
        BY <4>6, <4>7 DEF RefusedText
    <3>3. QED
      BY <1>6, <1>12, <3>1, <3>2
  <2>6. Exits'
    <3>1. (/\ BlocksTypes /\ exit_code = 1 /\ RefusedText
           /\ printed # <<>> /\ Len(printed) <= Len(inputs)
           /\ \A i \in 1 .. Len(printed) - 1 : Finished(inputs[i], printed[i]))'
      BY <1>10, <1>11, <2>1, <2>2, <2>5 DEF Groups
    <3>2. QED
      BY <3>1, TellsRefusal, PTL
  <2>7. ReadingBack'
    <3>1. CASE earlier = <<>>
      BY <2>1, <3>1 DEF ReadingBack
    <3>2. CASE earlier # <<>>
      <4>1. ReadableGroup(g)
        BY <1>4, <1>5, <3>2, GivenGroup
      <4>2. QED
        BY <1>6, <1>12, <4>1
    <3>3. QED
      BY <3>1, <3>2
  <2>8. QED
    BY <1>11, <2>2, <2>3, <2>6, <2>7 DEF BlocksInv
<1>13. CASE bad = 0
  <2>1. /\ todo' = g.blocks /\ phase' = "blocks" /\ exit_code' = exit_code
        /\ src' = src /\ inputs' = inputs /\ earlier' = earlier
    BY <1>1, <1>13
  <2>2. PICK iv \in IF g.iv = <<>> THEN Leftovers ELSE {FromString(g.iv[1], BlockSize)} :
          cipher' = [key |-> aKey, iv |-> iv]
    BY <1>1, <1>13
  <2>3. g.blocks \in Seq(Word) /\ ReadableGroup(g) /\ IvOf(g) \in Block
    BY <1>2, <1>5, <1>6, <1>13, GroupFacts DEF Group
  <2>4. iv \in Block /\ (RequiresInitVector(command.mode) => iv = IvOf(g))
    <3>1. CASE g.iv = <<>>
      <4>1. iv \in Leftovers
        BY <2>2, <3>1
      <4>2. Len(g.iv) = 0
        BY <3>1, EmptySeq
      <4>3. ~ RequiresInitVector(command.mode)
        BY <1>5, <4>2 DEF IvCount
      <4>4. QED
        BY <4>1, <4>3, BlockUtilityAssumption
    <3>2. CASE g.iv # <<>>
      BY <2>2, <2>3, <3>2 DEF IvOf
    <3>3. QED
      BY <3>1, <3>2
  <2>5. BlocksTypes'
    <3>1. iv \in Word
      BY <2>4, BlockText
    <3>2. cipher' \in [key : Word, iv : Word]
      BY <1>7, <1>13, <2>2, <3>1
    <3>3. QED
      BY <1>2, <1>10, <1>11, <2>1, <2>3, <3>2 DEF BlocksTypes, IvCount
  <2>6. Phases'
    <3>1. inputs'[Len(printed')] = g /\ printed'[Len(printed')] = new
      BY <1>5, <1>10, <2>1
    <3>2. ReadableGroup(inputs[Len(printed)])'
      <4>1. command' = command
        BY <1>11
      <4>2. ReadableGroup(inputs[Len(printed)])' <=> ReadableGroup(g)
        BY <3>1, <4>1, SameCommand, Zenon
      <4>3. QED
        BY <2>3, <4>2
    <3>3. ResultsOf(printed[Len(printed)])' = <<>> /\ KeyOf(inputs[Len(printed)])' = aKey
      <4>1. command' = command
        BY <1>11
      <4>2. ResultsOf(printed[Len(printed)])' = ResultsOf(new)
        BY <3>1, <4>1, SameCommand, Zenon
      <4>3. KeyOf(inputs[Len(printed)])' = KeyOf(g)
        BY <3>1, <4>1, SameCommand, Zenon
      <4>4. QED
        BY <1>7, <1>9, <4>2, <4>3
    <3>4. todo' = SubSeq(inputs'[Len(printed')].blocks, Len(ResultsOf(printed[Len(printed)])') + 1,
                         Len(inputs'[Len(printed')].blocks))
      <4>1. SubSeq(g.blocks, 1, Len(g.blocks)) = g.blocks
        BY <2>3, SubSeqFull
      <4>2. Len(ResultsOf(printed[Len(printed)])') + 1 = 1
        BY <1>9, <3>3
      <4>3. QED
        BY <2>1, <3>1, <4>1, <4>2
    <3>5. cipher'.key = KeyOf(inputs[Len(printed)])' /\ cipher'.iv \in Block
      BY <2>2, <2>4, <3>3
    <3>6. RequiresInitVector(command.mode)' =>
            cipher'.iv = ChainedOf(inputs[Len(printed)], printed[Len(printed)],
                                   Len(ResultsOf(printed[Len(printed)])))'
      <4>1. ChainedOf(inputs[Len(printed)], printed[Len(printed)], 0)' = ChainedOf(g, new, 0)
        <5>1. command' = command
          BY <1>11
        <5>2. \A n : ChainedOf(inputs[Len(printed)], printed[Len(printed)], n)' = ChainedOf(g, new, n)
          BY <3>1, <5>1, SameCommand, Zenon
        <5>3. QED
          BY <5>2
      <4>2. ChainedOf(g, new, 0) = IvOf(g)
        BY DEF ChainedOf, Chained
      <4>3. Len(ResultsOf(printed[Len(printed)]))' = 0
        BY <1>9, <3>3
      <4>4. QED
        BY <1>11, <2>2, <2>4, <4>1, <4>2, <4>3
    <3>7. Underway(inputs[Len(printed)], printed[Len(printed)])'
      BY <3>2, <3>4, <3>5, <3>6 DEF Underway
    <3>8. QED
      BY <1>3, <1>10, <2>1, <3>7 DEF Phases
  <2>7. Exits'
    BY <1>3, <2>1, StillRunning
  <2>8. ReadingBack'
    BY <1>1, <1>2, <1>3, <2>1, SameReading
  <2>9. QED
    BY <1>11, <2>5, <2>6, <2>7, <2>8 DEF BlocksInv
<1>14. QED
  BY <1>12, <1>13

LEMMA ConstructWrapperKeeps == ASSUME BlocksInv, ConstructWrapper PROVE BlocksInv'
<1>1. /\ BetweenInputs /\ Len(printed) < Len(inputs) /\ command.use_boxes = FALSE
      /\ Construct(IvText(Current) \o KeyText(Current), command.verbose)
  BY DEF ConstructWrapper, BeginInput
<1>2. BlocksTypes
  BY DEF BlocksInv
<1>3. Current \in Group /\ Len(Current.iv) = IvCount
  BY <1>1, <1>2, CurrentType
<1>4. TextsOf(Current, IvText(Current) \o KeyText(Current))
  BY <1>2, <1>3, TextsInOrder
<1>5. command.verbose \in BOOLEAN /\ (command.verbose => Dumps)
  <2>1. command.verbose \in BOOLEAN
    BY <1>2, CommandFacts
  <2>2. QED
    BY <1>1, <2>1 DEF Dumps
<1>6. QED
  BY <1>1, <1>4, <1>5, ConstructKeeps

LEMMA ConstructBoxKeeps == ASSUME BlocksInv, ConstructBox PROVE BlocksInv'
<1>1. /\ BetweenInputs /\ Len(printed) < Len(inputs)
      /\ Construct(KeyText(Current) \o IvText(Current), FALSE)
  BY Zenon DEF ConstructBox, BeginInput
<1>2. BlocksTypes
  BY DEF BlocksInv
<1>3. Current \in Group /\ Len(Current.iv) = IvCount
  BY <1>1, <1>2, CurrentType
<1>4. TextsOf(Current, KeyText(Current) \o IvText(Current))
  BY <1>2, <1>3, TextsInOrder
<1>5. QED
  BY <1>1, <1>4, ConstructKeeps, Zenon

-----------------------------------------------------------------------------
(* The group that a script makes of a group and of the lines it became.     *)
GroupBack(i) == [inputs[i] EXCEPT !.blocks = Lines(i, {""})]

LEMMA GoesBack ==
  ASSUME BlocksInv, exit_code = 0, IsEncryption, ~ command.verbose, NEW i \in 1 .. Len(inputs)
  PROVE  GroupBack(i) \in Group /\ Returned(inputs[i], GroupBack(i))
<1> DEFINE g == inputs[i]
           lines == printed[i]
           b == GroupBack(i)
<1>1. BlocksTypes /\ Groups /\ Exits
  BY DEF BlocksInv
<1>2. Len(printed) = Len(inputs)
  BY <1>1 DEF Exits, ExitTellsOutput
<1>3. FollowsMode(g, lines) /\ Finished(g, lines) /\ Len(g.iv) = IvCount
  BY <1>1, <1>2 DEF Groups, Exits, BlocksTypes
<1>4. g \in Group /\ lines \in Seq(Printable)
  <2>1. inputs \in Seq(Group) /\ printed \in Seq(Seq(Printable)) /\ i \in 1 .. Len(printed)
    BY <1>1, <1>2 DEF BlocksTypes
  <2>2. QED
    BY <2>1, ElementOfSeq
<1> HIDE DEF g, lines
<1>5. Lines(i, {""}) = ResultsOf(lines)
  <2>1. Bare(lines)
    BY <1>3 DEF FollowsMode, Dumps
  <2>2. \A n \in 1 .. Len(lines) : lines[n].label \in {""} <=> lines[n].label \in {"", ResultLabel}
    BY <2>1, Zenon DEF Bare
  <2>3. Picked(lines, {""}) = Picked(lines, {"", ResultLabel})
    BY <1>4, <2>2, PickedAlike, Zenon
  <2>4. QED
    BY <2>3, Zenon DEF Lines, ResultsOf, lines
<1>6. b = [key |-> g.key, iv |-> g.iv, blocks |-> ResultsOf(lines)]
  <2> DEFINE r == ResultsOf(lines)
  <2>1. b = [g EXCEPT !.blocks = r]
    BY <1>5, Zenon DEF GroupBack, g
  <2> HIDE DEF b, r
  <2>2. b = [key |-> g.key, iv |-> g.iv, blocks |-> r]
    BY <1>4, <2>1 DEF Group
  <2>3. QED
    BY <2>2 DEF r
<1> HIDE DEF b
<1>7. ResultsOf(lines) \in Seq(Block) /\ ResultsOf(lines) \in Seq(Word)
  BY <1>3, BlockTexts DEF FollowsMode
<1>8. b \in Group
  <2>1. g.key \in Word /\ g.iv \in Seq(Word)
    BY <1>4 DEF Group
  <2> DEFINE r == ResultsOf(lines)
  <2>2. b = [key |-> g.key, iv |-> g.iv, blocks |-> r] /\ r \in Seq(Word)
    BY <1>6, <1>7
  <2> HIDE DEF r
  <2>3. QED
    BY <2>1, <2>2 DEF Group
<1>9. /\ PlainOf(g, lines) = SourcesOf(g) /\ CodedOf(g, lines) = ResultsOf(lines)
      /\ b.key = g.key /\ b.iv = g.iv /\ b.blocks = ResultsOf(lines)
  <2>1. PlainOf(g, lines) = SourcesOf(g) /\ CodedOf(g, lines) = ResultsOf(lines)
    BY DEF PlainOf, CodedOf
  <2>2. b.key = g.key /\ b.iv = g.iv /\ b.blocks = ResultsOf(lines)
    BY <1>6
  <2>3. QED
    BY <2>1, <2>2
<1>10. Returned(g, b)
  <2>1. ReadableGroup(g) /\ Len(ResultsOf(lines)) = Len(g.blocks)
    BY <1>3 DEF Finished
  <2>2. \A n \in 1 .. Len(ResultsOf(lines)) :
          /\ Readable(g.blocks[n], BlockSize)
          /\ Encrypts(command.mode, KeyOf(g), IvOf(g), SourcesOf(g), ResultsOf(lines), n)
    BY <1>3, <1>9 DEF FollowsMode
  <2>3. QED
    BY <1>3, <1>7, <1>9, <2>1, <2>2 DEF Returned
<1>11. QED
  BY <1>8, <1>10 DEF g, b

LEMMA ReadBackKeeps == ASSUME BlocksInv, ReadBack PROVE BlocksInv'
<1>1. /\ exit_code = 0 /\ IsEncryption /\ ~ command.verbose
      /\ earlier' = inputs /\ src' = Positional(command'.args) /\ phase' = "parse"
      /\ inputs' = <<>> /\ todo' = <<>> /\ printed' = <<>> /\ exit_code' = -1
      /\ UNCHANGED <<cipher, cerr>>
  BY Zenon DEF ReadBack, IsEncryption
<1>2. PICK use_boxes \in BOOLEAN :
        LET back == [i \in DOMAIN inputs |-> [inputs[i] EXCEPT !.blocks = Lines(i, {""})]]
        IN  command' = [command EXCEPT !.op = "decrypt", !.use_boxes = use_boxes,
                          !.args = FlattenSeq([i \in DOMAIN back |-> ToArgs(back[i])])]
  BY Zenon DEF ReadBack
<1>3. PICK back : back = [i \in DOMAIN inputs |-> [inputs[i] EXCEPT !.blocks = Lines(i, {""})]]
  OBVIOUS
<1>4. command' = [command EXCEPT !.op = "decrypt", !.use_boxes = use_boxes,
                    !.args = FlattenSeq(ArgsOf(back))]
  BY <1>2, <1>3, Zenon DEF ArgsOf
<1>5. BlocksTypes /\ inputs \in Seq(Group) /\ command \in CommandLine /\ cipher \in [key : Word, iv : Word]
  BY DEF BlocksInv, BlocksTypes
<1>6. DOMAIN inputs = 1 .. Len(inputs) /\ Len(inputs) \in Nat
  BY <1>5, LenProperties
<1>7. \A i \in 1 .. Len(inputs) : back[i] \in Group /\ Returned(inputs[i], back[i])
  <2> SUFFICES ASSUME NEW i \in 1 .. Len(inputs)
               PROVE  back[i] \in Group /\ Returned(inputs[i], back[i])
    OBVIOUS
  <2>1. back[i] = GroupBack(i)
    BY <1>3, <1>6, Zenon DEF GroupBack
  <2>2. QED
    BY <1>1, <2>1, GoesBack
<1>8. back \in Seq(Group) /\ Len(back) = Len(inputs)
  <2>1. back \in [1 .. Len(inputs) -> Group]
    BY <1>3, <1>6, <1>7, Zenon
  <2>2. back \in Seq(Group)
    BY <1>6, <2>1, SeqDef
  <2>3. DOMAIN back = 1 .. Len(inputs) /\ DOMAIN back = 1 .. Len(back) /\ Len(back) \in Nat
    BY <2>1, <2>2, LenProperties
  <2>4. QED
    BY <1>6, <2>2, <2>3
<1>9. FlattenSeq(ArgsOf(back)) \in Seq(Word)
  BY <1>8, ArgsType, FlattenType
<1>10. /\ command' \in CommandLine
       /\ command'.args = FlattenSeq(ArgsOf(back)) /\ command'.op = "decrypt"
       /\ command'.mode = command.mode /\ command'.algorithm = command.algorithm
  <2> DEFINE args == FlattenSeq(ArgsOf(back))
  <2>1. args \in Seq(Word) /\ command' = [command EXCEPT !.op = "decrypt", !.use_boxes = use_boxes, !.args = args]
    BY <1>4, <1>9
  <2> HIDE DEF args
  <2>2. /\ command' \in CommandLine /\ command'.args = args /\ command'.op = "decrypt"
        /\ command'.mode = command.mode /\ command'.algorithm = command.algorithm
    BY <1>5, <2>1, Zenon DEF CommandLine
  <2>3. QED
    BY <2>2 DEF args
<1>11. src' \in Seq(Word)
  BY <1>1, <1>9, <1>10, PositionalFacts
<1>12. BlocksTypes'
  BY <1>1, <1>5, <1>10, <1>11, EmptySeq DEF BlocksTypes
<1>13. Parsed'
  BY <1>1 DEF Parsed
<1>14. Groups'
  <2>1. Len(printed') = 0 /\ Len(inputs') = 0
    BY <1>1, EmptySeq
  <2>2. QED
    BY <2>1 DEF Groups
<1>15. Phases'
  BY <1>1 DEF Phases
<1>16. Exits'
  BY <1>1, StillRunning
<1>17. ReadingBack'
  <2>1. ASSUME inputs # <<>> PROVE GivenBack(back)'
    <3>1. Len(inputs') = 0 /\ earlier' = inputs
      BY <1>1, EmptySeq
    <3>2. \A i \in 1 .. Len(back) : Returned(earlier[i], back[i])'
      <4>1. command'.mode = command.mode /\ command'.algorithm = command.algorithm
        BY <1>10
      <4>2. \A i \in 1 .. Len(back) : Returned(inputs[i], back[i])
        BY <1>7, <1>8
      <4>3. QED
        BY <3>1, <4>1, <4>2 DEF Returned, ReadableGroup, IvCount, KeyOf
    <3>3. src' = Unparsed(back)
      <4>1. back # <<>>
        <5>1. Len(back) # 0
          BY <1>5, <1>8, <2>1, EmptySeq
        <5>2. QED
          BY <5>1, EmptySeq
      <4>2. /\ FlattenSeq(ArgsOf(back)) = <<Separator>> \o Unparsed(back)
            /\ Unparsed(back) \in Seq(Word)
        BY <1>8, <4>1, UnparsedFirst
      <4>3. /\ <<Separator>> \o Unparsed(back) \in Seq(Word)
            /\ <<Separator>> \o Unparsed(back) # <<>>
            /\ (<<Separator>> \o Unparsed(back))[1] = Separator
            /\ Tail(<<Separator>> \o Unparsed(back)) = Unparsed(back)
        BY <4>2, SeparatorInFront
      <4>4. Positional(<<Separator>> \o Unparsed(back)) = Unparsed(back)
        BY <4>3, PositionalFacts, Zenon
      <4>5. QED
        BY <1>1, <1>10, <4>2, <4>4
    <3>4. SubSeq(back, Len(inputs') + 1, Len(back)) = back
      <4>1. SubSeq(back, 1, Len(back)) = back
        BY <1>8, SubSeqFull
      <4>2. Len(inputs') + 1 = 1
        BY <3>1
      <4>3. QED
        BY <4>1, <4>2
    <3>5. Len(back) = Len(earlier') /\ Len(inputs') <= Len(back)
      BY <1>6, <1>8, <3>1
    <3>6. \A i \in 1 .. Len(inputs') : inputs'[i] = back[i]
      BY <3>1
    <3>7. src' = Unparsed(SubSeq(back, Len(inputs') + 1, Len(back)))
      BY <3>3, <3>4, Zenon
    <3>8. QED
      BY <3>2, <3>5, <3>6, <3>7 DEF GivenBack
  <2>2. ~ IsEncryption'
    BY <1>10 DEF IsEncryption
  <2>3. QED
    BY <1>1, <1>8, <2>1, <2>2 DEF ReadingBack
<1>18. QED
  BY <1>12, <1>13, <1>14, <1>15, <1>16, <1>17 DEF BlocksInv

LEMMA BlocksInitInv == BlocksInit => BlocksInv
<1> SUFFICES ASSUME BlocksInit PROVE BlocksInv
  OBVIOUS
<1>1. command \in CommandLine /\ command.args \in Seq(Word)
  BY BlockUtilityAssumption DEF BlocksInit, CommandLine
<1>2. /\ src = Positional(command.args) /\ src \in Seq(Word)
      /\ phase = "parse" /\ inputs = <<>> /\ todo = <<>> /\ printed = <<>>
      /\ exit_code = -1 /\ cipher = [key |-> <<>>, iv |-> <<>>] /\ earlier = <<>>
  BY <1>1, PositionalFacts DEF BlocksInit
<1>3. Len(inputs) = 0 /\ Len(printed) = 0
  BY <1>2, EmptySeq
<1>4. cipher \in [key : Word, iv : Word]
  <2>1. <<>> \in Word
    BY EmptySeq DEF Word
  <2>2. QED
    BY <1>2, <2>1
<1>5. BlocksTypes
  BY <1>1, <1>2, <1>3, <1>4, EmptySeq DEF BlocksTypes
<1>6. Parsed
  BY <1>2 DEF Parsed
<1>7. Groups
  BY <1>3 DEF Groups
<1>8. Phases
  BY <1>2 DEF Phases
<1>9. Exits
  BY <1>2 DEF Exits, ExitTellsOutput
<1>10. ReadingBack
  BY <1>2 DEF ReadingBack
<1>11. QED
  BY <1>5, <1>6, <1>7, <1>8, <1>9, <1>10 DEF BlocksInv

(* Every step of the programs keeps it, and so does the script.             *)
THEOREM BlocksAreInvariant == BlocksSpec => []BlocksInv
<1>1. BlocksInit => BlocksInv
  BY BlocksInitInv
<1>2. BlocksInv /\ [BlocksNext]_blocksVars => BlocksInv'
  <2> SUFFICES ASSUME BlocksInv, [BlocksNext]_blocksVars PROVE BlocksInv'
    OBVIOUS
  <2>1. CASE ParseInput
    BY <2>1, ParseInputKeeps
  <2>2. CASE RefuseWithoutIv
    BY <2>2, RefuseWithoutIvKeeps
  <2>3. CASE ConstructWrapper
    BY <2>3, ConstructWrapperKeeps
  <2>4. CASE ConstructBox
    BY <2>4, ConstructBoxKeeps
  <2>5. CASE RefuseBlock
    BY <2>5, RefuseBlockKeeps
  <2>6. CASE EncryptWithMode
    BY <2>6, EncryptWithModeKeeps
  <2>7. CASE DecryptWithMode
    BY <2>7, DecryptWithModeKeeps
  <2>8. CASE EncryptUsingBox
    BY <2>8, EncryptUsingBoxKeeps
  <2>9. CASE DecryptUsingBox
    BY <2>9, DecryptUsingBoxKeeps
  <2>10. CASE Return
    BY <2>10, ReturnKeeps
  <2>11. CASE ReadBack
    BY <2>11, ReadBackKeeps
  <2>12. CASE UNCHANGED blocksVars
    BY <2>12, StutterKeeps
  <2>13. QED
    BY <2>1, <2>2, <2>3, <2>4, <2>5, <2>6, <2>7, <2>8, <2>9, <2>10, <2>11, <2>12 DEF BlocksNext
<1>3. QED
  BY <1>1, <1>2, PTL DEF BlocksSpec

-----------------------------------------------------------------------------
(* The programs' promises.                                                  *)

(* Every line that encrypt_block or decrypt_block prints is what the mode   *)
(* makes of the block in its place, chained within its group only.          *)
LEMMA LineFollows ==
  ASSUME BlocksInv, NEW i \in DOMAIN printed
  PROVE  LET P == IF IsEncryption THEN Sources(i) ELSE Results(i)
             C == IF IsEncryption THEN Results(i) ELSE Sources(i)
             aKey == FromString(inputs[i].key, KeySize[command.algorithm])
             iv == IF inputs[i].iv = <<>> THEN cipher.iv
                   ELSE FromString(inputs[i].iv[1], BlockSize)
             dumped == Lines(i, {SourceLabel})
             next == Lines(i, {"Next initialization vector"})
         IN  /\ \A n \in DOMAIN Results(i) : Encrypts(command.mode, aKey, iv, P, C, n)
             /\ \A n \in DOMAIN dumped : dumped[n] = Sources(i)[n]
             /\ \A n \in DOMAIN next : next[n] = Chained(command.mode, aKey, iv, P, C, n)
<1> DEFINE g == inputs[i]
           lines == printed[i]
           P == IF IsEncryption THEN Sources(i) ELSE Results(i)
           C == IF IsEncryption THEN Results(i) ELSE Sources(i)
           aKey == FromString(inputs[i].key, KeySize[command.algorithm])
           iv == IF inputs[i].iv = <<>> THEN cipher.iv
                 ELSE FromString(inputs[i].iv[1], BlockSize)
           dumped == Lines(i, {SourceLabel})
           next == Lines(i, {"Next initialization vector"})
<1>1. /\ Results(i) = ResultsOf(lines) /\ dumped = DumpedOf(lines) /\ next = NextIvsOf(lines)
      /\ Sources(i) = SourcesOf(g) /\ P = PlainOf(g, lines) /\ C = CodedOf(g, lines) /\ aKey = KeyOf(g)
  BY DEF Results, Lines, ResultsOf, DumpedOf, NextIvsOf, Sources, SourcesOf, PlainOf, CodedOf, KeyOf
<1>2. BlocksTypes /\ Groups
  BY DEF BlocksInv
<1>3. /\ i \in 1 .. Len(printed) /\ i \in 1 .. Len(inputs)
      /\ g \in Group /\ lines \in Seq(Printable) /\ Len(g.iv) = IvCount
  <2>1. inputs \in Seq(Group) /\ printed \in Seq(Seq(Printable))
    BY <1>2 DEF BlocksTypes
  <2>2. i \in 1 .. Len(printed) /\ Len(printed) <= Len(inputs) /\ Len(inputs) \in Nat /\ Len(printed) \in Nat
    BY <1>2, <2>1, LenProperties DEF Groups
  <2>3. i \in 1 .. Len(inputs)
    BY <2>2
  <2>4. QED
    BY <1>2, <2>1, <2>2, <2>3, ElementOfSeq, Zenon DEF BlocksTypes
<1>4. FollowsMode(g, lines)
  BY <1>2, <1>3 DEF Groups
<1>5. iv = IvOf(g) \/ command.mode = "ECB"
  <2>1. CASE RequiresInitVector(command.mode)
    <3>1. g.iv # <<>>
      <4>1. Len(g.iv) = 1
        BY <1>3, <2>1 DEF IvCount
      <4> HIDE DEF g
      <4>2. g.iv = <<>> => Len(g.iv) = 0
        BY EmptySeq
      <4>3. QED
        BY <4>1, <4>2
    <3>2. QED
      BY <3>1 DEF IvOf
  <2>2. CASE ~ RequiresInitVector(command.mode)
    BY <2>2 DEF RequiresInitVector
  <2>3. QED
    BY <2>1, <2>2
<1>6. DOMAIN Results(i) = 1 .. Len(ResultsOf(lines))
  BY <1>1, <1>4, LenProperties, Zenon DEF FollowsMode
<1>7. DOMAIN dumped = 1 .. Len(DumpedOf(lines)) /\ DOMAIN next = 1 .. Len(NextIvsOf(lines))
  <2>1. DumpedOf(lines) \in Seq(Word) /\ NextIvsOf(lines) \in Seq(Word)
    BY <1>3, PickedType, Zenon DEF DumpedOf, NextIvsOf
  <2>2. QED
    BY <1>1, <2>1, LenProperties, Zenon
<1> HIDE DEF g, lines, P, C, aKey, iv, dumped, next
<1>8. \A n \in DOMAIN Results(i) : Encrypts(command.mode, aKey, iv, P, C, n)
  <2> SUFFICES ASSUME NEW n \in 1 .. Len(ResultsOf(lines))
               PROVE  Encrypts(command.mode, aKey, iv, P, C, n)
    BY <1>6
  <2>1. Encrypts(command.mode, KeyOf(g), IvOf(g), PlainOf(g, lines), CodedOf(g, lines), n)
    BY <1>4 DEF FollowsMode
  <2>2. Encrypts(command.mode, aKey, IvOf(g), P, C, n)
    BY <1>1, <2>1
  <2>3. CASE iv = IvOf(g)
    BY <2>2, <2>3
  <2>4. CASE command.mode = "ECB"
    BY <2>2, <2>4 DEF Encrypts
  <2>5. QED
    BY <1>5, <2>3, <2>4
<1>9. \A n \in DOMAIN dumped : dumped[n] = Sources(i)[n]
  BY <1>1, <1>4, <1>7 DEF FollowsMode
<1>10. \A n \in DOMAIN next : next[n] = Chained(command.mode, aKey, iv, P, C, n)
  <2>1. CASE RequiresInitVector(command.mode)
    <3>1. iv = IvOf(g)
      BY <1>5, <2>1 DEF RequiresInitVector
    <3>2. \A n \in 1 .. Len(NextIvsOf(lines)) : NextIvsOf(lines)[n] = ChainedOf(g, lines, n)
      BY <1>4 DEF FollowsMode
    <3>3. QED
      BY <1>1, <1>7, <3>1, <3>2 DEF ChainedOf
  <2>2. CASE ~ RequiresInitVector(command.mode)
    <3>1. Len(NextIvsOf(lines)) = 0
      BY <1>4, <2>2 DEF FollowsMode
    <3>2. QED
      BY <1>7, <3>1
  <2>3. QED
    BY <2>1, <2>2
<1>11. QED
  BY <1>8, <1>9, <1>10, Zenon DEF P, C, aKey, iv, dumped, next

(* Every positional word goes into a group, in its place, and what is       *)
(* printed for the group follows the mode: OutputFollowsModes.              *)
THEOREM LinesFollowModes == BlocksSpec => []OutputFollowsModes
<1>1. BlocksInv => OutputFollowsModes
  <2> SUFFICES ASSUME BlocksInv PROVE OutputFollowsModes
    OBVIOUS
  <2>1. ASSUME printed # <<>> PROVE Positional(command.args) \in {Joined, Append(Joined, Separator)}
    <3>1. BlocksTypes /\ Parsed /\ Groups
      BY DEF BlocksInv
    <3>2. inputs # <<>> /\ inputs \in Seq(Group)
      <4>1. printed \in Seq(Seq(Printable)) /\ inputs \in Seq(Group)
        BY <3>1 DEF BlocksTypes
      <4>2. Len(printed) \in Nat \ {0} /\ Len(inputs) \in Nat /\ Len(printed) <= Len(inputs)
        BY <2>1, <3>1, <4>1, EmptySeq, LenProperties DEF Groups
      <4>3. Len(inputs) # 0
        BY <4>2
      <4>4. QED
        BY <4>1, <4>3, EmptySeq
    <3>3. src = <<>>
      BY <2>1, <3>1 DEF Parsed
    <3>4. \/ Positional(command.args) = Joined
          \/ Positional(command.args) = Joined \o (<<Separator>> \o <<>>)
      BY <3>1, <3>2, <3>3 DEF Parsed
    <3>5. Joined \o (<<Separator>> \o <<>>) = Append(Joined, Separator)
      <4>1. Joined = JoinedOf(inputs)
        BY DEF Joined, JoinedOf, JoinedArgs
      <4>2. Joined \in Seq(Word)
        BY <3>2, <4>1, JoinedType
      <4>3. <<Separator>> \o <<>> = <<Separator>>
        BY SeparatorType, ConcatEmptySeq
      <4>4. Append(Joined, Separator) = Joined \o <<Separator>>
        BY <4>2, SeparatorType, AppendIsConcat
      <4>5. QED
        BY <4>3, <4>4
    <3>6. QED
      BY <3>4, <3>5
  <2>2. QED
    BY <2>1, LineFollows, Zenon DEF OutputFollowsModes
<1>2. QED
  BY <1>1, BlocksAreInvariant, PTL

(* A utility that ends with 0 has printed every block, and one that ends    *)
(* with 1 says at which text it stopped: ExitTellsOutput.                   *)
THEOREM ExitTells == BlocksSpec => []ExitTellsOutput
<1>1. BlocksInv => ExitTellsOutput
  BY DEF BlocksInv, Exits
<1>2. QED
  BY <1>1, BlocksAreInvariant, PTL

(* decrypt_block gives back what encrypt_block was given: ReadsBack.        *)
THEOREM PrintedReadsBack == BlocksSpec => []ReadsBack
<1>1. BlocksInv => ReadsBack
  <2> SUFFICES ASSUME BlocksInv, earlier # <<>>, phase = "ended"
               PROVE  /\ exit_code = 0
                      /\ Len(printed) = Len(earlier)
                      /\ \A i \in DOMAIN printed :
                           /\ Len(Results(i)) = Len(earlier[i].blocks)
                           /\ \A n \in DOMAIN Results(i) :
                                Results(i)[n] = FromString(earlier[i].blocks[n], BlockSize)
    BY DEF ReadsBack
  <2>1. BlocksTypes /\ Parsed /\ Groups /\ Phases /\ Exits /\ ReadingBack
    BY DEF BlocksInv
  <2>2. exit_code = 0 /\ ~ IsEncryption
    BY <2>1 DEF BlocksTypes, Phases, ReadingBack
  <2>3. src = <<>> /\ Len(printed) = Len(inputs) /\ \A i \in DOMAIN printed : Complete(i)
    BY <2>1, <2>2 DEF Parsed, Exits, ExitTellsOutput
  <2>4. PICK back \in Seq(Group) : GivenBack(back)
    BY <2>1 DEF ReadingBack
  <2>5. Len(inputs) = Len(back) /\ Len(earlier) = Len(back) /\ Len(back) \in Nat
    <3>1. Len(inputs) \in Nat /\ Len(back) \in Nat /\ Len(inputs) <= Len(back) /\ Len(back) = Len(earlier)
      BY <2>1, <2>4, LenProperties DEF BlocksTypes, GivenBack
    <3>2. ~ (Len(inputs) < Len(back))
      <4> SUFFICES ASSUME Len(inputs) < Len(back) PROVE FALSE
        OBVIOUS
      <4> DEFINE k == Len(inputs) + 1
                 n == Len(back)
                 s == SubSeq(back, k, n)
      <4>1. k \in 1 .. n /\ k \in Int /\ n \in Int /\ Unparsed(s) = <<>>
        BY <2>3, <2>4, <3>1 DEF GivenBack
      <4>2. \A i \in k .. n : back[i] \in Group
        BY <4>1, ElementOfSeq
      <4> HIDE DEF k, n
      <4>3. s \in Seq(Group) /\ Len(s) = n - k + 1
        BY <4>1, <4>2, SubSeqProperties
      <4> HIDE DEF s
      <4>4. s # <<>>
        <5>1. Len(s) # 0
          BY <4>1, <4>3
        <5>2. QED
          BY <5>1, EmptySeq
      <4>5. s[1] \in Group /\ Tail(s) \in Seq(Group)
        <5>1. 1 \in 1 .. Len(s)
          BY <4>1, <4>3
        <5>2. QED
          BY <4>3, <4>4, <5>1, ElementOfSeq, HeadTailProperties
      <4> DEFINE w == WordsOf(s[1])
                 f == FlattenSeq(ArgsOf(Tail(s)))
      <4>6. w \in Seq(Word) /\ w # <<>> /\ f \in Seq(Word)
        BY <4>5, WordsFacts, ArgsType, FlattenType, Zenon
      <4>7. w \o f = <<>>
        BY <4>1, <4>3, <4>4, UnparsedFirst
      <4> HIDE DEF w, f
      <4>8. w = <<>>
        BY <4>6, <4>7, ConcatEqualIffEmpty, ConcatProperties, EmptySeq, LenProperties
      <4>9. QED
        BY <4>6, <4>8
    <3>3. QED
      BY <3>1, <3>2
  <2>6. ASSUME NEW i \in 1 .. Len(inputs)
        PROVE  /\ Len(Results(i)) = Len(earlier[i].blocks)
               /\ DOMAIN Results(i) = 1 .. Len(Results(i))
               /\ \A n \in 1 .. Len(Results(i)) :
                    Results(i)[n] = FromString(earlier[i].blocks[n], BlockSize)
    <3> DEFINE g == earlier[i]
               b == back[i]
               R == ResultsOf(printed[i])
               m == Len(R)
    <3>1. /\ g \in Group /\ b \in Group /\ Returned(g, b) /\ inputs[i] = b
          /\ i \in 1 .. Len(printed) /\ FollowsMode(b, printed[i]) /\ Len(R) = Len(b.blocks)
      <4>1. i \in 1 .. Len(earlier) /\ i \in 1 .. Len(back) /\ earlier \in Seq(Group)
        BY <2>1, <2>5 DEF BlocksTypes
      <4>2. g \in Group /\ b \in Group /\ Returned(g, b) /\ inputs[i] = b
        BY <2>4, <4>1, ElementOfSeq DEF GivenBack
      <4>3. i \in 1 .. Len(printed)
        BY <2>3
      <4>4. FollowsMode(inputs[i], printed[i]) /\ Finished(inputs[i], printed[i])
        BY <2>1, <2>2, <4>3 DEF Groups, Exits
      <4>5. QED
        BY <4>2, <4>3, <4>4 DEF Finished
    <3>2. R = Results(i)
      BY DEF Results, Lines, ResultsOf
    <3> HIDE DEF g, b, R
    <3>3. /\ b.blocks \in Seq(Block) /\ Len(b.blocks) = m /\ m = Len(g.blocks) /\ m \in Nat
          /\ R \in Seq(Block) /\ g.blocks \in Seq(Word)
          /\ KeyOf(b) = KeyOf(g) /\ IvOf(b) = IvOf(g) /\ ReadableGroup(g) /\ Len(g.iv) = IvCount
      <4>1. R \in Seq(Block) /\ g.blocks \in Seq(Word)
        BY <3>1 DEF FollowsMode, Group, R
      <4>2. QED
        BY <3>1, <4>1, LenProperties DEF Returned, KeyOf, IvOf
    <3>4. SourcesOf(b) = b.blocks
      <4>1. DOMAIN b.blocks = 1 .. m /\ \A n \in 1 .. m : b.blocks[n] \in Block
        BY <3>3, LenProperties, ElementOfSeq
      <4>2. \A n \in 1 .. m : FromString(b.blocks[n], BlockSize) = b.blocks[n]
        BY <4>1, BlockText
      <4>3. SourcesOf(b) = [n \in 1 .. m |-> b.blocks[n]]
        BY <4>1, <4>2 DEF SourcesOf
      <4>4. b.blocks \in [1 .. m -> Block]
        BY <3>3, LenProperties, ElementOfSeq
      <4>5. QED
        BY <4>3, <4>4
    <3>5. \A n \in 1 .. m :
            /\ Encrypts(command.mode, KeyOf(g), IvOf(g), R, b.blocks, n)
            /\ Encrypts(command.mode, KeyOf(g), IvOf(g), SourcesOf(g), b.blocks, n)
            /\ SourcesOf(g)[n] \in Block
            /\ SourcesOf(g)[n] = FromString(g.blocks[n], BlockSize)
      <4>1. PlainOf(b, printed[i]) = R /\ CodedOf(b, printed[i]) = b.blocks
        BY <2>2, <3>4 DEF PlainOf, CodedOf, R
      <4>2. \A n \in 1 .. m : Encrypts(command.mode, KeyOf(g), IvOf(g), R, b.blocks, n)
        BY <3>1, <3>3, <4>1 DEF FollowsMode, R
      <4>3. \A n \in 1 .. m :
              /\ Readable(g.blocks[n], BlockSize)
              /\ Encrypts(command.mode, KeyOf(g), IvOf(g), SourcesOf(g), b.blocks, n)
        BY <3>1, <3>3 DEF Returned
      <4>4. \A n \in 1 .. m :
              SourcesOf(g)[n] \in Block /\ SourcesOf(g)[n] = FromString(g.blocks[n], BlockSize)
        BY <3>1, <3>3, <4>3, SourceBlock
      <4>5. QED
        BY <4>2, <4>3, <4>4
    <3>6. command.mode \in Mode /\ KeyOf(g) \in Key /\ IvOf(g) \in Block
      BY <2>1, <3>1, <3>3, CommandFacts, GroupFacts
    <3>7. SourcesOf(g) \in [1 .. m -> Block] /\ R \in [1 .. m -> Block] /\ b.blocks \in [1 .. m -> Block]
      <4>1. DOMAIN SourcesOf(g) = 1 .. m
        BY <3>3, LenProperties DEF SourcesOf
      <4>2. SourcesOf(g) = [n \in 1 .. m |-> SourcesOf(g)[n]]
        BY <4>1, Zenon DEF SourcesOf
      <4>3. SourcesOf(g) \in [1 .. m -> Block]
        BY <3>5, <4>2, Zenon
      <4>4. R \in [1 .. m -> Block] /\ b.blocks \in [1 .. m -> Block]
        BY <3>3, LenProperties, ElementOfSeq
      <4>5. QED
        BY <4>3, <4>4
    <3>8. \A n \in 1 .. m : R[n] = SourcesOf(g)[n]
      <4> DEFINE S == SourcesOf(g)
                 C == b.blocks
                 aKey == KeyOf(g)
                 iv == IvOf(g)
                 aMode == command.mode
      <4>1. /\ Agree(C, C, m) /\ EncryptsFirst(aMode, aKey, iv, S, C, m)
            /\ EncryptsFirst(aMode, aKey, iv, R, C, m)
        BY <3>5 DEF Agree, EncryptsFirst
      <4>2. /\ aMode \in Mode /\ aKey \in Key /\ iv \in Block /\ m \in Nat /\ m \in 0 .. m
            /\ S \in [1 .. m -> Block] /\ R \in [1 .. m -> Block] /\ C \in [1 .. m -> Block]
        BY <3>3, <3>6, <3>7
      <4> HIDE DEF S, C, aKey, iv, aMode, m
      <4>3. Agree(R, S, m)
        BY <4>1, <4>2, CiphertextDecidesText, Zenon
      <4>4. QED
        BY <4>3 DEF Agree, S
    <3>9. QED
      BY <3>2, <3>3, <3>5, <3>7, <3>8 DEF g
  <2>7. DOMAIN printed = 1 .. Len(inputs)
    BY <2>1, <2>3, LenProperties DEF BlocksTypes
  <2>8. QED
    BY <2>2, <2>3, <2>5, <2>6, <2>7
<1>2. QED
  BY <1>1, BlocksAreInvariant, PTL
=============================================================================
