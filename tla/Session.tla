-------------------------------- MODULE Session --------------------------------
(***************************************************************************)
(* Two boxes set up alike, one encrypting a series of messages and the      *)
(* other decrypting the results in the same order, each by its own calls:   *)
(* a composition of two Box modules.  The boxes keep no message boundaries, *)
(* only a chaining value each; nothing but the equality of the two ties     *)
(* the calls of one to the calls of the other.                              *)
(*                                                                         *)
(* A call that ran out of memory may be made again by its caller.  The      *)
(* ciphertexts themselves are handed over whole and in order.               *)
(***************************************************************************)
EXTENDS BoxSizes, Sequences

CONSTANTS
  MaxCalls,     \* bound on the calls of each box
  Messages,     \* texts: records of cells, full and rest
  MaxMessages,  \* bound on the messages composed
  NoMessage

ASSUME SessionAssumption ==
  /\ Messages \subseteq [cells : Memory, full : 0 .. Cells - 1, rest : 0 .. BlockSize - 1]
  /\ NoMessage \notin Messages
  /\ {"plain", "cipher"} \subseteq Buffers
  /\ MaxCalls \in Nat
  /\ MaxMessages \in Nat

VARIABLES
  sbox, smem, scall, sheap, ssize, sstatus, scalls, sentry,  \* the encrypting box
  rbox, rmem, rcall, rheap, rsize, rstatus, rcalls, rentry,  \* the decrypting box
  draft,      \* the message being encrypted
  channel,    \* ciphertexts handed over, with the text and the ivs they belong to
  loaded,     \* the head of channel has been put into the decrypting program's buffer
  composed,   \* the number of messages composed
  disturbed   \* history: a call was repeated, or CFB met a partial block

svars == <<sbox, smem, scall, sheap, ssize, sstatus, scalls, sentry>>
rvars == <<rbox, rmem, rcall, rheap, rsize, rstatus, rcalls, rentry>>
vars == <<svars, rvars, draft, channel, loaded, composed, disturbed>>

S == INSTANCE Box WITH
       box <- sbox, mem <- smem, call <- scall, heap <- sheap, size <- ssize,
       status <- sstatus, calls <- scalls, entry <- sentry

R == INSTANCE Box WITH
       box <- rbox, mem <- rmem, call <- rcall, heap <- rheap, size <- rsize,
       status <- rstatus, calls <- rcalls, entry <- rentry

OutOfMemory == "MEMORY_ALLOCATION_ERROR"

Init ==
  /\ S!Init
  /\ R!Init
  /\ rbox = sbox
  /\ draft = NoMessage
  /\ channel = <<>>
  /\ loaded = FALSE
  /\ composed = 0
  /\ disturbed = FALSE

-----------------------------------------------------------------------------
(* The encrypting program.                                                  *)
Compose(m) ==
  /\ draft = NoMessage
  /\ composed < MaxMessages
  /\ S!FillBuffer("plain", m.cells)
  /\ draft' = m
  /\ composed' = composed + 1
  /\ UNCHANGED <<rvars, channel, loaded, disturbed>>

Encrypt ==
  /\ draft # NoMessage
  /\ scall.op = "none"
  /\ S!BeginEncrypt("plain", "cipher", draft.full, draft.rest)
  /\ UNCHANGED <<rvars, draft, channel, loaded, composed, disturbed>>

EncryptAgain ==
  /\ draft # NoMessage
  /\ scall.op = "encrypt" /\ sstatus = OutOfMemory
  /\ S!BeginEncrypt("plain", "cipher", draft.full, draft.rest)
  /\ disturbed' = TRUE
  /\ UNCHANGED <<rvars, draft, channel, loaded, composed>>

EncryptProgress ==
  /\ S!Progress
  /\ UNCHANGED <<rvars, draft, channel, loaded, composed, disturbed>>

(* What the receiver is given is the ciphertext: scall.done full blocks     *)
(* (with the padded one) and the bytes of a partial one.                    *)
Post ==
  /\ draft # NoMessage
  /\ scall.op = "encrypt" /\ scall.step = "idle" /\ sstatus = "SUCCESS"
  /\ channel' = Append(channel,
       [cells |-> smem["cipher"], full |-> scall.done,
        rest |-> IF scall.cut THEN scall.rest ELSE 0,
        text |-> draft, iv |-> sentry.iv, after |-> sbox.iv])
  /\ draft' = NoMessage
  /\ UNCHANGED <<svars, rvars, loaded, composed, disturbed>>

-----------------------------------------------------------------------------
(* The decrypting program.                                                  *)
Load ==
  /\ channel # <<>>
  /\ ~ loaded
  /\ R!FillBuffer("cipher", Head(channel).cells)
  /\ loaded' = TRUE
  /\ UNCHANGED <<svars, draft, channel, composed, disturbed>>

Decrypt ==
  /\ loaded
  /\ rcall.op = "none"
  /\ R!BeginDecrypt("cipher", "plain", Head(channel).full, Head(channel).rest)
  /\ UNCHANGED <<svars, draft, channel, loaded, composed, disturbed>>

DecryptAgain ==
  /\ loaded
  /\ rcall.op = "decrypt" /\ rcall.step = "idle" /\ rstatus = OutOfMemory
  /\ R!BeginDecrypt("cipher", "plain", Head(channel).full, Head(channel).rest)
  /\ disturbed' = TRUE
  /\ UNCHANGED <<svars, draft, channel, loaded, composed>>

DecryptProgress ==
  /\ R!Progress
  /\ UNCHANGED <<svars, draft, channel, loaded, composed, disturbed>>

Take ==
  /\ loaded
  /\ rcall.op = "decrypt" /\ rcall.step = "idle" /\ rstatus # OutOfMemory
  /\ channel' = Tail(channel)
  /\ loaded' = FALSE
  /\ disturbed' = (disturbed \/ (rbox.mode = "CFB" /\ rcall.cut))
  /\ UNCHANGED <<svars, rvars, draft, composed>>

Next ==
  \/ \E m \in Messages : Compose(m)
  \/ Encrypt \/ EncryptAgain \/ EncryptProgress \/ Post
  \/ Load \/ Decrypt \/ DecryptAgain \/ DecryptProgress \/ Take

Spec == Init /\ [][Next]_vars

-----------------------------------------------------------------------------
(***************************************************************************)
(* Properties.                                                             *)
(***************************************************************************)
(* The decrypting call for the head of the channel has returned.            *)
Returned == loaded /\ rcall.op = "decrypt" /\ rcall.step = "idle"

SameText(m) ==
  /\ \A n \in 1 .. m.full : rmem["plain"][n] = m.cells[n]
  /\ \A k \in 1 .. m.rest : rmem["plain"][m.full + 1][k] = m.cells[m.full + 1][k]

(* Both boxes are well formed, and a ciphertext is decrypted while it is the *)
(* head of the channel.                                                     *)
TypeOK ==
  /\ S!TypeOK
  /\ R!TypeOK
  /\ draft \in Messages \cup {NoMessage}
  /\ \A i \in DOMAIN channel :
       /\ channel[i].cells \in Memory /\ channel[i].text \in Messages
       /\ channel[i].iv \in Block /\ channel[i].after \in Block
       /\ S!DecryptionFits(channel[i].full, channel[i].rest)
  /\ composed \in 0 .. MaxMessages
  /\ loaded => channel # <<>>
  /\ rcall.op = "decrypt" /\ rcall.step # "idle" => loaded
  /\ disturbed \in BOOLEAN

(* Decryption that starts from the iv encryption started from gives back    *)
(* the text and its size, in every mode and for every length, empty texts   *)
(* included; it does not find the padding invalid.                          *)
RoundTrip ==
  (Returned /\ rstatus # OutOfMemory /\ rentry.iv = Head(channel).iv) =>
    /\ rstatus = "SUCCESS"
    /\ SameText(Head(channel).text)
    /\ rsize = InBytes(Head(channel).text.full, Head(channel).text.rest)

(* After such a call the two boxes are ready for the next message alike --  *)
(* but for a CFB message that ends in a partial block, whose last           *)
(* ciphertext block the decrypting box has not seen in full.                *)
StaysInSync ==
  (Returned /\ rstatus # OutOfMemory /\ rentry.iv = Head(channel).iv) =>
    \/ rbox.iv = Head(channel).after
    \/ rbox.mode = "CFB" /\ rcall.cut

(* As long as no call was repeated and no CFB message was cut, every        *)
(* decrypting call starts from the iv its message was encrypted from: empty *)
(* messages, partial blocks and padding consume the same on both sides.     *)
UndisturbedIsInSync ==
  (~ disturbed /\ loaded /\ rcall.op = "decrypt") =>
    rentry.iv = Head(channel).iv

(* The chaining modes recover by themselves: whatever iv the decrypting box *)
(* starts from, the blocks after the first come out right (all, in ECB).    *)
ChainingModesRecover ==
  (Returned /\ rstatus # OutOfMemory) =>
    \A n \in 1 .. Head(channel).text.full :
      (rbox.mode = "ECB" \/ (rbox.mode \in {"CBC", "CFB"} /\ n > 1)) =>
        rmem["plain"][n] = Head(channel).text.cells[n]
=============================================================================
