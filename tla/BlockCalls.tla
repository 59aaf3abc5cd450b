------------------------------ MODULE BlockCalls ------------------------------
(***************************************************************************)
(* Blocks encrypted and decrypted one at a time, by way of the two          *)
(* interfaces there are: aes_box_encrypt_block and aes_box_decrypt_block,   *)
(* statement by statement, and EncryptWrapper and DecryptWrapper, which     *)
(* use the macros of mode.h.  The interfaces implement the modes apart from *)
(* each other, and a program may encrypt with one and decrypt with the      *)
(* other.  Input and output of a call may be one block.                     *)
(***************************************************************************)
EXTENDS Modes, Sequences

CONSTANTS
  Mismatched(_, _),  \* what a block function makes of a block with the other's round keys
  Texts,             \* blocks to be encrypted
  InitVectors,
  MaxBlocks          \* bound on the blocks of a message

ASSUME BlockCallsAssumption ==
  /\ \A k \in Key, b \in Block : Mismatched(k, b) \in Block
  /\ Texts \subseteq Block
  /\ InitVectors \subseteq Block
  /\ MaxBlocks \in Nat

VARIABLES
  mode, key, iv0,  \* what both sides have agreed on
  obj,             \* the objects of the two sides
  cells,           \* the blocks a call is given
  call,            \* the activation record of the call
  local,           \* xored_input in a box, the macro's value in a wrapper
  sent,            \* texts and ciphertexts
  received,        \* the texts that came out
  boxInPlace       \* history: which blocks a box was given in place, by side

callsVars == <<mode, key, iv0, obj, cells, call, local, sent, received, boxInPlace>>

Side == {"sender", "receiver"}

-----------------------------------------------------------------------------
(* Round keys: as expanded from the key, or derived from those.             *)
RoundKeys == [key : Key, kind : {"expanded", "derived", "absent"}]

EncryptWith(keys, b) ==
  IF keys.kind = "expanded" THEN Enc(keys.key, b) ELSE Mismatched(keys.key, b)

DecryptWith(keys, b) ==
  IF keys.kind = "derived" THEN Dec(keys.key, b) ELSE Mismatched(keys.key, b)

ModeUsesEncryptionKeysOnly(m) == m \notin {"ECB", "CBC"}

BoxObject(k, iv) ==
  [interface |-> "box", iv |-> iv,
   encryption_keys |-> [key |-> k, kind |-> "expanded"],
   decryption_keys |-> [key |-> k, kind |-> "derived"]]

EncryptWrapper(k, iv) ==
  [interface |-> "wrapper", iv |-> iv,
   encryption_keys |-> [key |-> k, kind |-> "expanded"],
   decryption_keys |-> [key |-> k, kind |-> "absent"]]

(* A slip: decryption always has decryption keys.                           *)
DecryptWrapperAlwaysDeriving(m, k, iv) ==
  [interface |-> "wrapper", iv |-> iv,
   encryption_keys |-> [key |-> k, kind |-> "absent"],
   decryption_keys |-> [key |-> k, kind |-> "derived"]]

DecryptWrapper(m, k, iv) ==
  [interface |-> "wrapper", iv |-> iv,
   encryption_keys |-> [key |-> k, kind |-> "absent"],
   decryption_keys |->
     [key |-> k, kind |-> IF ModeUsesEncryptionKeysOnly(m) THEN "expanded" ELSE "derived"]]

-----------------------------------------------------------------------------
(* The macros of mode.h: arguments are passed by value, the chaining value  *)
(* is replaced before the function returns.                                 *)
MacroEncrypt(m, keys, iv, b) ==
  CASE m = "ECB" -> [value |-> EncryptWith(keys, b), iv |-> iv]
    [] m = "CBC" -> LET c == EncryptWith(keys, XorBlocks(b, iv)) IN [value |-> c, iv |-> c]
    [] m = "CFB" -> LET c == XorBlocks(EncryptWith(keys, iv), b) IN [value |-> c, iv |-> c]
    [] m = "OFB" -> LET s == EncryptWith(keys, iv) IN [value |-> XorBlocks(s, b), iv |-> s]
    [] m = "CTR" -> [value |-> XorBlocks(b, EncryptWith(keys, iv)), iv |-> Inc(iv)]

MacroDecrypt(m, keys, iv, b) ==
  CASE m = "ECB" -> [value |-> DecryptWith(keys, b), iv |-> iv]
    [] m = "CBC" -> [value |-> XorBlocks(DecryptWith(keys, b), iv), iv |-> b]
    [] m = "CFB" -> [value |-> XorBlocks(EncryptWith(keys, iv), b), iv |-> b]
    [] m \in {"OFB", "CTR"} -> MacroEncrypt(m, keys, iv, b)

-----------------------------------------------------------------------------
NoCall == [side |-> "sender", step |-> "idle", inPlace |-> FALSE, given |-> iv0]

CallsInit ==
  /\ mode \in Mode /\ key \in Key /\ iv0 \in InitVectors
  /\ \E s \in {BoxObject(key, iv0), EncryptWrapper(key, iv0)},
        r \in {BoxObject(key, iv0), DecryptWrapper(mode, key, iv0)} :
       obj = [side \in Side |-> IF side = "sender" THEN s ELSE r]
  /\ cells = [c \in {"input", "output"} |-> iv0]
  /\ call = NoCall
  /\ local = iv0
  /\ sent = <<>> /\ received = <<>>
  /\ boxInPlace = [side \in Side |-> {}]

(* A side calls its object with the n-th block, b.                          *)
Begin(side, n, b, inPlace) ==
  /\ call.step = "idle"
  /\ cells' = [cells EXCEPT !["input"] = b]
  /\ call' = [side |-> side, inPlace |-> inPlace, given |-> b,
              step |-> IF obj[side].interface = "box" THEN "first" ELSE "compute"]
  /\ boxInPlace' = IF inPlace /\ obj[side].interface = "box"
                   THEN [boxInPlace EXCEPT ![side] = @ \cup {n}] ELSE boxInPlace
  /\ UNCHANGED <<mode, key, iv0, obj, local, sent, received>>

Encrypt(text, inPlace) ==
  /\ Len(sent) < MaxBlocks
  /\ Begin("sender", Len(sent) + 1, text, inPlace)

Decrypt(inPlace) ==
  LET n == Len(received) + 1
  IN  /\ n \in DOMAIN sent
      /\ Begin("receiver", n, sent[n].cipher, inPlace)

-----------------------------------------------------------------------------
(* The statements of a block function of box.c.                             *)
Me == obj[call.side]
Encrypting == call.side = "sender"
OutputCell == IF call.inPlace THEN "input" ELSE "output"
InputBlock == cells["input"]
OutputBlock == cells[OutputCell]

At(step, modes) == call.step = step /\ mode \in modes
GoTo(step) == call' = [call EXCEPT !.step = step]
WriteBlock(b) == cells' = [cells EXCEPT ![OutputCell] = b]
Chain(b) == obj' = [obj EXCEPT ![call.side].iv = b]
Elsewhere == UNCHANGED <<mode, key, iv0, sent, received, boxInPlace>>

CipherInput ==
  /\ At("first", {"ECB"}) \/ (At("first", {"CBC"}) /\ ~ Encrypting)
  /\ WriteBlock(IF Encrypting THEN EncryptWith(Me.encryption_keys, InputBlock)
                ELSE DecryptWith(Me.decryption_keys, InputBlock))
  /\ GoTo(IF mode = "ECB" THEN "returned" ELSE "second")
  /\ Elsewhere /\ UNCHANGED <<obj, local>>

XorInputWithIv ==
  /\ At("first", {"CBC"}) /\ Encrypting
  /\ local' = XorBlocks(InputBlock, Me.iv)
  /\ GoTo("second")
  /\ Elsewhere /\ UNCHANGED <<obj, cells>>

EncryptXoredInput ==
  /\ At("second", {"CBC"}) /\ Encrypting
  /\ WriteBlock(EncryptWith(Me.encryption_keys, local))
  /\ GoTo("third")
  /\ Elsewhere /\ UNCHANGED <<obj, local>>

XorOutputWithIv ==
  /\ At("second", {"CBC"}) /\ ~ Encrypting
  /\ WriteBlock(XorBlocks(OutputBlock, Me.iv))
  /\ GoTo("third")
  /\ Elsewhere /\ UNCHANGED <<obj, local>>

EncryptIvToOutput ==
  /\ At("first", {"CFB", "CTR"})
  /\ WriteBlock(EncryptWith(Me.encryption_keys, Me.iv))
  /\ GoTo("second")
  /\ Elsewhere /\ UNCHANGED <<obj, local>>

EncryptIv ==
  LET stream == EncryptWith(Me.encryption_keys, Me.iv)
  IN  /\ At("first", {"OFB"})
      /\ Chain(stream)
      /\ WriteBlock(stream)
      /\ GoTo("second")
      /\ Elsewhere /\ UNCHANGED local

XorOutputWithInput ==
  /\ At("second", {"CFB", "OFB", "CTR"})
  /\ WriteBlock(XorBlocks(OutputBlock, InputBlock))
  /\ GoTo(IF mode = "OFB" THEN "returned" ELSE "third")
  /\ Elsewhere /\ UNCHANGED <<obj, local>>

(* A slip: encryption chains its input, as decryption does.                 *)
ChainOutputAsInput ==
  /\ At("third", {"CBC", "CFB"}) /\ Encrypting
  /\ Chain(InputBlock)
  /\ GoTo("returned")
  /\ Elsewhere /\ UNCHANGED <<cells, local>>

ChainOutput ==
  /\ At("third", {"CBC", "CFB"}) /\ Encrypting
  /\ Chain(OutputBlock)
  /\ GoTo("returned")
  /\ Elsewhere /\ UNCHANGED <<cells, local>>

ChainInput ==
  /\ At("third", {"CBC", "CFB"}) /\ ~ Encrypting
  /\ Chain(InputBlock)
  /\ GoTo("returned")
  /\ Elsewhere /\ UNCHANGED <<cells, local>>

(* A slip: the counter of the output is taken for that of the box.          *)
IncOutput ==
  /\ At("third", {"CTR"})
  /\ Chain(Inc(OutputBlock))
  /\ GoTo("returned")
  /\ Elsewhere /\ UNCHANGED <<cells, local>>

IncIv ==
  /\ At("third", {"CTR"})
  /\ Chain(Inc(Me.iv))
  /\ GoTo("returned")
  /\ Elsewhere /\ UNCHANGED <<cells, local>>

-----------------------------------------------------------------------------
(* EncryptWrapper::encrypt_block and DecryptWrapper::decrypt_block: the     *)
(* macro's function, and the assignment of its value.                       *)
CallMacro ==
  LET r == IF Encrypting THEN MacroEncrypt(mode, Me.encryption_keys, Me.iv, InputBlock)
           ELSE MacroDecrypt(mode, Me.decryption_keys, Me.iv, InputBlock)
  IN  /\ call.step = "compute"
      /\ local' = r.value
      /\ Chain(r.iv)
      /\ GoTo("assign")
      /\ Elsewhere /\ UNCHANGED cells

AssignValue ==
  /\ call.step = "assign"
  /\ WriteBlock(local)
  /\ GoTo("returned")
  /\ Elsewhere /\ UNCHANGED <<obj, local>>

(* The program takes the result.                                            *)
Collect ==
  /\ call.step = "returned"
  /\ IF Encrypting
     THEN /\ sent' = Append(sent, [text |-> call.given, cipher |-> OutputBlock])
          /\ UNCHANGED received
     ELSE /\ received' = Append(received, OutputBlock)
          /\ UNCHANGED sent
  /\ GoTo("idle")
  /\ UNCHANGED <<mode, key, iv0, obj, cells, local, boxInPlace>>

BoxStep ==
  \/ CipherInput
  \/ XorInputWithIv \/ EncryptXoredInput \/ XorOutputWithIv
  \/ EncryptIvToOutput \/ EncryptIv \/ XorOutputWithInput
  \/ ChainOutput \/ ChainInput \/ IncIv

CallsNext ==
  \/ \E text \in Texts, inPlace \in BOOLEAN : Encrypt(text, inPlace)
  \/ \E inPlace \in BOOLEAN : Decrypt(inPlace)
  \/ BoxStep
  \/ CallMacro \/ AssignValue
  \/ Collect

CallsSpec == CallsInit /\ [][CallsNext]_callsVars

-----------------------------------------------------------------------------
(***************************************************************************)
(* Properties.                                                             *)
(***************************************************************************)
CallsTypeOK ==
  /\ mode \in Mode /\ key \in Key /\ iv0 \in Block
  /\ obj \in [Side -> [interface : {"box", "wrapper"}, iv : Block,
                       encryption_keys : RoundKeys, decryption_keys : RoundKeys]]
  /\ cells \in [{"input", "output"} -> Block]
  /\ call \in [side : Side, inPlace : BOOLEAN, given : Block,
               step : {"idle", "first", "second", "third", "compute", "assign", "returned"}]
  /\ local \in Block
  /\ sent \in Seq([text : Block, cipher : Block]) /\ Len(sent) <= MaxBlocks
  /\ received \in Seq(Block) /\ Len(received) <= Len(sent)
  /\ boxInPlace \in [Side -> SUBSET (1 .. MaxBlocks)]

Text == [n \in DOMAIN sent |-> sent[n].text]
Cipher == [n \in DOMAIN sent |-> sent[n].cipher]

(* What a sender makes satisfies the equations of the mode, through either  *)
(* interface.  A block given to a box in place is an exception where the    *)
(* function writes *output before it reads *input; ECB and CBC do not.  The *)
(* equation of an OFB or CTR block finds the key stream in the one before.  *)
SentFollowsMode ==
  \A n \in DOMAIN sent :
    \/ Encrypts(mode, key, iv0, Text, Cipher, n)
    \/ mode \in {"CFB", "OFB", "CTR"} /\ n \in boxInPlace["sender"]
    \/ mode \in {"OFB", "CTR"} /\ n - 1 \in boxInPlace["sender"]

(* The blocks that are lost to calls in place.  In the stream modes the     *)
(* call loses its own block.  Decryption in CBC gets its own block right    *)
(* and the next one wrong, since it chains an input it has written over;    *)
(* in CFB both happen.                                                      *)
Lost(n) ==
  \/ mode \in {"CFB", "OFB", "CTR"} /\ n \in boxInPlace["sender"] \cup boxInPlace["receiver"]
  \/ mode \in {"CBC", "CFB"} /\ n - 1 \in boxInPlace["receiver"]

(* A message comes out as it went in, whichever interface encrypts and      *)
(* whichever decrypts, but for those blocks: no other is harmed by them.    *)
OnlyLostBlocksDiffer ==
  \A n \in DOMAIN received : received[n] = sent[n].text \/ Lost(n)

(* In OFB and CTR the chaining value does not depend on the blocks: after   *)
(* equally many calls the two sides have the same, also when blocks were    *)
(* lost on the way.                                                         *)
StreamsStayInStep ==
  (mode \in {"OFB", "CTR"} /\ call.step = "idle" /\ Len(sent) = Len(received)) =>
    obj["sender"].iv = obj["receiver"].iv
=============================================================================
