-------------------------------- MODULE Parsing --------------------------------
(***************************************************************************)
(* Keys read from text and written to text, as aes.c does: two characters   *)
(* for each byte, one sscanf of "%2x%n" after another, into a local array   *)
(* that becomes a half of the key when it is full.  A block is read and     *)
(* written like an AES-128 key.                                             *)
(*                                                                         *)
(* sscanf takes more than digits: it skips white space, a number may be one *)
(* digit, and one of its two characters may be a sign.                      *)
(***************************************************************************)
EXTENDS Integers, Sequences

CONSTANTS
  Radix,     \* 16 in the code: the digits are 0 .. Radix - 1
  HalfSize,  \* 16 in the code: bytes in half a key, or in a whole AES-128 key
  Texts,     \* what a program may pass
  Keys,      \* what the destination may hold before
  MaxCalls   \* bound on the calls of a parsing function

Algorithm == {"AES128", "AES192", "AES256"}

Byte == 0 .. Radix * Radix - 1

Half == [1 .. HalfSize -> Byte]

Key == [lo : Half, hi : Half]

Character ==
  {[class |-> "digit", value |-> d] : d \in 0 .. Radix - 1} \cup
  {[class |-> c, value |-> 0] : c \in {"space", "plus", "minus", "x", "other"}}

ASSUME ParsingAssumption ==
  /\ Radix \in Nat /\ Radix > 1
  /\ HalfSize \in Nat /\ HalfSize > 1 /\ HalfSize % 2 = 0
  /\ Texts \subseteq Seq(Character)
  /\ Keys \subseteq Key
  /\ MaxCalls \in Nat

VARIABLES
  algorithm,
  text,    \* src
  dest,
  call,    \* the activation record: step, cursor and the bytes read so far
  status,  \* what the last call returned
  calls,   \* the number of calls, at most MaxCalls
  entry,   \* history: dest when the call began
  origin   \* history: the keys the text was made from, if it was

parsingVars == <<algorithm, text, dest, call, status, calls, entry, origin>>

-----------------------------------------------------------------------------
Class(p) == IF p \in DOMAIN text THEN text[p].class ELSE "end"
IsDigit(p) == Class(p) = "digit"
IsSigned(p) == Class(p) \in {"plus", "minus"} /\ IsDigit(p + 1)

(* "0x" without digits: libraries do not agree on whether it is a number.   *)
IsPrefix(p) == IsDigit(p) /\ text[p].value = 0 /\ Class(p + 1) = "x"

(* Where the conversion that starts at p finds its first character.         *)
AfterSpace(p) ==
  CHOOSE q \in p .. Len(text) + 1 :
    Class(q) # "space" /\ \A r \in p .. q - 1 : Class(r) = "space"

Converted(value, next) == {[value |-> value, next |-> next]}

(* A slip: the cursor advances by a character, as if it were the index.     *)
ScansByCharacter(p) ==
  IF IsDigit(p) /\ IsDigit(p + 1)
  THEN Converted(text[p].value * Radix + text[p + 1].value, p + 1) ELSE {}

(* What sscanf may make of the text from p on: the byte, as the cast to     *)
(* unsigned char leaves it, and the place the cursor moves to.              *)
Scans(p) ==
  LET q == AfterSpace(p)
  IN  CASE IsDigit(q) /\ IsDigit(q + 1) ->
             Converted(text[q].value * Radix + text[q + 1].value, q + 2)
        [] IsPrefix(q) -> Converted(0, q + 2)
        [] IsDigit(q) /\ ~ IsDigit(q + 1) /\ ~ IsPrefix(q) ->
             Converted(text[q].value, q + 1)
        [] Class(q) = "plus" /\ IsSigned(q) -> Converted(text[q + 1].value, q + 2)
        [] Class(q) = "minus" /\ IsSigned(q) ->
             Converted((- text[q + 1].value) % (Radix * Radix), q + 2)
        [] OTHER -> {}

MayFail(p) ==
  LET q == AfterSpace(p) IN IsPrefix(q) \/ ~ (IsDigit(q) \/ IsSigned(q))

(* The bytes of the upper half that are in the text.                        *)
HiSize == IF algorithm = "AES192" THEN HalfSize \div 2 ELSE HalfSize

HasHi == algorithm # "AES128"

(* The bytes of a key in the order of its text.                             *)
BytesOf(k) == k.lo \o (IF HasHi THEN SubSeq(k.hi, 1, HiSize) ELSE <<>>)

Digit(d) == [class |-> "digit", value |-> d]

(* A slip: "%x" for "%02x".                                                 *)
FormattedUnpadded(bytes) ==
  IF bytes[1] < Radix
  THEN <<Digit(bytes[1])>> \o
       [p \in 1 .. 2 * Len(bytes) - 2 |->
          LET b == bytes[(p + 1) \div 2 + 1]
          IN  Digit(IF p % 2 = 1 THEN b \div Radix ELSE b % Radix)]
  ELSE [p \in 1 .. 2 * Len(bytes) |->
          LET b == bytes[(p + 1) \div 2]
          IN  Digit(IF p % 2 = 1 THEN b \div Radix ELSE b % Radix)]

(* sprintf of "%02x" for each byte.                                         *)
Formatted(bytes) ==
  [p \in 1 .. 2 * Len(bytes) |->
     LET b == bytes[(p + 1) \div 2]
     IN  Digit(IF p % 2 = 1 THEN b \div Radix ELSE b % Radix)]

-----------------------------------------------------------------------------
ParsingInit ==
  /\ algorithm \in Algorithm
  /\ text \in Texts
  /\ dest \in Keys
  /\ call = [step |-> "idle", cursor |-> 1, bytes |-> <<>>]
  /\ status = "SUCCESS"
  /\ calls = 0
  /\ entry = dest
  /\ origin = {}

Return(st) ==
  /\ status' = st
  /\ call' = [step |-> "idle", cursor |-> 1, bytes |-> <<>>]

Called ==
  /\ call.step = "idle"
  /\ calls < MaxCalls
  /\ calls' = calls + 1

(* dest or src is NULL, in reading or in writing.                           *)
RefuseNull ==
  /\ Called
  /\ Return("NULL_ARGUMENT_ERROR")
  /\ entry' = dest
  /\ UNCHANGED <<algorithm, text, dest, origin>>

(* A slip: the destination is cleared first.                                *)
ParseClearing(k) ==
  /\ Called
  /\ entry' = k
  /\ dest' = [lo |-> [i \in 1 .. HalfSize |-> 0], hi |-> [i \in 1 .. HalfSize |-> 0]]
  /\ call' = [step |-> "lo", cursor |-> 1, bytes |-> <<>>]
  /\ UNCHANGED <<algorithm, text, status, origin>>

(* The program has text read into a key that now holds k.                   *)
Parse(k) ==
  /\ Called
  /\ dest' = k
  /\ entry' = k
  /\ call' = [step |-> "lo", cursor |-> 1, bytes |-> <<>>]
  /\ UNCHANGED <<algorithm, text, status, origin>>

Wanted == IF call.step = "lo" THEN HalfSize ELSE HiSize

Reading == call.step # "idle" /\ Len(call.bytes) < Wanted

ReadByte ==
  /\ Reading
  /\ \E r \in Scans(call.cursor) :
       call' = [call EXCEPT !.bytes = Append(@, r.value), !.cursor = r.next]
  /\ UNCHANGED <<algorithm, text, dest, status, calls, entry, origin>>

ReadFails ==
  /\ Reading
  /\ MayFail(call.cursor)
  /\ Return("PARSE_ERROR")
  /\ UNCHANGED <<algorithm, text, dest, calls, entry, origin>>

StoreLo ==
  /\ call.step = "lo" /\ ~ Reading
  /\ dest' = [dest EXCEPT !.lo = call.bytes]
  /\ IF HasHi THEN /\ call' = [call EXCEPT !.step = "hi", !.bytes = <<>>]
                   /\ UNCHANGED status
     ELSE Return("SUCCESS")
  /\ UNCHANGED <<algorithm, text, calls, entry, origin>>

(* What the text does not have of an AES-192 key is zero.                   *)
StoreHi ==
  /\ call.step = "hi" /\ ~ Reading
  /\ dest' = [dest EXCEPT !.hi = [i \in 1 .. HalfSize |-> IF i <= HiSize THEN call.bytes[i] ELSE 0]]
  /\ Return("SUCCESS")
  /\ UNCHANGED <<algorithm, text, calls, entry, origin>>

(* The program has the key it read written to text.                         *)
Format ==
  /\ call.step = "idle" /\ calls > 0
  /\ status = "SUCCESS"
  /\ text' = Formatted(BytesOf(dest))
  /\ origin' = {dest}
  /\ UNCHANGED <<algorithm, dest, call, status, calls, entry>>

ParsingNext ==
  \/ RefuseNull
  \/ \E k \in Keys : Parse(k)
  \/ ReadByte \/ ReadFails \/ StoreLo \/ StoreHi
  \/ Format

ParsingSpec == ParsingInit /\ [][ParsingNext]_parsingVars

-----------------------------------------------------------------------------
(***************************************************************************)
(* Properties.                                                             *)
(***************************************************************************)
ParsingTypeOK ==
  /\ algorithm \in Algorithm
  /\ text \in Seq(Character)
  /\ dest \in Key /\ entry \in Key
  /\ call \in [step : {"idle", "lo", "hi"}, cursor : 1 .. Len(text) + 1, bytes : Seq(Byte)]
  /\ Len(call.bytes) <= HalfSize
  /\ status \in {"SUCCESS", "PARSE_ERROR", "NULL_ARGUMENT_ERROR"}
  /\ calls \in 0 .. MaxCalls
  /\ origin \subseteq Key

Returned(st) == calls > 0 /\ call.step = "idle" /\ status = st

Value(p) == IF p \in DOMAIN text THEN text[p].value ELSE 0

(* Two characters for each byte, the first of them a digit or a sign; the   *)
(* last may be one digit.                                                   *)
Paired == \A p \in DOMAIN text : IsDigit(p) \/ (p % 2 = 1 /\ IsSigned(p))

PairAt(p) ==
  CASE Class(p) = "plus" -> Value(p + 1)
    [] Class(p) = "minus" -> (- Value(p + 1)) % (Radix * Radix)
    [] Class(p) \notin {"plus", "minus"} ->
         IF p + 1 <= Len(text) THEN Value(p) * Radix + Value(p + 1) ELSE Value(p)

PairByte(i) == PairAt(2 * i - 1)

(* Of a text of such pairs, each makes a byte: two digits the byte they say, *)
(* and a sign and a digit that of the number or of its complement.  What is  *)
(* beyond the last byte is left alone.  A text that is one digit short is   *)
(* accepted: the last digit is a byte by itself.  Any shorter one is refused. *)
DigitsMakeBytes ==
  LET bytes == BytesOf(dest)
  IN  Paired =>
        /\ Returned("PARSE_ERROR") => Len(text) < 2 * Len(bytes) - 1
        /\ Returned("SUCCESS") =>
             /\ Len(text) >= 2 * Len(bytes) - 1
             /\ \A i \in DOMAIN bytes : bytes[i] = PairByte(i)

(* A key that was written to text is read back from it, whatever the text   *)
(* looked like that it was first read from and whatever dest held before.   *)
RoundTrip ==
  \A k \in origin :
    /\ ~ Returned("PARSE_ERROR")
    /\ Returned("SUCCESS") => BytesOf(dest) = BytesOf(k)

(* A call that fails leaves the upper half as it was, and the lower half    *)
(* either as it was or read to its end; of a block and an AES-128 key it    *)
(* leaves everything.  Behind an AES-192 key that was read there are zeros,  *)
(* which its expansion relies on.                                           *)
OnlyWholeHalvesChange ==
  /\ ~ Returned("SUCCESS") => dest.hi = entry.hi
  /\ (call.step = "lo" \/ Returned("NULL_ARGUMENT_ERROR")) => dest = entry
  /\ Returned("PARSE_ERROR") /\ ~ HasHi => dest = entry
  /\ Returned("PARSE_ERROR") /\ dest # entry => Len(text) >= HalfSize
  /\ Returned("SUCCESS") /\ algorithm = "AES192" =>
       \A i \in HiSize + 1 .. HalfSize : dest.hi[i] = 0
=============================================================================
