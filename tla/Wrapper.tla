-------------------------------- MODULE Wrapper --------------------------------
(***************************************************************************)
(* Box::encrypt_buffer and Box::decrypt_buffer of the C++ wrapper: the box   *)
(* is asked for the size, a vector of that size is made, the box is called   *)
(* with it and the vector is cut to what *dest_size says by then.  Errors    *)
(* are exceptions, thrown by the destructor of the AES_ErrorDetails that     *)
(* each of the two calls is given.  A composition with Box.                 *)
(***************************************************************************)
EXTENDS BoxSizes

CONSTANTS
  MaxCalls,      \* bound on the calls of the box
  MaxVectorSize  \* std::vector<unsigned char>::max_size()

(* A size that has wrapped around is larger than max_size(), which is half   *)
(* of what a size_t counts; a library that allows more has no memory for it  *)
(* and throws bad_alloc where this one throws length_error.                 *)
ASSUME WrapperAssumption ==
  /\ MaxCalls \in Nat
  /\ MaxVectorSize \in Nat
  /\ (Cells + 1) * BlockSize <= MaxVectorSize
  /\ MaxVectorSize + ByteMax < SizeMod
  /\ Buffers = {"src_buf", "dest_buf"}

VARIABLES
  box, mem, call, heap, size, status, calls, entry,  \* the box and the C call
  wrap,     \* the activation record of encrypt_buffer or decrypt_buffer
  length,   \* dest_buf.size()
  details,  \* the code in the ErrorDetailsThrowsInDestructor of the C call
  thrown    \* the exception the last wrapper call ended with, or "nothing"

boxVars == <<box, mem, call, heap, size, status, calls, entry>>
vars == <<boxVars, wrap, length, details, thrown>>

B == INSTANCE Box

-----------------------------------------------------------------------------
Init ==
  /\ B!Init
  /\ wrap = [op |-> "none", step |-> "idle", full |-> 0, rest |-> 0,
             nullSource |-> FALSE, nullData |-> TRUE, iv |-> box.iv]
  /\ length = 0
  /\ details = "SUCCESS"
  /\ thrown = "nothing"

(* A slip: the constructor leaves the code as it finds it.                  *)
NewDetailsUninitialized == details

(* ErrorDetailsThrowsInDestructor() calls aes_success.                      *)
NewDetails == "SUCCESS"

(* Only a failing function writes the details: aes_make_error.              *)
Report == details' = IF status' = "SUCCESS" THEN NewDetails ELSE status'

GoTo(step) == wrap' = [wrap EXCEPT !.step = step]

(* An exception unwinds the call; dest_buf is destroyed.                    *)
Throw(exception) ==
  /\ thrown' = exception
  /\ length' = 0
  /\ GoTo("idle")

(* The program fills the buffer it will pass.                               *)
Fill(cells) ==
  /\ wrap.step = "idle"
  /\ B!FillBuffer("src_buf", cells)
  /\ wrap' = [wrap EXCEPT !.op = "none"]
  /\ UNCHANGED <<length, details, thrown>>

(* encrypt_buffer or decrypt_buffer is called, possibly with a NULL src_buf. *)
CallWrapper(op, full, rest, nullSource) ==
  /\ wrap.step = "idle"
  /\ calls + 1 < MaxCalls
  /\ IF op = "encrypt" THEN EncryptionFits(box.mode, full, rest)
     ELSE DecryptionFits(full, rest)
  /\ wrap' = [op |-> op, step |-> "sizing", full |-> full, rest |-> rest,
              nullSource |-> nullSource, nullData |-> TRUE, iv |-> box.iv]
  /\ size' = 0
  /\ length' = 0
  /\ thrown' = "nothing"
  /\ UNCHANGED <<box, mem, call, heap, status, calls, entry, details>>

-----------------------------------------------------------------------------
(* The C function with a NULL dest.                                         *)
AskForSize ==
  \/ wrap.op = "encrypt" /\ B!QueryEncryptedSize(wrap.full, wrap.rest)
  \/ wrap.op = "decrypt" /\ B!QueryDecryptedSize(wrap.full, wrap.rest)
  \/ wrap.op = "decrypt" /\ B!RefuseMissingPadding(wrap.full, wrap.rest)

QuerySize ==
  /\ wrap.step = "sizing"
  /\ AskForSize
  /\ Report
  /\ GoTo("sized")
  /\ UNCHANGED <<length, thrown>>

(* ~ErrorDetailsThrowsInDestructor() at the end of the statement.           *)
DestroyDetails ==
  /\ wrap.step \in {"sized", "called"}
  /\ IF details # "SUCCESS" THEN Throw(details)
     ELSE /\ GoTo(IF wrap.step = "sized" THEN "allocate" ELSE "cut")
          /\ UNCHANGED <<length, thrown>>
  /\ UNCHANGED <<boxVars, details>>

(* dest_buf.resize: zeros.  What data() of an empty vector is, nobody says. *)
Allocate ==
  /\ wrap.step = "allocate"
  /\ length' = size
  /\ mem' = [mem EXCEPT !["dest_buf"] = [n \in 1 .. Cells |-> [i \in 1 .. BlockSize |-> 0]]]
  /\ \E null \in BOOLEAN :
       /\ null => size = 0
       /\ wrap' = [wrap EXCEPT !.step = "call", !.nullData = null]
  /\ UNCHANGED <<box, call, heap, size, status, calls, entry, details, thrown>>

AllocationFails ==
  /\ wrap.step = "allocate"
  /\ size # 0
  /\ Throw("bad_alloc")
  /\ UNCHANGED <<boxVars, details>>

-----------------------------------------------------------------------------
(* The C function with dest_buf.data(): once more a query if that is NULL.  *)
AskAgain ==
  /\ wrap.step = "call" /\ wrap.nullData
  /\ AskForSize
  /\ Report
  /\ GoTo("called")
  /\ UNCHANGED <<length, thrown>>

BoxRefuses ==
  /\ wrap.step = "call" /\ ~ wrap.nullData
  /\ wrap.nullSource
  /\ B!RefuseNullSource(wrap.op, wrap.full, wrap.rest)
  /\ Report
  /\ GoTo("called")
  /\ UNCHANGED <<length, thrown>>

BoxBegins ==
  /\ wrap.step = "call" /\ ~ wrap.nullData
  /\ \/ /\ wrap.op = "encrypt"
        /\ wrap.nullSource => wrap.full = 0 /\ wrap.rest = 0
        /\ B!BeginEncrypt("src_buf", "dest_buf", wrap.full, wrap.rest)
     \/ /\ wrap.op = "decrypt" /\ ~ wrap.nullSource
        /\ B!BeginDecrypt("src_buf", "dest_buf", wrap.full, wrap.rest)
  /\ GoTo("running")
  /\ UNCHANGED <<length, details, thrown>>

BoxProgresses ==
  /\ wrap.step = "running"
  /\ B!Progress
  /\ IF call'.step = "idle" THEN Report /\ GoTo("called")
     ELSE UNCHANGED <<details, wrap>>
  /\ UNCHANGED <<length, thrown>>

(* A slip: the vector is returned as it was allocated.                      *)
CutOmitted ==
  /\ wrap.step = "cut"
  /\ size <= MaxVectorSize
  /\ GoTo("idle")
  /\ UNCHANGED <<boxVars, length, details, thrown>>

(* dest_buf.resize(dest_size), and the return.                              *)
Cut ==
  /\ wrap.step = "cut"
  /\ size <= MaxVectorSize
  /\ length' = size
  /\ GoTo("idle")
  /\ UNCHANGED <<boxVars, details, thrown>>

CutFails ==
  /\ wrap.step = "cut"
  /\ size > MaxVectorSize
  /\ Throw("length_error")
  /\ UNCHANGED <<boxVars, details>>

Next ==
  \/ \E cells \in Contents : Fill(cells)
  \/ \E op \in {"encrypt", "decrypt"}, full \in 0 .. Cells, rest \in 0 .. BlockSize - 1,
        nullSource \in BOOLEAN : CallWrapper(op, full, rest, nullSource)
  \/ QuerySize \/ DestroyDetails \/ Allocate \/ AllocationFails
  \/ AskAgain \/ BoxRefuses \/ BoxBegins \/ BoxProgresses
  \/ Cut \/ CutFails

Spec == Init /\ [][Next]_vars

-----------------------------------------------------------------------------
(***************************************************************************)
(* Properties.                                                             *)
(***************************************************************************)
Exception ==
  (B!Status \ {"SUCCESS"}) \cup {"bad_alloc", "length_error"}

(* The C call is in progress exactly while the wrapper waits for it, and    *)
(* the box is never called with dest_size beyond the vector.                *)
TypeOK ==
  /\ B!TypeOK
  /\ wrap \in [op : {"none", "encrypt", "decrypt"},
               step : {"idle", "sizing", "sized", "allocate", "call", "running",
                       "called", "cut"},
               full : 0 .. Cells, rest : 0 .. BlockSize - 1,
               nullSource : BOOLEAN, nullData : BOOLEAN, iv : Block]
  /\ length \in 0 .. MaxVectorSize
  /\ details \in B!Status
  /\ thrown \in Exception \cup {"nothing"}
  /\ call.step # "idle" <=> wrap.step = "running"
  /\ wrap.step \in {"call", "running"} => size = length

(* The size announced to a NULL dest is enough: whatever the mode and the    *)
(* size, the second call writes inside the vector.                          *)
WritesStayInVector ==
  wrap.step \in {"running", "called", "cut"} /\ ~ wrap.nullData =>
    \A o \in length .. Cells * BlockSize - 1 : ByteAt(mem["dest_buf"], o) = 0

Returned == wrap.op # "none" /\ wrap.step = "idle" /\ thrown = "nothing"

Padded == box.mode \in PaddedMode

Given == wrap.full * BlockSize + wrap.rest

(* The bytes the second call has written, if it was not another query.      *)
Written == call.done * BlockSize + (IF call.cut THEN call.rest ELSE 0)

(* A call that returns has put the whole message through the box, once: the *)
(* vector is as long as the message that comes out, all of it was written   *)
(* by the box, and an empty message that does not take padding leaves the   *)
(* box as it was, whether or not data() was NULL.                           *)
VectorHoldsMessage ==
  Returned =>
    /\ length = CASE wrap.op = "encrypt" /\ Padded -> (wrap.full + 1) * BlockSize
                  [] wrap.op = "decrypt" /\ Padded ->
                       Given - ClaimedPadding(mem["dest_buf"], wrap.full)
                  [] OTHER -> Given
    /\ length <= Written
    /\ Written = 0 => box.iv = wrap.iv

ChainedAfter(n) ==
  IF wrap.op = "encrypt"
  THEN Chained(box.mode, box.key, wrap.iv, mem["src_buf"], mem["dest_buf"], n)
  ELSE Chained(box.mode, box.key, wrap.iv, mem["dest_buf"], mem["src_buf"], n)

(* What an exception says of the box.  The codes are those of the C call    *)
(* just made.  After bad_alloc and after a refusal the box is as it was: the *)
(* call may be made again.  A NULL src_buf is what a refusal says, and of no *)
(* bytes it is refused to decryption only.  After the other errors of the   *)
(* box it stands behind the full blocks; length_error is the size of a      *)
(* message shorter than its last byte says.                                 *)
ExceptionTellsProgress ==
  (wrap.step = "idle" /\ wrap.op # "none" /\ thrown # "nothing") =>
    /\ thrown \in B!Status => thrown = status
    /\ thrown \in {"bad_alloc", "NULL_ARGUMENT_ERROR", "MISSING_PADDING_ERROR"} =>
         box.iv = wrap.iv
    /\ thrown = "NULL_ARGUMENT_ERROR" =>
         wrap.nullSource /\ (wrap.op = "encrypt" => wrap.full # 0 \/ wrap.rest # 0)
    /\ thrown \in {"MEMORY_ALLOCATION_ERROR", "INVALID_PKCS7_PADDING_ERROR", "length_error"} =>
         box.iv = ChainedAfter(wrap.full)
    /\ thrown = "length_error" =>
         Padded /\ wrap.op = "decrypt" /\ ClaimedPadding(mem["dest_buf"], wrap.full) > Given
=============================================================================
