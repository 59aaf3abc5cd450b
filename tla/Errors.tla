-------------------------------- MODULE Errors --------------------------------
(***************************************************************************)
(* Error details and the messages made of them: error.c, and error.hpp,     *)
(* which asks for the size of a message before it asks for the message.     *)
(* Strings are sequences of characters, of which the terminating zero is    *)
(* not one.  A character is a number; that of a fixed part of a message     *)
(* stands for the whole part.                                               *)
(***************************************************************************)
EXTENDS Integers, Sequences

CONSTANTS
  SrcSize,  \* sizeof(parse_error.src): 128 in the code
  WhatSize  \* sizeof(parse_error.what): 32 in the code

ASSUME ErrorsAssumption == SrcSize \in Nat \ {0} /\ WhatSize \in Nat \ {0}

(* aes_fill_string: as much of src as fits in front of a zero.  The same is *)
(* what snprintf leaves in a buffer of that size.                           *)
FillString(size, src) == SubSeq(src, 1, IF Len(src) < size THEN Len(src) ELSE size - 1)

ErrorParse(src, what) ==
  [ec |-> "PARSE_ERROR", src |-> FillString(SrcSize, src), what |-> FillString(WhatSize, what)]

(* The errors without parameters.                                           *)
Error(ec) == [ec |-> ec, src |-> <<>>, what |-> <<>>]

CouldntParse == -10
As == -11

(* aes_strerror.                                                            *)
StrError == [INVALID_PKCS7_PADDING_ERROR |-> <<-12>>, MISSING_PADDING_ERROR |-> <<-13>>,
             MEMORY_ALLOCATION_ERROR |-> <<-14>>]

(* What the formatter of the code prints when it has the room.              *)
Message(details) ==
  IF details.ec = "PARSE_ERROR"
  THEN <<CouldntParse>> \o details.src \o <<As>> \o details.what
  ELSE StrError[details.ec]

(* A slip: strlen without the terminating zero.                             *)
AnnouncedSizeOfText(details) == Len(Message(details))

(* aes_format_error with a NULL dest.                                       *)
AnnouncedSize(details) == Len(Message(details)) + 1

FormatError(details, dest_size) == FillString(dest_size, Message(details))

(* Error::format_error_message, as what() gives it out again.               *)
FormatErrorMessage(details) == FormatError(details, AnnouncedSize(details))
=============================================================================
