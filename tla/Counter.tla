-------------------------------- MODULE Counter --------------------------------
(***************************************************************************)
(* The counter blocks of CTR as aes_AES_inc_block makes them: the sixteen   *)
(* bytes are reversed, one is added to the lowest 32-bit lane of the         *)
(* register, and the bytes are reversed back.  Modes has this step as Inc.  *)
(***************************************************************************)
EXTENDS Integers

CONSTANTS
  Base,       \* 256 in the code: the values of a byte are 0 .. Base - 1
  Starts,     \* the initialization vectors considered
  MaxBlocks   \* bound on the blocks encrypted

ByteValue == 0 .. Base - 1

Block == [1 .. 16 -> ByteValue]

ASSUME CounterAssumption ==
  /\ Base \in Nat /\ Base > 1
  /\ Starts \subseteq Block
  /\ MaxBlocks \in Nat

VARIABLES
  start,     \* the initialization vector
  iv,        \* the counter block
  step,      \* where the function that advances it stands
  advances   \* the number of times it has been advanced, at most MaxBlocks

counterVars == <<start, iv, step, advances>>

-----------------------------------------------------------------------------
Reversed(b) == [i \in 1 .. 16 |-> b[17 - i]]

(* Slips: no carry between bytes; 64-bit lanes.                             *)
IncLaneWithoutCarry(b) == [b EXCEPT ![1] = (@ + 1) % Base]

IncLaneWide(b) ==
  [i \in 1 .. 16 |->
     IF i <= 8 /\ \A j \in 1 .. i - 1 : b[j] = Base - 1 THEN (b[i] + 1) % Base ELSE b[i]]

(* aes_inc_block128: paddd of 1 to the first lane, whose bytes are the       *)
(* first four, the lowest first.  There is no carry out of the lane.        *)
IncLane(b) ==
  [i \in 1 .. 16 |->
     IF i <= 4 /\ \A j \in 1 .. i - 1 : b[j] = Base - 1 THEN (b[i] + 1) % Base ELSE b[i]]

CounterInit ==
  /\ start \in Starts
  /\ iv = start
  /\ step = "ready"
  /\ advances = 0

ReverseBytes ==
  /\ step = "ready"
  /\ advances < MaxBlocks
  /\ iv' = Reversed(iv)
  /\ step' = "reversed"
  /\ UNCHANGED <<start, advances>>

AddOne ==
  /\ step = "reversed"
  /\ iv' = IncLane(iv)
  /\ step' = "added"
  /\ UNCHANGED <<start, advances>>

ReverseBack ==
  /\ step = "added"
  /\ iv' = Reversed(iv)
  /\ step' = "ready"
  /\ advances' = advances + 1
  /\ UNCHANGED start

CounterNext == ReverseBytes \/ AddOne \/ ReverseBack

CounterSpec == CounterInit /\ [][CounterNext]_counterVars

-----------------------------------------------------------------------------
(***************************************************************************)
(* Properties.                                                             *)
(***************************************************************************)
(* The last four bytes of a block as a number, the first of them highest.   *)
LastWord(b) == ((b[13] * Base + b[14]) * Base + b[15]) * Base + b[16]

Period == Base * Base * Base * Base

CounterTypeOK ==
  /\ start \in Block
  /\ iv \in Block
  /\ step \in {"ready", "reversed", "added"}
  /\ advances \in 0 .. MaxBlocks

(* The counter is the last four bytes of the block, in big-endian order: it *)
(* counts from what the initialization vector has there, wraps around       *)
(* without a carry, and the twelve bytes before it stay what they are.      *)
CountsLastWord ==
  step = "ready" =>
    /\ LastWord(iv) = (LastWord(start) + advances) % Period
    /\ \A i \in 1 .. 12 : iv[i] = start[i]

(* No counter block comes twice in a message of up to 2^32 blocks, and so   *)
(* no part of the key stream does.  After that the first one comes again.   *)
RepeatsAfterPeriod ==
  step = "ready" => (iv = start <=> advances % Period = 0)
=============================================================================
