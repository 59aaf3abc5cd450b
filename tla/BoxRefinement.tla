----------------------------- MODULE BoxRefinement -----------------------------
(***************************************************************************)
(* A Box implements an AtomicBox.  While a call runs its caller sees        *)
(* nothing of it: the abstract state is the one at its entry, and changes   *)
(* when the call returns.                                                   *)
(***************************************************************************)
EXTENDS Box

Idle == call.step = "idle"

Atomic ==
  INSTANCE AtomicBox WITH
    box  <- IF Idle THEN box ELSE [box EXCEPT !.iv = entry.iv],
    mem  <- IF Idle THEN mem ELSE entry.mem,
    size <- IF Idle THEN size ELSE entry.size

(* The block loop, the temporaries, the early returns and the cleanup       *)
(* labels of box.c together do what AtomicBox does in one step.             *)
ImplementsAtomicBox == Atomic!Spec
=============================================================================
