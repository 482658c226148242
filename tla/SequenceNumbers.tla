---------------------------- MODULE SequenceNumbers ----------------------------
(***************************************************************************)
(* wrap() and unwrap() against what they are for.  A peer's stream is at   *)
(* the absolute number `absolute', the endpoint has last seen `checkpoint'; the *)
(* two move on and the peer's number travels as a 32-bit one.              *)
(***************************************************************************)
EXTENDS WrappingIntegers

CONSTANT MaxAbs   \* bound: the largest absolute sequence number

ASSUME MaxAbsAssumption == MaxAbs \in Nat

VARIABLES isn, absolute, checkpoint

numbersVars == <<isn, absolute, checkpoint>>

NumbersInit == isn \in SeqNo /\ absolute = 0 /\ checkpoint = 0

\* The peer sends from another place of its stream: further on, or again.
PeerMoves == /\ absolute' \in 0 .. MaxAbs
             /\ UNCHANGED <<isn, checkpoint>>

\* The endpoint has seen a later part of the stream.
CheckpointMoves == /\ checkpoint' \in checkpoint + 1 .. MaxAbs
                   /\ UNCHANGED <<isn, absolute>>

NumbersNext == PeerMoves \/ CheckpointMoves

NumbersSpec == NumbersInit /\ [][NumbersNext]_numbersVars

-----------------------------------------------------------------------------
Unwrapped == unwrap(wrap(absolute, isn), isn, checkpoint)

Apart(a, b) == IF a >= b THEN a - b ELSE b - a

\* wrapping_integers.cc: unwrap() returns an absolute number that wraps to the
\* 32-bit one it was given, and no other absolute number that does so is closer to
\* the checkpoint; in particular it never comes out below zero.
UnwrapIsClosest ==
  /\ Unwrapped \in Nat
  /\ wrap(Unwrapped, isn) = wrap(absolute, isn)
  /\ \A x \in 0 .. MaxAbs : wrap(x, isn) = wrap(absolute, isn) =>
       Apart(Unwrapped, checkpoint) <= Apart(x, checkpoint)

\* unwrap() undoes wrap() whenever the peer's number is less than half the
\* sequence space away from the checkpoint, on either side.
UnwrapUndoesWrap == Apart(absolute, checkpoint) < Half => Unwrapped = absolute
=============================================================================
