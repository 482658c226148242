---------------------------- MODULE WrappingIntegers ----------------------------
(***************************************************************************)
(* libsponge/wrapping_integers.{hh,cc}: 32-bit sequence numbers on the     *)
(* wire, 64-bit absolute sequence numbers inside the stack.                *)
(*                                                                         *)
(* The width is a parameter: SeqSize stands for 2^32, so that the model    *)
(* checker meets wrap-around with small numbers.  Absolute numbers are     *)
(* natural numbers: the 2^63 and 2^64 limits of the 64-bit arithmetic in   *)
(* unwrap() are out of reach of a connection and are not modelled.         *)
(***************************************************************************)
EXTENDS Integers

CONSTANT SeqSize

\* SeqSize stands for 2^32: a positive even number is all that is used of it.
ASSUME SeqSizeAssumption == /\ SeqSize \in Nat \ {0}
                            /\ SeqSize % 2 = 0

Half == SeqSize \div 2

\* The values of a WrappingInt32.
SeqNo == 0 .. SeqSize - 1

wrap(n, isn) == (isn + n) % SeqSize

\* A variant of the signed distance that forgets that it may be negative.
distance_unsigned(n, m) == (n - m) % SeqSize

\* int32_t operator-(WrappingInt32, WrappingInt32): the uint32_t difference
\* read as a signed number.
distance(n, m) == LET d == (n - m) % SeqSize
                  IN  IF d >= Half THEN d - SeqSize ELSE d

\* A variant of unwrap() that does not come back from below zero.
unwrap_negative(n, isn, checkpoint) == checkpoint + distance(n, wrap(checkpoint, isn))

unwrap(n, isn, checkpoint) ==
  LET abs_seqno == checkpoint + distance(n, wrap(checkpoint, isn))
  IN  IF abs_seqno >= 0 THEN abs_seqno ELSE abs_seqno + SeqSize
=============================================================================
