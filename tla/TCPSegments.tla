------------------------------ MODULE TCPSegments ------------------------------
(***************************************************************************)
(* libsponge/tcp_helpers/tcp_segment.{hh,cc} and the fields of             *)
(* tcp_header.hh that the protocol reads.  A payload is a sequence of      *)
(* bytes; a byte is named by its position in the stream it belongs to, so  *)
(* that a lost, repeated or misplaced byte is visible.                     *)
(***************************************************************************)
EXTENDS Integers, Sequences

\* A default-constructed TCPSegment.
BlankSegment == [seqno |-> 0, syn |-> FALSE, fin |-> FALSE, rst |-> FALSE,
                 ack |-> FALSE, ackno |-> 0, win |-> 0, payload |-> <<>>]

\* The stream's bytes from .. to, each named by its position (counted from 1).
Bytes(from, to) == [i \in 1 .. to - from + 1 |-> from + i - 1]

length_in_sequence_space(seg) ==
  Len(seg.payload) + (IF seg.syn THEN 1 ELSE 0) + (IF seg.fin THEN 1 ELSE 0)
=============================================================================
