------------------------------ MODULE ReceiverOps ------------------------------
(***************************************************************************)
(* libsponge/tcp_receiver.{hh,cc}: the methods of a TCPReceiver, as        *)
(* operators on a record that holds its members.  `ackno' is modelled with *)
(* its test has_ackno, for the optional that the code returns.             *)
(***************************************************************************)
EXTENDS WrappingIntegers, TCPSegments, ReassemblerOps

TCPReceiver(capacity) ==
  [reassembler |-> StreamReassembler(capacity), capacity |-> capacity,
   abs_seqno |-> 0, isn |-> 0, first_segment |-> TRUE]

stream_out(r) == r.reassembler.output

\* A variant that counts what is stored as received.
next_abs_seqno_stored(r, seg, abs_seqno) ==
  IF seg.payload # <<>> THEN stream_out(r).bytes_written + r.reassembler.unassembled_bytes + 1
  ELSE IF abs_seqno = 0 THEN 1 ELSE abs_seqno + (IF seg.fin THEN 1 ELSE 0)

\* A variant that counts the segment itself and not what it made contiguous.
next_abs_seqno_segment(r, seg, abs_seqno) == abs_seqno + length_in_sequence_space(seg)

\* The number expected after a segment that began at the one expected, abs_seqno.
next_abs_seqno(r, seg, abs_seqno) ==
  LET received == IF seg.payload # <<>> THEN stream_out(r).bytes_written + 1
                  ELSE IF abs_seqno = 0 THEN abs_seqno + 1
                  ELSE abs_seqno
  IN  received + (IF seg.fin \/ stream_out(r).input_ended THEN 1 ELSE 0)

\* Right after the SYN, a segment must not begin before the first byte.
repeats_syn(r, temp_abs_seqno) == r.abs_seqno = 1 /\ temp_abs_seqno < r.abs_seqno

receiver_segment_received(r, seg) ==
  LET r1 == IF r.first_segment THEN [r EXCEPT !.first_segment = FALSE, !.isn = seg.seqno] ELSE r
      temp_abs_seqno == unwrap(seg.seqno, r1.isn, r1.abs_seqno)
      index == IF temp_abs_seqno > 0 THEN temp_abs_seqno - 1 ELSE temp_abs_seqno
      r2 == [r1 EXCEPT !.reassembler = push_substring(@, seg.payload, index, seg.fin)]
  IN  IF r.first_segment /\ ~ seg.syn THEN r
      ELSE IF repeats_syn(r1, temp_abs_seqno) THEN r1
      ELSE IF temp_abs_seqno # r1.abs_seqno THEN r2
      ELSE [r2 EXCEPT !.abs_seqno = next_abs_seqno(r2, seg, @)]

has_ackno(r) == ~ r.first_segment

\* A variant that acknowledges what waits to be assembled.
ackno_stored(r) == wrap(r.abs_seqno + r.reassembler.unassembled_bytes, r.isn)

ackno(r) == wrap(r.abs_seqno, r.isn)

window_size(r) == r.capacity - buffer_size(stream_out(r))
=============================================================================
