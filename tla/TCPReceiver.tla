------------------------------ MODULE TCPReceiver ------------------------------
(***************************************************************************)
(* A TCPReceiver whose peer sends one stream: SYN, the segments that cut   *)
(* it up, FIN on the last or on its own, and empty segments that carry     *)
(* acknowledgments.  The network repeats and reorders them at will; the    *)
(* application reads.  The peer never sends beyond the advertised window,  *)
(* except for the one sequence number with which it probes a zero window.  *)
(***************************************************************************)
EXTENDS ReceivedStream, ReceiverOps

CONSTANTS
  PeerIsn,   \* the peer's initial sequence number
  Peers      \* what a peer may send: sets of [from, len, syn, fin] with absolute numbers

\* A segment of the peer: the SYN, a part of the stream, the FIN with the last byte or
\* after it, or none of them, with the number of the byte, FIN or nothing that is next.
PeerSegment(p) ==
  /\ p.from \in Nat /\ p.len \in Nat /\ p.syn \in BOOLEAN /\ p.fin \in BOOLEAN
  /\ p.syn <=> p.from = 0
  /\ p.syn => p.len = 0 /\ ~ p.fin
  /\ p.from <= StreamLength + 2
  /\ p.len > 0 => p.from + p.len <= StreamLength + 1
  /\ p.fin => p.from + p.len = StreamLength + 1

\* The peer cuts its stream once, as TCPSender does: what it sends again is a segment
\* that it sent before.
SegmentsCutOnce(segs) ==
  \A p, q \in segs : p.len > 0 /\ q.len > 0 =>
    \/ p.from = q.from /\ p.len = q.len /\ p.fin = q.fin
    \/ p.from + p.len <= q.from
    \/ q.from + q.len <= p.from

\* The stream is shorter than half the sequence numbers, since any of its segments may
\* be repeated at any time: a 32-bit number then tells which one it is.
ASSUME ReceiverAssumption ==
  /\ capacity \in Nat \ {0}
  /\ PeerIsn \in SeqNo
  /\ StreamLength \in Nat /\ StreamLength + 3 < Half
  /\ MaxStored \in Nat
  /\ \A segs \in Peers : SegmentsCutOnce(segs) /\ \A p \in segs : PeerSegment(p)

VARIABLES
  receiver,
  segments       \* what this peer sends

receiverVars == <<receiver, segments>>

Init == /\ receiver = TCPReceiver(capacity)
        /\ segments \in Peers

StreamOut == stream_out(receiver)

\* The segment as it comes in: bytes named by their position, number wrapped.
Arriving(p) == [BlankSegment EXCEPT !.seqno = wrap(p.from, PeerIsn), !.syn = p.syn, !.fin = p.fin,
                                    !.payload = Bytes(p.from, p.from + p.len - 1)]

\* The first sequence number that the peer may not use; 1 before the SYN is known.
WindowEnd == IF receiver.first_segment THEN 1
             ELSE 1 + StreamOut.bytes_written + Larger(window_size(receiver), 1)

SegmentReceived(p) ==
  /\ ~ receiver.reassembler.hung
  /\ p.from + length_in_sequence_space(Arriving(p)) <= WindowEnd
  /\ receiver' = receiver_segment_received(receiver, Arriving(p))
  /\ Len(receiver'.reassembler.storage) <= MaxStored
  /\ UNCHANGED segments

ReadStream(n) ==
  /\ ~ receiver.reassembler.hung
  /\ n <= buffer_size(StreamOut)
  /\ receiver' = [receiver EXCEPT !.reassembler.output = pop_output(@, n)]
  /\ UNCHANGED segments

Next == \/ \E p \in segments : SegmentReceived(p)
        \/ \E n \in 1 .. capacity : ReadStream(n)

Spec == Init /\ [][Next]_receiverVars

-----------------------------------------------------------------------------
\* A byte that is acknowledged has been written to the output: the peer will never
\* send it again (segment_received() computes abs_seqno apart from the reassembler).
AckedIsWritten == Smaller(receiver.abs_seqno - 1, StreamLength) <= StreamOut.bytes_written

\* The peer sends nothing but its stream: no segment is empty.
OnlyStream == \A p \in segments : p.syn \/ p.fin \/ p.len > 0

\* The peer's FIN always comes with the last byte.
FinRides == \A p \in segments : p.fin => p.len > 0

\* Until the peer's FIN counts, the ackno is exactly one beyond what was written: no
\* byte waits in the output without being acknowledged, whatever order its segments
\* came in.  (An empty segment may hold up what is stored behind it.)
AckFollowsOutput ==
  OnlyStream /\ ~ receiver.first_segment /\ receiver.abs_seqno <= StreamLength + 1
    => receiver.abs_seqno = StreamOut.bytes_written + 1

\* The right edge of the window never moves to the left: the peer may already have
\* sent what it was once allowed to send.
WindowNeverShrinks ==
  [][OnlyStream => receiver'.abs_seqno + window_size(receiver')
                     >= receiver.abs_seqno + window_size(receiver)]_receiverVars

\* tcp_receiver.hh on ackno(): "the sequence number of the first byte in the stream
\* that the receiver hasn't received": SYN, the bytes written, and FIN once the
\* output has ended.
AckIsFirstNotReceived ==
  OnlyStream /\ ~ receiver.first_segment =>
    receiver.abs_seqno = 1 + StreamOut.bytes_written + (IF StreamOut.input_ended THEN 1 ELSE 0)

\* The same, for a peer whose FIN comes with the last byte: abs_seqno and the
\* reassembler, which are kept apart, then never disagree about the end.
AckIsExact == FinRides => AckIsFirstNotReceived

=============================================================================
