------------------------------- MODULE SenderOps -------------------------------
(***************************************************************************)
(* libsponge/tcp_sender.{hh,cc}: the handlers of a TCPSender, as operators *)
(* on a record that holds its members (names as in the class, without the  *)
(* underscores).  Time is in the unit of rt_timeout.  The 32-bit timeout   *)
(* and the 16-bit retransmission counter stay far below their limits: the  *)
(* connection gives up after MAX_RETX_ATTEMPTS.                            *)
(***************************************************************************)
EXTENDS WrappingIntegers, TCPSegments, ByteStreamOps

CONSTANTS
  MAX_PAYLOAD_SIZE,   \* TCPConfig::MAX_PAYLOAD_SIZE
  rt_timeout          \* the initial retransmission timeout

ASSUME SenderAssumption == /\ MAX_PAYLOAD_SIZE \in Nat \ {0}
                           /\ rt_timeout \in Nat \ {0}
                           /\ SeqSize >= 4

TCPSender(capacity, isn) ==
  [isn |-> isn, segments_out |-> <<>>, outstanding_segments |-> <<>>,
   applying_retransmission_timeout |-> rt_timeout, last_tick_time |-> 0,
   timing_begins |-> FALSE, consecutive_retransmissions |-> 0,
   stream |-> ByteStream(capacity), next_seqno |-> 0, confirmed_seqno |-> 0,
   fin_sent |-> FALSE, bytes_in_flight |-> 0, receiver_window_size |-> 0]

\* A variant that starts the timer only for a segment that is not the first.
send_tcp_segment_no_timer(s, seg) ==
  LET numbered == [seg EXCEPT !.seqno = wrap(s.next_seqno, s.isn)]
      length   == length_in_sequence_space(seg)
  IN  [s EXCEPT !.segments_out = Append(@, numbered),
                !.outstanding_segments = Append(@, numbered),
                !.next_seqno = @ + length,
                !.bytes_in_flight = @ + length,
                !.timing_begins = s.next_seqno > 0]

\* A variant that counts only the payload as in flight.
send_tcp_segment_payload(s, seg) ==
  LET numbered == [seg EXCEPT !.seqno = wrap(s.next_seqno, s.isn)]
  IN  [s EXCEPT !.segments_out = Append(@, numbered),
                !.outstanding_segments = Append(@, numbered),
                !.next_seqno = @ + length_in_sequence_space(seg),
                !.bytes_in_flight = @ + Len(seg.payload),
                !.timing_begins = TRUE,
                !.last_tick_time = IF s.timing_begins THEN @ ELSE 0]

send_tcp_segment(s, seg) ==
  LET numbered == [seg EXCEPT !.seqno = wrap(s.next_seqno, s.isn)]
      length   == length_in_sequence_space(seg)
  IN  [s EXCEPT !.segments_out = Append(@, numbered),
                !.outstanding_segments = Append(@, numbered),
                !.next_seqno = @ + length,
                !.bytes_in_flight = @ + length,
                !.timing_begins = TRUE,
                !.last_tick_time = IF s.timing_begins THEN @ ELSE 0]

\* A zero window counts as one: it is probed with a segment of length one.
logical_window(s) == IF s.receiver_window_size = 0 THEN 1 ELSE s.receiver_window_size

\* The loop of fill_window() keeps this count in a local variable: every segment
\* it sends lowers it by as much as it raises next_seqno.
available_window(s) == logical_window(s) - (s.next_seqno - s.confirmed_seqno)

\* A variant that lets FIN ride on a segment that already fills the window.
fin_fits_always(s, payload) == eof(s.stream)

\* FIN rides on the segment if the stream has ended and the window has room.
fin_fits(s, payload) == eof(s.stream) /\ Len(payload) < available_window(s)

\* One round of the loop of fill_window(); after the last one it does nothing.
send_payload(s) ==
  IF buffer_empty(s.stream) \/ available_window(s) <= 0
  THEN s
  ELSE LET size    == Smaller(Smaller(buffer_size(s.stream), available_window(s)), MAX_PAYLOAD_SIZE)
           payload == peek_output(s.stream, size)
           t       == [s EXCEPT !.stream = pop_output(@, size)]
           fin     == fin_fits(t, payload)
       IN  [send_tcp_segment(t, [BlankSegment EXCEPT !.payload = payload, !.fin = fin])
              EXCEPT !.fin_sent = fin]

\* The loop takes at least one byte of the buffer in every round.
send_payloads(s) ==
  LET after[n \in 0 .. buffer_size(s.stream)] == IF n = 0 THEN s ELSE send_payload(after[n - 1])
  IN  after[buffer_size(s.stream)]

\* A variant that does not remember that FIN was sent.
send_fin_again(s) == send_tcp_segment(s, [BlankSegment EXCEPT !.fin = TRUE])

send_fin(s) == [send_tcp_segment(s, [BlankSegment EXCEPT !.fin = TRUE]) EXCEPT !.fin_sent = TRUE]

fill_window(s) ==
  CASE s.fin_sent -> s
    [] ~ s.fin_sent /\ s.next_seqno = 0 -> send_tcp_segment(s, [BlankSegment EXCEPT !.syn = TRUE])
    [] ~ s.fin_sent /\ s.next_seqno # 0 /\ available_window(s) <= 0 -> s
    [] ~ s.fin_sent /\ s.next_seqno # 0 /\ available_window(s) > 0 ->
         IF eof(s.stream) THEN send_fin(s) ELSE send_payloads(s)

\* A retransmission is counted, and the timeout doubled, unless it probes a zero window.
back_off(s) == [s EXCEPT !.consecutive_retransmissions = @ + 1,
                         !.applying_retransmission_timeout = @ * 2]

\* A variant that resends the newest segment instead of the oldest.
retransmitted_newest(s) == s.outstanding_segments[Len(s.outstanding_segments)]

\* The segment that the timer resends.
retransmitted(s) == Head(s.outstanding_segments)

sender_tick(s, ms) ==
  LET elapsed == s.last_tick_time + ms
  IN  IF ~ s.timing_begins THEN s
      ELSE IF elapsed >= s.applying_retransmission_timeout /\ s.outstanding_segments # <<>>
      THEN LET t == [s EXCEPT !.segments_out = Append(@, retransmitted(s)), !.last_tick_time = 0]
           IN  IF s.receiver_window_size > 0 \/ retransmitted(s).syn THEN back_off(t) ELSE t
      ELSE [s EXCEPT !.last_tick_time = elapsed]

\* The ackno that covers an outstanding segment.
outstanding_ackno(s, seg) ==
  unwrap(seg.seqno, s.isn, s.next_seqno) + length_in_sequence_space(seg)

\* A variant that drops a segment as soon as its first number is acknowledged.
covered_partly(s, abs_ackno, k) ==
  LET q == s.outstanding_segments
  IN  /\ \A i \in 1 .. k : unwrap(q[i].seqno, s.isn, s.next_seqno) < abs_ackno
      /\ k < Len(q) => abs_ackno <= unwrap(q[k + 1].seqno, s.isn, s.next_seqno)

\* A variant in which any acknowledgment empties the queue.
covered_all(s, abs_ackno, k) == k = Len(s.outstanding_segments)

\* The loop of ack_received() stops after k segments: the first k are covered by
\* the ackno and the next one, if there is one, is not.
covered(s, abs_ackno, k) ==
  LET q == s.outstanding_segments
  IN  /\ \A i \in 1 .. k : outstanding_ackno(s, q[i]) <= abs_ackno
      /\ k < Len(q) => abs_ackno < outstanding_ackno(s, q[k + 1])

\* The sequence numbers that the first k of the segments q take up.
sequence_space(q, k) ==
  LET sum[i \in 0 .. k] == IF i = 0 THEN 0 ELSE sum[i - 1] + length_in_sequence_space(q[i])
  IN  sum[k]

\* A variant in which every acknowledgment restarts the timer.
remove_covered_restarting(s, k) ==
  [s EXCEPT !.outstanding_segments = SubSeq(@, k + 1, Len(@)),
            !.bytes_in_flight = @ - sequence_space(s.outstanding_segments, k),
            !.last_tick_time = 0]

\* The first k outstanding segments leave the queue; any such one restarts the timer.
remove_covered(s, k) ==
  IF k = 0 THEN s
  ELSE [s EXCEPT !.outstanding_segments = SubSeq(@, k + 1, Len(@)),
                 !.bytes_in_flight = @ - sequence_space(s.outstanding_segments, k),
                 !.applying_retransmission_timeout = rt_timeout,
                 !.consecutive_retransmissions = 0,
                 !.last_tick_time = 0]

\* An old ackno, and one beyond what was sent, are ignored.
ack_acceptable(s, abs_ackno) == s.confirmed_seqno <= abs_ackno /\ abs_ackno <= s.next_seqno

\* A variant that does not fill the window again once everything is acknowledged.
all_covered_no_fill(s, k) == [s EXCEPT !.timing_begins = FALSE]

\* Everything outstanding is covered: if anything was, fill the window again.
all_covered(s, k) == LET t == IF k > 0 THEN fill_window(s) ELSE s
                     IN  [t EXCEPT !.timing_begins = t.outstanding_segments # <<>>]

ack_received(s, ackno, window_size) ==
  LET abs_ackno == unwrap(ackno, s.isn, s.next_seqno)
  IN  IF ~ ack_acceptable(s, abs_ackno) THEN s
      ELSE LET k == CHOOSE j \in 0 .. Len(s.outstanding_segments) : covered(s, abs_ackno, j)
               t == remove_covered([s EXCEPT !.confirmed_seqno = abs_ackno,
                                             !.receiver_window_size = window_size], k)
           IN  IF t.outstanding_segments # <<>> THEN t ELSE all_covered(t, k)

send_empty_segment(s) ==
  [s EXCEPT !.segments_out = Append(@, [BlankSegment EXCEPT !.seqno = wrap(s.next_seqno, s.isn)])]
=============================================================================
