--------------------------- MODULE SenderInvariants ----------------------------
(***************************************************************************)
(* What the members of a TCPSender hold, and what its handlers do to them: *)
(* the predicates in which the lemmas about it are stated.                 *)
(***************************************************************************)
EXTENDS SenderOps, StreamInvariants

\* The members of a TCPSender.
SenderRecord == [isn : SeqNo, segments_out : Seq(SegmentRecord),
                 outstanding_segments : Seq(SegmentRecord),
                 applying_retransmission_timeout : Nat, last_tick_time : Nat,
                 timing_begins : BOOLEAN, consecutive_retransmissions : Nat,
                 stream : StreamRecord, next_seqno : Nat, confirmed_seqno : Nat,
                 fin_sent : BOOLEAN, bytes_in_flight : Int, receiver_window_size : Nat]

\* The largest window for which the numbers of the outstanding segments are told
\* apart; a 16-bit window is far below the quarter of 2^32.
Quarter == Half \div 2

\* The segment holds the part of the sender's stream that begins at the absolute
\* sequence number p: SYN is number 0, byte n has number n, FIN comes last.
Carries(s, seg, p) ==
  /\ seg.seqno = wrap(p, s.isn)
  /\ p + length_in_sequence_space(seg) <= s.next_seqno
  /\ length_in_sequence_space(seg) \in 1 .. Quarter
  /\ seg.payload = Bytes(p, p + Len(seg.payload) - 1)
  /\ seg.syn <=> p = 0
  /\ seg.syn => seg.payload = <<>> /\ ~ seg.fin
  /\ seg.fin <=> s.fin_sent /\ p + length_in_sequence_space(seg) = s.next_seqno

\* The outstanding segments follow each other: pos[i] is the absolute number at
\* which the i-th begins, and the end of the last one is next_seqno.
Chain(s, pos) ==
  LET q == s.outstanding_segments
      n == Len(q)
  IN  /\ \A i \in 1 .. n : /\ Carries(s, q[i], pos[i])
                           /\ pos[i + 1] = pos[i] + length_in_sequence_space(q[i])
      /\ \A i, j \in 1 .. n + 1 : i < j => pos[i] < pos[j]
      /\ pos[n + 1] = s.next_seqno
      /\ pos[1] <= s.confirmed_seqno
      /\ n > 0 => s.confirmed_seqno < pos[2]
      /\ s.bytes_in_flight = s.next_seqno - pos[1]

\* The queue, the window and the numbers agree.
QueueInv(s) ==
  /\ s \in SenderRecord
  /\ s.receiver_window_size <= Quarter
  /\ s.confirmed_seqno <= s.next_seqno
  /\ s.next_seqno <= s.confirmed_seqno + Quarter
  /\ \E pos \in [1 .. Len(s.outstanding_segments) + 1 -> 0 .. s.next_seqno] : Chain(s, pos)

\* What has been read from the stream is what has been numbered.
NumberedInv(s) ==
  /\ StreamInv(s.stream)
  /\ s.next_seqno = 0 => ~ s.fin_sent /\ s.stream.bytes_read = 0
  /\ s.next_seqno > 0 /\ ~ s.fin_sent => s.next_seqno = s.stream.bytes_read + 1
  /\ s.fin_sent => eof(s.stream) /\ s.next_seqno = s.stream.bytes_written + 2

\* What every handler keeps.
SenderInv(s) == QueueInv(s) /\ NumberedInv(s)

\* The timer runs as long as something is outstanding.
TimerInv(s) == s.timing_begins <=> s.outstanding_segments # <<>>

\* Nothing waits with nothing to set it in motion.
MovingInv(s) ==
  s.next_seqno > 0 /\ s.outstanding_segments = <<>> =>
    /\ buffer_empty(s.stream)
    /\ s.stream.input_ended => s.fin_sent

-----------------------------------------------------------------------------

\* send_tcp_segment(), and the flag that fill_window() sets after it, member by
\* member.
Send(s, seg) == [send_tcp_segment(s, seg) EXCEPT !.fin_sent = seg.fin]

\* The segment with the next number.
Numbered(s, seg) == [seg EXCEPT !.seqno = wrap(s.next_seqno, s.isn)]

\* The segment is the next part of the stream, and the window has room for it.
Admitted(s, seg) ==
  /\ length_in_sequence_space(seg) \in 1 .. Quarter
  /\ s.next_seqno + length_in_sequence_space(seg) <= s.confirmed_seqno + logical_window(s)
  /\ seg.payload = Bytes(s.next_seqno, s.next_seqno + Len(seg.payload) - 1)
  /\ seg.syn <=> s.next_seqno = 0
  /\ seg.syn => seg.payload = <<>> /\ ~ seg.fin

\* The members that the queue's invariant is about.
SameQueue(s, t) ==
  /\ t.isn = s.isn
  /\ t.outstanding_segments = s.outstanding_segments
  /\ t.next_seqno = s.next_seqno
  /\ t.confirmed_seqno = s.confirmed_seqno
  /\ t.fin_sent = s.fin_sent
  /\ t.bytes_in_flight = s.bytes_in_flight
  /\ t.receiver_window_size = s.receiver_window_size

-----------------------------------------------------------------------------

\* Whatever segments_out has gained carries the stream from s.next_seqno on.
NewSegments(s, t) ==
  \A i \in 1 .. Len(t.segments_out) :
    \/ i \in 1 .. Len(s.segments_out) /\ t.segments_out[i] = s.segments_out[i]
    \/ \E p \in s.next_seqno .. t.next_seqno : Carries(t, t.segments_out[i], p)

\* What any number of calls of send_tcp_segment() by fill_window() does.
Sent(s, t) ==
  /\ t.isn = s.isn
  /\ t.confirmed_seqno = s.confirmed_seqno
  /\ t.receiver_window_size = s.receiver_window_size
  /\ t.consecutive_retransmissions = s.consecutive_retransmissions
  /\ t.stream.bytes_written = s.stream.bytes_written
  /\ t.stream.input_ended = s.stream.input_ended
  /\ t.stream.capacity = s.stream.capacity
  /\ s.next_seqno <= t.next_seqno
  /\ s.next_seqno < t.next_seqno => t.next_seqno <= t.confirmed_seqno + logical_window(t)
  /\ s.fin_sent => t.fin_sent /\ t.next_seqno = s.next_seqno
  /\ t.fin_sent => s.fin_sent \/ s.next_seqno < t.next_seqno
  /\ s.outstanding_segments # <<>> => t.outstanding_segments # <<>>
  /\ TimerInv(s) => TimerInv(t)
  /\ NewSegments(s, t)

-----------------------------------------------------------------------------

\* The segments that fill_window() builds.
Part(payload, syn, fin) == [BlankSegment EXCEPT !.payload = payload, !.syn = syn, !.fin = fin]

\* The loop of fill_window(), as the function that send_payloads() defines.
Rounds(s, N) == LET after[n \in 0 .. N] == IF n = 0 THEN s ELSE send_payload(after[n - 1])
                IN  after

-----------------------------------------------------------------------------

\* The sequence numbers that the first segments of a queue take up.
Sums(q, k) == LET sum[i \in 0 .. k] == IF i = 0 THEN 0 ELSE sum[i - 1] + length_in_sequence_space(q[i])
              IN  sum

\* pos says where the outstanding segments begin.
IsChain(s, pos) ==
  pos \in [1 .. Len(s.outstanding_segments) + 1 -> 0 .. s.next_seqno] /\ Chain(s, pos)

-----------------------------------------------------------------------------

\* What holds between two calls of the owner.
SenderOK(s) == SenderInv(s) /\ TimerInv(s) /\ MovingInv(s)

\* What a handler may do: it never takes back what was confirmed or numbered, sends
\* new segments only within the window, and adds to segments_out only those.
Moved(s, t) ==
  /\ t.isn = s.isn
  /\ s.confirmed_seqno <= t.confirmed_seqno
  /\ t.confirmed_seqno <= s.next_seqno
  /\ t.stream.bytes_written = s.stream.bytes_written
  /\ t.stream.input_ended = s.stream.input_ended
  /\ t.stream.capacity = s.stream.capacity
  /\ s.next_seqno <= t.next_seqno
  /\ s.next_seqno < t.next_seqno => t.next_seqno <= t.confirmed_seqno + logical_window(t)
  /\ s.fin_sent => t.fin_sent /\ t.next_seqno = s.next_seqno
  /\ t.fin_sent => s.fin_sent \/ s.next_seqno < t.next_seqno
  /\ NewSegments(s, t)
=============================================================================
