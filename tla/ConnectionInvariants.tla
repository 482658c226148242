------------------------- MODULE ConnectionInvariants --------------------------
(***************************************************************************)
(* What a sender, its peer's receiver and the network between them hold,   *)
(* and what the handlers of a TCPConnection do to it: the predicates in    *)
(* which the lemmas about one direction are stated.                        *)
(***************************************************************************)
EXTENDS ConnectionOps, SenderInvariants

\* The members of a TCPConnection.
ConnRecord == [sender : SenderRecord, receiver : ReceiverRecord, segments_out : Seq(SegmentRecord),
               linger_after_streams_finish : BOOLEAN, active : BOOLEAN, last_tick_time : Nat]

\* An empty segment that only acknowledges.
Probe(s, seg, f) ==
  f > 0 /\ seg.seqno = wrap(f, s.isn) /\ seg.payload = <<>> /\ ~ seg.syn /\ ~ seg.fin

\* What the network may hold of a sender: a RST, a part of its stream, or an empty segment.
InTransit(seg, s) ==
  /\ seg \in SegmentRecord
  /\ seg.rst \/ \E f \in 0 .. s.next_seqno : Carries(s, seg, f) \/ Probe(s, seg, f)

\* The numbers up to a were received: whatever they hold has been written.
Arrived(r, L, a) == a <= stream_out(r).bytes_written + 1 \/ stream_out(r).bytes_written = L

\* The window that a segment announces, as the sender counts it.
Announced(seg) == IF seg.win = 0 THEN 1 ELSE seg.win

\* The segment acknowledges no more than was received, and offers no more than fits.
Acks(seg, r, L, i) ==
  /\ seg.win \in 0 .. Quarter
  /\ seg.ack => \E a \in 0 .. L + 3 : /\ seg.ackno = wrap(a, i)
                                      /\ Arrived(r, L, a)
                                      /\ Fits(r, L, a + Announced(seg))

\* How long the stream of the sender may turn out to be, if its application writes no
\* more than M: FIN decides.
Totals(s, M) == IF s.fin_sent THEN {s.stream.bytes_written} ELSE s.stream.bytes_read .. M + 1

\* Sender and receiver agree on a stream of L bytes; A is on its way to the sender.
Agree(s, r, A, L, i) ==
  /\ Sound(r, L, i, recv_capacity)
  /\ Arrived(r, L, s.confirmed_seqno)
  /\ Fits(r, L, s.next_seqno)
  /\ Fits(r, L, s.confirmed_seqno + logical_window(s))
  /\ \A seg \in A : seg.rst \/ Acks(seg, r, L, i)

\* One direction: the sender s, the receiver r, the segments D on their way to the
\* receiver and A on their way to the sender.
Flow(s, r, D, A, i, M) ==
  /\ SenderOK(s) /\ s.isn = i /\ s.stream.bytes_written <= M
  /\ \A seg \in D : InTransit(seg, s)
  /\ \A L \in Totals(s, M) : Agree(s, r, A, L, i)

-----------------------------------------------------------------------------

\* The segments of a queue.
SegsOf(q) == { q[i] : i \in 1 .. Len(q) }

\* The application has not written, nor ended its stream.
SameApp(s, t) == /\ t.stream.bytes_written = s.stream.bytes_written
                 /\ t.stream.input_ended = s.stream.input_ended

\* What is acknowledged and announced stays, or is what a segment of A says.
Told(s, t, A) ==
  \/ t.confirmed_seqno = s.confirmed_seqno /\ t.receiver_window_size = s.receiver_window_size
  \/ \E seg \in A : /\ ~ seg.rst /\ seg.ack
                    /\ t.confirmed_seqno = unwrap(seg.ackno, s.isn, s.next_seqno)
                    /\ t.receiver_window_size = seg.win

\* What a call does to the sender: it sends Q, and may have been told something by A.
SenderTurn(s, t, Q, A) ==
  /\ SenderOK(t)
  /\ t.isn = s.isn
  /\ s.next_seqno <= t.next_seqno
  /\ s.next_seqno < t.next_seqno => t.next_seqno <= t.confirmed_seqno + logical_window(t)
  /\ s.fin_sent => t.fin_sent /\ t.next_seqno = s.next_seqno
  /\ t.fin_sent => s.fin_sent \/ s.next_seqno < t.next_seqno
  /\ s.stream.bytes_written <= t.stream.bytes_written
  /\ s.stream.input_ended => SameApp(s, t)
  /\ Told(s, t, A)
  /\ \A seg \in Q : InTransit(seg, t)

\* x is the segment with another acknowledgment and window.
Restamped(x, seg) ==
  /\ x \in SegmentRecord /\ x.seqno = seg.seqno /\ x.syn = seg.syn
  /\ x.fin = seg.fin /\ x.rst = seg.rst /\ x.payload = seg.payload

\* Every segment of P is one of Q with another stamp.
AllRestamped(P, Q) == \A seg \in P : \E x \in Q : Restamped(seg, x)

\* u is t with nothing left to send, and P is what was sent.
Drained(s, t, u, P, A) == /\ SenderTurn(s, u, P, A) /\ SameApp(t, u) /\ u.segments_out = <<>>
                          /\ u.next_seqno = t.next_seqno

-----------------------------------------------------------------------------

\* A receiver that has written, or of which was read.
Progress(u, r, L, i) ==
  /\ Sound(r, L, i, recv_capacity) /\ Sound(u, L, i, recv_capacity)
  /\ stream_out(r).bytes_written <= stream_out(u).bytes_written
  /\ stream_out(r).bytes_read <= stream_out(u).bytes_read

\* The segment tells what the receiver has received and how much more it takes.
StampedBy(seg, r) ==
  /\ seg.ack = has_ackno(r)
  /\ has_ackno(r) => seg.ackno = ackno(r)
  /\ seg.win = window_size(r) % WinMod

-----------------------------------------------------------------------------

\* What is left when the output is marked as broken.
Broken(u, r, L, i, cap) ==
  /\ Sound(u, L, i, cap)
  /\ stream_out(u).bytes_written = stream_out(r).bytes_written
  /\ stream_out(u).bytes_read = stream_out(r).bytes_read
  /\ stream_out(u).input_ended = stream_out(r).input_ended
  /\ stream_out(u).stream = stream_out(r).stream

\* What happens to the receiver: nothing, its output breaks, or it gets a segment of D.
ReceiverTurn(u, r, D) ==
  \/ u = r
  \/ u = [r EXCEPT !.reassembler.output = set_error(@)]
  \/ \E seg \in D : ~ seg.rst /\ u = receiver_segment_received(r, seg)

\* Nothing is read, and the end stays reached.
Onward(u, r) == /\ stream_out(u).bytes_read = stream_out(r).bytes_read
                /\ eof(stream_out(r)) => eof(stream_out(u))

\* A receiver that a sender may be sending to.
ReceiverOK(u) == u \in ReceiverRecord /\ window_size(u) \in Nat /\ StreamInv(stream_out(u))

\* The receiver r after the application has taken n bytes from its output.
ReadOff(r, n) == [r EXCEPT !.reassembler.output = pop_output(@, n)]

\* u is r after n bytes have been read.
ReadFrom(u, r, n) ==
  /\ ReceiverOK(u)
  /\ stream_out(u).bytes_read = stream_out(r).bytes_read + n
  /\ stream_out(u).input_ended = stream_out(r).input_ended
  /\ stream_out(u).bytes_written = stream_out(r).bytes_written

-----------------------------------------------------------------------------

\* A connection between two calls: nothing waits to be sent.
Resting(c) ==
  /\ c \in ConnRecord /\ ReceiverOK(c.receiver) /\ SenderOK(c.sender)
  /\ c.sender.segments_out = <<>> /\ c.segments_out = <<>>

\* A connection within a call, which has taken its sender from s and may have been told
\* something by A: what waits to be sent is stamped by its receiver.
ConnAt(s, c, A) ==
  /\ c \in ConnRecord /\ ReceiverOK(c.receiver)
  /\ c.sender.segments_out = <<>>
  /\ SenderTurn(s, c.sender, SegsOf(c.segments_out), A)
  /\ \A x \in SegsOf(c.segments_out) : x.rst \/ StampedBy(x, c.receiver)

\* The members that sending leaves alone.
Kept(d, c) ==
  /\ d.receiver = c.receiver /\ d.active = c.active /\ d.last_tick_time = c.last_tick_time
  /\ d.linger_after_streams_finish = c.linger_after_streams_finish
  /\ SameApp(c.sender, d.sender) /\ d.sender.next_seqno = c.sender.next_seqno

\* d is c after its sender has become t and has sent what it wants to.
Sends(s, c, t, d, A) ==
  /\ ConnAt(s, d, A) /\ d.receiver = c.receiver /\ SameApp(t, d.sender)
  /\ d.sender.next_seqno = t.next_seqno

\* d is c after its sender's stream has become bs, and the sender has sent what it wants to.
Streams(c, d, bs, A) ==
  /\ ConnAt(c.sender, d, A) /\ d.receiver = c.receiver
  /\ d.sender.stream.bytes_written = bs.bytes_written
  /\ d.sender.stream.input_ended = bs.input_ended

\* Whatever happens to the receiver leaves it in order.
Hearing(c, A) == \A u : ReceiverTurn(u, c.receiver, A) => ReceiverOK(u)

\* A call of the connection that the application has no part in: d is what c becomes.
Serves(s, c, d, A) ==
  /\ ConnAt(s, d, A) /\ ReceiverTurn(d.receiver, c.receiver, A) /\ SameApp(c.sender, d.sender)

\* d has the queue of c, another sender and another receiver.
Composed(d, c, t, r) ==
  d \in ConnRecord /\ d.sender = t /\ d.receiver = r /\ d.segments_out = c.segments_out

\* d is c with neither half changed.
Stopped(s, c, d, A) == ConnAt(s, d, A) /\ d.sender = c.sender /\ d.receiver = c.receiver

\* d is c after its sender has done something.
Continues(s, c, d, A) == ConnAt(s, d, A) /\ d.receiver = c.receiver /\ SameApp(c.sender, d.sender)

\* What the sender wants to send, or else an empty segment.
Answer(s) == IF fill_window(s).segments_out # <<>> THEN fill_window(s) ELSE send_empty_segment(fill_window(s))

-----------------------------------------------------------------------------

\* What an application and its peer can say of one direction.
Delivered(s, r) ==
  /\ stream_out(r).bytes_written \in Nat /\ stream_out(r).bytes_read \in Nat
  /\ stream_out(r).bytes_read <= stream_out(r).bytes_written
  /\ s.stream.bytes_written \in Nat
  /\ stream_out(r).bytes_written <= s.stream.bytes_written
  /\ stream_out(r).input_ended => /\ s.stream.input_ended
                                  /\ stream_out(r).bytes_written = s.stream.bytes_written
  /\ s.confirmed_seqno \in Nat
  /\ s.confirmed_seqno <= stream_out(r).bytes_written + 1
       \/ stream_out(r).bytes_written = s.stream.bytes_written
  /\ s.fin_sent /\ s.confirmed_seqno = s.next_seqno => stream_out(r).bytes_written = s.stream.bytes_written

\* f is d with nothing left to send.
Emptied(f, d) ==
  f \in ConnRecord /\ f.sender = d.sender /\ f.receiver = d.receiver /\ f.segments_out = <<>>

-----------------------------------------------------------------------------

\* What the peer depends on of a sender that has sent nothing.
Unsent(s, i) ==
  /\ SenderOK(s) /\ s.segments_out = <<>> /\ s.isn = i
  /\ s.next_seqno = 0 /\ s.confirmed_seqno = 0 /\ s.receiver_window_size = 0
  /\ s.stream.bytes_written = 0 /\ s.stream.input_ended = FALSE

-----------------------------------------------------------------------------

\* What an application sees of a direction.
Seen(s, r, g) ==
  /\ g = Bytes(1, stream_out(r).bytes_read)
  /\ stream_out(r).bytes_read \in Nat /\ s.stream.bytes_written \in Nat
  /\ stream_out(r).bytes_read <= stream_out(r).bytes_written
  /\ stream_out(r).bytes_read <= s.stream.bytes_written
  /\ eof(stream_out(r)) <=> stream_out(r).input_ended /\ stream_out(r).bytes_read = stream_out(r).bytes_written
  /\ eof(stream_out(r)) => s.stream.input_ended /\ stream_out(r).bytes_read = s.stream.bytes_written
=============================================================================
