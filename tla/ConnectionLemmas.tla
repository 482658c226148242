--------------------------- MODULE ConnectionLemmas ----------------------------
(***************************************************************************)
(* One direction of a connection: what a sender, its peer's receiver and   *)
(* the network between them hold, what the handlers of a TCPConnection do  *)
(* to it and what follows from it.                                         *)
(***************************************************************************)
EXTENDS ConnectionInvariants, SenderLemmas

\* The numbers of a sender.
LEMMA SenderIs ==
  ASSUME NEW s, SenderOK(s)
  PROVE  /\ s \in SenderRecord /\ s.isn \in SeqNo
         /\ s.next_seqno \in Nat /\ s.confirmed_seqno \in Nat /\ s.receiver_window_size \in Nat
         /\ logical_window(s) \in Nat
         /\ s.fin_sent \in BOOLEAN /\ s.stream.input_ended \in BOOLEAN
         /\ s.stream.bytes_written \in Nat /\ s.stream.bytes_read \in Nat
         /\ s.stream.bytes_read <= s.stream.bytes_written
         /\ s.next_seqno = 0 => ~ s.fin_sent /\ s.stream.bytes_read = 0
         /\ s.next_seqno > 0 /\ ~ s.fin_sent => s.next_seqno = s.stream.bytes_read + 1
         /\ s.fin_sent => /\ s.next_seqno = s.stream.bytes_written + 2
                          /\ s.stream.input_ended /\ s.stream.bytes_read = s.stream.bytes_written
<1>1. /\ s \in SenderRecord /\ StreamInv(s.stream)
      /\ s.next_seqno = 0 => ~ s.fin_sent /\ s.stream.bytes_read = 0
      /\ s.next_seqno > 0 /\ ~ s.fin_sent => s.next_seqno = s.stream.bytes_read + 1
      /\ s.fin_sent => eof(s.stream) /\ s.next_seqno = s.stream.bytes_written + 2
  BY Zenon DEF SenderOK, SenderInv, QueueInv, NumberedInv
<1>2. /\ s.isn \in SeqNo
      /\ s.next_seqno \in Nat /\ s.confirmed_seqno \in Nat /\ s.receiver_window_size \in Nat
      /\ s.fin_sent \in BOOLEAN
  BY <1>1 DEF SenderRecord
<1>3. /\ s.stream \in StreamRecord /\ s.stream.bytes_read <= s.stream.bytes_written
      /\ buffer_empty(s.stream) <=> s.stream.bytes_read = s.stream.bytes_written
  BY <1>1, StreamSize, Zenon DEF StreamInv
<1>4. /\ s.stream.input_ended \in BOOLEAN
      /\ s.stream.bytes_written \in Nat /\ s.stream.bytes_read \in Nat
  BY <1>3 DEF StreamRecord
<1>5. logical_window(s) \in Nat
  BY <1>2 DEF logical_window
<1> QED BY <1>1, <1>2, <1>3, <1>4, <1>5, Zenon DEF eof

\* The sender rests.
LEMMA TurnNothing ==
  ASSUME NEW s, SenderOK(s)
  PROVE  SenderTurn(s, s, {}, {}) /\ SameApp(s, s)
<1> DEFINE n == s.next_seqno  w == s.stream.bytes_written
<1>1. n \in Nat /\ w \in Nat
  BY SenderIs, Zenon
<1> HIDE DEF n, w
<1>2. n <= n /\ ~ (n < n) /\ w <= w
  BY <1>1
<1> QED BY <1>2, Zenon DEF SenderTurn, SameApp, Told, n, w

\* What is in transit stays so.
LEMMA TransitStill ==
  ASSUME NEW s, NEW t, SenderOK(s), SenderOK(t), t.isn = s.isn, s.next_seqno <= t.next_seqno,
         s.fin_sent => t.fin_sent /\ t.next_seqno = s.next_seqno,
         t.fin_sent => s.fin_sent \/ s.next_seqno < t.next_seqno,
         NEW seg, InTransit(seg, s)
  PROVE  InTransit(seg, t)
<1>1. /\ s \in SenderRecord /\ t \in SenderRecord /\ seg \in SegmentRecord
      /\ s.next_seqno \in Nat /\ t.next_seqno \in Nat
  BY SenderIs, Zenon DEF InTransit
<1>2. ASSUME NEW f \in 0 .. s.next_seqno, Carries(s, seg, f) \/ Probe(s, seg, f)
      PROVE  f \in 0 .. t.next_seqno /\ (Carries(t, seg, f) \/ Probe(t, seg, f))
  <2>1. f \in Nat /\ f \in 0 .. t.next_seqno
    BY <1>1
  <2>2. CASE Carries(s, seg, f)
    BY <1>1, <2>1, <2>2, CarriesStill, Zenon
  <2>3. CASE Probe(s, seg, f)
    BY <2>1, <2>3, Zenon DEF Probe
  <2> QED BY <1>2, <2>2, <2>3
<1> QED BY <1>2, Zenon DEF InTransit

\* Two turns are one: only the first is told something.
LEMMA TurnTwice ==
  ASSUME NEW s, NEW t, NEW u, NEW Q, NEW P, NEW A, NEW B, SenderOK(s),
         SenderTurn(s, t, Q, A), SenderTurn(t, u, P, B),
         B = {} \/ (t = s /\ B \subseteq A)
  PROVE  SenderTurn(s, u, Q \union P, A)
<1> USE Zenon
<1>1. SenderOK(t) /\ SenderOK(u)
  BY DEF SenderTurn
<1>2. /\ s.next_seqno \in Nat /\ t.next_seqno \in Nat /\ u.next_seqno \in Nat
      /\ s.stream.bytes_written \in Nat /\ t.stream.bytes_written \in Nat /\ u.stream.bytes_written \in Nat
  BY <1>1, SenderIs
<1>3. /\ s.next_seqno <= t.next_seqno /\ t.next_seqno <= u.next_seqno
      /\ s.stream.bytes_written <= t.stream.bytes_written
      /\ t.stream.bytes_written <= u.stream.bytes_written
      /\ t.isn = s.isn /\ u.isn = t.isn
      /\ s.fin_sent => t.fin_sent /\ t.next_seqno = s.next_seqno
      /\ t.fin_sent => s.fin_sent \/ s.next_seqno < t.next_seqno
      /\ t.fin_sent => u.fin_sent /\ u.next_seqno = t.next_seqno
      /\ u.fin_sent => t.fin_sent \/ t.next_seqno < u.next_seqno
  BY DEF SenderTurn
<1> DEFINE a == s.next_seqno  b == t.next_seqno  c == u.next_seqno
<1>4. /\ a <= c /\ (a < b => a < c) /\ (b < c => a < c) /\ (a < c => a < b \/ b < c)
      /\ (a < c /\ ~ (b < c) => c = b)
      /\ s.stream.bytes_written <= u.stream.bytes_written
  <2>1. a \in Nat /\ b \in Nat /\ c \in Nat /\ a <= b /\ b <= c
    BY <1>2, <1>3
  <2> HIDE DEF a, b, c
  <2>2. /\ a <= c /\ (a < b => a < c) /\ (b < c => a < c) /\ (a < c => a < b \/ b < c)
        /\ (a < c /\ ~ (b < c) => c = b)
    BY <2>1, SMT
  <2> QED BY <1>2, <1>3, <2>2, SMT
<1>5. Told(s, u, A) /\ (a < c => c <= u.confirmed_seqno + logical_window(u))
  <2>1. CASE B = {}
    <3>1. u.confirmed_seqno = t.confirmed_seqno /\ u.receiver_window_size = t.receiver_window_size
      BY <2>1 DEF SenderTurn, Told
    <3>2. Told(s, u, A)
      BY <3>1 DEF SenderTurn, Told
    <3>3. logical_window(u) = logical_window(t)
      BY <3>1 DEF logical_window
    <3>4. a < c => c <= u.confirmed_seqno + logical_window(u)
      <4>1. b < c => c <= u.confirmed_seqno + logical_window(u)
        BY DEF SenderTurn
      <4>2. a < b => b <= t.confirmed_seqno + logical_window(t)
        BY DEF SenderTurn
      <4> QED BY <1>4, <3>1, <3>3, <4>1, <4>2
    <3> QED BY <3>2, <3>4, SMT
  <2>2. CASE t = s /\ B \subseteq A
    <3>1. Told(s, u, A)
      BY <2>2 DEF SenderTurn, Told
    <3>2. a < c => c <= u.confirmed_seqno + logical_window(u)
      BY <2>2 DEF SenderTurn
    <3> QED BY <3>1, <3>2, SMT
  <2> QED BY <2>1, <2>2, SMT
<1>6. \A seg \in Q \union P : InTransit(seg, u)
  <2>1. ASSUME NEW seg \in Q PROVE InTransit(seg, u)
    <3>1. InTransit(seg, t)
      BY DEF SenderTurn
    <3> QED BY <1>1, <1>3, <3>1, TransitStill
  <2> QED BY <2>1 DEF SenderTurn
<1>7. s.stream.input_ended => SameApp(s, u)
  BY DEF SenderTurn, SameApp
<1>8. (s.fin_sent => u.fin_sent /\ c = a) /\ (u.fin_sent => s.fin_sent \/ a < c)
  BY <1>3, <1>4
<1> QED BY <1>1, <1>3, <1>4, <1>5, <1>6, <1>7, <1>8 DEF SenderTurn

\* New segments are in transit.
LEMMA NewTransit ==
  ASSUME NEW s, NEW t \in SenderRecord, s.segments_out = <<>>, s.next_seqno \in Nat, NewSegments(s, t)
  PROVE  \A seg \in SegsOf(t.segments_out) : InTransit(seg, t)
<1> SUFFICES ASSUME NEW i \in 1 .. Len(t.segments_out) PROVE InTransit(t.segments_out[i], t)
  BY Zenon DEF SegsOf
<1>1. t.segments_out \in Seq(SegmentRecord) /\ t.next_seqno \in Nat
  BY DEF SenderRecord
<1>2. t.segments_out[i] \in SegmentRecord
  BY <1>1, ElementOf, Zenon
<1>3. ~ (i \in 1 .. Len(s.segments_out))
  <2>1. Len(<<>>) = 0
    OBVIOUS
  <2> QED BY <2>1
<1>4. PICK p \in s.next_seqno .. t.next_seqno : Carries(t, t.segments_out[i], p)
  BY <1>3, Zenon DEF NewSegments
<1>5. p \in 0 .. t.next_seqno
  BY <1>1
<1> QED BY <1>2, <1>4, <1>5, Zenon DEF InTransit

\* A call that moves the sender on, after the application may have written.
LEMMA MovedTurn ==
  ASSUME NEW s, NEW u \in SenderRecord, NEW t, NEW A, SenderOK(s), SameQueue(s, u), u.segments_out = <<>>,
         s.stream.bytes_written <= u.stream.bytes_written, s.stream.input_ended => SameApp(s, u),
         Moved(u, t), SenderOK(t), Told(u, t, A)
  PROVE  SenderTurn(s, t, SegsOf(t.segments_out), A) /\ SameApp(u, t)
<1> USE Zenon
<1>1. t \in SenderRecord /\ s.next_seqno \in Nat
  BY SenderIs
<1>2. u.next_seqno = s.next_seqno /\ u.isn = s.isn /\ u.fin_sent = s.fin_sent
      /\ u.confirmed_seqno = s.confirmed_seqno /\ u.receiver_window_size = s.receiver_window_size
  BY DEF SameQueue
<1>3. \A seg \in SegsOf(t.segments_out) : InTransit(seg, t)
  BY <1>1, <1>2, NewTransit DEF Moved
<1>4. SameApp(u, t)
  BY DEF Moved, SameApp
<1>5. Told(s, t, A)
  BY <1>2 DEF Told
<1>6. /\ t.isn = s.isn
      /\ s.next_seqno <= t.next_seqno
      /\ s.next_seqno < t.next_seqno => t.next_seqno <= t.confirmed_seqno + logical_window(t)
      /\ s.fin_sent => t.fin_sent /\ t.next_seqno = s.next_seqno
      /\ t.fin_sent => s.fin_sent \/ s.next_seqno < t.next_seqno
  BY <1>2 DEF Moved
<1>7. /\ s.stream.bytes_written <= t.stream.bytes_written
      /\ s.stream.input_ended => SameApp(s, t)
  BY <1>4 DEF SameApp
<1> QED BY <1>3, <1>4, <1>5, <1>6, <1>7 DEF SenderTurn

\* fill_window(), after the application may have written.
LEMMA FillTurn ==
  ASSUME NEW s, NEW u, SenderOK(s), SenderInv(u), TimerInv(u), SameQueue(s, u), u.segments_out = <<>>,
         s.stream.bytes_written <= u.stream.bytes_written, s.stream.input_ended => SameApp(s, u),
         NEW t, t = fill_window(u)
  PROVE  SenderTurn(s, t, SegsOf(t.segments_out), {}) /\ SameApp(u, t) /\ t.next_seqno # 0
<1> USE Zenon
<1>1. SenderInv(t) /\ Sent(u, t) /\ MovingInv(t) /\ t.next_seqno # 0
  BY FillWindowKeeps
<1>2. SenderOK(t)
  BY <1>1 DEF SenderOK, Sent
<1>3. Moved(u, t)
  BY <1>1, SentMoved
<1>4. Told(u, t, {})
  BY <1>1 DEF Sent, Told
<1>5. u \in SenderRecord
  BY DEF SenderInv, QueueInv
<1> QED BY <1>1, <1>2, <1>3, <1>4, <1>5, MovedTurn

\* The sender has the queue that it has.
LEMMA QueueItself ==
  ASSUME NEW s
  PROVE  SameQueue(s, s) /\ SameApp(s, s)
  BY Zenon DEF SameQueue, SameApp

\* fill_window() alone.
LEMMA FillAlone ==
  ASSUME NEW s, SenderOK(s), s.segments_out = <<>>, NEW t, t = fill_window(s)
  PROVE  SenderTurn(s, t, SegsOf(t.segments_out), {}) /\ SameApp(s, t) /\ t.next_seqno # 0
<1> USE Zenon
<1> DEFINE w == s.stream.bytes_written
<1>1. w \in Nat
  BY SenderIs
<1> HIDE DEF w
<1>2. w <= w
  BY <1>1, SMT
<1>3. s.stream.bytes_written <= s.stream.bytes_written
  BY <1>2 DEF w
<1>4. SenderInv(s) /\ TimerInv(s)
  BY DEF SenderOK
<1> QED BY <1>3, <1>4, QueueItself, FillTurn

\* ack_received() for a segment on its way to the sender.
LEMMA AckTurn ==
  ASSUME NEW s, SenderOK(s), s.segments_out = <<>>, NEW A, NEW seg \in A, ~ seg.rst, seg.ack,
         seg.ackno \in SeqNo, seg.win \in 0 .. Quarter,
         NEW t, t = ack_received(s, seg.ackno, seg.win)
  PROVE  SenderTurn(s, t, SegsOf(t.segments_out), A) /\ SameApp(s, t)
<1> USE Zenon
<1> DEFINE w == s.stream.bytes_written
<1>1. w \in Nat /\ s \in SenderRecord
  BY SenderIs
<1> HIDE DEF w
<1>2. w <= w
  BY <1>1, SMT
<1>3. s.stream.bytes_written <= s.stream.bytes_written
  BY <1>2 DEF w
<1>4. /\ SenderOK(t) /\ Moved(s, t)
      /\ \/ /\ t.confirmed_seqno = s.confirmed_seqno
            /\ t.receiver_window_size = s.receiver_window_size
         \/ /\ t.confirmed_seqno = unwrap(seg.ackno, s.isn, s.next_seqno)
            /\ t.receiver_window_size = seg.win
  BY AckReceivedKeeps
<1>5. Told(s, t, A)
  BY <1>4 DEF Told
<1> QED BY <1>1, <1>3, <1>4, <1>5, QueueItself, MovedTurn

\* A call that leaves the queue as it is.
LEMMA SameTurn ==
  ASSUME NEW s, NEW t, SenderOK(s), SenderOK(t), SameQueue(s, t), SameApp(s, t),
         NEW Q, \A seg \in Q : InTransit(seg, t)
  PROVE  SenderTurn(s, t, Q, {})
<1> USE Zenon
<1> DEFINE n == s.next_seqno  w == s.stream.bytes_written
<1>1. n \in Nat /\ w \in Nat
  BY SenderIs
<1> HIDE DEF n, w
<1>2. n <= n /\ ~ (n < n) /\ w <= w
  BY <1>1, SMT
<1>3. /\ t.next_seqno = n /\ s.next_seqno = n /\ t.stream.bytes_written = w /\ s.stream.bytes_written = w
      /\ t.isn = s.isn /\ t.fin_sent = s.fin_sent
  BY DEF SameQueue, SameApp, n, w
<1>4. Told(s, t, {})
  BY DEF SameQueue, Told
<1> QED BY <1>2, <1>3, <1>4 DEF SenderTurn

\* The first outstanding segment is in transit when it is sent again.
LEMMA HeadTransit ==
  ASSUME NEW s, SenderOK(s), s.outstanding_segments # <<>>
  PROVE  InTransit(Head(s.outstanding_segments), s)
<1> USE Zenon
<1> DEFINE q == s.outstanding_segments
<1>1. QueueInv(s) /\ s \in SenderRecord
  BY DEF SenderOK, SenderInv, QueueInv
<1>2. q \in Seq(SegmentRecord) /\ Len(q) \in Nat /\ 1 \in 1 .. Len(q) /\ 1 \in 1 .. Len(q) + 1 /\ Head(q) = q[1]
  BY <1>1, SMT DEF SenderRecord
<1>3. PICK pos \in [1 .. Len(q) + 1 -> 0 .. s.next_seqno] : Chain(s, pos)
  BY <1>1 DEF QueueInv
<1>4. Carries(s, q[1], pos[1])
  BY <1>2, <1>3 DEF Chain
<1>5. pos[1] \in 0 .. s.next_seqno
  BY <1>2, <1>3, SMT
<1>6. q[1] \in SegmentRecord
  BY <1>2, ElementOf
<1> QED BY <1>2, <1>4, <1>5, <1>6 DEF InTransit

\* The segments of an empty queue, and of one with a single segment.
LEMMA SegsFew ==
  /\ SegsOf(<<>>) = {}
  /\ \A x : SegsOf(Append(<<>>, x)) = {x}
<1>1. SegsOf(<<>>) = {}
  BY DEF SegsOf
<1>2. ASSUME NEW x PROVE SegsOf(Append(<<>>, x)) = {x}
  <2>1. Append(<<>>, x) = <<x>> /\ Len(<<x>>) = 1 /\ <<x>>[1] = x
    OBVIOUS
  <2> QED BY <2>1 DEF SegsOf
<1> QED BY <1>1, <1>2

\* tick().
LEMMA TickTurn ==
  ASSUME NEW s, SenderOK(s), s.segments_out = <<>>, NEW ms \in Nat, NEW t, t = sender_tick(s, ms)
  PROVE  SenderTurn(s, t, SegsOf(t.segments_out), {}) /\ SameApp(s, t)
<1> USE Zenon
<1>1. /\ SenderOK(t) /\ SameQueue(s, t) /\ t.stream = s.stream
      /\ \/ t.segments_out = s.segments_out
         \/ /\ s.outstanding_segments # <<>>
            /\ t.segments_out = Append(s.segments_out, Head(s.outstanding_segments))
  BY SenderTick
<1>2. \A seg \in SegsOf(t.segments_out) : InTransit(seg, t)
  <2>1. CASE t.segments_out = <<>>
    BY <2>1, SegsFew
  <2>2. CASE s.outstanding_segments # <<>> /\ t.segments_out = Append(<<>>, Head(s.outstanding_segments))
    <3>1. InTransit(Head(t.outstanding_segments), t) /\ t.outstanding_segments = s.outstanding_segments
      BY <1>1, <2>2, HeadTransit DEF SameQueue
    <3>2. SegsOf(t.segments_out) = {Head(t.outstanding_segments)}
      BY <2>2, <3>1, SegsFew
    <3> QED BY <3>1, <3>2
  <2> QED BY <1>1, <2>1, <2>2
<1>3. SameApp(s, t)
  BY <1>1 DEF SameApp
<1> QED BY <1>1, <1>2, <1>3, SameTurn

\* send_empty_segment(), once the SYN has been sent.
LEMMA EmptyTurn ==
  ASSUME NEW s, SenderOK(s), s.segments_out = <<>>, s.next_seqno # 0, NEW t, t = send_empty_segment(s)
  PROVE  SenderTurn(s, t, SegsOf(t.segments_out), {}) /\ SameApp(s, t)
<1> USE Zenon
<1> DEFINE x == [BlankSegment EXCEPT !.seqno = wrap(s.next_seqno, s.isn)]
<1>1. /\ SenderOK(t) /\ SameQueue(s, t) /\ t.stream = s.stream
      /\ x \in SegmentRecord /\ x.seqno = wrap(s.next_seqno, s.isn)
      /\ x.payload = <<>> /\ x.syn = FALSE /\ x.fin = FALSE
      /\ t.segments_out = Append(s.segments_out, x)
  BY SendEmpty
<1> HIDE DEF x
<1>2. s.next_seqno > 0 /\ s.next_seqno \in 0 .. s.next_seqno
  <2>1. s.next_seqno \in Nat
    BY SenderIs
  <2> QED BY <2>1, SMT
<1>3. InTransit(x, t)
  BY <1>1, <1>2 DEF InTransit, Probe, SameQueue
<1>4. SegsOf(t.segments_out) = {x}
  BY <1>1, SegsFew
<1>5. SameApp(s, t)
  BY <1>1 DEF SameApp
<1> QED BY <1>1, <1>3, <1>4, <1>5, SameTurn

\* The stream is marked as broken.
LEMMA ErrorTurn ==
  ASSUME NEW s, SenderOK(s), NEW t, t = [s EXCEPT !.stream = set_error(s.stream)]
  PROVE  SenderTurn(s, t, {}, {}) /\ SameApp(s, t) /\ t.segments_out = s.segments_out
<1> USE Zenon
<1> DEFINE bs == set_error(s.stream)
<1>1. StreamInv(s.stream) /\ SenderInv(s) /\ TimerInv(s) /\ MovingInv(s)
      /\ (s.fin_sent => eof(s.stream))
  BY DEF SenderOK, SenderInv, NumberedInv
<1>2. /\ StreamInv(bs) /\ bs.bytes_read = s.stream.bytes_read /\ bs.bytes_written = s.stream.bytes_written
      /\ bs.input_ended = s.stream.input_ended /\ bs.stream = s.stream.stream
  <2> DEFINE o == s.stream
  <2>1. o \in StreamRecord /\ StreamInv(o)
    BY <1>1 DEF StreamInv
  <2> HIDE DEF o
  <2>2. set_error(o) = [o EXCEPT !.error = TRUE]
    BY DEF set_error
  <2>3. /\ set_error(o) \in StreamRecord /\ set_error(o).bytes_read = o.bytes_read
        /\ set_error(o).bytes_written = o.bytes_written /\ set_error(o).capacity = o.capacity
        /\ set_error(o).input_ended = o.input_ended /\ set_error(o).stream = o.stream
    BY <2>1, <2>2 DEF StreamRecord
  <2>4. StreamInv(set_error(o))
    BY <2>1, <2>3 DEF StreamInv
  <2> QED BY <2>3, <2>4, SMT DEF o
<1> HIDE DEF bs
<1>3. s.fin_sent => eof(bs) /\ bs.bytes_written = s.stream.bytes_written
  BY <1>1, <1>2 DEF eof, buffer_empty
<1>4. /\ SenderInv(t) /\ TimerInv(t) /\ SameQueue(s, t) /\ t.stream = bs /\ t.segments_out = s.segments_out
  BY <1>2, <1>3, SenderStream DEF bs
<1>5. MovingInv(t)
  BY <1>1, <1>2, <1>4 DEF MovingInv, SameQueue, buffer_empty
<1>6. SenderOK(t) /\ SameApp(s, t)
  BY <1>2, <1>4, <1>5 DEF SenderOK, SameApp
<1> QED BY <1>4, <1>6, SameTurn

\* The queue to be sent is emptied, and its segments are stamped on the way.
LEMMA DrainTurn ==
  ASSUME NEW s, NEW t, NEW Q, NEW A, SenderTurn(s, t, Q, A), NEW u, u = [t EXCEPT !.segments_out = <<>>],
         NEW P, AllRestamped(P, Q)
  PROVE  Drained(s, t, u, P, A)
<1> USE Zenon
<1>1. SenderOK(t) /\ <<>> \in Seq(SegmentRecord)
  <2>1. <<>> \in Seq(SegmentRecord)
    BY SMT
  <2> QED BY <2>1 DEF SenderTurn
<1>2. SenderOK(u) /\ SameQueue(t, u) /\ u.stream = t.stream /\ u.segments_out = <<>>
  BY <1>1, DrainedIs
<1>3. SameApp(t, u)
  BY <1>2 DEF SameApp
<1>4. ASSUME NEW seg \in P PROVE InTransit(seg, u)
  <2>1. PICK x \in Q : /\ seg \in SegmentRecord /\ seg.seqno = x.seqno /\ seg.syn = x.syn
                       /\ seg.fin = x.fin /\ seg.rst = x.rst /\ seg.payload = x.payload
    BY <1>4 DEF AllRestamped, Restamped
  <2>2. InTransit(x, t)
    BY DEF SenderTurn
  <2>3. u.isn = t.isn /\ u.next_seqno = t.next_seqno /\ u.fin_sent = t.fin_sent
    BY <1>2 DEF SameQueue
  <2>4. length_in_sequence_space(seg) = length_in_sequence_space(x)
    BY <2>1 DEF length_in_sequence_space
  <2>5. ASSUME NEW f, Carries(t, x, f) PROVE Carries(u, seg, f)
    BY <2>1, <2>3, <2>4, <2>5 DEF Carries
  <2>6. ASSUME NEW f, Probe(t, x, f) PROVE Probe(u, seg, f)
    BY <2>1, <2>3, <2>6 DEF Probe
  <2> QED BY <2>1, <2>2, <2>3, <2>5, <2>6 DEF InTransit
<1>5. /\ u.isn = t.isn /\ u.next_seqno = t.next_seqno /\ u.fin_sent = t.fin_sent
      /\ u.confirmed_seqno = t.confirmed_seqno /\ u.receiver_window_size = t.receiver_window_size
  BY <1>2 DEF SameQueue
<1>6. Told(s, u, A) /\ logical_window(u) = logical_window(t)
  BY <1>5 DEF SenderTurn, Told, logical_window
<1>7. s.stream.bytes_written <= u.stream.bytes_written /\ (s.stream.input_ended => SameApp(s, u))
  BY <1>3 DEF SenderTurn, SameApp
<1>8. SenderTurn(s, u, P, A)
  BY <1>2, <1>4, <1>5, <1>6, <1>7 DEF SenderTurn
<1> QED BY <1>2, <1>3, <1>5, <1>8 DEF Drained

-----------------------------------------------------------------------------

\* A number before one that fits.
LEMMA FitsLess ==
  ASSUME NEW r, NEW L, NEW x \in Nat, NEW y \in Nat, x <= y, Fits(r, L, y),
         stream_out(r).bytes_written \in Nat, window_size(r) \in Nat
  PROVE  Fits(r, L, x)
<1> DEFINE wr == stream_out(r).bytes_written  z == Larger(window_size(r), 1)
<1>1. z \in Nat /\ wr \in Nat
  BY DEF Larger
<1>2. wr = L \/ y <= 1 + wr + z
  BY Zenon DEF Fits
<1> HIDE DEF wr, z
<1>3. y <= 1 + wr + z => x <= 1 + wr + z
  BY <1>1
<1> QED BY <1>2, <1>3, Zenon DEF Fits, wr, z

\* The numbers of such a receiver.
LEMMA ProgressIs ==
  ASSUME NEW u, NEW r, NEW L \in Nat, NEW i, Progress(u, r, L, i)
  PROVE  /\ stream_out(r).bytes_written \in Nat /\ stream_out(u).bytes_written \in Nat
         /\ stream_out(r).bytes_read \in Nat /\ stream_out(u).bytes_read \in Nat
         /\ stream_out(r).bytes_written <= stream_out(u).bytes_written
         /\ stream_out(r).bytes_read <= stream_out(u).bytes_read
         /\ stream_out(u).bytes_written <= L
         /\ window_size(r) \in Nat /\ window_size(u) \in Nat
         /\ window_size(r) = recv_capacity - (stream_out(r).bytes_written - stream_out(r).bytes_read)
         /\ window_size(u) = recv_capacity - (stream_out(u).bytes_written - stream_out(u).bytes_read)
<1>1. recv_capacity \in Nat \ {0}
  BY ConnectionAssumption
<1>2. Sound(r, L, i, recv_capacity) /\ Sound(u, L, i, recv_capacity)
  BY Zenon DEF Progress
<1>3. /\ stream_out(r).bytes_written \in Nat /\ stream_out(r).bytes_read \in Nat /\ window_size(r) \in Nat
      /\ window_size(r) = recv_capacity - (stream_out(r).bytes_written - stream_out(r).bytes_read)
  BY <1>1, <1>2, SoundIs
<1>4. /\ stream_out(u).bytes_written \in Nat /\ stream_out(u).bytes_read \in Nat /\ window_size(u) \in Nat
      /\ stream_out(u).bytes_written <= L
      /\ window_size(u) = recv_capacity - (stream_out(u).bytes_written - stream_out(u).bytes_read)
  BY <1>1, <1>2, SoundIs
<1> QED BY <1>3, <1>4, Zenon DEF Progress

\* What fitted still fits: the right edge of the window does not move back.
LEMMA FitsStill ==
  ASSUME NEW u, NEW r, NEW L \in Nat, NEW i, Progress(u, r, L, i), NEW x \in Nat, Fits(r, L, x)
  PROVE  Fits(u, L, x)
<1> DEFINE a == stream_out(r).bytes_written  b == stream_out(u).bytes_written
           c == stream_out(r).bytes_read  d == stream_out(u).bytes_read
           w == window_size(r)  v == window_size(u)
<1>1. /\ a \in Nat /\ b \in Nat /\ c \in Nat /\ d \in Nat /\ a <= b /\ c <= d /\ b <= L
      /\ w \in Nat /\ v \in Nat
      /\ w = recv_capacity - (a - c) /\ v = recv_capacity - (b - d)
  BY ProgressIs, Zenon
<1>2. a = L \/ x <= 1 + a + Larger(w, 1)
  BY Zenon DEF Fits
<1>3. recv_capacity \in Nat
  BY ConnectionAssumption
<1> HIDE DEF a, b, c, d, w, v
<1>4. b = L \/ x <= 1 + b + Larger(v, 1)
  BY <1>1, <1>2, <1>3 DEF Larger
<1> QED BY <1>4, Zenon DEF Fits, b, v

\* What was received stays received.
LEMMA ArrivedStill ==
  ASSUME NEW u, NEW r, NEW L \in Nat, NEW i, Progress(u, r, L, i), NEW x \in Nat, Arrived(r, L, x)
  PROVE  Arrived(u, L, x)
<1> DEFINE a == stream_out(r).bytes_written  b == stream_out(u).bytes_written
<1>1. a \in Nat /\ b \in Nat /\ a <= b /\ b <= L
  BY ProgressIs, Zenon
<1>2. x <= a + 1 \/ a = L
  BY Zenon DEF Arrived
<1> HIDE DEF a, b
<1>3. x <= b + 1 \/ b = L
  BY <1>1, <1>2
<1> QED BY <1>3, Zenon DEF Arrived, b

\* An acknowledgment stays true.
LEMMA AcksStill ==
  ASSUME NEW u, NEW r, NEW L \in Nat, NEW i, Progress(u, r, L, i), NEW seg, Acks(seg, r, L, i)
  PROVE  Acks(seg, u, L, i)
<1> USE Zenon
<1> SUFFICES ASSUME seg.ack PROVE \E a \in 0 .. L + 3 : /\ seg.ackno = wrap(a, i)
                                                        /\ Arrived(u, L, a)
                                                        /\ Fits(u, L, a + Announced(seg))
  BY DEF Acks
<1>1. PICK a \in 0 .. L + 3 : seg.ackno = wrap(a, i) /\ Arrived(r, L, a) /\ Fits(r, L, a + Announced(seg))
  BY DEF Acks
<1>2. seg.win \in 0 .. Quarter
  BY DEF Acks
<1>3. a \in Nat /\ a + Announced(seg) \in Nat
  BY <1>2, QuarterIs, SMT DEF Announced
<1> DEFINE x == a + Announced(seg)
<1>4. x \in Nat /\ Fits(r, L, x)
  BY <1>1, <1>3
<1> HIDE DEF x
<1>5. Fits(u, L, x)
  BY <1>4, FitsStill
<1>6. Arrived(u, L, a)
  BY <1>1, <1>3, ArrivedStill
<1> QED BY <1>1, <1>5, <1>6 DEF x

\* What it tells is true.
LEMMA StampAcks ==
  ASSUME NEW r, NEW L \in Nat, NEW i, Sound(r, L, i, recv_capacity), NEW seg, StampedBy(seg, r)
  PROVE  Acks(seg, r, L, i)
<1> DEFINE wr == stream_out(r).bytes_written  w == window_size(r)  a == r.abs_seqno  v == seg.win
<1>1. recv_capacity \in Nat \ {0} /\ WinMod \in Nat \ {0} /\ WinMod <= Quarter
  BY ConnectionAssumption DEF Quarter
<1>2. wr \in Nat /\ w \in Nat /\ a \in Nat
  BY <1>1, SoundIs
<1>3. /\ a <= L + 3 /\ (a <= wr + 1 \/ wr = L) /\ (~ r.first_segment => r.isn = i)
  BY Zenon DEF Sound
<1>4. v = w % WinMod /\ seg.ack = ~ r.first_segment
      /\ (~ r.first_segment => seg.ackno = wrap(a, r.isn))
  BY Zenon DEF StampedBy, has_ackno, ackno
<1> HIDE DEF wr, w, a, v
<1>5. v \in 0 .. WinMod - 1 /\ v <= w
  BY <1>1, <1>2, <1>4
<1>6. v \in 0 .. Quarter /\ v \in Nat
  BY <1>1, <1>5, QuarterIs
<1>7. Announced(seg) = IF v = 0 THEN 1 ELSE v
  BY Zenon DEF Announced, v
<1>8. a \in 0 .. L + 3
  BY <1>2, <1>3
<1>9. wr = L \/ a + (IF v = 0 THEN 1 ELSE v) <= 1 + wr + Larger(w, 1)
  BY <1>2, <1>3, <1>5, <1>6 DEF Larger
<1>10. Arrived(r, L, a) /\ Fits(r, L, a + Announced(seg))
  BY <1>3, <1>7, <1>9, Zenon DEF Arrived, Fits, wr, w
<1> QED BY <1>3, <1>4, <1>6, <1>8, <1>10, Zenon DEF Acks, v

\* Sender and receiver go on agreeing when the receiver makes progress.
LEMMA AgreeStill ==
  ASSUME NEW s, SenderOK(s), NEW u, NEW r, NEW L \in Nat, NEW i, NEW A, NEW Q,
         Agree(s, r, A, L, i), Progress(u, r, L, i), \A x \in Q : x.rst \/ StampedBy(x, u)
  PROVE  Agree(s, u, A \union Q, L, i)
<1> USE Zenon
<1> DEFINE c == s.confirmed_seqno  n == s.next_seqno  x == c + logical_window(s)
<1>1. c \in Nat /\ n \in Nat /\ x \in Nat
  <2>1. c \in Nat /\ n \in Nat /\ logical_window(s) \in Nat
    BY SenderIs
  <2> QED BY <2>1, SMT
<1>2. Arrived(r, L, c) /\ Fits(r, L, n) /\ Fits(r, L, x) /\ \A seg \in A : seg.rst \/ Acks(seg, r, L, i)
  BY DEF Agree
<1> HIDE DEF c, n, x
<1>3. Arrived(u, L, c) /\ Fits(u, L, n) /\ Fits(u, L, x)
  BY <1>1, <1>2, ArrivedStill, FitsStill
<1>4. Sound(u, L, i, recv_capacity)
  BY DEF Progress
<1>5. ASSUME NEW seg \in A \union Q PROVE seg.rst \/ Acks(seg, u, L, i)
  <2>1. CASE seg \in A
    BY <1>2, <2>1, AcksStill
  <2>2. CASE seg \in Q
    BY <1>4, <2>2, StampAcks
  <2> QED BY <1>5, <2>1, <2>2, SMT
<1> QED BY <1>3, <1>4, <1>5 DEF Agree, c, n, x

-----------------------------------------------------------------------------

\* The lengths that a stream may turn out to have.
LEMMA TotalsIs ==
  ASSUME NEW s, SenderOK(s), NEW M \in Nat, s.stream.bytes_written <= M, NEW L \in Totals(s, M)
  PROVE  /\ L \in Nat /\ L <= M + 1 /\ s.next_seqno <= L + 2
         /\ ~ s.fin_sent => s.next_seqno <= L + 1
         /\ s.fin_sent => L = s.stream.bytes_written /\ s.next_seqno = L + 2
<1> DEFINE n == s.next_seqno  w == s.stream.bytes_written  d == s.stream.bytes_read
<1>1. /\ n \in Nat /\ w \in Nat /\ d \in Nat /\ d <= w
      /\ n = 0 => ~ s.fin_sent /\ d = 0
      /\ n > 0 /\ ~ s.fin_sent => n = d + 1
      /\ s.fin_sent => n = w + 2
  BY SenderIs, Zenon
<1>2. L \in IF s.fin_sent THEN {w} ELSE d .. M + 1
  BY Zenon DEF Totals
<1> HIDE DEF n, w, d
<1>3. /\ L \in Nat /\ L <= M + 1 /\ n <= L + 2
      /\ ~ s.fin_sent => n <= L + 1
      /\ s.fin_sent => L = w /\ n = L + 2
  BY <1>1, <1>2 DEF w
<1> QED BY <1>3 DEF n, w

\* A turn of the sender leaves fewer of them.
LEMMA TotalsLess ==
  ASSUME NEW s, NEW t, NEW Q, NEW A, NEW M \in Nat, SenderOK(s), SenderTurn(s, t, Q, A),
         t.stream.bytes_written <= M, NEW L \in Totals(t, M)
  PROVE  L \in Totals(s, M)
<1> DEFINE n == s.next_seqno  w == s.stream.bytes_written  d == s.stream.bytes_read
           m == t.next_seqno  x == t.stream.bytes_written  e == t.stream.bytes_read
<1>1. SenderOK(t)
  BY Zenon DEF SenderTurn
<1>2. /\ n \in Nat /\ w \in Nat /\ d \in Nat /\ d <= w
      /\ n = 0 => ~ s.fin_sent /\ d = 0
      /\ n > 0 /\ ~ s.fin_sent => n = d + 1
      /\ s.fin_sent => n = w + 2 /\ s.stream.input_ended
  BY SenderIs, Zenon
<1>3. /\ m \in Nat /\ x \in Nat /\ e \in Nat /\ e <= x
      /\ m = 0 => ~ t.fin_sent /\ e = 0
      /\ m > 0 /\ ~ t.fin_sent => m = e + 1
      /\ t.fin_sent => m = x + 2 /\ e = x
  BY <1>1, SenderIs, Zenon
<1>4. /\ n <= m /\ w <= x
      /\ s.fin_sent => t.fin_sent /\ m = n
      /\ s.stream.input_ended => x = w
  BY Zenon DEF SenderTurn, SameApp
<1>5. L \in IF t.fin_sent THEN {x} ELSE e .. M + 1
  BY Zenon DEF Totals
<1>6. x <= M
  OBVIOUS
<1> HIDE DEF n, w, d, m, x, e
<1>7. CASE s.fin_sent
  <2>1. L = w
    BY <1>2, <1>4, <1>5, <1>7
  <2> QED BY <1>7, <2>1, Zenon DEF Totals, w
<1>8. CASE ~ s.fin_sent
  <2>1. d <= e
    BY <1>2, <1>3, <1>4, <1>8
  <2>2. L \in d .. M + 1
    BY <1>2, <1>3, <1>5, <1>6, <2>1
  <2> QED BY <1>8, <2>2, Zenon DEF Totals, d
<1> QED BY <1>7, <1>8

\* A turn of the sender.
LEMMA FlowSender ==
  ASSUME NEW s, NEW t, NEW r, NEW D, NEW A, NEW Q, NEW B, NEW i, NEW M \in Nat, M + 4 < Half,
         Flow(s, r, D, A, i, M), SenderTurn(s, t, Q, A), B \subseteq A, t.stream.bytes_written <= M
  PROVE  Flow(t, r, D \union Q, B, i, M)
<1> USE Zenon
<1>1. SenderOK(s) /\ SenderOK(t) /\ s.isn = i /\ t.isn = i /\ s.stream.bytes_written <= M
  BY DEF Flow, SenderTurn
<1>2. \A seg \in D \union Q : InTransit(seg, t)
  <2>1. ASSUME NEW seg \in D PROVE InTransit(seg, t)
    <3>1. InTransit(seg, s)
      BY DEF Flow
    <3>2. /\ t.isn = s.isn /\ s.next_seqno <= t.next_seqno
          /\ s.fin_sent => t.fin_sent /\ t.next_seqno = s.next_seqno
          /\ t.fin_sent => s.fin_sent \/ s.next_seqno < t.next_seqno
      BY DEF SenderTurn
    <3> QED BY <1>1, <3>1, <3>2, TransitStill
  <2> QED BY <2>1 DEF SenderTurn
<1>3. ASSUME NEW L \in Totals(t, M) PROVE Agree(t, r, B, L, i)
  <2>1. L \in Totals(s, M)
    BY <1>1, TotalsLess
  <2>2. L \in Nat /\ L <= M + 1 /\ s.next_seqno <= L + 2
    BY <1>1, <2>1, TotalsIs
  <2>3. Agree(s, r, A, L, i)
    BY <2>1 DEF Flow
  <2>4. /\ Sound(r, L, i, recv_capacity)
        /\ \A seg \in B : seg.rst \/ Acks(seg, r, L, i)
    BY <2>3 DEF Agree
  <2>5. /\ i \in SeqNo /\ s.next_seqno \in Nat /\ t.next_seqno \in Nat
        /\ t.confirmed_seqno \in Nat /\ logical_window(t) \in Nat
    BY <1>1, SenderIs
  <2>6. Arrived(r, L, t.confirmed_seqno) /\ Fits(r, L, t.confirmed_seqno + logical_window(t))
    <3>1. CASE t.confirmed_seqno = s.confirmed_seqno /\ t.receiver_window_size = s.receiver_window_size
      BY <2>3, <3>1 DEF Agree, logical_window
    <3>2. CASE \E seg \in A : /\ ~ seg.rst /\ seg.ack
                              /\ t.confirmed_seqno = unwrap(seg.ackno, s.isn, s.next_seqno)
                              /\ t.receiver_window_size = seg.win
      <4>1. PICK seg \in A : /\ ~ seg.rst /\ seg.ack
                             /\ t.confirmed_seqno = unwrap(seg.ackno, s.isn, s.next_seqno)
                             /\ t.receiver_window_size = seg.win
        BY <3>2, SMT
      <4>2. Acks(seg, r, L, i)
        BY <2>3, <4>1 DEF Agree
      <4>3. PICK a \in 0 .. L + 3 : seg.ackno = wrap(a, i) /\ Arrived(r, L, a) /\ Fits(r, L, a + Announced(seg))
        BY <4>1, <4>2 DEF Acks
      <4>4. a \in Nat /\ a - s.next_seqno < Half /\ s.next_seqno - a < Half
        BY <2>2, <2>5, HalfIsHalf, SMT
      <4>5. unwrap(wrap(a, i), i, s.next_seqno) = a
        BY <2>5, <4>4, UnwrapOfWrap
      <4>6. t.confirmed_seqno = a
        BY <1>1, <4>1, <4>3, <4>5
      <4>7. logical_window(t) = Announced(seg)
        BY <4>1 DEF logical_window, Announced
      <4> QED BY <4>3, <4>6, <4>7
    <3> QED BY <3>1, <3>2 DEF SenderTurn, Told
  <2>7. Fits(r, L, t.next_seqno)
    <3> DEFINE n == s.next_seqno  m == t.next_seqno  x == t.confirmed_seqno + logical_window(t)
    <3>1. n <= m /\ (n < m => m <= x)
      BY DEF SenderTurn
    <3>2. n \in Nat /\ m \in Nat /\ x \in Nat
      BY <2>5, SMT
    <3>3. Fits(r, L, n) /\ Fits(r, L, x)
      BY <2>3, <2>6 DEF Agree
    <3>4. recv_capacity \in Nat \ {0}
      BY ConnectionAssumption, SMT
    <3>5. stream_out(r).bytes_written \in Nat /\ window_size(r) \in Nat
      BY <2>2, <2>4, <3>4, SoundIs, SMT
    <3> HIDE DEF n, m, x
    <3>6. m = n \/ m <= x
      BY <3>1, <3>2, SMT
    <3>7. Fits(r, L, m)
      BY <3>2, <3>3, <3>5, <3>6, FitsLess
    <3> QED BY <3>7 DEF m
  <2> QED BY <2>4, <2>6, <2>7 DEF Agree
<1> QED BY <1>1, <1>2, <1>3 DEF Flow

\* A segment in transit holds a part of every stream that the sender may be sending.
LEMMA TransitCarried ==
  ASSUME NEW s, SenderOK(s), NEW M \in Nat, s.stream.bytes_written <= M, NEW L \in Totals(s, M),
         NEW seg, InTransit(seg, s), ~ seg.rst
  PROVE  \E f \in Nat : /\ Carried(seg, f, s.isn, L)
                        /\ Len(seg.payload) > 0 \/ seg.fin =>
                             f + length_in_sequence_space(seg) <= s.next_seqno
<1>1. PICK f \in 0 .. s.next_seqno : Carries(s, seg, f) \/ Probe(s, seg, f)
  BY Zenon DEF InTransit
<1>2. seg \in SegmentRecord
  BY Zenon DEF InTransit
<1> DEFINE n == s.next_seqno  k == Len(seg.payload)  len == length_in_sequence_space(seg)
<1>3. /\ n \in Nat /\ L \in Nat /\ n <= L + 2
      /\ ~ s.fin_sent => n <= L + 1
      /\ s.fin_sent => n = L + 2
  BY SenderIs, TotalsIs, Zenon
<1>4. /\ k \in Nat /\ seg.syn \in BOOLEAN /\ seg.fin \in BOOLEAN /\ seg.payload \in Seq(Nat)
      /\ (seg.payload = <<>> <=> k = 0)
  BY <1>2 DEF SegmentRecord
<1>5. len = k + (IF seg.syn THEN 1 ELSE 0) + (IF seg.fin THEN 1 ELSE 0) /\ len \in Nat
  <2>1. length_in_sequence_space(seg) = k + (IF seg.syn THEN 1 ELSE 0) + (IF seg.fin THEN 1 ELSE 0)
    BY Zenon DEF length_in_sequence_space
  <2> HIDE DEF k
  <2> QED BY <1>4, <2>1
<1>6. f \in Nat /\ f <= n
  BY <1>3
<1>7. CASE Carries(s, seg, f)
  <2>1. /\ seg.seqno = wrap(f, s.isn)
        /\ f + len <= n
        /\ seg.payload = Bytes(f, f + k - 1)
        /\ (seg.syn <=> f = 0)
        /\ (seg.syn => seg.payload = <<>> /\ ~ seg.fin)
        /\ (seg.fin <=> s.fin_sent /\ f + len = n)
    BY <1>7, Zenon DEF Carries
  <2>2. f <= L + 2 /\ (k > 0 => f + k <= L + 1) /\ (seg.fin => f + k = L + 1)
    <3> HIDE DEF n, k, len
    <3>1. f <= L + 2
      BY <1>3, <1>6
    <3>2. CASE seg.fin
      <4>1. ~ seg.syn /\ n = L + 2 /\ f + len = n /\ len = k + 0 + 1
        BY <1>3, <1>5, <2>1, <3>2
      <4> QED BY <1>3, <1>4, <1>6, <3>1, <4>1
    <3>3. CASE ~ seg.fin
      <4>1. f + len <= L + 1
        BY <1>3, <1>5, <1>6, <2>1, <3>3
      <4>2. k <= len
        BY <1>4, <1>5
      <4> QED BY <1>3, <1>4, <1>5, <1>6, <3>1, <3>3, <4>1, <4>2
    <3> QED BY <1>4, <3>2, <3>3
  <2>3. Carried(seg, f, s.isn, L)
    BY <1>2, <1>6, <2>1, <2>2, Zenon DEF Carried
  <2> QED BY <1>6, <2>1, <2>3, Zenon
<1>8. CASE Probe(s, seg, f)
  <2>1. f > 0 /\ seg.seqno = wrap(f, s.isn) /\ seg.payload = <<>> /\ ~ seg.syn /\ ~ seg.fin
    BY <1>8, Zenon DEF Probe
  <2>2. k = 0 /\ f <= L + 2 /\ f + k - 1 = f - 1 /\ ~ (k > 0) /\ f # 0
    BY <1>3, <1>4, <1>6, <2>1
  <2>3. seg.payload = Bytes(f, f + k - 1)
    BY <1>6, <2>1, <2>2, BytesEmpty, Zenon
  <2>4. Carried(seg, f, s.isn, L)
    BY <1>2, <1>6, <2>1, <2>2, <2>3, Zenon DEF Carried
  <2> QED BY <1>6, <2>1, <2>2, <2>4, Zenon
<1> QED BY <1>1, <1>7, <1>8

\* The output is marked as broken.
LEMMA ErrorSound ==
  ASSUME NEW L \in Nat, NEW i, NEW cap, NEW r, Sound(r, L, i, cap),
         NEW u, u = [r EXCEPT !.reassembler.output = set_error(@)]
  PROVE  Broken(u, r, L, i, cap)
<1> USE Zenon
<1> DEFINE R == r.reassembler  o == R.output  p == set_error(o)
           t == [R EXCEPT !.output = p]
<1>1. /\ ReassemblerInv(R, L) /\ r \in ReceiverRecord /\ R \in ReassemblerRecord
      /\ StreamInv(o) /\ o \in StreamRecord
  BY DEF Sound, ReassemblerInv, StreamInv
<1>2. p = [o EXCEPT !.error = TRUE]
  BY DEF set_error
<1>3. u = [r EXCEPT !.reassembler = t]
  BY SMT
<1> HIDE DEF p, o
<1>4. /\ p \in StreamRecord /\ p.bytes_read = o.bytes_read /\ p.bytes_written = o.bytes_written
      /\ p.capacity = o.capacity /\ p.input_ended = o.input_ended /\ p.stream = o.stream
  BY <1>1, <1>2 DEF StreamRecord
<1>5. StreamInv(p)
  BY <1>1, <1>4 DEF StreamInv
<1> HIDE DEF R
<1>6. /\ t \in ReassemblerRecord /\ t.output = p /\ t.capacity = R.capacity /\ t.storage = R.storage
      /\ t.next_assembling_index = R.next_assembling_index
      /\ t.smallest_temporty_index = R.smallest_temporty_index
  BY <1>1, <1>4, SMT DEF ReassemblerRecord
<1> HIDE DEF t
<1>7. Limit(t) = Limit(R)
  BY <1>4, <1>6 DEF Limit, o
<1>8. ReassemblerInv(t, L)
  BY <1>1, <1>4, <1>5, <1>6, <1>7 DEF ReassemblerInv, o
<1>9. /\ u \in ReceiverRecord /\ u.reassembler = t /\ u.capacity = r.capacity
      /\ u.abs_seqno = r.abs_seqno /\ u.isn = r.isn /\ u.first_segment = r.first_segment
  BY <1>1, <1>3, <1>6, SMT DEF ReceiverRecord
<1>10. /\ stream_out(u).bytes_written = stream_out(r).bytes_written
       /\ stream_out(u).bytes_read = stream_out(r).bytes_read
       /\ stream_out(u).input_ended = stream_out(r).input_ended
       /\ stream_out(u).stream = stream_out(r).stream
  BY <1>4, <1>6, <1>9 DEF stream_out, o, R
<1>11. Sound(u, L, i, cap)
  BY <1>6, <1>8, <1>9, <1>10 DEF Sound, R
<1> QED BY <1>10, <1>11 DEF Broken

\* A sound receiver is one.
LEMMA SoundOK ==
  ASSUME NEW r, NEW L \in Nat, NEW i, Sound(r, L, i, recv_capacity)
  PROVE  ReceiverOK(r)
<1>1. recv_capacity \in Nat \ {0}
  BY ConnectionAssumption
<1>2. window_size(r) \in Nat /\ StreamInv(stream_out(r))
  BY <1>1, SoundIs
<1> QED BY <1>2, Zenon DEF Sound, ReceiverOK

\* There is always some length.
LEMMA TotalsSome ==
  ASSUME NEW s, SenderOK(s), NEW M \in Nat, s.stream.bytes_written <= M
  PROVE  \E L \in Totals(s, M) : L \in Nat
<1> DEFINE w == s.stream.bytes_written  d == s.stream.bytes_read
<1>1. w \in Nat /\ d \in Nat /\ d <= w /\ w <= M
  BY SenderIs, Zenon
<1>2. Totals(s, M) = IF s.fin_sent THEN {w} ELSE d .. M + 1
  BY Zenon DEF Totals
<1> HIDE DEF w, d
<1>3. w \in Totals(s, M)
  BY <1>1, <1>2
<1> QED BY <1>1, <1>3

\* The end stays reached.
LEMMA EofStill ==
  ASSUME NEW L \in Nat, NEW i, NEW cap \in Nat \ {0}, NEW r, Sound(r, L, i, cap), NEW u, Hears(u, r, L, i, cap)
  PROVE  Onward(u, r)
<1> DEFINE o == stream_out(r)  p == stream_out(u)
<1>1. /\ StreamInv(o) /\ o.bytes_written \in Nat /\ o.bytes_written <= L /\ o.bytes_read \in Nat
      /\ (o.input_ended => o.bytes_written = L)
  BY SoundIs
<1>2. Sound(u, L, i, cap) /\ p.bytes_read = o.bytes_read /\ o.bytes_written <= p.bytes_written
      /\ (o.input_ended => p.input_ended)
  BY Zenon DEF Hears
<1>3. StreamInv(p) /\ p.bytes_written \in Nat /\ p.bytes_written <= L
  BY <1>2, SoundIs
<1>4. /\ buffer_empty(o) <=> o.bytes_read = o.bytes_written
      /\ buffer_empty(p) <=> p.bytes_read = p.bytes_written
  BY <1>1, <1>3, StreamSize, Zenon
<1> HIDE DEF o, p
<1>5. o.input_ended => p.bytes_written = o.bytes_written
  BY <1>1, <1>2, <1>3
<1>6. eof(o) => eof(p)
  BY <1>2, <1>4, <1>5, Zenon DEF eof
<1> QED BY <1>2, <1>6, Zenon DEF Onward, o, p

\* The application reads n bytes.
LEMMA FlowRead ==
  ASSUME NEW s, NEW r, NEW D, NEW A, NEW i, NEW M \in Nat, Flow(s, r, D, A, i, M),
         NEW n \in Nat, n <= buffer_size(stream_out(r)),
         NEW u, u = ReadOff(r, n)
  PROVE  Flow(s, u, D, A, i, M) /\ ReadFrom(u, r, n)
<1> USE Zenon
<1>1. SenderOK(s) /\ s.isn = i /\ s.stream.bytes_written <= M /\ \A seg \in D : InTransit(seg, s)
  BY DEF Flow
<1>2. ASSUME NEW L \in Totals(s, M)
      PROVE  L \in Nat /\ ReadBy(u, r, n, L, i, recv_capacity) /\ Agree(s, u, A, L, i)
  <2>1. L \in Nat
    BY <1>1, TotalsIs
  <2>2. Agree(s, r, A, L, i) /\ Sound(r, L, i, recv_capacity)
    BY DEF Flow, Agree
  <2>3. ReadBy(u, r, n, L, i, recv_capacity)
    BY <2>1, <2>2, ReadSound DEF ReadOff
  <2>4. Progress(u, r, L, i)
    <3> DEFINE a == stream_out(r).bytes_written  b == stream_out(r).bytes_read
    <3>1. recv_capacity \in Nat \ {0}
      BY ConnectionAssumption, SMT
    <3>2. a \in Nat /\ b \in Nat
      BY <2>1, <2>2, <3>1, SoundIs, SMT
    <3> HIDE DEF a, b
    <3>3. a <= a /\ b <= b + n
      BY <3>2, SMT
    <3> QED BY <2>2, <2>3, <3>3 DEF Progress, ReadBy, a, b
  <2>5. Agree(s, u, A \union {}, L, i) /\ A \union {} = A
    <3>1. A \union {} = A
      BY SMT
    <3> QED BY <1>1, <2>1, <2>2, <2>4, <3>1, AgreeStill
  <2> QED BY <2>1, <2>3, <2>5
<1>3. Flow(s, u, D, A, i, M)
  BY <1>1, <1>2 DEF Flow
<1>4. PICK L \in Totals(s, M) : L \in Nat
  BY <1>1, TotalsSome
<1>5. ReadBy(u, r, n, L, i, recv_capacity)
  BY <1>2
<1>6. ReceiverOK(u)
  BY <1>4, <1>5, SoundOK DEF ReadBy
<1> QED BY <1>3, <1>5, <1>6 DEF ReadBy, ReadFrom

-----------------------------------------------------------------------------

\* A stamp changes nothing else.
LEMMA StampIs ==
  ASSUME NEW c, ReceiverOK(c.receiver), NEW seg \in SegmentRecord, NEW x, x = stamped(c, seg)
  PROVE  Restamped(x, seg) /\ StampedBy(x, c.receiver)
<1> DEFINE r == c.receiver  has == has_ackno(r)  a == ackno(r)  b == IF has THEN a ELSE seg.ackno
           w == window_size(r) % WinMod
<1>1. r \in ReceiverRecord /\ window_size(r) \in Nat /\ WinMod \in Nat \ {0}
  BY ConnectionAssumption, Zenon DEF ReceiverOK
<1>2. r.abs_seqno \in Nat /\ r.isn \in SeqNo /\ r.first_segment \in BOOLEAN
  BY <1>1 DEF ReceiverRecord
<1>3. has \in BOOLEAN
  BY <1>2 DEF has_ackno
<1>4. a \in SeqNo
  BY <1>2, WrapType, Zenon DEF ackno
<1>5. w \in Nat
  BY <1>1
<1>6. x = [seg EXCEPT !.ack = has, !.ackno = b, !.win = w]
  BY Zenon DEF stamped
<1> HIDE DEF r, has, a, w
<1>7. b \in SeqNo /\ (has => b = a)
  BY <1>3, <1>4 DEF SegmentRecord
<1> HIDE DEF b
<1>8. /\ x \in SegmentRecord /\ x.seqno = seg.seqno /\ x.syn = seg.syn
      /\ x.fin = seg.fin /\ x.rst = seg.rst /\ x.payload = seg.payload
      /\ x.ack = has /\ x.ackno = b /\ x.win = w
  BY <1>3, <1>5, <1>6, <1>7, Zenon DEF SegmentRecord
<1> QED BY <1>7, <1>8, Zenon DEF Restamped, StampedBy, r, has, a, w

\* A segment of two queues, one behind the other, is a segment of one of them.
LEMMA SegsConcat ==
  ASSUME NEW S, NEW q \in Seq(S), NEW p \in Seq(S), NEW x \in SegsOf(q \o p)
  PROVE  x \in SegsOf(q) \/ x \in SegsOf(p)
<1>1. PICK i \in 1 .. Len(q \o p) : x = (q \o p)[i]
  BY Zenon DEF SegsOf
<1>2. Len(q \o p) = Len(q) + Len(p) /\ Len(q) \in Nat /\ Len(p) \in Nat
  OBVIOUS
<1>3. CASE i \in 1 .. Len(q)
  <2>1. x = q[i]
    BY <1>1, <1>3, ConcatIs
  <2> QED BY <1>3, <2>1, Zenon DEF SegsOf
<1>4. CASE i \in Len(q) + 1 .. Len(q) + Len(p)
  <2>1. x = p[i - Len(q)]
    BY <1>1, <1>4, ConcatIs
  <2>2. i - Len(q) \in 1 .. Len(p)
    BY <1>2, <1>4
  <2> QED BY <2>1, <2>2, Zenon DEF SegsOf
<1> QED BY <1>1, <1>2, <1>3, <1>4

\* The segments of a queue have the type of its elements.
LEMMA SegsType ==
  ASSUME NEW S, NEW q \in Seq(S), NEW x \in SegsOf(q)
  PROVE  x \in S
<1>1. PICK i \in 1 .. Len(q) : x = q[i]
  BY Zenon DEF SegsOf
<1> QED BY <1>1, ElementOf, Zenon

\* send_segments_out().
LEMMA Flush ==
  ASSUME NEW s, NEW c \in ConnRecord, ReceiverOK(c.receiver), NEW Q, NEW A, SenderTurn(s, c.sender, Q, A),
         SegsOf(c.segments_out) \subseteq Q, SegsOf(c.sender.segments_out) \subseteq Q,
         \A x \in SegsOf(c.segments_out) : x.rst \/ StampedBy(x, c.receiver),
         NEW d, d = send_segments_out(c)
  PROVE  ConnAt(s, d, A) /\ Kept(d, c)
<1> USE Zenon
<1> DEFINE q == c.sender.segments_out
           F == [i \in 1 .. Len(q) |-> stamped(c, q[i])]
           u == [c.sender EXCEPT !.segments_out = <<>>]
           o == c.segments_out \o F
<1>1. /\ c.sender \in SenderRecord /\ q \in Seq(SegmentRecord) /\ Len(q) \in Nat
      /\ c.segments_out \in Seq(SegmentRecord) /\ c.receiver \in ReceiverRecord
  BY SMT DEF ConnRecord, SenderRecord
<1>2. d = [c EXCEPT !.segments_out = o, !.sender = u]
  BY SMT DEF send_segments_out
<1>3. ASSUME NEW i \in 1 .. Len(q)
      PROVE  /\ Restamped(stamped(c, q[i]), q[i]) /\ StampedBy(stamped(c, q[i]), c.receiver)
             /\ q[i] \in SegsOf(q) /\ stamped(c, q[i]) \in SegmentRecord
  <2>1. q[i] \in SegmentRecord
    BY <1>1, ElementOf
  <2>2. q[i] \in SegsOf(q)
    BY DEF SegsOf
  <2> HIDE DEF q
  <2>3. Restamped(stamped(c, q[i]), q[i]) /\ StampedBy(stamped(c, q[i]), c.receiver)
    BY <2>1, StampIs
  <2> QED BY <2>2, <2>3 DEF Restamped
<1>4. F \in Seq(SegmentRecord) /\ \A x \in SegsOf(F) : \E i \in 1 .. Len(q) : x = stamped(c, q[i])
  <2>1. F \in [1 .. Len(q) -> SegmentRecord]
    BY <1>3
  <2>2. F \in Seq(SegmentRecord) /\ Len(F) = Len(q) /\ \A i \in 1 .. Len(q) : F[i] = stamped(c, q[i])
    <3>1. \A i \in 1 .. Len(q) : F[i] = stamped(c, q[i])
      OBVIOUS
    <3> HIDE DEF F, q
    <3>2. F \in Seq(SegmentRecord) /\ Len(F) = Len(q)
      BY <1>1, <2>1, SMT
    <3> QED BY <3>1, <3>2, SMT
  <2> HIDE DEF F
  <2> QED BY <2>2 DEF SegsOf
<1> HIDE DEF F
<1>5. o \in Seq(SegmentRecord)
  BY <1>1, <1>4, ConcatIs
<1>6. ASSUME NEW x \in SegsOf(o)
      PROVE  /\ x.rst \/ StampedBy(x, c.receiver)
             /\ \E y \in Q : Restamped(x, y)
  <2>1. x \in SegsOf(c.segments_out) \/ x \in SegsOf(F)
    BY <1>1, <1>4, SegsConcat
  <2>2. CASE x \in SegsOf(c.segments_out)
    <3>1. x \in SegmentRecord
      BY <1>1, <2>2, SegsType
    <3>2. Restamped(x, x)
      BY <3>1 DEF Restamped
    <3> QED BY <2>2, <3>2
  <2>3. CASE x \in SegsOf(F)
    <3>1. PICK i \in 1 .. Len(q) : x = stamped(c, q[i])
      BY <1>4, <2>3
    <3> QED BY <1>3, <3>1
  <2> QED BY <2>1, <2>2, <2>3
<1> HIDE DEF o
<1>u. u = [c.sender EXCEPT !.segments_out = <<>>]
  BY SMT
<1> HIDE DEF u
<1>7. Drained(s, c.sender, u, SegsOf(o), A)
  <2>1. AllRestamped(SegsOf(o), Q)
    BY <1>6 DEF AllRestamped
  <2> QED BY <1>u, <2>1, DrainTurn
<1>8. /\ SenderTurn(s, u, SegsOf(o), A) /\ SameApp(c.sender, u) /\ u.segments_out = <<>>
      /\ u \in SenderRecord /\ u.next_seqno = c.sender.next_seqno
  <2>1. SenderOK(u)
    BY <1>7 DEF Drained, SenderTurn
  <2> QED BY <1>7, <2>1, SenderIs DEF Drained
<1>9. /\ d \in ConnRecord /\ d.sender = u /\ d.segments_out = o
      /\ d.receiver = c.receiver /\ d.active = c.active /\ d.last_tick_time = c.last_tick_time
      /\ d.linger_after_streams_finish = c.linger_after_streams_finish
  BY <1>2, <1>5, <1>8 DEF ConnRecord
<1> QED BY <1>6, <1>8, <1>9 DEF ConnAt, Kept

\* A turn of the sender within a call, and what it wants sent.
LEMMA PushTurn ==
  ASSUME NEW s, SenderOK(s), NEW c, NEW A, ConnAt(s, c, A),
         NEW b \in ConnRecord, b.receiver = c.receiver, b.segments_out = c.segments_out, NEW B,
         SenderTurn(c.sender, b.sender, SegsOf(b.sender.segments_out), B),
         B = {} \/ (c.sender = s /\ B \subseteq A),
         NEW d, d = send_segments_out(b)
  PROVE  ConnAt(s, d, A) /\ Kept(d, b)
<1> USE Zenon
<1> DEFINE Q == SegsOf(c.segments_out)  P == SegsOf(b.sender.segments_out)
<1>1. SenderTurn(s, c.sender, Q, A)
  BY DEF ConnAt
<1>2. SenderTurn(s, b.sender, Q \union P, A)
  BY <1>1, TurnTwice
<1>3. Q \subseteq Q \union P /\ P \subseteq Q \union P
  BY SMT
<1>4. ReceiverOK(b.receiver) /\ \A x \in Q : x.rst \/ StampedBy(x, b.receiver)
  BY DEF ConnAt
<1> QED BY <1>2, <1>3, <1>4, Flush

\* A call begins.
LEMMA StartAt ==
  ASSUME NEW c, Resting(c), NEW A
  PROVE  ConnAt(c.sender, c, A)
<1> USE Zenon
<1>1. SenderTurn(c.sender, c.sender, {}, {})
  BY TurnNothing DEF Resting
<1>2. SenderTurn(c.sender, c.sender, {}, A)
  <2>1. Told(c.sender, c.sender, A)
    BY <1>1 DEF SenderTurn, Told
  <2> QED BY <1>1, <2>1 DEF SenderTurn
<1>3. SegsOf(c.segments_out) = {}
  BY SegsFew DEF Resting
<1> QED BY <1>2, <1>3 DEF ConnAt, Resting

\* The sender takes a turn and its segments are sent.
LEMMA SendWith ==
  ASSUME NEW s, SenderOK(s), NEW c, NEW A, ConnAt(s, c, A), NEW t, NEW B,
         SenderTurn(c.sender, t, SegsOf(t.segments_out), B),
         B = {} \/ (c.sender = s /\ B \subseteq A),
         NEW d, d = send_segments_out([c EXCEPT !.sender = t])
  PROVE  Sends(s, c, t, d, A)
<1> DEFINE b == [c EXCEPT !.sender = t]
<1>1. c \in ConnRecord /\ t \in SenderRecord
  BY SenderIs, Zenon DEF ConnAt, SenderTurn
<1>2. b \in ConnRecord /\ b.sender = t /\ b.receiver = c.receiver /\ b.segments_out = c.segments_out
  BY <1>1 DEF ConnRecord
<1>3. d = send_segments_out(b)
  OBVIOUS
<1> HIDE DEF b
<1>4. ConnAt(s, d, A) /\ Kept(d, b)
  BY <1>2, <1>3, PushTurn, Zenon
<1> QED BY <1>2, <1>4, Zenon DEF Sends, Kept

\* connect().
LEMMA ConnectAt ==
  ASSUME NEW c, Resting(c), NEW A, NEW d, d = connect(c)
  PROVE  ConnAt(c.sender, d, A) /\ d.receiver = c.receiver /\ SameApp(c.sender, d.sender)
<1> USE Zenon
<1> DEFINE t == fill_window(c.sender)
<1>1. SenderOK(c.sender) /\ ConnAt(c.sender, c, A) /\ c.sender.segments_out = <<>>
  BY StartAt DEF Resting
<1>2. SenderTurn(c.sender, t, SegsOf(t.segments_out), {}) /\ SameApp(c.sender, t)
  BY <1>1, FillAlone
<1>3. d = send_segments_out([c EXCEPT !.sender = t])
  BY DEF connect
<1> HIDE DEF t
<1>4. Sends(c.sender, c, t, d, A)
  BY <1>1, <1>2, <1>3, SendWith
<1> QED BY <1>2, <1>4 DEF Sends, SameApp

\* The application's stream changes, before the sender fills the window.
LEMMA StreamAt ==
  ASSUME NEW c, Resting(c), ~ c.sender.stream.input_ended, NEW A,
         NEW bs, StreamInv(bs), bs.bytes_read = c.sender.stream.bytes_read,
         c.sender.stream.bytes_written <= bs.bytes_written,
         NEW d, d = send_segments_out([c EXCEPT !.sender = fill_window([c.sender EXCEPT !.stream = bs])])
  PROVE  Streams(c, d, bs, A)
<1> USE Zenon
<1> DEFINE s == c.sender
           u == [s EXCEPT !.stream = bs]
           t == fill_window(u)
<1>1. SenderOK(s) /\ ConnAt(s, c, A) /\ s.segments_out = <<>>
  BY StartAt DEF Resting
<1>2. ~ s.fin_sent
  BY <1>1, SenderIs
<1>3. SenderInv(u) /\ TimerInv(u) /\ SameQueue(s, u) /\ u.stream = bs /\ u.segments_out = <<>>
  BY <1>1, <1>2, SenderStream
<1>4. d = send_segments_out([c EXCEPT !.sender = t])
  BY SMT
<1> HIDE DEF u
<1>5. SenderTurn(s, t, SegsOf(t.segments_out), {}) /\ SameApp(u, t)
  BY <1>1, <1>3, FillTurn
<1> HIDE DEF t
<1>6. Sends(s, c, t, d, A)
  BY <1>1, <1>4, <1>5, SendWith
<1> QED BY <1>3, <1>5, <1>6 DEF Sends, SameApp, Streams

\* write(), of what fits.
LEMMA WriteAt ==
  ASSUME NEW c, Resting(c), ~ c.sender.stream.input_ended, NEW A, NEW n \in Nat \ {0},
         n <= remaining_capacity(c.sender.stream),
         NEW d, d = connection_write(c, Bytes(c.sender.stream.bytes_written + 1, c.sender.stream.bytes_written + n))
  PROVE  /\ ConnAt(c.sender, d, A) /\ d.receiver = c.receiver
         /\ d.sender.stream.bytes_written = c.sender.stream.bytes_written + n
         /\ d.sender.stream.input_ended = c.sender.stream.input_ended
<1> USE Zenon
<1> DEFINE o == c.sender.stream
           data == Bytes(o.bytes_written + 1, o.bytes_written + n)
           bs == write(o, data)
<1>1. SenderOK(c.sender) /\ StreamInv(o) /\ o.bytes_written \in Nat
  BY SenderIs DEF Resting, SenderOK, SenderInv, NumberedInv
<1>2. remaining_capacity(o) \in Nat
  BY <1>1, StreamSize
<1> HIDE DEF o
<1>3. Smaller(n, remaining_capacity(o)) = n
  BY <1>2, SMT DEF Smaller, o
<1>4. /\ StreamInv(bs) /\ bs.bytes_read = o.bytes_read /\ bs.input_ended = o.input_ended
      /\ o.bytes_written <= bs.bytes_written /\ bs.bytes_written = o.bytes_written + n
  BY <1>1, <1>3, StreamWrite
<1>5. data # <<>>
  <2> DEFINE a == o.bytes_written + 1  b == o.bytes_written + n
  <2>1. data = Bytes(a, b)
    BY SMT
  <2>2. a \in Nat /\ b \in Int /\ a <= b + 1 /\ b - a + 1 # 0
    BY <1>1, SMT
  <2> HIDE DEF a, b, data
  <2>3. Len(data) # 0
    BY <2>1, <2>2, BytesType
  <2> QED BY <2>3, SMT
<1>6. d = send_segments_out([c EXCEPT !.sender = fill_window([c.sender EXCEPT !.stream = bs])])
  BY <1>5 DEF connection_write, o
<1> HIDE DEF bs, data
<1>7. Streams(c, d, bs, A)
  BY <1>4, <1>6, StreamAt DEF o
<1> QED BY <1>4, <1>7 DEF o, Streams

\* end_input_stream().
LEMMA EndAt ==
  ASSUME NEW c, Resting(c), ~ c.sender.stream.input_ended, NEW A, NEW d, d = end_input_stream(c)
  PROVE  /\ ConnAt(c.sender, d, A) /\ d.receiver = c.receiver
         /\ d.sender.stream.bytes_written = c.sender.stream.bytes_written
         /\ d.sender.stream.input_ended
<1> USE Zenon
<1> DEFINE o == c.sender.stream
           bs == end_input(o)
<1>1. SenderOK(c.sender) /\ StreamInv(o) /\ o.bytes_written \in Nat
  BY SenderIs DEF Resting, SenderOK, SenderInv, NumberedInv
<1>2. /\ StreamInv(bs) /\ bs.bytes_read = o.bytes_read
      /\ bs.bytes_written = o.bytes_written /\ bs.input_ended = TRUE
  BY <1>1, StreamEnd
<1>3. d = send_segments_out([c EXCEPT !.sender = fill_window([c.sender EXCEPT !.stream = bs])])
  BY DEF end_input_stream
<1> HIDE DEF bs
<1>4. o.bytes_written <= bs.bytes_written
  BY <1>1, <1>2, SMT
<1>5. Streams(c, d, bs, A)
  BY <1>2, <1>3, <1>4, StreamAt
<1> QED BY <1>2, <1>5 DEF Streams

\* The members after a reset.
LEMMA ResetRecord ==
  ASSUME NEW c \in ConnRecord, NEW t \in SenderRecord, NEW r \in ReceiverRecord,
         NEW d, d = [c EXCEPT !.sender = t, !.receiver = r, !.active = FALSE, !.last_tick_time = 0]
  PROVE  Composed(d, c, t, r)
  BY Zenon DEF ConnRecord, Composed

\* A RST, from the network or the connection's own.
LEMMA ResetAt ==
  ASSUME NEW s, SenderOK(s), NEW c \in ConnRecord, NEW A, NEW Q, SenderTurn(s, c.sender, Q, A),
         c.sender.segments_out = <<>>, \A x \in SegsOf(c.segments_out) : x.rst /\ x \in SegmentRecord,
         Hearing(c, A), NEW d, d = reset_received(c)
  PROVE  Serves(s, c, d, A)
<1> USE Zenon
<1> DEFINE t == [c.sender EXCEPT !.stream = set_error(c.sender.stream)]
           r == [c.receiver EXCEPT !.reassembler.output = set_error(@)]
<1>1. d = [c EXCEPT !.sender = t, !.receiver = r, !.active = FALSE, !.last_tick_time = 0]
  BY SMT DEF reset_received
<1>2. SenderOK(c.sender)
  BY DEF SenderTurn
<1>3. SenderTurn(c.sender, t, {}, {}) /\ SameApp(c.sender, t) /\ t.segments_out = <<>>
  BY <1>2, ErrorTurn
<1>4. ReceiverTurn(r, c.receiver, A)
  BY DEF ReceiverTurn
<1> HIDE DEF t, r
<1>5. ReceiverOK(r)
  BY <1>4 DEF Hearing
<1>6. SenderTurn(s, t, Q \union {}, A)
  BY <1>3, TurnTwice
<1>7. \A x \in SegsOf(c.segments_out) : InTransit(x, t)
  BY DEF InTransit
<1>8. SenderTurn(s, t, SegsOf(c.segments_out), A)
  BY <1>6, <1>7 DEF SenderTurn
<1>9. t \in SenderRecord /\ r \in ReceiverRecord
  BY <1>3, <1>5, SenderIs DEF SenderTurn, ReceiverOK
<1>10. d \in ConnRecord /\ d.sender = t /\ d.receiver = r /\ d.segments_out = c.segments_out
  <2>1. Composed(d, c, t, r)
    BY <1>1, <1>9, ResetRecord
  <2> QED BY <2>1 DEF Composed
<1>11. ConnAt(s, d, A)
  BY <1>3, <1>5, <1>8, <1>10 DEF ConnAt
<1> QED BY <1>3, <1>4, <1>10, <1>11 DEF Serves

\* The connection gives up.
LEMMA AbortAt ==
  ASSUME NEW s, SenderOK(s), NEW c, NEW A, ConnAt(s, c, A), Hearing(c, A), NEW d, d = abort(c)
  PROVE  Serves(s, c, d, A)
<1> USE Zenon
<1> DEFINE n == wrap(c.sender.next_seqno, c.sender.isn)
           rst == [BlankSegment EXCEPT !.seqno = n, !.rst = TRUE]
           q == <<rst>>
           b == [c EXCEPT !.segments_out = q]
<1>1. c \in ConnRecord /\ SenderOK(c.sender)
  BY DEF ConnAt, SenderTurn
<1>2. n \in SeqNo
  BY <1>1, SenderIs, WrapType
<1>3. d = reset_received(b)
  BY DEF abort
<1> HIDE DEF n
<1>4. rst \in SegmentRecord /\ rst.rst
  BY <1>2, BlankSegmentIs DEF SegmentRecord
<1> HIDE DEF rst
<1>q. q \in Seq(SegmentRecord) /\ q = Append(<<>>, rst)
  BY <1>4, SMT
<1> HIDE DEF q
<1>5. b \in ConnRecord /\ b.sender = c.sender /\ b.receiver = c.receiver /\ b.segments_out = Append(<<>>, rst)
  BY <1>1, <1>q DEF ConnRecord
<1> HIDE DEF b
<1>6. \A x \in SegsOf(b.segments_out) : x.rst /\ x \in SegmentRecord
  <2>1. SegsOf(b.segments_out) = {rst}
    BY <1>5, SegsFew
  <2> QED BY <1>4, <2>1
<1>7. SenderTurn(s, b.sender, SegsOf(c.segments_out), A) /\ b.sender.segments_out = <<>> /\ Hearing(b, A)
  BY <1>5 DEF ConnAt, Hearing
<1>8. Serves(s, b, d, A)
  BY <1>3, <1>5, <1>6, <1>7, ResetAt
<1> QED BY <1>5, <1>8 DEF Serves

\* Only members that no segment depends on change.
LEMMA SameAt ==
  ASSUME NEW s, NEW c, NEW A, ConnAt(s, c, A), NEW d \in ConnRecord,
         d.sender = c.sender, d.receiver = c.receiver, d.segments_out = c.segments_out
  PROVE  ConnAt(s, d, A)
  BY Zenon DEF ConnAt

\* The end of tick().
LEMMA LingerAt ==
  ASSUME NEW s, NEW c, NEW A, ConnAt(s, c, A), NEW d, d = linger(c)
  PROVE  Sends(s, c, c.sender, d, A)
<1> DEFINE b == c.linger_after_streams_finish /\ c.last_tick_time < linger_time
<1>1. c \in ConnRecord
  BY Zenon DEF ConnAt
<1>2. b \in BOOLEAN
  OBVIOUS
<1>3. d = [c EXCEPT !.active = b] \/ d = c
  BY Zenon DEF linger
<1> HIDE DEF b
<1>4. d \in ConnRecord /\ d.sender = c.sender /\ d.receiver = c.receiver /\ d.segments_out = c.segments_out
  BY <1>1, <1>2, <1>3 DEF ConnRecord
<1>5. ConnAt(s, d, A)
  BY <1>4, SameAt, Zenon
<1> QED BY <1>4, <1>5, Zenon DEF Sends, SameApp

\* tick().
LEMMA TickAt ==
  ASSUME NEW c, Resting(c), NEW A, Hearing(c, A), NEW ms \in Nat, NEW d, d = connection_tick(c, ms)
  PROVE  Serves(c.sender, c, d, A)
<1> USE Zenon
<1> DEFINE s == c.sender
           t == sender_tick(s, ms)
           m == Smaller(c.last_tick_time + ms, linger_time)
           b == [c EXCEPT !.last_tick_time = m]
           c1 == send_segments_out([b EXCEPT !.sender = t])
           c2 == IF c1.sender.consecutive_retransmissions > MAX_RETX_ATTEMPTS THEN abort(c1) ELSE c1
<1>1. c \in ConnRecord /\ SenderOK(s) /\ s.segments_out = <<>> /\ ConnAt(s, c, A)
  BY StartAt DEF Resting
<1>2. SenderTurn(s, t, SegsOf(t.segments_out), {}) /\ SameApp(s, t)
  BY <1>1, TickTurn
<1>3. m \in Nat
  <2>1. c.last_tick_time \in Nat /\ linger_factor \in Nat /\ rt_timeout \in Nat
    BY <1>1, ConnectionAssumption, SenderAssumption, SMT DEF ConnRecord
  <2>2. linger_time \in Nat
    BY <2>1, SMT DEF linger_time
  <2> QED BY <2>1, <2>2, SMT DEF Smaller
<1>4. d = linger(c2)
  <2>1. [b EXCEPT !.sender = t] = [c EXCEPT !.last_tick_time = m, !.sender = t]
    <3> HIDE DEF m, t
    <3> QED BY <1>1, SMT
  <2> QED BY <2>1 DEF connection_tick
<1> HIDE DEF m
<1>5. b \in ConnRecord /\ b.sender = c.sender /\ b.receiver = c.receiver /\ b.segments_out = c.segments_out
  BY <1>1, <1>3, SMT DEF ConnRecord
<1> HIDE DEF b, t
<1>6. ConnAt(s, b, A)
  BY <1>1, <1>5, SameAt
<1>7. Sends(s, b, t, c1, A)
  BY <1>1, <1>2, <1>5, <1>6, SendWith
<1> HIDE DEF c1
<1>8. ConnAt(s, c1, A) /\ c1.receiver = c.receiver /\ SameApp(s, c1.sender)
  BY <1>2, <1>5, <1>7 DEF Sends, SameApp
<1>9. Serves(s, c1, c1, A)
  BY <1>8 DEF Serves, ReceiverTurn, SameApp
<1>10. Hearing(c1, A)
  BY <1>8 DEF Hearing
<1>11. Serves(s, c1, abort(c1), A)
  BY <1>1, <1>8, <1>10, AbortAt
<1>12. Serves(s, c1, c2, A)
  BY <1>9, <1>11
<1> HIDE DEF c2
<1>13. Sends(s, c2, c2.sender, d, A)
  BY <1>4, <1>12, LingerAt DEF Serves
<1>14. ReceiverTurn(d.receiver, c.receiver, A) /\ SameApp(c.sender, d.sender)
  BY <1>8, <1>12, <1>13 DEF Serves, Sends, SameApp
<1> QED BY <1>13, <1>14 DEF Serves, Sends

\* The connection stops lingering, or does not.
LEMMA StopAt ==
  ASSUME NEW s, NEW c, NEW A, ConnAt(s, c, A), NEW d, d = stop_lingering(c)
  PROVE  Stopped(s, c, d, A)
<1> USE Zenon
<1>1. c \in ConnRecord
  BY DEF ConnAt
<1>2. d = [c EXCEPT !.linger_after_streams_finish = FALSE] \/ d = c
  BY DEF stop_lingering
<1>3. d \in ConnRecord /\ d.sender = c.sender /\ d.receiver = c.receiver /\ d.segments_out = c.segments_out
  BY <1>1, <1>2 DEF ConnRecord
<1>4. ConnAt(s, d, A)
  BY <1>3, SameAt
<1> QED BY <1>3, <1>4 DEF Stopped

\* The sender is told of the acknowledgment.
LEMMA AckAt ==
  ASSUME NEW s, SenderOK(s), NEW c, NEW A, ConnAt(s, c, A), c.sender = s,
         NEW seg \in A, seg \in SegmentRecord, ~ seg.rst, seg.win \in 0 .. Quarter,
         NEW d, d = acknowledged(c, seg)
  PROVE  Continues(s, c, d, A)
<1> USE Zenon
<1> DEFINE t == ack_received(s, seg.ackno, seg.win)
<1>1. CASE ~ seg.ack
  <2>1. d = c
    BY <1>1 DEF acknowledged
  <2> QED BY <2>1 DEF SameApp, Continues
<1>2. CASE seg.ack
  <2>1. d = send_segments_out([c EXCEPT !.sender = t])
    BY <1>2 DEF acknowledged
  <2>2. seg.ackno \in SeqNo /\ s.segments_out = <<>>
    <3>1. seg.ackno \in SeqNo
      BY SMT DEF SegmentRecord
    <3> QED BY <3>1 DEF ConnAt
  <2>3. SenderTurn(s, t, SegsOf(t.segments_out), A) /\ SameApp(s, t)
    BY <1>2, <2>2, AckTurn
  <2>4. A \subseteq A
    BY SMT
  <2> HIDE DEF t
  <2>5. Sends(s, c, t, d, A)
    BY <2>1, <2>3, <2>4, SendWith
  <2> QED BY <2>3, <2>5 DEF Sends, SameApp, Continues
<1> QED BY <1>1, <1>2, SMT

\* The sender's answer is a turn.
LEMMA AnswerTurn ==
  ASSUME NEW s, SenderOK(s), s.segments_out = <<>>
  PROVE  SenderTurn(s, Answer(s), SegsOf(Answer(s).segments_out), {}) /\ SameApp(s, Answer(s))
<1> USE Zenon
<1> DEFINE f == fill_window(s)  t == send_empty_segment(f)
<1>1. SenderTurn(s, f, SegsOf(f.segments_out), {}) /\ SameApp(s, f) /\ f.next_seqno # 0
  BY FillAlone
<1>2. Answer(s) = IF f.segments_out # <<>> THEN f ELSE t
  BY DEF Answer
<1> HIDE DEF f
<1>3. CASE f.segments_out # <<>>
  <2>1. Answer(s) = f
    BY <1>2, <1>3
  <2> QED BY <1>1, <2>1
<1>4. CASE f.segments_out = <<>>
  <2>1. Answer(s) = t
    BY <1>2, <1>4
  <2>2. SenderOK(f)
    BY <1>1 DEF SenderTurn
  <2>3. SenderTurn(f, t, SegsOf(t.segments_out), {}) /\ SameApp(f, t)
    BY <1>1, <1>4, <2>2, EmptyTurn
  <2> HIDE DEF t
  <2>4. SenderTurn(s, t, SegsOf(f.segments_out) \union SegsOf(t.segments_out), {})
    BY <1>1, <2>3, TurnTwice
  <2>5. SenderTurn(s, t, SegsOf(t.segments_out), {})
    BY <2>4 DEF SenderTurn
  <2> QED BY <1>1, <2>1, <2>3, <2>5 DEF SameApp
<1> QED BY <1>3, <1>4, SMT

\* The answer to a segment.
LEMMA AnswerAt ==
  ASSUME NEW s, SenderOK(s), NEW c, NEW A, ConnAt(s, c, A), NEW seg, NEW d, d = answered(c, seg)
  PROVE  Continues(s, c, d, A)
<1> USE Zenon
<1> DEFINE t == Answer(c.sender)
<1>1. CASE d = c
  BY <1>1 DEF SameApp, Continues
<1>2. CASE d = send_segments_out([c EXCEPT !.sender = t])
  <2>1. SenderOK(c.sender) /\ c.sender.segments_out = <<>>
    BY DEF ConnAt, SenderTurn
  <2>2. SenderTurn(c.sender, t, SegsOf(t.segments_out), {}) /\ SameApp(c.sender, t)
    BY <2>1, AnswerTurn
  <2> HIDE DEF t
  <2>3. Sends(s, c, t, d, A)
    BY <1>2, <2>2, SendWith
  <2> QED BY <2>2, <2>3 DEF Sends, SameApp, Continues
<1>3. d = c \/ d = send_segments_out([c EXCEPT !.sender = t])
  BY DEF answered, Answer
<1> QED BY <1>1, <1>2, <1>3, SMT

\* segment_received().
LEMMA DeliverAt ==
  ASSUME NEW c, Resting(c), NEW A, Hearing(c, A), NEW seg \in A, seg \in SegmentRecord,
         ~ seg.rst => seg.win \in 0 .. Quarter, NEW d, d = segment_received(c, seg)
  PROVE  Serves(c.sender, c, d, A)
<1> USE Zenon
<1> DEFINE s == c.sender
<1>1. SenderOK(s) /\ s.segments_out = <<>> /\ ConnAt(s, c, A) /\ c \in ConnRecord
  BY StartAt DEF Resting
<1>2. CASE seg.rst
  <2>1. d = reset_received(c)
    BY <1>2 DEF segment_received
  <2>2. SegsOf(c.segments_out) = {}
    BY SegsFew DEF Resting
  <2>3. SenderTurn(s, s, SegsOf(c.segments_out), A) /\ \A x \in SegsOf(c.segments_out) : x.rst /\ x \in SegmentRecord
    BY <1>1, <2>2 DEF ConnAt
  <2> QED BY <1>1, <2>1, <2>3, ResetAt
<1>3. CASE ~ seg.rst
  <2> DEFINE r == receiver_segment_received(c.receiver, seg)
             c1 == [c EXCEPT !.receiver = r, !.last_tick_time = 0]
             c2 == stop_lingering(c1)
             c3 == acknowledged(c2, seg)
             c4 == answered(c3, seg)
  <2>1. d = IF hung(c1) THEN c1 ELSE c4
    BY <1>3 DEF segment_received
  <2>2. ReceiverTurn(r, c.receiver, A)
    BY <1>3 DEF ReceiverTurn
  <2> HIDE DEF r
  <2>3. ReceiverOK(r) /\ r \in ReceiverRecord
    BY <2>2 DEF Hearing, ReceiverOK
  <2>4. c1 \in ConnRecord /\ c1.sender = s /\ c1.receiver = r /\ c1.segments_out = c.segments_out
    BY <1>1, <2>3 DEF ConnRecord
  <2> HIDE DEF c1
  <2>5. Resting(c1)
    BY <2>3, <2>4 DEF Resting
  <2>6. ConnAt(s, c1, A)
    BY <2>4, <2>5, StartAt
  <2>7. ConnAt(s, c2, A) /\ c2.sender = s /\ c2.receiver = r
    <3>1. Stopped(s, c1, c2, A)
      BY <2>6, StopAt
    <3> QED BY <2>4, <3>1 DEF Stopped
  <2> HIDE DEF c2
  <2>8. ConnAt(s, c3, A) /\ c3.receiver = r /\ SameApp(s, c3.sender)
    <3>1. Continues(s, c2, c3, A)
      BY <1>1, <1>3, <2>7, AckAt
    <3> QED BY <2>7, <3>1 DEF Continues
  <2> HIDE DEF c3
  <2>9. ConnAt(s, c4, A) /\ c4.receiver = r /\ SameApp(s, c4.sender)
    <3>1. Continues(s, c3, c4, A)
      BY <1>1, <2>8, AnswerAt
    <3> QED BY <2>8, <3>1 DEF Continues, SameApp
  <2> HIDE DEF c4
  <2> QED BY <2>1, <2>2, <2>4, <2>6, <2>9 DEF Serves, SameApp
<1> QED BY <1>2, <1>3, SMT

-----------------------------------------------------------------------------

\* What a direction shows for one length of the stream.
LEMMA FlowAt ==
  ASSUME NEW s, NEW r, NEW D, NEW A, NEW i, NEW M \in Nat, Flow(s, r, D, A, i, M), NEW L \in Totals(s, M)
  PROVE  /\ stream_out(r).bytes_written \in Nat /\ stream_out(r).bytes_read \in Nat
         /\ stream_out(r).bytes_read <= stream_out(r).bytes_written
         /\ stream_out(r).bytes_written <= L
         /\ stream_out(r).input_ended => stream_out(r).bytes_written = L
         /\ s.confirmed_seqno <= stream_out(r).bytes_written + 1 \/ stream_out(r).bytes_written = L
<1>1. SenderOK(s) /\ s.stream.bytes_written <= M /\ Sound(r, L, i, recv_capacity) /\ Arrived(r, L, s.confirmed_seqno)
  BY Zenon DEF Flow, Agree
<1>2. L \in Nat
  BY <1>1, TotalsIs, Zenon
<1>3. recv_capacity \in Nat \ {0}
  BY ConnectionAssumption
<1>4. /\ stream_out(r).bytes_written \in Nat /\ stream_out(r).bytes_read \in Nat
      /\ stream_out(r).bytes_written <= L /\ StreamInv(stream_out(r))
      /\ stream_out(r).input_ended => stream_out(r).bytes_written = L
  BY <1>1, <1>2, <1>3, SoundIs
<1> QED BY <1>1, <1>4, Zenon DEF Arrived, StreamInv

\* A direction delivers.
LEMMA FlowDelivers ==
  ASSUME NEW s, NEW r, NEW D, NEW A, NEW i, NEW M \in Nat, Flow(s, r, D, A, i, M)
  PROVE  Delivered(s, r)
<1> USE Zenon
<1> DEFINE w == stream_out(r).bytes_written  d == stream_out(r).bytes_read  e == stream_out(r).input_ended
           b == s.stream.bytes_written  x == s.stream.bytes_read  c == s.confirmed_seqno
<1>1. SenderOK(s) /\ b <= M
  BY DEF Flow
<1>2. /\ b \in Nat /\ x \in Nat /\ x <= b /\ c \in Nat
      /\ s.fin_sent => s.next_seqno = b + 2 /\ s.stream.input_ended
  BY <1>1, SenderIs
<1>3. ASSUME NEW L \in Totals(s, M)
      PROVE  /\ w \in Nat /\ d \in Nat /\ d <= w /\ w <= L /\ (e => w = L)
             /\ c <= w + 1 \/ w = L
  BY <1>3, FlowAt
<1>4. Totals(s, M) = IF s.fin_sent THEN {b} ELSE x .. M + 1
  BY DEF Totals
<1> HIDE DEF w, d, e, b, x, c
<1>5. CASE s.fin_sent
  <2>1. b \in Totals(s, M)
    BY <1>4, <1>5
  <2>2. /\ w \in Nat /\ d \in Nat /\ d <= w /\ w <= b /\ (e => w = b)
        /\ c <= w + 1 \/ w = b
    BY <1>3, <2>1
  <2>3. s.next_seqno = b + 2 /\ s.stream.input_ended
    BY <1>2, <1>5
  <2>4. c = s.next_seqno => w = b
    BY <1>2, <2>2, <2>3, SMT
  <2> QED BY <1>2, <1>5, <2>2, <2>3, <2>4 DEF Delivered, w, d, e, b, c
<1>6. CASE ~ s.fin_sent
  <2>1. x \in Totals(s, M) /\ M \in Totals(s, M) /\ M + 1 \in Totals(s, M)
    <3>1. Totals(s, M) = x .. M + 1
      BY <1>4, <1>6
    <3>2. x \in x .. M + 1 /\ M \in x .. M + 1 /\ M + 1 \in x .. M + 1
      BY <1>1, <1>2, SMT DEF b
    <3> QED BY <3>1, <3>2
  <2>2. w \in Nat /\ d \in Nat /\ d <= w /\ w <= x
    BY <1>3, <2>1
  <2>3. (e => w = M) /\ (c <= w + 1 \/ w = M)
    BY <1>3, <2>1
  <2>4. (e => w = M + 1) /\ (c <= w + 1 \/ w = M + 1)
    BY <1>3, <2>1
  <2>5. M # M + 1
    BY SMT
  <2>6. ~ e /\ c <= w + 1
    BY <2>3, <2>4, <2>5
  <2>7. w <= b
    BY <1>2, <2>2, SMT
  <2> QED BY <1>2, <1>6, <2>2, <2>6, <2>7 DEF Delivered, w, d, e, b, c
<1> QED BY <1>5, <1>6, SMT

\* The queue is emptied.
LEMMA SentQueue ==
  ASSUME NEW d \in ConnRecord, NEW f, f = [d EXCEPT !.segments_out = <<>>]
  PROVE  Emptied(f, d)
<1> DEFINE q == <<>>
<1>1. q \in Seq(SegmentRecord)
  OBVIOUS
<1>2. f = [d EXCEPT !.segments_out = q]
  OBVIOUS
<1> HIDE DEF q
<1>3. f \in ConnRecord /\ f.sender = d.sender /\ f.receiver = d.receiver /\ f.segments_out = q
  BY <1>1, <1>2 DEF ConnRecord
<1> QED BY <1>3, Zenon DEF Emptied, q

-----------------------------------------------------------------------------

\* The receiver's output is read.
LEMMA ReadRecord ==
  ASSUME NEW c \in ConnRecord, NEW u \in ReceiverRecord, NEW d, d = [c EXCEPT !.receiver = u]
  PROVE  Composed(d, c, c.sender, u)
  BY DEF ConnRecord, Composed

\* Segments that are lost are missed by no one who relies on a direction.
LEMMA FlowLess ==
  ASSUME NEW s, NEW r, NEW D, NEW A, NEW i, NEW M, Flow(s, r, D, A, i, M), NEW B, B \subseteq D, NEW C, C \subseteq A
  PROVE  Flow(s, r, B, C, i, M)
<1>1. \A L \in Totals(s, M) : Agree(s, r, C, L, i)
  BY Zenon DEF Flow, Agree
<1> QED BY <1>1, Zenon DEF Flow

\* A new sender has sent nothing.
LEMMA NewSenderIs ==
  ASSUME NEW cap \in Nat, NEW i \in SeqNo, NEW s, s = TCPSender(cap, i)
  PROVE  Unsent(s, i)
<1> USE Zenon
<1> DEFINE bs == ByteStream(cap)
<1>1. bs.bytes_read = 0 /\ bs.bytes_written = 0 /\ bs.input_ended = FALSE
  BY NewStream
<1>2. SenderOK(s) /\ s.segments_out = <<>>
  BY NewSender
<1>3. s = [isn |-> i, segments_out |-> <<>>, outstanding_segments |-> <<>>,
           applying_retransmission_timeout |-> rt_timeout, last_tick_time |-> 0,
           timing_begins |-> FALSE, consecutive_retransmissions |-> 0,
           stream |-> bs, next_seqno |-> 0, confirmed_seqno |-> 0,
           fin_sent |-> FALSE, bytes_in_flight |-> 0, receiver_window_size |-> 0]
  BY DEF TCPSender
<1> HIDE DEF bs
<1>4. /\ s.isn = i /\ s.next_seqno = 0 /\ s.confirmed_seqno = 0 /\ s.receiver_window_size = 0
      /\ s.stream = bs
  BY <1>3, SMT
<1> QED BY <1>1, <1>2, <1>4 DEF Unsent

\* Nothing has been sent: the direction is in order.
LEMMA FlowBegins ==
  ASSUME NEW i \in SeqNo, NEW M \in Nat, NEW s, s = TCPSender(send_capacity, i),
         NEW r, r = TCPReceiver(recv_capacity)
  PROVE  Flow(s, r, {}, {}, i, M)
<1> USE Zenon
<1>1. send_capacity \in Nat /\ recv_capacity \in Nat \ {0} /\ recv_capacity \in Nat
  BY ConnectionAssumption, SMT
<1>2. /\ SenderOK(s) /\ s.isn = i /\ s.next_seqno = 0 /\ s.confirmed_seqno = 0 /\ s.receiver_window_size = 0
      /\ s.stream.bytes_written = 0
  <2>1. Unsent(s, i)
    BY <1>1, NewSenderIs
  <2> QED BY <2>1 DEF Unsent
<1>3. s.stream.bytes_written <= M
  BY <1>2, SMT
<1>4. logical_window(s) = 1
  BY <1>2 DEF logical_window
<1>5. ASSUME NEW L \in Totals(s, M) PROVE Agree(s, r, {}, L, i)
  <2>1. L \in Nat
    BY <1>2, <1>3, TotalsIs
  <2>2. Sound(r, L, i, recv_capacity) /\ Vacant(r.reassembler, recv_capacity, L)
    BY <1>1, <2>1, NewReceiver
  <2>3. stream_out(r).bytes_written = 0
    BY <2>2 DEF Vacant, stream_out
  <2>4. window_size(r) \in Nat
    BY <2>1, <2>2, SoundOK DEF ReceiverOK
  <2>5. Arrived(r, L, s.confirmed_seqno)
    BY <1>2, <2>3, SMT DEF Arrived
  <2>6. Larger(window_size(r), 1) \in Nat
    BY <2>4, SMT DEF Larger
  <2>7. Fits(r, L, s.next_seqno) /\ Fits(r, L, s.confirmed_seqno + logical_window(s))
    BY <1>2, <1>4, <2>3, <2>6, SMT DEF Fits
  <2> QED BY <2>2, <2>5, <2>7 DEF Agree
<1> QED BY <1>2, <1>3, <1>5 DEF Flow

\* A new connection.
LEMMA NewConnection ==
  ASSUME NEW i \in SeqNo, NEW c, c = TCPConnection(i)
  PROVE  /\ c \in ConnRecord /\ c.segments_out = <<>> /\ c.sender = TCPSender(send_capacity, i)
         /\ c.receiver = TCPReceiver(recv_capacity) /\ c.sender.segments_out = <<>>
         /\ c.sender.stream.bytes_written = 0 /\ c.sender.stream.input_ended = FALSE
         /\ inbound_stream(c).bytes_read = 0 /\ inbound_stream(c).input_ended = FALSE
<1> USE Zenon
<1> DEFINE s == TCPSender(send_capacity, i)  r == TCPReceiver(recv_capacity)
<1>1. send_capacity \in Nat /\ recv_capacity \in Nat \ {0} /\ recv_capacity \in Nat /\ 0 \in Nat
  BY ConnectionAssumption, SMT
<1>2. /\ SenderOK(s) /\ s.segments_out = <<>>
      /\ s.stream.bytes_written = 0 /\ s.stream.input_ended = FALSE
  <2>1. Unsent(s, i)
    BY <1>1, NewSenderIs
  <2> QED BY <2>1 DEF Unsent
<1>3. s \in SenderRecord
  BY <1>2, SenderIs
<1>4. Sound(r, 0, i, recv_capacity) /\ Vacant(r.reassembler, recv_capacity, 0)
  BY <1>1, NewReceiver
<1>5. r \in ReceiverRecord /\ stream_out(r).bytes_read = 0 /\ stream_out(r).input_ended = FALSE
  BY <1>4 DEF Sound, Vacant, stream_out
<1>6. c = [sender |-> s, receiver |-> r, segments_out |-> <<>>, linger_after_streams_finish |-> TRUE,
           active |-> TRUE, last_tick_time |-> 0]
  BY DEF TCPConnection
<1> HIDE DEF s, r
<1>7. <<>> \in Seq(SegmentRecord)
  BY SMT
<1>8. c \in ConnRecord /\ c.segments_out = <<>> /\ c.sender = s /\ c.receiver = r
  BY <1>3, <1>5, <1>6, <1>7, SMT DEF ConnRecord
<1> QED BY <1>2, <1>5, <1>8 DEF s, r, inbound_stream

-----------------------------------------------------------------------------

\* When nothing is in flight everything is confirmed.
LEMMA NothingInFlight ==
  ASSUME NEW s, SenderOK(s), s.bytes_in_flight = 0
  PROVE  s.confirmed_seqno = s.next_seqno
<1>1. PICK pos \in [1 .. Len(s.outstanding_segments) + 1 -> 0 .. s.next_seqno] : Chain(s, pos)
  BY Zenon DEF SenderOK, SenderInv, QueueInv
<1>2. s.confirmed_seqno \in Nat /\ s.next_seqno \in Nat /\ s.outstanding_segments \in Seq(SegmentRecord)
  BY SenderIs DEF SenderRecord
<1>3. s.confirmed_seqno <= s.next_seqno
  BY Zenon DEF SenderOK, SenderInv, QueueInv
<1>4. 0 = s.next_seqno - pos[1] /\ pos[1] <= s.confirmed_seqno
  BY <1>1, Zenon DEF Chain
<1>5. Len(s.outstanding_segments) \in Nat
  BY <1>2
<1>6. pos[1] \in Nat
  BY <1>2, <1>5
<1> QED BY <1>2, <1>3, <1>4, <1>6

\* The sender that is summarized as FIN_ACKED.
LEMMA FinAcked ==
  ASSUME NEW s, SenderOK(s), sender_summary(s) = "FIN_ACKED"
  PROVE  s.fin_sent /\ s.confirmed_seqno = s.next_seqno
<1>1. /\ s.next_seqno \in Nat /\ s.stream.bytes_written \in Nat /\ s.stream.bytes_read \in Nat
      /\ s.stream.bytes_read <= s.stream.bytes_written
      /\ s.next_seqno > 0 /\ ~ s.fin_sent => s.next_seqno = s.stream.bytes_read + 1
  BY SenderIs, Zenon
<1>2. /\ ~ s.stream.error /\ s.next_seqno # 0 /\ s.bytes_in_flight = 0
      /\ ~ (s.next_seqno < s.stream.bytes_written + 2)
  BY DEF sender_summary
<1>3. s.fin_sent
  BY <1>1, <1>2
<1> QED BY <1>2, <1>3, NothingInFlight, Zenon

\* The end of a stream.
LEMMA EofIs ==
  ASSUME NEW bs, StreamInv(bs)
  PROVE  eof(bs) <=> bs.input_ended /\ bs.bytes_read = bs.bytes_written
<1>1. buffer_empty(bs) <=> bs.bytes_read = bs.bytes_written
  BY StreamSize, Zenon
<1> QED BY <1>1, Zenon DEF eof

\* It sees a part of what was written.
LEMMA FlowSeen ==
  ASSUME NEW s, NEW r, NEW D, NEW A, NEW i, NEW M \in Nat, Flow(s, r, D, A, i, M),
         NEW g, g = Bytes(1, stream_out(r).bytes_read)
  PROVE  Seen(s, r, g)
<1> USE Zenon
<1> DEFINE w == stream_out(r).bytes_written  d == stream_out(r).bytes_read  b == s.stream.bytes_written
<1>1. Delivered(s, r)
  BY FlowDelivers
<1>2. PICK L \in Totals(s, M) : L \in Nat
  BY TotalsSome DEF Flow
<1>3. Sound(r, L, i, recv_capacity)
  BY <1>2 DEF Flow, Agree
<1>4. StreamInv(stream_out(r))
  BY <1>2, <1>3, SoundOK DEF ReceiverOK
<1>5. eof(stream_out(r)) <=> stream_out(r).input_ended /\ d = w
  BY <1>4, EofIs
<1>6. w \in Nat /\ d \in Nat /\ d <= w /\ b \in Nat /\ w <= b
  BY <1>1 DEF Delivered
<1>7. stream_out(r).input_ended => s.stream.input_ended /\ w = b
  BY <1>1 DEF Delivered
<1> HIDE DEF w, d, b
<1>8. d <= b
  BY <1>6, SMT
<1> QED BY <1>5, <1>6, <1>7, <1>8 DEF Seen, w, d, b

\* The bytes from the first one on.
LEMMA FirstBytes ==
  ASSUME NEW b \in Nat
  PROVE  Len(Bytes(1, b)) = b /\ Bytes(1, b) = [k \in 1 .. b |-> k]
<1> DEFINE B == Bytes(1, b)
<1>1. 1 \in Nat /\ b \in Int /\ 1 <= b + 1 /\ b - 1 + 1 = b
  OBVIOUS
<1>2. B \in Seq(Nat) /\ Len(B) = b - 1 + 1 /\ \A k \in 1 .. b - 1 + 1 : B[k] = 1 + k - 1
  BY <1>1, BytesType, Zenon
<1> HIDE DEF B
<1>3. Len(B) = b /\ \A k \in 1 .. b : B[k] = k
  BY <1>1, <1>2
<1>4. B = [k \in 1 .. b |-> B[k]]
  BY <1>2, <1>3
<1> QED BY <1>3, <1>4, Zenon DEF B

\* The first q of them.
LEMMA FirstOfFirst ==
  ASSUME NEW b \in Nat, NEW q \in Nat, q <= b
  PROVE  SubSeq(Bytes(1, b), 1, q) = Bytes(1, q)
<1>1. 1 \in Nat /\ b \in Int /\ 1 <= b + 1 /\ q <= b - 1 + 1 /\ 1 + q - 1 = q
  OBVIOUS
<1>2. SubSeq(Bytes(1, b), 1, q) = Bytes(1, 1 + q - 1)
  BY <1>1, BytesSplit, Zenon
<1> QED BY <1>1, <1>2, Zenon
=============================================================================
