----------------------------- MODULE SenderLemmas ------------------------------
(***************************************************************************)
(* What the handlers of a TCPSender do to the record that holds its        *)
(* members: the invariant that each of them keeps, and the segments that   *)
(* each of them puts into segments_out.                                    *)
(***************************************************************************)
EXTENDS SenderInvariants, StreamLemmas

\* Two windows fit into half of the numbers.
LEMMA QuarterIs == Quarter \in Nat \ {0} /\ 2 * Quarter <= Half
  BY HalfIsHalf, SenderAssumption DEF Quarter

-----------------------------------------------------------------------------

\* The members after a segment has been sent.
LEMMA SendFields ==
  ASSUME NEW s \in SenderRecord, NEW seg \in SegmentRecord
  PROVE  LET t == Send(s, seg)
             n == length_in_sequence_space(seg)
         IN  /\ t \in SenderRecord
             /\ Numbered(s, seg) \in SegmentRecord
             /\ t.isn = s.isn
             /\ t.segments_out = Append(s.segments_out, Numbered(s, seg))
             /\ t.outstanding_segments = Append(s.outstanding_segments, Numbered(s, seg))
             /\ t.timing_begins
             /\ t.consecutive_retransmissions = s.consecutive_retransmissions
             /\ t.stream = s.stream
             /\ t.next_seqno = s.next_seqno + n
             /\ t.confirmed_seqno = s.confirmed_seqno
             /\ t.fin_sent = seg.fin
             /\ t.bytes_in_flight = s.bytes_in_flight + n
             /\ t.receiver_window_size = s.receiver_window_size
<1> DEFINE x == Numbered(s, seg)
           n == length_in_sequence_space(seg)
<1>1. x \in SegmentRecord
  <2>1. wrap(s.next_seqno, s.isn) \in SeqNo
    BY WrapType DEF SenderRecord
  <2> QED BY <2>1 DEF Numbered, SegmentRecord
<1>2. n \in Nat
  BY SegmentLength, Zenon
<1>3. Send(s, seg) = [s EXCEPT !.segments_out = Append(s.segments_out, x),
                !.outstanding_segments = Append(s.outstanding_segments, x),
                !.next_seqno = s.next_seqno + n,
                !.bytes_in_flight = s.bytes_in_flight + n,
                !.timing_begins = TRUE,
                !.last_tick_time = IF s.timing_begins THEN s.last_tick_time ELSE 0,
                !.fin_sent = seg.fin]
  BY DEF Send, send_tcp_segment, Numbered, SenderRecord
<1> HIDE DEF x, n
<1> DEFINE so == Append(s.segments_out, x)
           os == Append(s.outstanding_segments, x)
           ns == s.next_seqno + n
           bf == s.bytes_in_flight + n
           lt == IF s.timing_begins THEN s.last_tick_time ELSE 0
           fs == seg.fin
<1>4. so \in Seq(SegmentRecord) /\ os \in Seq(SegmentRecord)
  <2>1. s.segments_out \in Seq(SegmentRecord) /\ s.outstanding_segments \in Seq(SegmentRecord)
    BY DEF SenderRecord
  <2> QED BY <1>1, <2>1
<1>5. ns \in Nat /\ bf \in Int /\ lt \in Nat
  BY <1>2, SMTT(30) DEF SenderRecord
<1>6. fs \in BOOLEAN
  BY DEF SegmentRecord
<1>7. Send(s, seg) = [s EXCEPT !.segments_out = so, !.outstanding_segments = os,
                !.next_seqno = ns, !.bytes_in_flight = bf, !.timing_begins = TRUE,
                !.last_tick_time = lt, !.fin_sent = fs]
  BY <1>3, Zenon
<1> HIDE DEF so, os, ns, bf, lt, fs
<1> DEFINE t == Send(s, seg)
<1> HIDE DEF t
<1>8. /\ t \in SenderRecord
      /\ t.isn = s.isn
      /\ t.segments_out = so
      /\ t.outstanding_segments = os
      /\ t.timing_begins
      /\ t.consecutive_retransmissions = s.consecutive_retransmissions
      /\ t.stream = s.stream
      /\ t.next_seqno = ns
      /\ t.confirmed_seqno = s.confirmed_seqno
      /\ t.fin_sent = fs
      /\ t.bytes_in_flight = bf
      /\ t.receiver_window_size = s.receiver_window_size
  <2>1. t = [s EXCEPT !.segments_out = so, !.outstanding_segments = os,
                !.next_seqno = ns, !.bytes_in_flight = bf, !.timing_begins = TRUE,
                !.last_tick_time = lt, !.fin_sent = fs]
    BY <1>7 DEF t
  <2> QED BY <1>4, <1>5, <1>6, <2>1, Zenon DEF SenderRecord
<1> QED BY <1>1, <1>8, Zenon DEF x, n, so, os, ns, bf, fs, t

\* A segment stays what it is when more is sent: nothing follows a FIN.
LEMMA CarriesStill ==
  ASSUME NEW s \in SenderRecord, NEW t \in SenderRecord, NEW seg \in SegmentRecord, NEW p \in Nat,
         Carries(s, seg, p), t.isn = s.isn, s.next_seqno <= t.next_seqno,
         s.fin_sent => t.fin_sent /\ t.next_seqno = s.next_seqno,
         t.fin_sent => s.fin_sent \/ s.next_seqno < t.next_seqno
  PROVE  Carries(t, seg, p)
<1> DEFINE n == length_in_sequence_space(seg)
<1>1. n \in Nat /\ s.next_seqno \in Nat /\ t.next_seqno \in Nat
  BY SegmentLength, Zenon DEF SenderRecord
<1>2. p + n <= s.next_seqno
  BY DEF Carries
<1> HIDE DEF n
<1>3. p + n <= t.next_seqno /\ (s.next_seqno < t.next_seqno => p + n # t.next_seqno)
  BY <1>1, <1>2
<1>4. seg.fin <=> t.fin_sent /\ p + n = t.next_seqno
  <2>1. seg.fin <=> s.fin_sent /\ p + n = s.next_seqno
    BY Zenon DEF Carries, n
  <2> QED BY <1>3, <2>1, Zenon
<1> QED BY <1>3, <1>4, Zenon DEF Carries, n

\* A segment that the window admits joins the queue.
LEMMA SendQueue ==
  ASSUME NEW s, QueueInv(s), ~ s.fin_sent, NEW seg \in SegmentRecord, Admitted(s, seg)
  PROVE  /\ QueueInv(Send(s, seg))
         /\ Carries(Send(s, seg), Numbered(s, seg), s.next_seqno)
<1> DEFINE t == Send(s, seg)
           x == Numbered(s, seg)
           n == length_in_sequence_space(seg)
           q == s.outstanding_segments
           r == t.outstanding_segments
           l == Len(q)
<1>0. s \in SenderRecord
  BY DEF QueueInv
<1>1a. /\ t \in SenderRecord
      /\ x \in SegmentRecord
      /\ r = Append(q, x)
  BY <1>0, SendFields, Zenon
<1>1. /\ t.isn = s.isn
      /\ t.next_seqno = s.next_seqno + n
      /\ t.confirmed_seqno = s.confirmed_seqno
      /\ t.fin_sent = seg.fin
      /\ t.bytes_in_flight = s.bytes_in_flight + n
      /\ t.receiver_window_size = s.receiver_window_size
  BY <1>0, SendFields, Zenon
<1>2. /\ s.next_seqno \in Nat /\ s.confirmed_seqno \in Nat /\ s.receiver_window_size \in Nat
      /\ q \in Seq(SegmentRecord) /\ s.bytes_in_flight \in Int
  BY <1>0 DEF SenderRecord
<1>3. n \in Nat /\ n >= 1 /\ n <= Quarter /\ Quarter \in Nat \ {0}
  BY QuarterIs DEF Admitted
<1>4. /\ x.seqno = wrap(s.next_seqno, s.isn) /\ x.payload = seg.payload
      /\ x.syn = seg.syn /\ x.fin = seg.fin
      /\ length_in_sequence_space(x) = n
  BY DEF Numbered, SegmentRecord, length_in_sequence_space
<1>5. /\ l \in Nat /\ r \in Seq(SegmentRecord) /\ Len(r) = l + 1 /\ r[l + 1] = x
      /\ \A i \in 1 .. l : r[i] = q[i] /\ q[i] \in SegmentRecord
  BY <1>1a, <1>2
<1>5a. l \in Nat /\ Len(r) = l + 1
  BY <1>5
<1>5b. s.next_seqno \in Nat /\ n \in Nat /\ t.next_seqno = s.next_seqno + n
  BY <1>1, <1>2, <1>3
<1>6. Carries(t, x, s.next_seqno)
  <2>1. s.next_seqno + n <= t.next_seqno /\ s.next_seqno + n = t.next_seqno
    BY <1>1, <1>2, <1>3
  <2> QED BY <1>1, <1>4, <2>1, Zenon DEF Carries, Admitted
<1>7. PICK pos : pos \in [1 .. l + 1 -> 0 .. s.next_seqno] /\ Chain(s, pos)
  BY Zenon DEF QueueInv
<1> DEFINE new == [i \in 1 .. l + 2 |-> IF i <= l + 1 THEN pos[i] ELSE s.next_seqno + n]
<1> HIDE DEF t, x, n, q, r, l
<1>7a. \A i \in 1 .. l + 1 : pos[i] \in Nat /\ pos[i] <= s.next_seqno
  BY <1>5a, <1>5b, <1>7
<1>8. new \in [1 .. Len(r) + 1 -> 0 .. t.next_seqno]
  <2>1. Len(r) + 1 = l + 2
    BY <1>5
  <2>2. \A i \in 1 .. l + 2 : (IF i <= l + 1 THEN pos[i] ELSE s.next_seqno + n) \in 0 .. t.next_seqno
    BY <1>5a, <1>5b, <1>7a
  <2> QED BY <2>1, <2>2, Zenon
<1>9. /\ \A i \in 1 .. l : /\ Carries(s, q[i], pos[i])
                           /\ pos[i + 1] = pos[i] + length_in_sequence_space(q[i])
  BY <1>7, Zenon DEF Chain, q, l
<1>9a. \A i, j \in 1 .. l + 1 : i < j => pos[i] < pos[j]
  BY <1>7, Zenon DEF Chain, q, l
<1>9b. /\ pos[l + 1] = s.next_seqno
      /\ pos[1] <= s.confirmed_seqno
      /\ s.bytes_in_flight = s.next_seqno - pos[1]
  BY <1>7, Zenon DEF Chain, q, l
<1>9c. l > 0 => s.confirmed_seqno < pos[2]
  BY <1>7, Zenon DEF Chain, q, l
<1>10. ASSUME NEW i \in 1 .. Len(r)
       PROVE  /\ Carries(t, r[i], new[i])
              /\ new[i + 1] = new[i] + length_in_sequence_space(r[i])
  <2>1. CASE i = l + 1
    <3>1. r[i] = x /\ new[i] = s.next_seqno /\ new[i + 1] = s.next_seqno + n
      BY <1>5, <1>5a, <1>5b, <1>9b, <2>1
    <3> QED BY <1>4, <1>6, <3>1 DEF n
  <2>2. CASE i \in 1 .. l
    <3>1. r[i] = q[i] /\ new[i] = pos[i] /\ new[i + 1] = pos[i + 1] /\ q[i] \in SegmentRecord /\ pos[i] \in Nat
      BY <1>5, <1>7a, <2>2
    <3>2. Carries(s, q[i], pos[i]) /\ pos[i + 1] = pos[i] + length_in_sequence_space(q[i])
      BY <1>9, <2>2
    <3>3. Carries(t, q[i], pos[i])
      <4>1. s.next_seqno <= t.next_seqno /\ s.next_seqno < t.next_seqno
        BY <1>1, <1>2, <1>3
      <4> QED BY <1>0, <1>1, <1>1a, <3>1, <3>2, <4>1, CarriesStill, Zenon
    <3> QED BY <3>1, <3>2, <3>3
  <2>3. i = l + 1 \/ i \in 1 .. l
    BY <1>5
  <2> QED BY <2>1, <2>2, <2>3
<1>11. ASSUME NEW i \in 1 .. Len(r) + 1, NEW j \in 1 .. Len(r) + 1, i < j
       PROVE  new[i] < new[j]
  <2>1. CASE j = l + 2
    <3>1. i \in 1 .. l + 1 /\ new[i] = pos[i] /\ new[j] = s.next_seqno + n /\ pos[i] \in Nat
      BY <1>5, <1>7a, <1>11, <2>1
    <3>2. pos[i] <= s.next_seqno
      BY <1>7a, <3>1
    <3> QED BY <1>2, <1>3, <3>1, <3>2
  <2>2. CASE j # l + 2
    BY <1>5, <1>9a, <1>11, <2>2
  <2> QED BY <2>1, <2>2
<1>12. /\ new[Len(r) + 1] = t.next_seqno
       /\ new[1] = pos[1]
       /\ new[1] <= t.confirmed_seqno
       /\ t.bytes_in_flight = t.next_seqno - new[1]
  <2>1. new[Len(r) + 1] = t.next_seqno
    BY <1>1, <1>5
  <2>2. new[1] = pos[1] /\ pos[1] \in Nat
    BY <1>5, <1>7a
  <2> QED BY <1>1, <1>2, <1>5a, <1>5b, <1>9b, <2>1, <2>2
<1>13. t.confirmed_seqno < new[2]
  <2>1. CASE l = 0
    <3>1. new[2] = s.next_seqno + n
      BY <1>5, <2>1
    <3>2. s.confirmed_seqno <= s.next_seqno
      BY DEF QueueInv
    <3> QED BY <1>1, <1>2, <1>3, <3>1, <3>2
  <2>2. CASE l # 0
    <3>1. l > 0 /\ new[2] = pos[2]
      BY <1>5, <2>2
    <3>2. pos[2] \in Nat /\ s.confirmed_seqno < pos[2]
      BY <1>5a, <1>7a, <1>9c, <3>1
    <3> QED BY <1>1, <1>2, <3>1, <3>2
  <2> QED BY <2>1, <2>2
<1>14. Chain(t, new)
  BY <1>10, <1>11, <1>12, <1>13, Zenon DEF Chain, r
<1>15. /\ t.receiver_window_size <= Quarter
       /\ t.confirmed_seqno <= t.next_seqno
       /\ t.next_seqno <= t.confirmed_seqno + Quarter
  <2>1. s.receiver_window_size <= Quarter /\ s.confirmed_seqno <= s.next_seqno
    BY DEF QueueInv
  <2>2. logical_window(s) <= Quarter /\ logical_window(s) \in Nat
    BY <1>2, <1>3, <2>1 DEF logical_window
  <2>3. s.next_seqno + n <= s.confirmed_seqno + logical_window(s)
    BY DEF n, Admitted
  <2> QED BY <1>1, <1>2, <1>3, <2>1, <2>2, <2>3, SMTT(30)
<1> QED BY <1>1a, <1>6, <1>8, <1>14, <1>15, Zenon DEF QueueInv, t, x, r

\* A sender with the same queue and numbers keeps what ties them together.
LEMMA QueueSame ==
  ASSUME NEW s, NEW t \in SenderRecord, QueueInv(s), SameQueue(s, t)
  PROVE  QueueInv(t)
<1> USE Zenon
<1>1. ASSUME NEW pos, Chain(s, pos) PROVE Chain(t, pos)
  <2>1. \A seg, p : Carries(s, seg, p) => Carries(t, seg, p)
    BY DEF SameQueue, Carries
  <2> QED BY <1>1, <2>1 DEF SameQueue, Chain
<1> QED BY <1>1 DEF SameQueue, QueueInv

-----------------------------------------------------------------------------

\* Nothing is sent by a sender that stays as it is.
LEMMA SentNothing ==
  ASSUME NEW s \in SenderRecord
  PROVE  Sent(s, s)
<1>1. s.next_seqno \in Nat
  BY DEF SenderRecord
<1>2. s.next_seqno <= s.next_seqno /\ ~ (s.next_seqno < s.next_seqno)
  BY <1>1
<1> QED BY <1>2, Zenon DEF Sent, NewSegments

\* What is sent by one step after another is sent by both.
LEMMA SentMore ==
  ASSUME NEW s \in SenderRecord, NEW t \in SenderRecord, NEW u \in SenderRecord, Sent(s, t), Sent(t, u)
  PROVE  Sent(s, u)
<1> USE Zenon
<1>1. /\ s.next_seqno \in Nat /\ t.next_seqno \in Nat /\ u.next_seqno \in Nat
      /\ s.next_seqno <= t.next_seqno /\ t.next_seqno <= u.next_seqno
  BY SMT DEF SenderRecord, Sent
<1>2. s.next_seqno <= u.next_seqno
  BY <1>1, SMT
<1>3. s.next_seqno < u.next_seqno => u.next_seqno <= u.confirmed_seqno + logical_window(u)
  <2>1. CASE t.next_seqno < u.next_seqno
    BY <2>1 DEF Sent
  <2>2. CASE t.next_seqno = u.next_seqno
    <3>1. t.confirmed_seqno = u.confirmed_seqno /\ logical_window(t) = logical_window(u)
      BY DEF Sent, logical_window
    <3> QED BY <2>2, <3>1 DEF Sent
  <2> QED BY <1>1, <2>1, <2>2, SMT
<1>4. /\ s.fin_sent => u.fin_sent /\ u.next_seqno = s.next_seqno
      /\ u.fin_sent => s.fin_sent \/ s.next_seqno < u.next_seqno
  <2>1. s.next_seqno < t.next_seqno \/ t.next_seqno < u.next_seqno => s.next_seqno < u.next_seqno
    BY <1>1, SMT
  <2> QED BY <2>1 DEF Sent
<1>5. NewSegments(s, u)
  <2> SUFFICES ASSUME NEW i \in 1 .. Len(u.segments_out)
               PROVE  \/ i \in 1 .. Len(s.segments_out) /\ u.segments_out[i] = s.segments_out[i]
                      \/ \E p \in s.next_seqno .. u.next_seqno : Carries(u, u.segments_out[i], p)
    BY DEF NewSegments
  <2>1. CASE i \in 1 .. Len(t.segments_out) /\ u.segments_out[i] = t.segments_out[i]
    <3>1. CASE i \in 1 .. Len(s.segments_out) /\ t.segments_out[i] = s.segments_out[i]
      BY <2>1, <3>1
    <3>2. CASE \E p \in s.next_seqno .. t.next_seqno : Carries(t, t.segments_out[i], p)
      <4>1. PICK p \in s.next_seqno .. t.next_seqno : Carries(t, t.segments_out[i], p)
        BY <3>2, SMT
      <4>2. p \in Nat /\ p \in s.next_seqno .. u.next_seqno
        BY <1>1, <4>1, SMT
      <4>3. t.segments_out \in Seq(SegmentRecord)
        BY SMT DEF SenderRecord
      <4>4. t.segments_out[i] \in SegmentRecord
        BY <2>1, <4>3, ElementOf
      <4>5. Carries(u, t.segments_out[i], p)
        <5>1. /\ u.isn = t.isn /\ t.next_seqno <= u.next_seqno
              /\ t.fin_sent => u.fin_sent /\ u.next_seqno = t.next_seqno
              /\ u.fin_sent => t.fin_sent \/ t.next_seqno < u.next_seqno
          BY DEF Sent
        <5> QED BY <4>1, <4>2, <4>4, <5>1, CarriesStill
      <4> QED BY <2>1, <4>2, <4>5
    <3> QED BY <2>1, <3>1, <3>2 DEF Sent, NewSegments
  <2>2. CASE \E p \in t.next_seqno .. u.next_seqno : Carries(u, u.segments_out[i], p)
    <3>1. t.next_seqno .. u.next_seqno \subseteq s.next_seqno .. u.next_seqno
      BY <1>1, SMT
    <3> QED BY <2>2, <3>1
  <2> QED BY <2>1, <2>2 DEF Sent, NewSegments
<1> QED BY <1>2, <1>3, <1>4, <1>5 DEF Sent

\* One admitted segment.
LEMMA SentOne ==
  ASSUME NEW s, QueueInv(s), ~ s.fin_sent, NEW seg \in SegmentRecord, Admitted(s, seg)
  PROVE  Sent(s, Send(s, seg)) /\ Send(s, seg).outstanding_segments # <<>>
<1> USE Zenon
<1> DEFINE t == Send(s, seg)
           x == Numbered(s, seg)
           n == length_in_sequence_space(seg)
<1>0. s \in SenderRecord
  BY SMT DEF QueueInv
<1>1. /\ t \in SenderRecord
      /\ x \in SegmentRecord
      /\ t.segments_out = Append(s.segments_out, x)
      /\ t.outstanding_segments = Append(s.outstanding_segments, x)
  BY <1>0, SendFields
<1>2. /\ t.isn = s.isn
      /\ t.timing_begins
      /\ t.consecutive_retransmissions = s.consecutive_retransmissions
      /\ t.stream = s.stream
      /\ t.next_seqno = s.next_seqno + n
      /\ t.confirmed_seqno = s.confirmed_seqno
      /\ t.receiver_window_size = s.receiver_window_size
  BY <1>0, SendFields
<1>3. Carries(t, x, s.next_seqno)
  BY SendQueue
<1> HIDE DEF t, x
<1>4. s.segments_out \in Seq(SegmentRecord) /\ s.outstanding_segments \in Seq(SegmentRecord)
  BY <1>0, SMT DEF SenderRecord
<1>5. t.outstanding_segments # <<>>
  <2>1. Append(s.outstanding_segments, x) # <<>>
    <3>1. x \in SegmentRecord /\ s.outstanding_segments \in Seq(SegmentRecord)
      BY <1>1, <1>4
    <3> QED BY <3>1, AppendNonEmpty
  <2> QED BY <1>1, <2>1
<1>6. s.next_seqno \in Nat /\ n \in Nat
  <2>1. n \in Nat
    BY SegmentLength
  <2> QED BY <1>0, <2>1, SMT DEF SenderRecord
<1>7. /\ s.next_seqno <= t.next_seqno /\ s.next_seqno \in s.next_seqno .. t.next_seqno
      /\ s.next_seqno < t.next_seqno
  <2>1. n >= 1
    BY QuarterIs, SMT DEF Admitted
  <2> HIDE DEF n
  <2> QED BY <1>2, <1>6, <2>1, SMT
<1>8. NewSegments(s, t)
  <2> SUFFICES ASSUME NEW i \in 1 .. Len(t.segments_out)
               PROVE  \/ i \in 1 .. Len(s.segments_out) /\ t.segments_out[i] = s.segments_out[i]
                      \/ t.segments_out[i] = x
    BY <1>3, <1>7 DEF NewSegments
  <2> QED BY <1>1, <1>4, SMT
<1>9. t.next_seqno <= t.confirmed_seqno + logical_window(t)
  <2>1. logical_window(t) = logical_window(s)
    BY <1>2 DEF logical_window
  <2> QED BY <1>2, <2>1 DEF Admitted
<1> QED BY <1>2, <1>5, <1>7, <1>8, <1>9 DEF Sent, TimerInv, t

-----------------------------------------------------------------------------

\* Such a segment has the members it was given.
LEMMA PartIs ==
  ASSUME NEW payload \in Seq(Nat), NEW syn \in BOOLEAN, NEW fin \in BOOLEAN
  PROVE  /\ Part(payload, syn, fin) \in SegmentRecord
         /\ Part(payload, syn, fin).payload = payload
         /\ Part(payload, syn, fin).syn = syn
         /\ Part(payload, syn, fin).fin = fin
         /\ length_in_sequence_space(Part(payload, syn, fin))
              = Len(payload) + (IF syn THEN 1 ELSE 0) + (IF fin THEN 1 ELSE 0)
<1>1. /\ Part(payload, syn, fin) \in SegmentRecord
      /\ Part(payload, syn, fin).payload = payload
      /\ Part(payload, syn, fin).syn = syn
      /\ Part(payload, syn, fin).fin = fin
  BY BlankSegmentIs, Zenon DEF Part, SegmentRecord
<1> QED BY <1>1, Zenon DEF length_in_sequence_space

\* The three forms in which fill_window() names the segment it sends.
LEMMA SendForms ==
  ASSUME NEW s \in SenderRecord
  PROVE  /\ ~ s.fin_sent => send_tcp_segment(s, [BlankSegment EXCEPT !.syn = TRUE])
                              = Send(s, Part(<<>>, TRUE, FALSE))
         /\ send_fin(s) = Send(s, Part(<<>>, FALSE, TRUE))
         /\ \A payload \in Seq(Nat), fin \in BOOLEAN :
              [BlankSegment EXCEPT !.payload = payload, !.fin = fin] = Part(payload, FALSE, fin)
<1>1. [BlankSegment EXCEPT !.syn = TRUE] = Part(<<>>, TRUE, FALSE)
  BY BlankSegmentIs, Zenon DEF Part, SegmentRecord
<1>2. [BlankSegment EXCEPT !.fin = TRUE] = Part(<<>>, FALSE, TRUE)
  BY BlankSegmentIs, Zenon DEF Part, SegmentRecord
<1>3. ASSUME NEW payload \in Seq(Nat), NEW fin \in BOOLEAN
      PROVE  [BlankSegment EXCEPT !.payload = payload, !.fin = fin] = Part(payload, FALSE, fin)
  BY BlankSegmentIs, Zenon DEF Part, SegmentRecord
<1>4. ASSUME ~ s.fin_sent, NEW seg, seg.fin = FALSE
      PROVE  send_tcp_segment(s, seg) = Send(s, seg)
  <2>1. s.fin_sent = FALSE
    BY <1>4 DEF SenderRecord
  <2> QED BY <1>4, <2>1, Zenon DEF Send, send_tcp_segment, SenderRecord
<1>5. Part(<<>>, TRUE, FALSE).fin = FALSE /\ Part(<<>>, FALSE, TRUE).fin = TRUE
  <2>1. <<>> \in Seq(Nat) /\ TRUE \in BOOLEAN /\ FALSE \in BOOLEAN
    OBVIOUS
  <2> QED BY <2>1, PartIs, Zenon
<1>6. send_fin(s) = Send(s, Part(<<>>, FALSE, TRUE))
  BY <1>2, <1>5, Zenon DEF send_fin, Send
<1> QED BY <1>1, <1>3, <1>4, <1>5, <1>6, Zenon

\* A zero window still admits one sequence number.
LEMMA WindowIs ==
  ASSUME NEW s, QueueInv(s)
  PROVE  /\ logical_window(s) \in 1 .. Quarter
         /\ s.next_seqno \in Nat /\ s.confirmed_seqno \in Nat
         /\ s.confirmed_seqno <= s.next_seqno
         /\ available_window(s) \in Int
         /\ available_window(s) = logical_window(s) - (s.next_seqno - s.confirmed_seqno)
         /\ s.receiver_window_size \in Nat
         /\ Quarter \in Nat \ {0}
<1>1. /\ s.next_seqno \in Nat /\ s.confirmed_seqno \in Nat /\ s.receiver_window_size \in Nat
      /\ s.confirmed_seqno <= s.next_seqno /\ s.receiver_window_size <= Quarter
  BY DEF QueueInv, SenderRecord
<1>2. Quarter \in Nat \ {0}
  BY QuarterIs
<1>3. logical_window(s) \in 1 .. Quarter
  BY <1>1, <1>2 DEF logical_window
<1> QED BY <1>1, <1>2, <1>3 DEF available_window

\* The SYN.
LEMMA FillSyn ==
  ASSUME NEW s, SenderInv(s), s.next_seqno = 0
  PROVE  LET t == Send(s, Part(<<>>, TRUE, FALSE))
         IN  /\ SenderInv(t) /\ Sent(s, t)
             /\ t.outstanding_segments # <<>> /\ t.next_seqno # 0
             /\ t = send_tcp_segment(s, [BlankSegment EXCEPT !.syn = TRUE])
<1> DEFINE seg == Part(<<>>, TRUE, FALSE)
           t == Send(s, seg)
           n == length_in_sequence_space(seg)
<1>1. QueueInv(s) /\ NumberedInv(s) /\ ~ s.fin_sent /\ s \in SenderRecord /\ s.stream.bytes_read = 0
  BY Zenon DEF SenderInv, NumberedInv, QueueInv
<1>2. <<>> \in Seq(Nat) /\ TRUE \in BOOLEAN /\ FALSE \in BOOLEAN /\ Len(<<>>) = 0
  OBVIOUS
<1>3. seg \in SegmentRecord /\ seg.payload = <<>> /\ seg.syn = TRUE /\ seg.fin = FALSE
  BY <1>2, PartIs, Zenon
<1> HIDE DEF seg
<1>4. n = 1
  BY <1>2, <1>3 DEF length_in_sequence_space
<1>5. Admitted(s, seg)
  <2>1. /\ logical_window(s) \in 1 .. Quarter
        /\ s.next_seqno \in Nat /\ s.confirmed_seqno \in Nat
        /\ s.confirmed_seqno <= s.next_seqno /\ Quarter \in Nat \ {0}
    BY <1>1, WindowIs, Zenon
  <2>2. n \in 1 .. Quarter /\ s.next_seqno + n <= s.confirmed_seqno + logical_window(s)
    <3> HIDE DEF n
    <3> QED BY <1>4, <2>1
  <2>3. Bytes(0, 0 - 1) = <<>>
    BY BytesEmpty
  <2>4. seg.payload = Bytes(s.next_seqno, s.next_seqno + Len(seg.payload) - 1)
    <3>1. s.next_seqno + Len(seg.payload) - 1 = 0 - 1
      BY <1>2, <1>3
    <3> QED BY <1>3, <2>3, <3>1
  <2> QED BY <1>3, <2>2, <2>4, Zenon DEF Admitted
<1>6. QueueInv(t) /\ Sent(s, t) /\ t.outstanding_segments # <<>>
  BY <1>1, <1>3, <1>5, SendQueue, SentOne, Zenon
<1>7. t.next_seqno = s.next_seqno + n /\ t.stream = s.stream /\ t.fin_sent = FALSE
  <2>1. t.next_seqno = s.next_seqno + n /\ t.stream = s.stream /\ t.fin_sent = seg.fin
    BY <1>1, <1>3, SendFields, Zenon
  <2> QED BY <1>3, <2>1
<1>8. NumberedInv(t)
  <2>1. t.next_seqno = 1 /\ t.next_seqno = t.stream.bytes_read + 1 /\ ~ t.fin_sent /\ t.next_seqno # 0
    <3> HIDE DEF n, t
    <3> QED BY <1>1, <1>4, <1>7
  <2> QED BY <1>1, <1>7, <2>1, Zenon DEF NumberedInv
<1>9. t = send_tcp_segment(s, [BlankSegment EXCEPT !.syn = TRUE])
  BY <1>1, SendForms, Zenon DEF seg
<1>10. t.next_seqno # 0
  <2> HIDE DEF n, t
  <2> QED BY <1>4, <1>7
<1> QED BY <1>6, <1>8, <1>9, <1>10, Zenon DEF SenderInv, seg

\* A FIN of its own.
LEMMA FillFin ==
  ASSUME NEW s, SenderInv(s), s.next_seqno # 0, ~ s.fin_sent, available_window(s) > 0,
         eof(s.stream)
  PROVE  LET t == send_fin(s)
         IN  /\ SenderInv(t) /\ Sent(s, t)
             /\ t.outstanding_segments # <<>> /\ t.next_seqno # 0
<1> DEFINE seg == Part(<<>>, FALSE, TRUE)
           t == Send(s, seg)
           n == length_in_sequence_space(seg)
<1>1. QueueInv(s) /\ NumberedInv(s) /\ s \in SenderRecord /\ StreamInv(s.stream)
  BY Zenon DEF SenderInv, NumberedInv, QueueInv
<1>2. <<>> \in Seq(Nat) /\ TRUE \in BOOLEAN /\ FALSE \in BOOLEAN /\ Len(<<>>) = 0
  OBVIOUS
<1>3. seg \in SegmentRecord /\ seg.payload = <<>> /\ seg.syn = FALSE /\ seg.fin = TRUE
  BY <1>2, PartIs, Zenon
<1> HIDE DEF seg
<1>4. n = 1
  BY <1>2, <1>3 DEF length_in_sequence_space
<1>5. /\ logical_window(s) \in 1 .. Quarter
      /\ s.next_seqno \in Nat /\ s.confirmed_seqno \in Nat
      /\ s.confirmed_seqno <= s.next_seqno /\ Quarter \in Nat \ {0}
      /\ available_window(s) = logical_window(s) - (s.next_seqno - s.confirmed_seqno)
  BY <1>1, WindowIs, Zenon
<1>6. Admitted(s, seg)
  <2>2. n \in 1 .. Quarter /\ s.next_seqno + n <= s.confirmed_seqno + logical_window(s)
    <3> HIDE DEF n
    <3> QED BY <1>4, <1>5
  <2>3. Bytes(s.next_seqno, s.next_seqno - 1) = <<>>
    BY <1>5, BytesEmpty
  <2>4. seg.payload = Bytes(s.next_seqno, s.next_seqno + Len(seg.payload) - 1)
    <3>1. s.next_seqno + Len(seg.payload) - 1 = s.next_seqno - 1
      BY <1>2, <1>3, <1>5
    <3> QED BY <1>3, <2>3, <3>1
  <2> QED BY <1>3, <2>2, <2>4, Zenon DEF Admitted
<1>7. QueueInv(t) /\ Sent(s, t) /\ t.outstanding_segments # <<>>
  BY <1>1, <1>3, <1>6, SendQueue, SentOne, Zenon
<1>8. t.next_seqno = s.next_seqno + n /\ t.stream = s.stream /\ t.fin_sent = TRUE
  <2>1. t.next_seqno = s.next_seqno + n /\ t.stream = s.stream /\ t.fin_sent = seg.fin
    BY <1>1, <1>3, SendFields, Zenon
  <2> QED BY <1>3, <2>1
<1>9. NumberedInv(t)
  <2>1. s.stream \in StreamRecord /\ s.stream.bytes_read = s.stream.bytes_written
    BY <1>1, StreamSize, Zenon DEF eof
  <2>2. s.next_seqno = s.stream.bytes_read + 1
    <3>1. s.next_seqno > 0
      BY <1>5
    <3> QED BY <1>1, <3>1, Zenon DEF NumberedInv
  <2>3. s.stream.bytes_written \in Nat
    BY <2>1 DEF StreamRecord
  <2>4. t.next_seqno = s.stream.bytes_written + 2 /\ t.next_seqno # 0
    <3> HIDE DEF n, t
    <3> QED BY <1>4, <1>8, <2>1, <2>2, <2>3
  <2> QED BY <1>1, <1>8, <2>4, Zenon DEF NumberedInv
<1>10. t = send_fin(s)
  BY <1>1, SendForms, Zenon DEF seg
<1>11. t.next_seqno # 0
  <2> HIDE DEF n, t
  <2> QED BY <1>4, <1>5, <1>8
<1> QED BY <1>7, <1>9, <1>10, <1>11, Zenon DEF SenderInv

\* One round of the loop that sends the buffered bytes.
LEMMA FillPayload ==
  ASSUME NEW s, SenderInv(s), s.next_seqno # 0
  PROVE  LET t == send_payload(s)
         IN  /\ SenderInv(t) /\ Sent(s, t) /\ t.next_seqno # 0
             /\ ~ buffer_empty(s.stream) /\ available_window(s) > 0
                  => t.outstanding_segments # <<>>
<1> USE Zenon
<1>1. QueueInv(s) /\ NumberedInv(s) /\ s \in SenderRecord /\ StreamInv(s.stream)
  BY DEF SenderInv, NumberedInv, QueueInv
<1>2. CASE buffer_empty(s.stream) \/ ~ (available_window(s) > 0)
  <2>1. available_window(s) \in Int
    BY <1>1, WindowIs
  <2>2. buffer_empty(s.stream) \/ available_window(s) <= 0
    BY <1>2, <2>1, SMT
  <2>3. send_payload(s) = s
    BY <2>2 DEF send_payload
  <2> QED BY <1>1, <1>2, <2>3, SentNothing
<1>3. CASE ~ buffer_empty(s.stream) /\ available_window(s) > 0
  <2> DEFINE size    == Smaller(Smaller(buffer_size(s.stream), available_window(s)), MAX_PAYLOAD_SIZE)
             payload == peek_output(s.stream, size)
             u       == [s EXCEPT !.stream = pop_output(s.stream, size)]
             fin     == fin_fits(u, payload)
             seg     == Part(payload, FALSE, fin)
             t       == Send(u, seg)
             n       == length_in_sequence_space(seg)
             avail   == available_window(s)
             rd      == s.stream.bytes_read
             wr      == s.stream.bytes_written
  <2>1. /\ s.stream \in StreamRecord /\ buffer_size(s.stream) = wr - rd /\ rd # wr
    BY <1>1, <1>3, StreamSize
  <2>2. rd \in Nat /\ wr \in Nat /\ rd <= wr
    BY <1>1, <2>1, SMT DEF StreamRecord, StreamInv
  <2>3. /\ logical_window(s) \in 1 .. Quarter
        /\ s.next_seqno \in Nat /\ s.confirmed_seqno \in Nat
        /\ s.confirmed_seqno <= s.next_seqno /\ Quarter \in Nat \ {0}
        /\ avail \in Int
        /\ avail = logical_window(s) - (s.next_seqno - s.confirmed_seqno)
    BY <1>1, WindowIs
  <2>4. avail > 0
    BY <1>3, SMT
  <2>5. MAX_PAYLOAD_SIZE \in Nat \ {0}
    BY SenderAssumption, SMT
  <2> HIDE DEF avail, rd, wr
  <2>6. size \in Nat \ {0} /\ size <= buffer_size(s.stream) /\ size <= avail
    <3>1. size = Smaller(Smaller(wr - rd, avail), MAX_PAYLOAD_SIZE)
      BY <2>1 DEF avail
    <3> QED BY <2>1, <2>2, <2>3, <2>4, <2>5, <3>1, SMT DEF Smaller
  <2>7. s.fin_sent = FALSE /\ s.next_seqno = rd + 1
    <3>1. ~ s.fin_sent
      BY <1>1, <1>3 DEF NumberedInv, eof
    <3>2. s.next_seqno > 0
      BY <2>3, SMT
    <3>3. s.fin_sent \in BOOLEAN
      BY <1>1, SMT DEF SenderRecord
    <3> QED BY <1>1, <3>1, <3>2, <3>3 DEF NumberedInv, rd
  <2> HIDE DEF size
  <2>8. /\ payload = Bytes(rd + 1, rd + size)
        /\ StreamInv(pop_output(s.stream, size))
        /\ pop_output(s.stream, size)
             = [s.stream EXCEPT !.stream = pop_output(s.stream, size).stream,
                                !.bytes_read = rd + size]
    <3>1. size \in Nat
      BY <2>6, SMT
    <3> QED BY <1>1, <2>6, <3>1, StreamPop DEF rd
  <2>9. payload \in Seq(Nat) /\ Len(payload) = size
    <3> HIDE DEF payload
    <3> DEFINE a == rd + 1
               b == rd + size
    <3>1. a \in Nat /\ b \in Int /\ a <= b + 1 /\ b - a + 1 = size
      BY <2>2, <2>6, SMT
    <3>2. payload = Bytes(a, b)
      BY <2>8, SMT
    <3> HIDE DEF a, b
    <3> QED BY <3>1, <3>2, BytesType
  <2> DEFINE bs == pop_output(s.stream, size)
  <2> HIDE DEF bs, payload
  <2>10. /\ bs \in StreamRecord /\ StreamInv(bs)
         /\ bs.bytes_read = rd + size /\ bs.bytes_written = wr
         /\ bs.input_ended = s.stream.input_ended /\ bs.capacity = s.stream.capacity
    <3>1. bs \in StreamRecord
      BY <2>8 DEF StreamInv, bs
    <3>2. bs = [s.stream EXCEPT !.stream = bs.stream, !.bytes_read = rd + size]
      BY <2>8 DEF bs
    <3>3. bs.stream \in Seq(Nat) /\ rd + size \in Nat
      BY <2>2, <2>6, <3>1, SMT DEF StreamRecord
    <3>4. /\ bs.bytes_read = rd + size /\ bs.bytes_written = s.stream.bytes_written
          /\ bs.input_ended = s.stream.input_ended /\ bs.capacity = s.stream.capacity
      BY <2>1, <3>2, <3>3 DEF StreamRecord
    <3> QED BY <2>8, <3>1, <3>4 DEF bs, wr
  <2>11. /\ u \in SenderRecord /\ SameQueue(s, u) /\ u.stream = bs
         /\ u.consecutive_retransmissions = s.consecutive_retransmissions
         /\ u.timing_begins = s.timing_begins
         /\ u.segments_out = s.segments_out
    <3>1. u = [s EXCEPT !.stream = bs]
      BY DEF bs
    <3> HIDE DEF u
    <3>2. /\ u \in SenderRecord /\ u.stream = bs
         /\ u.consecutive_retransmissions = s.consecutive_retransmissions
         /\ u.timing_begins = s.timing_begins
         /\ u.segments_out = s.segments_out
      BY <1>1, <2>10, <3>1, SMTT(30) DEF SenderRecord
    <3>3. SameQueue(s, u)
      BY <1>1, <2>10, <3>1, SMT DEF SenderRecord, SameQueue
    <3> QED BY <3>2, <3>3, SMT
  <2> HIDE DEF u
  <2>12. QueueInv(u) /\ u.fin_sent = FALSE
    BY <1>1, <2>7, <2>11, QueueSame DEF SameQueue
  <2>13. available_window(u) = avail /\ logical_window(u) = logical_window(s)
    BY <2>11 DEF available_window, logical_window, SameQueue, avail
  <2>14. fin = (eof(bs) /\ size < avail)
    BY <2>9, <2>11, <2>13 DEF fin_fits
  <2>15. fin \in BOOLEAN
    BY <2>14, SMT
  <2> HIDE DEF fin
  <2>16. /\ seg \in SegmentRecord /\ seg.payload = payload /\ seg.syn = FALSE /\ seg.fin = fin
         /\ n = size + (IF FALSE THEN 1 ELSE 0) + (IF fin THEN 1 ELSE 0)
    BY <2>9, <2>15, PartIs
  <2> HIDE DEF seg, n
  <2>17. n = size + (IF fin THEN 1 ELSE 0) /\ n \in Nat /\ n >= 1 /\ n <= avail
    <3>1. size \in Nat \ {0} /\ size <= avail /\ avail \in Int
      BY <2>3, <2>6, SMT
    <3>2. fin => size < avail
      BY <2>14
    <3>3. n = size + (IF FALSE THEN 1 ELSE 0) + (IF fin THEN 1 ELSE 0)
      BY <2>16, SMT
    <3> QED BY <2>15, <3>1, <3>2, <3>3, SMT
  <2>18. Admitted(u, seg)
    <3>1. /\ length_in_sequence_space(seg) \in 1 .. Quarter
          /\ s.next_seqno + length_in_sequence_space(seg) <= s.confirmed_seqno + logical_window(s)
      <4>1. n \in 1 .. Quarter /\ s.next_seqno + n <= s.confirmed_seqno + logical_window(s)
        BY <2>3, <2>17, SMT
      <4> QED BY <4>1, SMT DEF n
    <3>2. rd + 1 = s.next_seqno /\ rd + size = s.next_seqno + Len(seg.payload) - 1
      BY <2>2, <2>6, <2>7, <2>9, <2>16, SMT
    <3>3. seg.payload = Bytes(s.next_seqno, s.next_seqno + Len(seg.payload) - 1)
      BY <2>8, <2>16, <3>2
    <3>4. u.next_seqno = s.next_seqno /\ u.confirmed_seqno = s.confirmed_seqno
      BY <2>11 DEF SameQueue
    <3> QED BY <2>13, <2>16, <3>1, <3>3, <3>4 DEF Admitted
  <2>19. QueueInv(t) /\ Sent(u, t) /\ t.outstanding_segments # <<>>
    BY <2>12, <2>16, <2>18, SendQueue, SentOne
  <2>20. t.next_seqno = s.next_seqno + n /\ t.stream = bs /\ t.fin_sent = fin
    <3>1. t.next_seqno = u.next_seqno + length_in_sequence_space(seg) /\ t.stream = u.stream /\ t.fin_sent = seg.fin
      BY <2>11, <2>16, SendFields
    <3> QED BY <2>11, <2>16, <3>1 DEF SameQueue, n
  <2> HIDE DEF t
  <2>21. NumberedInv(t)
    <3>1. t.next_seqno # 0 /\ t.next_seqno \in Nat
      BY <2>3, <2>17, <2>20, SMT
    <3>2. ~ fin => t.next_seqno = bs.bytes_read + 1
      BY <2>2, <2>6, <2>7, <2>10, <2>15, <2>17, <2>20, SMT
    <3>3. fin => bs.bytes_read = bs.bytes_written
      BY <2>10, <2>14, StreamSize DEF eof
    <3>4. fin => t.next_seqno = bs.bytes_written + 2
      BY <2>2, <2>6, <2>7, <2>10, <2>15, <2>17, <2>20, <3>3, SMT
    <3> QED BY <2>10, <2>14, <2>20, <3>1, <3>2, <3>4 DEF NumberedInv
  <2>22. send_payload(s) = t
    <3>1. ~ (buffer_empty(s.stream) \/ available_window(s) <= 0)
      BY <1>3, <2>3, SMT DEF avail
    <3>2. send_payload(s) = [send_tcp_segment(u, [BlankSegment EXCEPT !.payload = payload, !.fin = fin])
                               EXCEPT !.fin_sent = fin]
      BY <3>1 DEF send_payload, u, payload, size, fin
    <3>3. [BlankSegment EXCEPT !.payload = payload, !.fin = fin] = seg
      BY <2>9, <2>11, <2>15, SendForms DEF seg
    <3> QED BY <2>16, <3>2, <3>3 DEF t, Send
  <2>23. Sent(s, t)
    <3>1. /\ s.stream.bytes_written = u.stream.bytes_written
          /\ s.stream.input_ended = u.stream.input_ended
          /\ s.stream.capacity = u.stream.capacity
      BY <2>10, <2>11 DEF wr
    <3>2. NewSegments(s, t)
      BY <2>11, <2>19 DEF Sent, NewSegments, SameQueue
    <3>3. TimerInv(s) => TimerInv(t)
      BY <2>11, <2>19 DEF Sent, TimerInv, SameQueue
    <3> QED BY <2>11, <2>19, <3>1, <3>2, <3>3 DEF Sent, SameQueue
  <2>24. t.next_seqno # 0
    BY <2>3, <2>17, <2>20, SMT
  <2> QED BY <2>19, <2>21, <2>22, <2>23, <2>24 DEF SenderInv
<1> QED BY <1>2, <1>3

\* With an empty queue everything sent is acknowledged.
LEMMA EmptyQueue ==
  ASSUME NEW s, QueueInv(s), s.outstanding_segments = <<>>
  PROVE  s.confirmed_seqno = s.next_seqno /\ s.bytes_in_flight = 0
<1>1. PICK pos : pos \in [1 .. Len(s.outstanding_segments) + 1 -> 0 .. s.next_seqno] /\ Chain(s, pos)
  BY Zenon DEF QueueInv
<1>2. Len(s.outstanding_segments) = 0
  OBVIOUS
<1>3. /\ s.next_seqno \in Nat /\ s.confirmed_seqno \in Nat /\ s.confirmed_seqno <= s.next_seqno
      /\ s.bytes_in_flight \in Int
  BY DEF QueueInv, SenderRecord
<1>4. /\ pos[Len(s.outstanding_segments) + 1] = s.next_seqno
      /\ pos[1] <= s.confirmed_seqno /\ s.bytes_in_flight = s.next_seqno - pos[1]
  BY <1>1, Zenon DEF Chain
<1>5. pos[1] = s.next_seqno
  BY <1>2, <1>4
<1> QED BY <1>3, <1>4, <1>5

\* The recursive definition has a solution, so that it can be unfolded.
LEMMA RoundsIs ==
  ASSUME NEW s, NEW N \in Nat
  PROVE  /\ Rounds(s, N)[0] = s
         /\ \A n \in 1 .. N : Rounds(s, N)[n] = send_payload(Rounds(s, N)[n - 1])
<1> DEFINE F(f, k) == f = [n \in 0 .. k |-> IF n = 0 THEN s ELSE send_payload(f[n - 1])]
           S == {k \in Nat : \E f : F(f, k)}
<1>1. 0 \in S
  <2>1. F([n \in 0 .. 0 |-> s], 0)
    OBVIOUS
  <2> QED BY <2>1, Zenon
<1>2. ASSUME NEW k \in Nat, k \in S PROVE k + 1 \in S
  <2>1. PICK f : F(f, k)
    BY <1>2
  <2> DEFINE g == [n \in 0 .. k + 1 |-> IF n <= k THEN f[n] ELSE send_payload(f[k])]
  <2>2. F(g, k + 1)
    <3>1. ASSUME NEW n \in 0 .. k + 1
          PROVE  g[n] = IF n = 0 THEN s ELSE send_payload(g[n - 1])
      BY <2>1
    <3> QED BY <3>1
  <2>3. k + 1 \in Nat
    OBVIOUS
  <2> HIDE DEF F, g
  <2> QED BY <2>2, <2>3
<1> HIDE DEF S
<1>3. \A n \in Nat : n \in S
  BY <1>1, <1>2, SetInduction
<1>4. \E f : F(f, N)
  BY <1>3, Zenon DEF S
<1>5. Rounds(s, N) = CHOOSE f : F(f, N)
  BY DEF Rounds
<1> HIDE DEF F
<1>6. F(Rounds(s, N), N)
  BY <1>4, <1>5, Zenon
<1> QED BY <1>6 DEF F

\* The loop over payloads: it keeps the invariant, and leaves the stream waiting only
\* with something in flight.
LEMMA FillPayloads ==
  ASSUME NEW s, SenderInv(s), s.next_seqno # 0, available_window(s) > 0, ~ eof(s.stream)
  PROVE  LET t == send_payloads(s)
         IN  SenderInv(t) /\ Sent(s, t) /\ MovingInv(t) /\ t.next_seqno # 0
<1> USE Zenon
<1> DEFINE N == buffer_size(s.stream)
           after == Rounds(s, N)
           t == send_payloads(s)
<1>1. StreamInv(s.stream) /\ s \in SenderRecord /\ s.stream \in StreamRecord /\ QueueInv(s)
  BY DEF SenderInv, NumberedInv, StreamInv, QueueInv
<1>2. N \in Nat /\ (buffer_empty(s.stream) <=> N = 0)
  <2>1. s.stream.stream \in Seq(Nat)
    BY <1>1, StreamSize
  <2> QED BY <2>1, EmptyIsShort DEF buffer_size, buffer_empty
<1>3. t = after[N]
  BY DEF send_payloads, Rounds
<1>4. /\ after[0] = s
      /\ \A n \in 1 .. N : after[n] = send_payload(after[n - 1])
  BY <1>2, RoundsIs, ZenonT(40)
<1> HIDE DEF N, after
<1> DEFINE Good(u) == /\ SenderInv(u) /\ Sent(s, u) /\ u.next_seqno # 0
           S == {n \in Nat : n <= N => Good(after[n]) /\ (n > 0 => after[n].outstanding_segments # <<>>)}
<1>5. Good(s)
  BY <1>1, SentNothing
<1>6. 0 \in S
  BY <1>4, <1>5, SMT
<1>7. ASSUME NEW n \in Nat, n \in S PROVE n + 1 \in S
  <2> SUFFICES ASSUME n + 1 <= N
               PROVE  Good(after[n + 1]) /\ after[n + 1].outstanding_segments # <<>>
    BY <1>7, SMT
  <2> DEFINE u == after[n]
             v == after[n + 1]
  <2>1. Good(u) /\ (n > 0 => u.outstanding_segments # <<>>)
    BY <1>2, <1>7, SMT
  <2>2. v = send_payload(u)
    BY <1>2, <1>4, SMT
  <2>3. n > 0 \/ n = 0
    BY SMT
  <2>3a. n = 0 => u = s
    BY <1>4, SMT
  <2>3b. ~ buffer_empty(s.stream)
    BY <1>2, SMT
  <2> HIDE DEF u, v
  <2>4. SenderInv(v) /\ Sent(u, v) /\ v.next_seqno # 0
    BY <2>1, <2>2, FillPayload
  <2>5. u \in SenderRecord /\ v \in SenderRecord
    BY <2>1, <2>4 DEF SenderInv, QueueInv
  <2>6. Sent(s, v)
    BY <1>1, <2>1, <2>4, <2>5, SentMore
  <2>7. v.outstanding_segments # <<>>
    <3>1. CASE n > 0
      BY <2>1, <2>4, <3>1 DEF Sent
    <3>2. CASE n = 0
      <4>1. ~ buffer_empty(u.stream) /\ available_window(u) > 0
        BY <2>3a, <2>3b, <3>2
      <4> QED BY <2>1, <2>2, <4>1, FillPayload
    <3> QED BY <2>3, <3>1, <3>2, SMT
  <2> QED BY <2>4, <2>6, <2>7 DEF u, v
<1> HIDE DEF S
<1>8. N \in S
  BY <1>2, <1>6, <1>7, SetInduction, SMT
<1>9. Good(t) /\ (N > 0 => t.outstanding_segments # <<>>)
  BY <1>2, <1>3, <1>8, SMT DEF S
<1>10. MovingInv(t)
  <2>1. CASE N > 0
    BY <1>9, <2>1 DEF MovingInv
  <2>2. CASE N = 0
    <3>1. t = s /\ buffer_empty(s.stream) /\ ~ s.stream.input_ended
      BY <1>2, <1>3, <1>4, <2>2 DEF eof
    <3> QED BY <3>1 DEF MovingInv
  <2> QED BY <1>2, <2>1, <2>2, SMT
<1> QED BY <1>9, <1>10

\* fill_window() keeps the invariant, sends what the window admits, and leaves
\* nothing waiting with nothing to set it in motion.
LEMMA FillWindowKeeps ==
  ASSUME NEW s, SenderInv(s)
  PROVE  LET t == fill_window(s)
         IN  SenderInv(t) /\ Sent(s, t) /\ MovingInv(t) /\ t.next_seqno # 0
<1> USE Zenon
<1> DEFINE t == fill_window(s)
<1>1. QueueInv(s) /\ NumberedInv(s) /\ s \in SenderRecord /\ StreamInv(s.stream) /\ s.next_seqno \in Nat
  <2>1. QueueInv(s) /\ NumberedInv(s) /\ s \in SenderRecord /\ StreamInv(s.stream)
    BY DEF SenderInv, NumberedInv, QueueInv
  <2> QED BY <2>1, SMT DEF SenderRecord
<1>2. available_window(s) \in Int
  BY <1>1, WindowIs
<1>3. CASE s.fin_sent
  <2>1. t = s
    BY <1>3, SMT DEF fill_window
  <2>2. MovingInv(s)
    BY <1>1, <1>3 DEF MovingInv, NumberedInv, eof
  <2>3. s.next_seqno # 0
    BY <1>1, <1>3 DEF NumberedInv
  <2> QED BY <1>1, <2>1, <2>2, <2>3, SentNothing
<1>4. CASE ~ s.fin_sent /\ s.next_seqno = 0
  <2>1. t = send_tcp_segment(s, [BlankSegment EXCEPT !.syn = TRUE])
    BY <1>4, SMT DEF fill_window
  <2> QED BY <1>4, <2>1, FillSyn DEF MovingInv
<1>5. CASE ~ s.fin_sent /\ s.next_seqno # 0 /\ available_window(s) <= 0
  <2>1. t = s
    BY <1>2, <1>5, SMT DEF fill_window
  <2>2. s.outstanding_segments # <<>>
    <3>1. /\ logical_window(s) \in 1 .. Quarter /\ Quarter \in Nat
          /\ s.next_seqno \in Nat /\ s.confirmed_seqno \in Nat
          /\ available_window(s) = logical_window(s) - (s.next_seqno - s.confirmed_seqno)
      BY <1>1, WindowIs
    <3>2. s.confirmed_seqno # s.next_seqno
      BY <1>5, <3>1, SMT
    <3> QED BY <1>1, <3>2, EmptyQueue
  <2> QED BY <1>1, <1>5, <2>1, <2>2, SentNothing DEF MovingInv
<1>6. CASE ~ s.fin_sent /\ s.next_seqno # 0 /\ available_window(s) > 0
  <2>1. t = IF eof(s.stream) THEN send_fin(s) ELSE send_payloads(s)
    BY <1>2, <1>6, SMT DEF fill_window
  <2>2. CASE eof(s.stream)
    BY <1>6, <2>1, <2>2, FillFin DEF MovingInv
  <2>3. CASE ~ eof(s.stream)
    BY <1>6, <2>1, <2>3, FillPayloads
  <2> QED BY <2>2, <2>3, SMT
<1> QED BY <1>2, <1>3, <1>4, <1>5, <1>6, SMT

-----------------------------------------------------------------------------

\* The recursion holds.
LEMMA SumsIs ==
  ASSUME NEW q, NEW N \in Nat
  PROVE  /\ Sums(q, N)[0] = 0
         /\ \A n \in 1 .. N : Sums(q, N)[n] = Sums(q, N)[n - 1] + length_in_sequence_space(q[n])
<1> DEFINE F(f, k) == f = [n \in 0 .. k |-> IF n = 0 THEN 0 ELSE f[n - 1] + length_in_sequence_space(q[n])]
           S == {k \in Nat : \E f : F(f, k)}
<1>1. 0 \in S
  <2>1. F([n \in 0 .. 0 |-> 0], 0)
    OBVIOUS
  <2> QED BY <2>1, Zenon
<1>2. ASSUME NEW k \in Nat, k \in S PROVE k + 1 \in S
  <2>1. PICK f : F(f, k)
    BY <1>2
  <2> DEFINE g == [n \in 0 .. k + 1 |-> IF n <= k THEN f[n] ELSE f[k] + length_in_sequence_space(q[k + 1])]
  <2>2. F(g, k + 1)
    <3>1. ASSUME NEW n \in 0 .. k + 1
          PROVE  g[n] = IF n = 0 THEN 0 ELSE g[n - 1] + length_in_sequence_space(q[n])
      <4>1. CASE n <= k
        BY <2>1, <4>1
      <4>2. CASE n = k + 1
        BY <2>1, <4>2
      <4> QED BY <4>1, <4>2
    <3> QED BY <3>1
  <2>3. k + 1 \in Nat
    OBVIOUS
  <2> HIDE DEF F, g
  <2> QED BY <2>2, <2>3
<1> HIDE DEF S
<1>3. \A n \in Nat : n \in S
  BY <1>1, <1>2, SetInduction
<1>4. \E f : F(f, N)
  BY <1>3, Zenon DEF S
<1>5. Sums(q, N) = CHOOSE f : F(f, N)
  BY DEF Sums
<1> HIDE DEF F
<1>6. F(Sums(q, N), N)
  BY <1>4, <1>5, Zenon
<1> QED BY <1>6 DEF F

\* The numbers that adjacent segments take up.
LEMMA SpaceIs ==
  ASSUME NEW q, NEW k \in Nat, NEW pos, \A i \in 1 .. k + 1 : pos[i] \in Nat,
         \A i \in 1 .. k : /\ length_in_sequence_space(q[i]) \in Nat
                           /\ pos[i + 1] = pos[i] + length_in_sequence_space(q[i])
  PROVE  sequence_space(q, k) = pos[k + 1] - pos[1]
<1> DEFINE f == Sums(q, k)
           S == {n \in Nat : n <= k => f[n] = pos[n + 1] - pos[1]}
<1>1. f[0] = 0 /\ \A n \in 1 .. k : f[n] = f[n - 1] + length_in_sequence_space(q[n])
  BY SumsIs, Zenon
<1> HIDE DEF f
<1>2. 0 \in S
  BY <1>1
<1>3. ASSUME NEW n \in Nat, n \in S PROVE n + 1 \in S
  <2> SUFFICES ASSUME n + 1 <= k PROVE f[n + 1] = pos[(n + 1) + 1] - pos[1]
    OBVIOUS
  <2> DEFINE m == n + 1
             l == length_in_sequence_space(q[m])
  <2>1. f[n] = pos[n + 1] - pos[1]
    BY <1>3
  <2>2. m \in 1 .. k /\ m - 1 = n
    OBVIOUS
  <2>3. f[m] = f[n] + l
    BY <1>1, <2>2
  <2>4. pos[m + 1] = pos[m] + l /\ pos[m] \in Nat /\ pos[m + 1] \in Nat /\ pos[1] \in Nat
        /\ l \in Nat
    BY <2>2
  <2> HIDE DEF l
  <2> QED BY <2>1, <2>3, <2>4
<1> HIDE DEF S
<1>4. k \in S
  BY <1>2, <1>3, SetInduction
<1>5. sequence_space(q, k) = f[k]
  BY Zenon DEF sequence_space, Sums, f
<1> QED BY <1>4, <1>5 DEF S

\* Where the outstanding segments begin, and what an acknowledgment can tell of them.
LEMMA ChainIs ==
  ASSUME NEW s, QueueInv(s), NEW pos, IsChain(s, pos)
  PROVE  LET q == s.outstanding_segments
         IN  /\ Len(q) \in Nat /\ q \in Seq(SegmentRecord)
             /\ \A i \in 1 .. Len(q) + 1 : pos[i] \in Nat /\ pos[i] <= s.next_seqno
             /\ \A i \in 1 .. Len(q) :
                  /\ q[i] \in SegmentRecord
                  /\ length_in_sequence_space(q[i]) \in Nat
                  /\ unwrap(q[i].seqno, s.isn, s.next_seqno) = pos[i]
                  /\ outstanding_ackno(s, q[i]) = pos[i + 1]
             /\ \A k \in 0 .. Len(q) : sequence_space(q, k) = pos[k + 1] - pos[1]
<1> DEFINE q == s.outstanding_segments
           l == Len(q)
           n == s.next_seqno
<1>1. s \in SenderRecord
  BY DEF QueueInv
<1>2. /\ q \in Seq(SegmentRecord) /\ l \in Nat /\ n \in Nat /\ s.confirmed_seqno \in Nat /\ s.isn \in SeqNo
  BY <1>1 DEF SenderRecord
<1>3. \A i \in 1 .. l + 1 : pos[i] \in Nat /\ pos[i] <= n
  <2>1. pos \in [1 .. l + 1 -> 0 .. n]
    BY Zenon DEF IsChain
  <2> HIDE DEF l, n
  <2> QED BY <1>2, <2>1
<1>4. \A i \in 1 .. l : q[i] \in SegmentRecord /\ length_in_sequence_space(q[i]) \in Nat
  BY <1>2, ElementOf, SegmentLength, Zenon
<1> HIDE DEF q, l, n
<1>5. /\ \A i \in 1 .. l : /\ Carries(s, q[i], pos[i])
                           /\ pos[i + 1] = pos[i] + length_in_sequence_space(q[i])
  BY Zenon DEF IsChain, Chain, q, l
<1>6. \A i, j \in 1 .. l + 1 : i < j => pos[i] < pos[j]
  BY Zenon DEF IsChain, Chain, q, l
<1>7. l > 0 => s.confirmed_seqno < pos[2]
  BY Zenon DEF IsChain, Chain, q, l
<1>8. n <= s.confirmed_seqno + Quarter /\ Quarter \in Nat /\ 2 * Quarter <= Half /\ Half \in Nat \ {0}
  BY QuarterIs, HalfIsHalf DEF QueueInv, n
<1>9. ASSUME NEW i \in 1 .. l PROVE n - pos[i] < Half /\ pos[i] - n < Half
  <2>1. pos[1] \in Nat /\ pos[2] \in Nat /\ pos[i] \in Nat /\ pos[i] <= n /\ 1 \in 1 .. l
    BY <1>2, <1>3
  <2>2. pos[1] <= pos[i]
    BY <1>2, <1>6, <2>1
  <2>3. Carries(s, q[1], pos[1]) /\ pos[2] = pos[1] + length_in_sequence_space(q[1])
    <3>1. pos[1 + 1] = pos[2]
      OBVIOUS
    <3> QED BY <1>5, <2>1, <3>1, Zenon
  <2>4. length_in_sequence_space(q[1]) \in 1 .. Quarter
    BY <2>3, Zenon DEF Carries
  <2> DEFINE d == length_in_sequence_space(q[1])
  <2>5. d \in Nat /\ d <= Quarter /\ pos[2] = pos[1] + d
    BY <1>8, <2>3, <2>4
  <2>6. s.confirmed_seqno < pos[2]
    BY <1>2, <1>7
  <2> HIDE DEF d
  <2> DEFINE p == pos[i]
  <2>7. p \in Nat /\ p <= n /\ pos[1] <= p /\ pos[1] \in Nat /\ pos[2] \in Nat
    BY <2>1, <2>2
  <2>8. n \in Nat /\ s.confirmed_seqno \in Nat
    BY <1>2
  <2> HIDE DEF p
  <2>9. n - p < Half /\ p - n < Half
    BY <1>8, <2>5, <2>6, <2>7, <2>8
  <2> QED BY <2>9 DEF p
<1>10. ASSUME NEW i \in 1 .. l
       PROVE  /\ unwrap(q[i].seqno, s.isn, n) = pos[i]
              /\ outstanding_ackno(s, q[i]) = pos[i + 1]
  <2>1. q[i].seqno = wrap(pos[i], s.isn) /\ pos[i + 1] = pos[i] + length_in_sequence_space(q[i])
    BY <1>5, Zenon DEF Carries
  <2>2. pos[i] \in Nat
    BY <1>2, <1>3
  <2>3. n - pos[i] < Half /\ pos[i] - n < Half
    BY <1>9
  <2>4. unwrap(wrap(pos[i], s.isn), s.isn, n) = pos[i]
    BY <1>2, <2>2, <2>3, UnwrapOfWrap, Zenon
  <2> QED BY <2>1, <2>4, Zenon DEF outstanding_ackno, n
<1>11. ASSUME NEW k \in 0 .. l PROVE sequence_space(q, k) = pos[k + 1] - pos[1]
  <2>1. k \in Nat /\ \A i \in 1 .. k + 1 : pos[i] \in Nat
    BY <1>2, <1>3
  <2>2. \A i \in 1 .. k : i \in 1 .. l
    BY <1>2
  <2>3. \A i \in 1 .. k : /\ length_in_sequence_space(q[i]) \in Nat
                          /\ pos[i + 1] = pos[i] + length_in_sequence_space(q[i])
    BY <1>4, <1>5, <2>2, Zenon DEF q, l
  <2> QED BY <2>1, <2>3, SpaceIs, Zenon
<1> QED BY <1>2, <1>3, <1>4, <1>10, <1>11, Zenon DEF q, l, n

\* The loop of ack_received() stops somewhere: at the first segment that the number
\* does not cover.
LEMMA CoveredStops ==
  ASSUME NEW s, QueueInv(s), NEW pos, IsChain(s, pos), NEW a \in Nat
  PROVE  LET q == s.outstanding_segments
             k == CHOOSE j \in 0 .. Len(q) : covered(s, a, j)
         IN  /\ k \in 0 .. Len(q)
             /\ \A i \in 1 .. k : pos[i + 1] <= a
             /\ k < Len(q) => a < pos[k + 2]
<1> DEFINE q == s.outstanding_segments
           l == Len(q)
           k == CHOOSE j \in 0 .. l : covered(s, a, j)
           T == {j \in 0 .. l : j < l => a < pos[j + 2]}
<1>1. l \in Nat
  BY ChainIs, Zenon
<1>2. \A i \in 1 .. l : outstanding_ackno(s, q[i]) = pos[i + 1]
  BY ChainIs, Zenon
<1>3. \A i \in 1 .. l + 1 : pos[i] \in Nat
  BY ChainIs, Zenon
<1> HIDE DEF l
<1>4. T \subseteq Nat /\ l \in T
  BY <1>1
<1>5. PICK j \in T : \A y \in T : j <= y
  BY <1>4, LeastElement, Zenon
<1>6. j \in 0 .. l /\ (j < l => a < pos[j + 2])
  BY <1>5
<1>7. ASSUME NEW i \in 1 .. j PROVE pos[i + 1] <= a
  <2>1. i - 1 \in 0 .. l /\ i - 1 < j /\ i - 1 < l /\ (i - 1) + 2 = i + 1 /\ i + 1 \in 1 .. l + 1
    BY <1>1, <1>6
  <2>2. i - 1 \notin T
    BY <1>1, <1>5, <1>6, <2>1
  <2>3. ~ (a < pos[i + 1])
    BY <2>1, <2>2
  <2>4. pos[i + 1] \in Nat
    BY <1>3, <2>1
  <2> QED BY <2>3, <2>4
<1>8. ASSUME NEW m \in 0 .. l
      PROVE  covered(s, a, m) <=> /\ \A i \in 1 .. m : pos[i + 1] <= a
                                  /\ m < l => a < pos[m + 2]
  <2>1. \A i \in 1 .. m : outstanding_ackno(s, q[i]) = pos[i + 1]
    BY <1>1, <1>2
  <2>2. m < l => outstanding_ackno(s, q[m + 1]) = pos[m + 2]
    <3> SUFFICES ASSUME m < l PROVE outstanding_ackno(s, q[m + 1]) = pos[m + 2]
      OBVIOUS
    <3>1. m + 1 \in 1 .. l /\ (m + 1) + 1 = m + 2
      BY <1>1
    <3> QED BY <1>2, <3>1
  <2> QED BY <2>1, <2>2, Zenon DEF covered, l
<1>9. covered(s, a, j)
  BY <1>6, <1>7, <1>8, Zenon
<1>10. k \in 0 .. l /\ covered(s, a, k)
  BY <1>6, <1>9, Zenon
<1> HIDE DEF k
<1>11. (\A i \in 1 .. k : pos[i + 1] <= a) /\ (k < l => a < pos[k + 2])
  BY <1>8, <1>10, Zenon
<1> QED BY <1>10, <1>11, Zenon DEF k, l

\* The members after the covered segments have left the queue.
LEMMA RemoveFields ==
  ASSUME NEW s \in SenderRecord, NEW a \in Nat, NEW w \in Nat, NEW k \in 0 .. Len(s.outstanding_segments),
         sequence_space(s.outstanding_segments, k) \in Int
  PROVE  LET q == s.outstanding_segments
             t == remove_covered([s EXCEPT !.confirmed_seqno = a, !.receiver_window_size = w], k)
         IN  /\ t \in SenderRecord
             /\ t.isn = s.isn /\ t.segments_out = s.segments_out
             /\ t.outstanding_segments = IF k = 0 THEN q ELSE SubSeq(q, k + 1, Len(q))
             /\ t.timing_begins = s.timing_begins /\ t.stream = s.stream
             /\ t.next_seqno = s.next_seqno /\ t.confirmed_seqno = a
             /\ t.fin_sent = s.fin_sent
             /\ t.bytes_in_flight
                  = IF k = 0 THEN s.bytes_in_flight ELSE s.bytes_in_flight - sequence_space(q, k)
             /\ t.receiver_window_size = w
<1> DEFINE q == s.outstanding_segments
           u == [s EXCEPT !.confirmed_seqno = a, !.receiver_window_size = w]
           t == remove_covered(u, k)
<1>1. /\ u \in SenderRecord /\ u.isn = s.isn /\ u.segments_out = s.segments_out
      /\ u.outstanding_segments = q
      /\ u.timing_begins = s.timing_begins /\ u.stream = s.stream
      /\ u.next_seqno = s.next_seqno /\ u.confirmed_seqno = a /\ u.fin_sent = s.fin_sent
      /\ u.bytes_in_flight = s.bytes_in_flight /\ u.receiver_window_size = w
  BY Zenon DEF SenderRecord
<1>2. q \in Seq(SegmentRecord)
  BY DEF SenderRecord
<1> HIDE DEF u
<1>3. CASE k = 0
  <2>1. t = u
    BY <1>3, Zenon DEF remove_covered
  <2> QED BY <1>1, <1>3, <2>1, Zenon DEF u
<1>4. CASE k # 0
  <2> DEFINE r == SubSeq(q, k + 1, Len(q))
             b == s.bytes_in_flight - sequence_space(q, k)
  <2>1. r \in Seq(SegmentRecord)
    <3>1. Len(q) \in Nat /\ k \in Nat
      BY <1>2
    <3>2. k <= Len(q)
      BY <1>2
    <3> QED BY <1>2, <3>1, <3>2, DropFirst, Zenon
  <2>2. b \in Int
    BY DEF SenderRecord
  <2>3. t = [u EXCEPT !.outstanding_segments = r, !.bytes_in_flight = b,
                 !.applying_retransmission_timeout = rt_timeout,
                 !.consecutive_retransmissions = 0, !.last_tick_time = 0]
    BY <1>1, <1>4 DEF remove_covered, SenderRecord
  <2>4. rt_timeout \in Nat
    BY SenderAssumption
  <2> HIDE DEF r, b, t
  <2>5. /\ t \in SenderRecord /\ t.isn = u.isn /\ t.segments_out = u.segments_out
        /\ t.outstanding_segments = r
        /\ t.timing_begins = u.timing_begins /\ t.stream = u.stream
        /\ t.next_seqno = u.next_seqno /\ t.confirmed_seqno = u.confirmed_seqno
        /\ t.fin_sent = u.fin_sent
        /\ t.bytes_in_flight = b /\ t.receiver_window_size = u.receiver_window_size
    BY <1>1, <2>1, <2>2, <2>3, <2>4, Zenon DEF SenderRecord
  <2> QED BY <1>1, <1>4, <2>5, Zenon DEF t, u, r, b
<1> QED BY <1>3, <1>4

\* The queue without its first k segments is still a chain.
LEMMA RemoveQueue ==
  ASSUME NEW s, QueueInv(s), NEW a \in Nat, s.confirmed_seqno <= a, a <= s.next_seqno,
         NEW w \in 0 .. Quarter
  PROVE  LET q == s.outstanding_segments
             k == CHOOSE j \in 0 .. Len(q) : covered(s, a, j)
             t == remove_covered([s EXCEPT !.confirmed_seqno = a, !.receiver_window_size = w], k)
         IN  /\ QueueInv(t)
             /\ k \in 0 .. Len(q)
             /\ t.isn = s.isn /\ t.segments_out = s.segments_out
             /\ t.timing_begins = s.timing_begins /\ t.stream = s.stream
             /\ t.next_seqno = s.next_seqno /\ t.confirmed_seqno = a
             /\ t.fin_sent = s.fin_sent
             /\ t.receiver_window_size = w
             /\ k = 0 => t.outstanding_segments = q
             /\ q = <<>> => k = 0
<1> DEFINE q == s.outstanding_segments
           l == Len(q)
           k == CHOOSE j \in 0 .. l : covered(s, a, j)
           t == remove_covered([s EXCEPT !.confirmed_seqno = a, !.receiver_window_size = w], k)
           r == t.outstanding_segments
<1>1. s \in SenderRecord /\ s.confirmed_seqno <= s.next_seqno /\ s.next_seqno <= s.confirmed_seqno + Quarter
  BY DEF QueueInv
<1>2. PICK pos : IsChain(s, pos)
  BY Zenon DEF QueueInv, IsChain
<1>3. /\ l \in Nat /\ q \in Seq(SegmentRecord)
      /\ \A i \in 1 .. l + 1 : pos[i] \in Nat /\ pos[i] <= s.next_seqno
      /\ \A i \in 1 .. l : q[i] \in SegmentRecord
      /\ \A j \in 0 .. l : sequence_space(q, j) = pos[j + 1] - pos[1]
  BY <1>2, ChainIs, Zenon
<1>4. /\ k \in 0 .. l
      /\ \A i \in 1 .. k : pos[i + 1] <= a
      /\ k < l => a < pos[k + 2]
  BY <1>2, CoveredStops, Zenon
<1> HIDE DEF k
<1>5. k \in Nat /\ k <= l /\ k + 1 \in 1 .. l + 1 /\ 1 \in 1 .. l + 1
  BY <1>3, <1>4
<1>6. sequence_space(q, k) = pos[k + 1] - pos[1] /\ pos[k + 1] \in Nat /\ pos[1] \in Nat
  BY <1>3, <1>4, <1>5, Zenon
<1>7. sequence_space(q, k) \in Int
  <2> DEFINE x == sequence_space(q, k)
  <2>1. x = pos[k + 1] - pos[1]
    BY <1>6
  <2> HIDE DEF x
  <2>2. x \in Int
    BY <1>6, <2>1
  <2> QED BY <2>2 DEF x
<1>8. w \in Nat /\ w <= Quarter
  BY QuarterIs
<1>9. /\ t \in SenderRecord
      /\ t.isn = s.isn /\ t.segments_out = s.segments_out
      /\ r = IF k = 0 THEN q ELSE SubSeq(q, k + 1, l)
      /\ t.timing_begins = s.timing_begins /\ t.stream = s.stream
      /\ t.next_seqno = s.next_seqno /\ t.confirmed_seqno = a
      /\ t.fin_sent = s.fin_sent
      /\ t.bytes_in_flight
            = IF k = 0 THEN s.bytes_in_flight ELSE s.bytes_in_flight - sequence_space(q, k)
      /\ t.receiver_window_size = w
  <2>1. /\ s \in SenderRecord /\ a \in Nat /\ w \in Nat /\ k \in 0 .. Len(s.outstanding_segments)
        /\ sequence_space(s.outstanding_segments, k) \in Int
    BY <1>1, <1>4, <1>7, <1>8, Zenon
  <2> QED BY <2>1, RemoveFields, ZenonT(60)
<1> HIDE DEF t, r, q, l
<1>10. Len(r) = l - k /\ \A i \in 1 .. l - k : r[i] = q[i + k]
  <2>1. CASE k = 0
    <3>1. r = q
      BY <1>9, <2>1, Zenon
    <3>2. Len(r) = l
      BY <3>1 DEF l
    <3> QED BY <1>3, <2>1, <3>1, <3>2
  <2>2. CASE k # 0
    <3>1. r = SubSeq(q, k + 1, l)
      BY <1>9, <2>2, Zenon
    <3>2. Len(SubSeq(q, k + 1, l)) = l - k /\ \A i \in 1 .. l - k : SubSeq(q, k + 1, l)[i] = q[i + k]
      BY <1>3, <1>5, DropFirst, Zenon DEF l
    <3> QED BY <3>1, <3>2, Zenon
  <2> QED BY <2>1, <2>2
<1> DEFINE new == [i \in 1 .. l - k + 1 |-> pos[i + k]]
<1>11. \A i \in 1 .. l - k + 1 : i + k \in 1 .. l + 1
  BY <1>3, <1>5
<1>12. /\ \A i \in 1 .. l : /\ Carries(s, q[i], pos[i])
                            /\ pos[i + 1] = pos[i] + length_in_sequence_space(q[i])
  BY <1>2, Zenon DEF IsChain, Chain, q, l
<1>13. \A i, j \in 1 .. l + 1 : i < j => pos[i] < pos[j]
  BY <1>2, Zenon DEF IsChain, Chain, q, l
<1>14. /\ pos[l + 1] = s.next_seqno
       /\ pos[1] <= s.confirmed_seqno
       /\ s.bytes_in_flight = s.next_seqno - pos[1]
  BY <1>2, Zenon DEF IsChain, Chain, q, l
<1>15. new \in [1 .. Len(r) + 1 -> 0 .. t.next_seqno]
  <2>1. ASSUME NEW i \in 1 .. l - k + 1 PROVE pos[i + k] \in 0 .. s.next_seqno
    <3>1. s.next_seqno \in Nat
      BY <1>1 DEF SenderRecord
    <3>2. pos[i + k] \in Nat /\ pos[i + k] <= s.next_seqno
      BY <1>3, <1>11, Zenon
    <3> QED BY <3>1, <3>2
  <2> QED BY <1>9, <1>10, <2>1, Zenon
<1>16. ASSUME NEW i \in 1 .. Len(r)
       PROVE  /\ Carries(t, r[i], new[i])
              /\ new[i + 1] = new[i] + length_in_sequence_space(r[i])
  <2>1. i \in 1 .. l - k /\ i \in 1 .. l - k + 1 /\ i + 1 \in 1 .. l - k + 1 /\ i + k \in 1 .. l
        /\ (i + 1) + k = (i + k) + 1
    BY <1>3, <1>5, <1>10
  <2>2. r[i] = q[i + k] /\ new[i] = pos[i + k] /\ new[i + 1] = pos[(i + k) + 1]
    BY <1>10, <2>1, Zenon
  <2>3. \A seg, p : Carries(s, seg, p) => Carries(t, seg, p)
    BY <1>9, Zenon DEF Carries
  <2> QED BY <1>12, <2>1, <2>2, <2>3, Zenon
<1>17. ASSUME NEW i \in 1 .. Len(r) + 1, NEW j \in 1 .. Len(r) + 1, i < j
       PROVE  new[i] < new[j]
  <2>1. /\ i \in 1 .. l - k + 1 /\ j \in 1 .. l - k + 1 /\ i + k < j + k
        /\ i + k \in 1 .. l + 1 /\ j + k \in 1 .. l + 1
    BY <1>3, <1>5, <1>10, <1>17
  <2>2. new[i] = pos[i + k] /\ new[j] = pos[j + k]
    BY <2>1, Zenon
  <2> QED BY <1>13, <2>1, <2>2, Zenon
<1>18. new[Len(r) + 1] = t.next_seqno
  <2>1. l - k + 1 \in 1 .. l - k + 1 /\ (l - k + 1) + k = l + 1
    BY <1>3, <1>5
  <2>2. new[l - k + 1] = pos[l + 1]
    BY <2>1, Zenon
  <2> QED BY <1>9, <1>10, <1>14, <2>2, Zenon
<1>19. new[1] = pos[k + 1]
  <2>1. 1 \in 1 .. l - k + 1 /\ 1 + k = k + 1
    BY <1>3, <1>5
  <2> QED BY <2>1, Zenon
<1>20. new[1] <= t.confirmed_seqno
  <2>1. CASE k = 0
    <3>1. pos[k + 1] = pos[1]
      BY <2>1
    <3>2. s.confirmed_seqno \in Nat
      BY <1>1 DEF SenderRecord
    <3> QED BY <1>6, <1>9, <1>14, <1>19, <3>1, <3>2
  <2>2. CASE k # 0
    <3>1. k \in 1 .. k
      BY <1>5, <2>2
    <3> QED BY <1>4, <1>9, <1>19, <3>1
  <2> QED BY <2>1, <2>2
<1>21. Len(r) > 0 => t.confirmed_seqno < new[2]
  <2> SUFFICES ASSUME Len(r) > 0 PROVE t.confirmed_seqno < new[2]
    OBVIOUS
  <2>1. k < l /\ 2 \in 1 .. l - k + 1 /\ 2 + k = k + 2
    BY <1>3, <1>5, <1>10
  <2>2. new[2] = pos[k + 2]
    BY <2>1, Zenon
  <2> QED BY <1>4, <1>9, <2>1, <2>2, Zenon
<1>22. t.bytes_in_flight = t.next_seqno - new[1]
  <2>1. s.next_seqno \in Nat
    BY <1>1 DEF SenderRecord
  <2>2. CASE k = 0
    <3>1. pos[k + 1] = pos[1]
      BY <2>2
    <3> QED BY <1>9, <1>14, <1>19, <2>2, <3>1
  <2>3. CASE k # 0
    <3>1. t.bytes_in_flight = s.bytes_in_flight - (pos[k + 1] - pos[1])
      BY <1>6, <1>9, <2>3, Zenon
    <3>2. t.bytes_in_flight = (s.next_seqno - pos[1]) - (pos[k + 1] - pos[1])
      BY <1>14, <3>1, Zenon
    <3>3. t.bytes_in_flight = s.next_seqno - pos[k + 1]
      BY <1>6, <2>1, <3>2
    <3> QED BY <1>9, <1>19, <3>3, Zenon
  <2> QED BY <2>2, <2>3
<1>23. Chain(t, new)
  BY <1>16, <1>17, <1>18, <1>20, <1>21, <1>22, Zenon DEF Chain, r
<1>24. QueueInv(t)
  <2>1. s.next_seqno \in Nat /\ s.confirmed_seqno \in Nat /\ Quarter \in Nat
    BY <1>1, QuarterIs DEF SenderRecord
  <2>2. t.receiver_window_size <= Quarter /\ t.confirmed_seqno <= t.next_seqno
        /\ t.next_seqno <= t.confirmed_seqno + Quarter
    BY <1>1, <1>8, <1>9, <2>1
  <2> QED BY <1>9, <1>15, <1>23, <2>2, Zenon DEF QueueInv, r
<1>25. q = <<>> => k = 0
  <2>1. q = <<>> => l = 0
    BY DEF l
  <2> QED BY <1>5, <2>1
<1> QED BY <1>4, <1>9, <1>24, <1>25, Zenon DEF k, l, q, r, t

-----------------------------------------------------------------------------

\* Whoever only sends has moved on.
LEMMA SentMoved ==
  ASSUME NEW s, NEW t, SenderInv(s), Sent(s, t)
  PROVE  Moved(s, t)
<1>1. s.confirmed_seqno \in Nat /\ s.confirmed_seqno <= s.next_seqno
  BY DEF SenderInv, QueueInv, SenderRecord
<1>2. s.confirmed_seqno <= s.confirmed_seqno
  BY <1>1
<1> QED BY <1>1, <1>2, Zenon DEF Sent, Moved

\* So has whoever does nothing.
LEMMA Unmoved ==
  ASSUME NEW s, SenderInv(s)
  PROVE  Moved(s, s)
<1>1. s \in SenderRecord
  BY DEF SenderInv, QueueInv
<1> QED BY <1>1, SentNothing, SentMoved, Zenon

\* The window and the stream after the acknowledgment has been taken in.
LEMMA AckReceivedKeeps ==
  ASSUME NEW s, SenderOK(s), NEW number \in SeqNo, NEW w \in 0 .. Quarter
  PROVE  LET t == ack_received(s, number, w)
         IN  /\ SenderOK(t) /\ Moved(s, t)
             /\ \/ /\ t.confirmed_seqno = s.confirmed_seqno
                   /\ t.receiver_window_size = s.receiver_window_size
                \/ /\ t.confirmed_seqno = unwrap(number, s.isn, s.next_seqno)
                   /\ t.receiver_window_size = w
<1> USE Zenon
<1> DEFINE a == unwrap(number, s.isn, s.next_seqno)
           t == ack_received(s, number, w)
<1>1. SenderInv(s) /\ TimerInv(s) /\ MovingInv(s) /\ QueueInv(s) /\ NumberedInv(s) /\ s \in SenderRecord
  BY DEF SenderOK, SenderInv, QueueInv
<1>2. s.isn \in SeqNo /\ s.next_seqno \in Nat /\ s.confirmed_seqno \in Nat
  BY <1>1, SMT DEF SenderRecord
<1>3. a \in Nat
  BY <1>2, UnwrapType
<1>4. CASE ~ ack_acceptable(s, a)
  <2>1. t = s
    BY <1>4 DEF ack_received
  <2> QED BY <1>1, <2>1, Unmoved
<1>5. CASE ack_acceptable(s, a)
  <2> DEFINE q == s.outstanding_segments
             k == CHOOSE j \in 0 .. Len(q) : covered(s, a, j)
             u == remove_covered([s EXCEPT !.confirmed_seqno = a, !.receiver_window_size = w], k)
  <2>1. s.confirmed_seqno <= a /\ a <= s.next_seqno
    BY <1>5 DEF ack_acceptable
  <2>2. /\ QueueInv(u)
        /\ k \in 0 .. Len(q)
        /\ u.isn = s.isn /\ u.segments_out = s.segments_out
        /\ u.timing_begins = s.timing_begins /\ u.stream = s.stream
        /\ u.next_seqno = s.next_seqno /\ u.confirmed_seqno = a
        /\ u.fin_sent = s.fin_sent
        /\ u.receiver_window_size = w
        /\ k = 0 => u.outstanding_segments = q
        /\ q = <<>> => k = 0
    BY <1>1, <1>3, <2>1, RemoveQueue, ZenonT(60)
  <2>3. t = IF u.outstanding_segments # <<>> THEN u ELSE all_covered(u, k)
    BY <1>5 DEF ack_received
  <2> HIDE DEF a, k, u
  <2>4. NumberedInv(u) /\ SenderInv(u) /\ u \in SenderRecord
    BY <1>1, <2>2 DEF NumberedInv, SenderInv, QueueInv
  <2>5. NewSegments(s, u)
    BY <2>2 DEF NewSegments
  <2>6. s.next_seqno <= u.next_seqno /\ ~ (s.next_seqno < u.next_seqno)
    BY <1>2, <2>2, SMT
  <2>7. CASE u.outstanding_segments # <<>>
    <3>1. t = u
      BY <2>3, <2>7
    <3>2. TimerInv(u) /\ MovingInv(u)
      BY <1>1, <2>2, <2>7 DEF TimerInv, MovingInv
    <3>3. Moved(s, u)
      BY <2>1, <2>2, <2>5, <2>6 DEF Moved
    <3> QED BY <2>2, <2>4, <3>1, <3>2, <3>3 DEF SenderOK, a
  <2>8. CASE u.outstanding_segments = <<>>
    <3> DEFINE v == IF k > 0 THEN fill_window(u) ELSE u
    <3>1. t = [v EXCEPT !.timing_begins = v.outstanding_segments # <<>>]
      BY <2>3, <2>8 DEF all_covered
    <3>2. SenderInv(v) /\ Sent(u, v)
      BY <2>4, FillWindowKeeps, SentNothing
    <3>3. MovingInv(v)
      <4>1. CASE k > 0
        BY <2>4, <4>1, FillWindowKeeps
      <4>2. CASE ~ (k > 0)
        <5>1. k = 0
          <6>1. Len(q) \in Nat
            BY <1>1, SMT DEF SenderRecord
          <6> HIDE DEF q
          <6> QED BY <2>2, <4>2, <6>1, SMT
        <5>2. v = u /\ u.outstanding_segments = q
          BY <2>2, <4>2, <5>1
        <5> QED BY <1>1, <2>2, <5>2 DEF MovingInv
      <4> QED BY <4>1, <4>2, SMT
    <3> HIDE DEF v
    <3>4. v \in SenderRecord
      BY <3>2 DEF SenderInv, QueueInv
    <3>5. /\ t \in SenderRecord /\ SameQueue(v, t) /\ t.stream = v.stream /\ t.segments_out = v.segments_out
          /\ t.timing_begins = (v.outstanding_segments # <<>>)
      <4> DEFINE b == v.outstanding_segments # <<>>
      <4>1. b \in BOOLEAN
        BY SMT
      <4> HIDE DEF b, t
      <4>2. t = [v EXCEPT !.timing_begins = b]
        BY <3>1, SMT DEF b
      <4>3. /\ t \in SenderRecord /\ t.stream = v.stream /\ t.segments_out = v.segments_out
            /\ t.timing_begins = b
        BY <3>4, <4>1, <4>2 DEF SenderRecord
      <4>4. SameQueue(v, t)
        BY <3>4, <4>1, <4>2, SMT DEF SenderRecord, SameQueue
      <4> QED BY <4>3, <4>4 DEF b
    <3> HIDE DEF t
    <3>6. QueueInv(t) /\ NumberedInv(t)
      BY <3>2, <3>5, QueueSame DEF SenderInv, NumberedInv, SameQueue
    <3>7. TimerInv(t) /\ MovingInv(t)
      BY <3>3, <3>5 DEF TimerInv, MovingInv, SameQueue
    <3>8. Moved(s, t)
      <4>1. \A seg, p : Carries(v, seg, p) => Carries(t, seg, p)
        BY <3>5 DEF Carries, SameQueue
      <4>2. NewSegments(u, t)
        BY <3>2, <3>5, <4>1 DEF Sent, NewSegments, SameQueue
      <4>3. NewSegments(s, t)
        BY <2>2, <4>2 DEF NewSegments
      <4>4. logical_window(t) = logical_window(v)
        BY <3>5 DEF SameQueue, logical_window
      <4>5. /\ t.isn = s.isn /\ t.confirmed_seqno = a
            /\ t.stream.bytes_written = s.stream.bytes_written
            /\ t.stream.input_ended = s.stream.input_ended
            /\ t.stream.capacity = s.stream.capacity
        BY <2>2, <3>2, <3>5 DEF Sent, SameQueue
      <4>6. /\ s.next_seqno <= t.next_seqno
            /\ s.next_seqno < t.next_seqno => t.next_seqno <= t.confirmed_seqno + logical_window(t)
            /\ s.fin_sent => t.fin_sent /\ t.next_seqno = s.next_seqno
            /\ t.fin_sent => s.fin_sent \/ s.next_seqno < t.next_seqno
        BY <2>2, <3>2, <3>5, <4>4 DEF Sent, SameQueue
      <4> QED BY <2>1, <4>3, <4>5, <4>6 DEF Moved
    <3>9. t.confirmed_seqno = a /\ t.receiver_window_size = w
      BY <2>2, <3>2, <3>5 DEF Sent, SameQueue
    <3> QED BY <3>6, <3>7, <3>8, <3>9 DEF SenderOK, SenderInv, t, a
  <2> QED BY <2>7, <2>8, SMT
<1> QED BY <1>4, <1>5, SMT

\* Nothing but the segments for the owner, or the retransmission's clock, changes.
LEMMA SenderSame ==
  ASSUME NEW s, NEW t \in SenderRecord, SenderOK(s), SameQueue(s, t), t.stream = s.stream,
         t.timing_begins = s.timing_begins
  PROVE  SenderOK(t)
<1> USE Zenon
<1>1. QueueInv(t)
  BY QueueSame DEF SenderOK, SenderInv
<1>2. NumberedInv(t)
  BY DEF SenderOK, SenderInv, NumberedInv, SameQueue
<1>3. TimerInv(t) /\ MovingInv(t)
  BY DEF SenderOK, TimerInv, MovingInv, SameQueue
<1> QED BY <1>1, <1>2, <1>3 DEF SenderOK, SenderInv

\* The owner takes the segments.
LEMMA DrainedIs ==
  ASSUME NEW s, SenderOK(s), NEW so \in Seq(SegmentRecord)
  PROVE  LET t == [s EXCEPT !.segments_out = so]
         IN  /\ SenderOK(t) /\ SameQueue(s, t) /\ t.stream = s.stream /\ t.segments_out = so
             /\ t.consecutive_retransmissions = s.consecutive_retransmissions
             /\ t.timing_begins = s.timing_begins
             /\ t.last_tick_time = s.last_tick_time
             /\ t.applying_retransmission_timeout = s.applying_retransmission_timeout
<1> DEFINE t == [s EXCEPT !.segments_out = so]
<1>1. s \in SenderRecord
  BY Zenon DEF SenderOK, SenderInv, QueueInv
<1>2. /\ t \in SenderRecord /\ t.stream = s.stream /\ t.segments_out = so
      /\ t.consecutive_retransmissions = s.consecutive_retransmissions
      /\ t.timing_begins = s.timing_begins
      /\ t.last_tick_time = s.last_tick_time
      /\ t.applying_retransmission_timeout = s.applying_retransmission_timeout
  BY <1>1, Zenon DEF SenderRecord
<1>3. SameQueue(s, t)
  BY <1>1 DEF SenderRecord, SameQueue
<1> HIDE DEF t
<1>4. SenderOK(t)
  BY <1>2, <1>3, SenderSame, Zenon
<1> QED BY <1>2, <1>3, <1>4, Zenon DEF t

\* tick() sends the oldest outstanding segment again, or only counts the time.
LEMMA SenderTick ==
  ASSUME NEW s, SenderOK(s), NEW ms \in Nat
  PROVE  LET t == sender_tick(s, ms)
         IN  /\ SenderOK(t) /\ SameQueue(s, t) /\ t.stream = s.stream
             /\ \/ t.segments_out = s.segments_out
                \/ /\ s.outstanding_segments # <<>>
                   /\ t.segments_out = Append(s.segments_out, Head(s.outstanding_segments))
<1> USE Zenon
<1> DEFINE t == sender_tick(s, ms)
           q == s.outstanding_segments
           elapsed == s.last_tick_time + ms
<1>1. s \in SenderRecord
  BY DEF SenderOK, SenderInv, QueueInv
<1>2. elapsed \in Nat /\ q \in Seq(SegmentRecord) /\ s.segments_out \in Seq(SegmentRecord)
      /\ s.consecutive_retransmissions + 1 \in Nat
      /\ s.applying_retransmission_timeout * 2 \in Nat
  <2>1. /\ q \in Seq(SegmentRecord) /\ s.segments_out \in Seq(SegmentRecord)
        /\ s.last_tick_time \in Nat /\ s.consecutive_retransmissions \in Nat
        /\ s.applying_retransmission_timeout \in Nat
    BY <1>1, SMT DEF SenderRecord
  <2> HIDE DEF q
  <2> QED BY <2>1, SMTT(30)
<1> HIDE DEF elapsed, q
<1>3. CASE ~ s.timing_begins
  <2>1. t = s
    BY <1>3 DEF sender_tick
  <2> QED BY <2>1 DEF SameQueue
<1>4. CASE s.timing_begins /\ ~ (elapsed >= s.applying_retransmission_timeout /\ q # <<>>)
  <2>1. t = [s EXCEPT !.last_tick_time = elapsed]
    BY <1>4 DEF sender_tick, elapsed, q
  <2> HIDE DEF t
  <2>2. /\ t \in SenderRecord /\ t.stream = s.stream /\ t.timing_begins = s.timing_begins
        /\ t.segments_out = s.segments_out
    BY <1>1, <1>2, <2>1 DEF SenderRecord
  <2>3. SameQueue(s, t)
    BY <1>1, <1>2, <2>1, SMT DEF SenderRecord, SameQueue
  <2>4. SenderOK(t)
    BY <2>2, <2>3, SenderSame
  <2> QED BY <2>2, <2>3, <2>4 DEF t
<1>5. CASE s.timing_begins /\ elapsed >= s.applying_retransmission_timeout /\ q # <<>>
  <2> DEFINE so == Append(s.segments_out, Head(q))
             u == [s EXCEPT !.segments_out = so, !.last_tick_time = 0]
  <2>1. Head(q) \in SegmentRecord /\ so \in Seq(SegmentRecord)
    <3>1. Head(q) \in SegmentRecord
      BY <1>2, <1>5, HeadTailIs
    <3> QED BY <1>2, <3>1, AppendIs
  <2>2. t = u \/ t = back_off(u)
    <3>1. t = LET x == [s EXCEPT !.segments_out = Append(s.segments_out, retransmitted(s)), !.last_tick_time = 0]
              IN  IF s.receiver_window_size > 0 \/ retransmitted(s).syn THEN back_off(x) ELSE x
      BY <1>1, <1>5, SMT DEF sender_tick, elapsed, q, SenderRecord
    <3>2. retransmitted(s) = Head(q)
      BY DEF retransmitted, q
    <3> QED BY <3>1, <3>2
  <2> HIDE DEF so
  <2>3. /\ u \in SenderRecord /\ u.stream = s.stream /\ u.timing_begins = s.timing_begins
        /\ u.segments_out = so
        /\ u.consecutive_retransmissions = s.consecutive_retransmissions
        /\ u.applying_retransmission_timeout = s.applying_retransmission_timeout
    BY <1>1, <2>1 DEF SenderRecord
  <2>4. SameQueue(s, u)
    BY <1>1, <2>1, SMT DEF SenderRecord, SameQueue
  <2> HIDE DEF u, t
  <2>5. t \in SenderRecord /\ t.stream = s.stream /\ t.timing_begins = s.timing_begins
        /\ t.segments_out = so /\ SameQueue(s, t)
    <3>1. CASE t = u
      BY <2>3, <2>4, <3>1
    <3>2. CASE t = back_off(u)
      <4> DEFINE c == s.consecutive_retransmissions + 1
                 d == s.applying_retransmission_timeout * 2
      <4>1. t = [u EXCEPT !.consecutive_retransmissions = c, !.applying_retransmission_timeout = d]
        BY <2>3, <3>2, SMT DEF back_off, SenderRecord
      <4>2. c \in Nat /\ d \in Nat
        BY <1>2, SMT
      <4> HIDE DEF c, d
      <4>3. /\ t \in SenderRecord /\ t.stream = u.stream /\ t.timing_begins = u.timing_begins
            /\ t.segments_out = u.segments_out
        BY <2>3, <4>1, <4>2 DEF SenderRecord
      <4>4. SameQueue(u, t)
        BY <2>3, <4>1, <4>2, SMT DEF SenderRecord, SameQueue
      <4> QED BY <2>3, <2>4, <4>3, <4>4 DEF SameQueue
    <3> QED BY <2>2, <3>1, <3>2, SMT
  <2>6. SenderOK(t)
    BY <2>5, SenderSame
  <2> QED BY <1>5, <2>5, <2>6 DEF t, so, q
<1> QED BY <1>3, <1>4, <1>5

\* send_empty_segment() takes up no sequence number.
LEMMA SendEmpty ==
  ASSUME NEW s, SenderOK(s)
  PROVE  LET t == send_empty_segment(s)
             x == [BlankSegment EXCEPT !.seqno = wrap(s.next_seqno, s.isn)]
         IN  /\ SenderOK(t) /\ SameQueue(s, t) /\ t.stream = s.stream
             /\ x \in SegmentRecord /\ x.seqno = wrap(s.next_seqno, s.isn)
             /\ x.payload = <<>> /\ x.syn = FALSE /\ x.fin = FALSE
             /\ t.segments_out = Append(s.segments_out, x)
<1> DEFINE t == send_empty_segment(s)
           x == [BlankSegment EXCEPT !.seqno = wrap(s.next_seqno, s.isn)]
           so == Append(s.segments_out, x)
<1>1. s \in SenderRecord
  BY Zenon DEF SenderOK, SenderInv, QueueInv
<1>2. s.next_seqno \in Nat /\ s.isn \in SeqNo /\ s.segments_out \in Seq(SegmentRecord)
  BY <1>1 DEF SenderRecord
<1>3. wrap(s.next_seqno, s.isn) \in SeqNo
  BY <1>2, WrapType, Zenon
<1>4. /\ x \in SegmentRecord /\ x.seqno = wrap(s.next_seqno, s.isn)
      /\ x.payload = <<>> /\ x.syn = FALSE /\ x.fin = FALSE
  <2> DEFINE y == wrap(s.next_seqno, s.isn)
  <2> HIDE DEF y
  <2>1. y \in SeqNo
    BY <1>3 DEF y
  <2>2. LET z == [BlankSegment EXCEPT !.seqno = y]
        IN  z \in SegmentRecord /\ z.seqno = y /\ z.payload = <<>> /\ z.syn = FALSE /\ z.fin = FALSE
    BY <2>1, BlankSegmentIs DEF SegmentRecord
  <2> QED BY <2>2 DEF y
<1> HIDE DEF x
<1>5. so \in Seq(SegmentRecord)
  BY <1>2, <1>4, AppendIs, Zenon
<1>6. t = [s EXCEPT !.segments_out = so]
  BY <1>1 DEF send_empty_segment, SenderRecord, x
<1> HIDE DEF so, t
<1>7. SenderOK(t) /\ SameQueue(s, t) /\ t.stream = s.stream /\ t.segments_out = so
  BY <1>5, <1>6, DrainedIs, Zenon
<1> QED BY <1>4, <1>7, Zenon DEF t, so, x

\* TCPConnection::write() and end_input_stream(): the stream changes and the window
\* is filled again.
LEMMA SenderStream ==
  ASSUME NEW s, SenderOK(s), NEW bs, StreamInv(bs), bs.bytes_read = s.stream.bytes_read,
         s.fin_sent => eof(bs) /\ bs.bytes_written = s.stream.bytes_written
  PROVE  LET u == [s EXCEPT !.stream = bs]
         IN  /\ SenderInv(u) /\ TimerInv(u) /\ SameQueue(s, u) /\ u.stream = bs
             /\ u.segments_out = s.segments_out
             /\ u.consecutive_retransmissions = s.consecutive_retransmissions
<1> USE Zenon
<1> DEFINE u == [s EXCEPT !.stream = bs]
<1>1. s \in SenderRecord /\ bs \in StreamRecord /\ s.stream \in StreamRecord
  BY DEF SenderOK, SenderInv, QueueInv, NumberedInv, StreamInv
<1>2. /\ u \in SenderRecord /\ u.stream = bs /\ u.segments_out = s.segments_out
      /\ u.consecutive_retransmissions = s.consecutive_retransmissions
      /\ u.timing_begins = s.timing_begins
  BY <1>1 DEF SenderRecord
<1>3. SameQueue(s, u)
  BY <1>1, SMT DEF SenderRecord, SameQueue
<1> HIDE DEF u
<1>4. QueueInv(u)
  BY <1>2, <1>3, QueueSame DEF SenderOK, SenderInv
<1>5. s.fin_sent => eof(bs) /\ s.next_seqno = bs.bytes_written + 2
  BY DEF SenderOK, SenderInv, NumberedInv
<1>6. NumberedInv(u)
  BY <1>2, <1>3, <1>5 DEF SenderOK, SenderInv, NumberedInv, SameQueue
<1>7. TimerInv(u)
  BY <1>2, <1>3 DEF SenderOK, TimerInv, SameQueue
<1> QED BY <1>2, <1>3, <1>4, <1>6, <1>7 DEF SenderInv, u

\* A new sender.
LEMMA NewSender ==
  ASSUME NEW cap \in Nat, NEW i \in SeqNo
  PROVE  SenderOK(TCPSender(cap, i)) /\ TCPSender(cap, i).segments_out = <<>>
<1> DEFINE s == TCPSender(cap, i)
           bs == ByteStream(cap)
<1>1. StreamInv(bs) /\ bs.bytes_read = 0
  BY NewStream, Zenon
<1>2. bs \in StreamRecord
  BY <1>1, Zenon DEF StreamInv
<1> HIDE DEF bs
<1>3. <<>> \in Seq(SegmentRecord) /\ Len(<<>>) = 0
  OBVIOUS
<1>4. /\ s \in SenderRecord /\ s.isn = i /\ s.segments_out = <<>> /\ s.outstanding_segments = <<>>
      /\ s.timing_begins = FALSE /\ s.stream = bs /\ s.next_seqno = 0 /\ s.confirmed_seqno = 0
      /\ s.fin_sent = FALSE /\ s.bytes_in_flight = 0 /\ s.receiver_window_size = 0
  <2>1. rt_timeout \in Nat
    BY SenderAssumption
  <2>2. s = [isn |-> i, segments_out |-> <<>>, outstanding_segments |-> <<>>,
     applying_retransmission_timeout |-> rt_timeout, last_tick_time |-> 0,
     timing_begins |-> FALSE, consecutive_retransmissions |-> 0,
     stream |-> bs, next_seqno |-> 0, confirmed_seqno |-> 0,
     fin_sent |-> FALSE, bytes_in_flight |-> 0, receiver_window_size |-> 0]
    BY Zenon DEF TCPSender, bs
  <2> HIDE DEF s
  <2> QED BY <1>2, <1>3, <2>1, <2>2 DEF SenderRecord
<1> HIDE DEF s
<1> DEFINE pos == [j \in 1 .. 1 |-> 0]
<1>5. Len(s.outstanding_segments) = 0 /\ Len(s.outstanding_segments) + 1 = 1
  BY <1>3, <1>4
<1>6. pos \in [1 .. Len(s.outstanding_segments) + 1 -> 0 .. s.next_seqno]
  BY <1>4, <1>5
<1>7. Chain(s, pos)
  <2>1. pos[1] = 0 /\ pos[Len(s.outstanding_segments) + 1] = 0
    BY <1>5
  <2>2. \A j \in 1 .. Len(s.outstanding_segments) : FALSE
    BY <1>5
  <2>3. \A j, k \in 1 .. Len(s.outstanding_segments) + 1 : ~ (j < k)
    BY <1>5
  <2>4. ~ (Len(s.outstanding_segments) > 0) /\ pos[1] <= s.confirmed_seqno
        /\ s.bytes_in_flight = s.next_seqno - pos[1]
    BY <1>4, <1>5, <2>1
  <2> QED BY <1>4, <2>1, <2>2, <2>3, <2>4, Zenon DEF Chain
<1> HIDE DEF pos
<1>8. QueueInv(s)
  <2>1. s.receiver_window_size <= Quarter /\ s.confirmed_seqno <= s.next_seqno
        /\ s.next_seqno <= s.confirmed_seqno + Quarter
    BY <1>4, QuarterIs
  <2> QED BY <1>4, <1>6, <1>7, <2>1, Zenon DEF QueueInv
<1>9. NumberedInv(s) /\ TimerInv(s) /\ MovingInv(s)
  <2>1. ~ (s.next_seqno > 0)
    BY <1>4
  <2> QED BY <1>1, <1>2, <1>4, <2>1, Zenon DEF NumberedInv, TimerInv, MovingInv
<1> QED BY <1>4, <1>8, <1>9, Zenon DEF SenderOK, SenderInv, s
=============================================================================
