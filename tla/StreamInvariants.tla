--------------------------- MODULE StreamInvariants ----------------------------
(***************************************************************************)
(* What byte streams, segments, a StreamReassembler and a TCPReceiver that *)
(* are given parts of one stream of L bytes hold, and what their handlers  *)
(* do to it: the predicates in which the lemmas about them are stated.     *)
(***************************************************************************)
EXTENDS ReceiverOps

\* The members of a segment.
SegmentRecord == [seqno : SeqNo, syn : BOOLEAN, fin : BOOLEAN, rst : BOOLEAN,
                  ack : BOOLEAN, ackno : SeqNo, win : Nat, payload : Seq(Nat)]

\* The members of a byte stream.
StreamRecord == [stream : Seq(Nat), capacity : Nat, bytes_written : Nat, bytes_read : Nat,
                 input_ended : BOOLEAN, error : BOOLEAN]

\* The buffered bytes are those written and not yet read, and fit the capacity.
StreamInv(bs) ==
  /\ bs \in StreamRecord
  /\ bs.bytes_read <= bs.bytes_written
  /\ bs.bytes_written <= bs.bytes_read + bs.capacity
  /\ bs.stream = Bytes(bs.bytes_read + 1, bs.bytes_written)

-----------------------------------------------------------------------------

\* The members of a datagram.
DatagramRecord == [data : Seq(Nat), index : Nat, eof : BOOLEAN]

\* A part of the stream that ends before the limit w.  (A part without bytes that does
\* not end the stream, as a segment without payload has, may stand anywhere.)
Piece(d, L, w) ==
  /\ d \in DatagramRecord
  /\ d.data = Bytes(d.index + 1, end_of(d))
  /\ d.index < end_of(d) \/ d.eof => end_of(d) <= L /\ end_of(d) <= w
  /\ d.eof => end_of(d) = L

\* The list of what waits: parts of the stream, in the order in which they begin.
Storage(q, L, w) ==
  /\ q \in Seq(DatagramRecord)
  /\ \A i \in 1 .. Len(q) : Piece(q[i], L, w)
  /\ \A i, j \in 1 .. Len(q) : i < j => q[i].index <= q[j].index

\* The byte with index b belongs to d.
Holds(d, b) == d.index <= b /\ b < end_of(d)

\* It belongs to one of the list.
HoldsAny(q, b) == \E i \in 1 .. Len(q) : Holds(q[i], b)

-----------------------------------------------------------------------------

\* The members of a reassembler.
ReassemblerRecord ==
  [output : StreamRecord, capacity : Nat, next_assembling_index : Nat, smallest_temporty_index : Nat,
   unassembled_bytes : Int, storage : Seq(DatagramRecord), hung : BOOLEAN]

\* No byte at or beyond the limit fits the capacity before the application reads on.
Limit(r) == r.output.bytes_read + r.capacity

\* The invariant of a reassembler of a stream of L bytes: its output is the beginning
\* of the stream, and ends only with the stream; what waits are parts of the stream
\* that fit the capacity; the index that push_substring() compares with the end of
\* the output is not beyond the first of them.
ReassemblerInv(r, L) ==
  /\ r \in ReassemblerRecord
  /\ StreamInv(r.output)
  /\ r.output.capacity = r.capacity
  /\ r.next_assembling_index = r.output.bytes_written
  /\ r.output.bytes_written <= L
  /\ r.output.input_ended => r.output.bytes_written = L
  /\ Storage(r.storage, L, Limit(r))
  /\ r.storage # <<>> => r.smallest_temporty_index <= r.storage[1].index

\* The byte with index b has been written or waits.
Known(r, b) == b < r.next_assembling_index \/ HoldsAny(r.storage, b)

\* A part that has bytes, or only the end of the stream.
Whole(d, L) == d.index < end_of(d) \/ d.index = L

\* What waits begins beyond the output, or is written already.
Settled(r, L) ==
  \A i \in 1 .. Len(r.storage) :
    /\ Whole(r.storage[i], L)
    /\ \/ r.storage[i].index > r.next_assembling_index
       \/ end_of(r.storage[i]) <= r.next_assembling_index

-----------------------------------------------------------------------------

\* The part that reaches the end of the stream says so.
Marked(D, L) == \A d \in D : end_of(d) = L => d.eof

\* All the datagrams of the list are in D.
Within(q, D) == \A i \in 1 .. Len(q) : q[i] \in D

\* An output of x bytes of the stream D has whole parts only, and has ended (`done')
\* if it holds a part with the eof flag, and only if there is one.
Reached(x, done, D, L) ==
  /\ \A d \in D : d.index < x => end_of(d) <= x
  /\ \A d \in D : d.eof /\ d.index < end_of(d) /\ end_of(d) <= x => done
  /\ Marked(D, L) /\ L > 0 /\ x = L => done
  /\ done => \E d \in D : d.eof

\* The same of a reassembler.
ReassemblerCut(r, D, L) ==
  /\ ~ r.hung
  /\ Within(r.storage, D)
  /\ Reached(r.next_assembling_index, r.output.input_ended, D, L)

-----------------------------------------------------------------------------

\* A reassembler without content.
Vacant(r, cap, L) ==
  /\ ReassemblerInv(r, L)
  /\ r.capacity = cap /\ r.storage = <<>> /\ r.next_assembling_index = 0 /\ r.hung = FALSE
  /\ r.output.bytes_read = 0 /\ r.output.bytes_written = 0 /\ r.output.input_ended = FALSE
  /\ r.output.capacity = cap
  /\ \A b \in Nat : ~ Known(r, b)
  /\ Settled(r, L)

\* The application has read n bytes, from r to t: the limit moves, nothing else changes.
Taken(t, r, n, L) ==
  /\ ReassemblerInv(t, L)
  /\ t.capacity = r.capacity /\ t.storage = r.storage /\ t.hung = r.hung
  /\ t.next_assembling_index = r.next_assembling_index
  /\ t.output.bytes_read = r.output.bytes_read + n
  /\ t.output.bytes_written = r.output.bytes_written
  /\ t.output.input_ended = r.output.input_ended
  /\ \A b : Known(t, b) <=> Known(r, b)
  /\ Settled(t, L) <=> Settled(r, L)
  /\ \A D : ReassemblerCut(t, D, L) <=> ReassemblerCut(r, D, L)

-----------------------------------------------------------------------------

\* The members of a TCPReceiver.
ReceiverRecord == [reassembler : ReassemblerRecord, capacity : Nat, abs_seqno : Nat, isn : SeqNo,
                   first_segment : BOOLEAN]

\* A receiver of a stream of L bytes whose SYN has the number i: the reassembler keeps
\* its invariant; the number that is expected next is at most one beyond what was
\* written, unless that is the whole stream.
Sound(r, L, i, cap) ==
  /\ r \in ReceiverRecord
  /\ ReassemblerInv(r.reassembler, L)
  /\ r.capacity = cap /\ r.reassembler.capacity = cap
  /\ r.first_segment => r.abs_seqno = 0 /\ stream_out(r).bytes_written = 0 /\ ~ stream_out(r).input_ended
  /\ ~ r.first_segment => r.isn = i /\ r.abs_seqno > 0
  /\ r.abs_seqno <= L + 3
  /\ r.abs_seqno <= stream_out(r).bytes_written + 1 \/ stream_out(r).bytes_written = L

\* The segment holds the part of such a stream that begins at the absolute number f: SYN
\* is number 0, byte n has number n, FIN comes after the last byte.
Carried(seg, f, i, L) ==
  /\ seg \in SegmentRecord
  /\ f \in Nat /\ f <= L + 2
  /\ seg.seqno = wrap(f, i)
  /\ seg.payload = Bytes(f, f + Len(seg.payload) - 1)
  /\ seg.syn <=> f = 0
  /\ seg.syn => seg.payload = <<>> /\ ~ seg.fin
  /\ Len(seg.payload) > 0 => f + Len(seg.payload) <= L + 1
  /\ seg.fin => f + Len(seg.payload) = L + 1

\* Whatever ends before the number x fits the window, which counts as one if it is zero,
\* or has been written.
Fits(r, L, x) ==
  \/ stream_out(r).bytes_written = L
  \/ x <= 1 + stream_out(r).bytes_written + Larger(window_size(r), 1)

\* A receiver that may have heard a segment, from r to s.
Hears(s, r, L, i, cap) ==
  /\ Sound(s, L, i, cap)
  /\ stream_out(s).bytes_read = stream_out(r).bytes_read
  /\ stream_out(r).bytes_written <= stream_out(s).bytes_written
  /\ stream_out(r).input_ended => stream_out(s).input_ended
  /\ s.abs_seqno >= r.abs_seqno
  /\ s = r \/ ~ s.first_segment

\* What the application that reads n bytes leaves.
ReadBy(s, r, n, L, i, cap) ==
  /\ Sound(s, L, i, cap)
  /\ Taken(s.reassembler, r.reassembler, n, L)
  /\ s.abs_seqno = r.abs_seqno /\ s.isn = r.isn /\ s.first_segment = r.first_segment
  /\ stream_out(s).bytes_written = stream_out(r).bytes_written
  /\ stream_out(s).bytes_read = stream_out(r).bytes_read + n
  /\ stream_out(s).input_ended = stream_out(r).input_ended

-----------------------------------------------------------------------------

\* Every datagram of the one list is one of the other.
Among(q, r) == \A i \in 1 .. Len(q) : \E j \in 1 .. Len(r) : q[i] = r[j]

-----------------------------------------------------------------------------

\* The list s has the datagrams of the list q and the datagram d.
Inserted(s, q, d) ==
  /\ Len(s) = Len(q) + 1 /\ Len(q) \in Nat
  /\ \A i \in 1 .. Len(s) : s[i] = d \/ \E j \in 1 .. Len(q) : s[i] = q[j]
  /\ \E i \in 1 .. Len(s) : s[i] = d
  /\ \A j \in 1 .. Len(q) : \E i \in 1 .. Len(s) : s[i] = q[j]

\* The scan of missing_middle_handler().
ScanRecord == [storage : Seq(DatagramRecord), dg : DatagramRecord, i : Nat, freed : Nat,
               result : {"scanning", "store", "drop", "hang"}]

\* m with the i-th datagram of its list taken out, to scan for dg from the front again.
Erased(m, dg) ==
  [storage |-> erase(m.storage, m.i), dg |-> dg, i |-> 1,
   freed |-> m.freed + Len(m.storage[m.i].data), result |-> m.result]

\* The scan with its result.
Ended(m, result) == [m EXCEPT !.result = result]

\* What every round of the scan keeps, for the list q and the new datagram d that it
\* started with: no byte is lost, none is made up, and d only grows.
ScanInv(m, q, d, L, w) ==
  /\ m \in ScanRecord
  /\ Storage(m.storage, L, w)
  /\ Piece(m.dg, L, w)
  /\ m.i \in 1 .. Len(m.storage) + 1
  /\ Len(m.storage) <= Len(q)
  /\ Among(m.storage, q)
  /\ m.dg.index = d.index
  /\ end_of(d) <= end_of(m.dg)
  /\ \A b \in Nat : HoldsAny(q, b) \/ Holds(d, b) => HoldsAny(m.storage, b) \/ Holds(m.dg, b)
  /\ \A b \in Nat : Holds(m.dg, b) => HoldsAny(q, b) \/ Holds(d, b)
  /\ m.result = "drop" => \A b \in Nat : Holds(m.dg, b) => HoldsAny(m.storage, b)

\* The datagram g takes the place of m.dg and of the stored datagram p.
Covers(g, m, p) ==
  /\ g.index = m.dg.index /\ g.index <= p.index
  /\ end_of(m.dg) <= end_of(g) /\ end_of(p) <= end_of(g)
  /\ \A b \in Nat : Holds(g, b) => Holds(m.dg, b) \/ Holds(p, b)

\* The loop of missing_middle_handler(), as the function that scan() defines.
Scans(q, d, N) ==
  LET after[n \in 0 .. N] ==
        IF n = 0 THEN [storage |-> q, dg |-> d, i |-> 1, freed |-> 0, result |-> "scanning"]
                 ELSE scan_step(after[n - 1])
  IN  after

-----------------------------------------------------------------------------

\* A step changed the output of a reassembler only.
SameList(t, r) ==
  /\ t.storage = r.storage /\ t.capacity = r.capacity /\ t.hung = r.hung
  /\ t.smallest_temporty_index = r.smallest_temporty_index
  /\ t.output.bytes_read = r.output.bytes_read

\* A substring that does not begin beyond the output: afterwards the output reaches
\* at least as far, and ends with the last substring.
Assembled(t, r, d) ==
  /\ SameList(t, r)
  /\ t.next_assembling_index = Larger(r.next_assembling_index, end_of(d))
  /\ r.output.input_ended \/ d.eof <=> t.output.input_ended

\* The first stored datagram d leaves the list.
Popped(t, r, d) ==
  /\ t.output = r.output /\ t.capacity = r.capacity /\ t.hung = r.hung
  /\ t.next_assembling_index = r.next_assembling_index
  /\ Len(t.storage) = Len(r.storage) - 1
  /\ Among(t.storage, r.storage)
  /\ \A b \in Nat : HoldsAny(r.storage, b) <=> HoldsAny(t.storage, b) \/ Holds(d, b)
  /\ \A i \in 1 .. Len(t.storage) : d.index <= t.storage[i].index

\* A call of push_substring(), as push_step() has it.
CallRecord == [r : ReassemblerRecord, todo : Seq(DatagramRecord)]

\* A call that can be made: its substring, if it has one, is a part of the stream.
CallInv(c, L) ==
  /\ c \in CallRecord
  /\ ReassemblerInv(c.r, L)
  /\ c.todo = <<>> \/ (c.todo = <<c.todo[1]>> /\ Piece(c.todo[1], L, Limit(c.r)))

\* The byte with index b has been written, waits, or is being pushed.
CallKnows(c, b) == Known(c.r, b) \/ (c.todo # <<>> /\ Holds(c.todo[1], b))

\* What waits can wait: it begins beyond the output, or is written already, or the
\* substring that is being pushed comes first.
Calm(c, L) ==
  /\ c.todo # <<>> => Whole(c.todo[1], L)
  /\ \A i \in 1 .. Len(c.r.storage) :
       /\ Whole(c.r.storage[i], L)
       /\ \/ c.r.storage[i].index > c.r.next_assembling_index
          \/ end_of(c.r.storage[i]) <= c.r.next_assembling_index
          \/ c.todo # <<>> /\ c.todo[1].index <= c.r.storage[i].index

\* What some calls in a row change, from c to t.
CallMoves(c, t, L) ==
  /\ t.r.output.bytes_read = c.r.output.bytes_read
  /\ t.r.capacity = c.r.capacity
  /\ c.r.next_assembling_index <= t.r.next_assembling_index
  /\ c.r.output.input_ended => t.r.output.input_ended
  /\ c.r.hung => t.r.hung
  /\ \A b \in Nat : CallKnows(t, b) => CallKnows(c, b)
  /\ ~ t.r.hung => \A b \in Nat : CallKnows(c, b) => CallKnows(t, b)
  /\ Calm(c, L) => Calm(t, L)

\* The calls that push_substring() makes of itself, as the function it defines.
Pushes(c, N) == LET after[n \in 0 .. N] == IF n = 0 THEN c ELSE push_step(after[n - 1])
                IN  after

\* What push_substring() does to a reassembler, from r to t, with the substring d.
Pushed(t, r, d, L) ==
  /\ t.output.bytes_read = r.output.bytes_read
  /\ t.capacity = r.capacity
  /\ r.next_assembling_index <= t.next_assembling_index
  /\ r.output.input_ended => t.output.input_ended
  /\ r.hung => t.hung
  /\ \A b \in Nat : Known(t, b) => Known(r, b) \/ Holds(d, b)
  /\ ~ t.hung => \A b \in Nat : Known(r, b) \/ Holds(d, b) => Known(t, b)
  /\ Settled(r, L) /\ Whole(d, L) => Settled(t, L)

-----------------------------------------------------------------------------

\* D is a stream of L bytes that has been cut once: its parts do not overlap.
Cut(D, L) ==
  /\ \A d \in D : d \in DatagramRecord /\ end_of(d) <= L /\ Whole(d, L) /\ (d.eof => end_of(d) = L)
  /\ \A d, e \in D : d = e \/ end_of(d) <= e.index \/ end_of(e) <= d.index

\* A call for a stream that was cut once: everything that waits or is pushed is one of
\* its parts, and the output holds whole parts.
CallCut(c, D, L) ==
  /\ ~ c.r.hung
  /\ Within(c.r.storage, D)
  /\ c.todo # <<>> => c.todo[1] \in D
  /\ Reached(c.r.next_assembling_index, c.r.output.input_ended, D, L)

-----------------------------------------------------------------------------

\* What a substring that does not begin beyond the output leaves behind, from r to t,
\* while there is room.
Written(t, r, d) ==
  /\ end_of(d) <= t.next_assembling_index
  /\ d.eof => t.output.input_ended
  /\ d.data = <<>> => Assembled(t, r, d)

\* What a substring within the window, or one that meets a full buffer, makes of a
\* reassembler, from r to t.
Heard(t, r, d, L) ==
  /\ ReassemblerInv(t, L)
  /\ t.capacity = r.capacity /\ t.output.bytes_read = r.output.bytes_read
  /\ r.next_assembling_index <= t.next_assembling_index
  /\ r.output.input_ended => t.output.input_ended
  /\ d.eof /\ d.index <= r.next_assembling_index /\ r.next_assembling_index < end_of(d)
     => t.next_assembling_index = L /\ t.output.input_ended
  /\ d.data = <<>> /\ ~ d.eof /\ d.index <= r.next_assembling_index
     => /\ SameList(t, r) /\ t.next_assembling_index = r.next_assembling_index
        /\ t.output.input_ended <=> r.output.input_ended
  /\ Settled(r, L) /\ Whole(d, L) => Settled(t, L)
  /\ \A D : Cut(D, L) /\ d \in D /\ ReassemblerCut(r, D, L) => ReassemblerCut(t, D, L)
  /\ Settled(r, L) /\ (d.index > r.next_assembling_index \/ end_of(d) <= r.next_assembling_index)
     => t.next_assembling_index = r.next_assembling_index

-----------------------------------------------------------------------------

\* The index under which the reassembler gets the segment.
IndexOf(f) == IF f > 0 THEN f - 1 ELSE f

\* The segment as a datagram.
PartOf(seg, f) == Datagram(seg.payload, IndexOf(f), seg.fin)

\* What such a segment is, as a datagram that ends before w: a part of the stream.
CarriedPart(seg, f, L, w) ==
  LET n == Len(seg.payload)
      d == PartOf(seg, f)
  IN  /\ f \in Nat /\ n \in Nat /\ seg.syn \in BOOLEAN /\ seg.fin \in BOOLEAN
      /\ seg.payload \in Seq(Nat)
      /\ d.index = IndexOf(f) /\ IndexOf(f) \in Nat
      /\ d.eof = seg.fin
      /\ end_of(d) = IndexOf(f) + n
      /\ d.data = <<>> <=> n = 0
      /\ f > 0 => IndexOf(f) = f - 1
      /\ f = 0 => IndexOf(f) = 0
      /\ Piece(d, L, w)

\* A receiver after a segment: its reassembler is t, it expects n next.
Follows(s, r, t, n, i) ==
  /\ s \in ReceiverRecord
  /\ s.reassembler = t /\ s.capacity = r.capacity /\ s.abs_seqno = n
  /\ s.isn = i /\ s.first_segment = FALSE

\* The number expected after a segment that began at the one expected.
NextNumber(r, t, seg) ==
  (IF Len(seg.payload) > 0 THEN t.output.bytes_written + 1
   ELSE IF r.abs_seqno = 0 THEN 1
   ELSE r.abs_seqno)
  + (IF seg.fin \/ t.output.input_ended THEN 1 ELSE 0)

\* The three outcomes of a segment: nothing, the reassembler alone, the number as well.
SegmentCase(s, r, t, seg, f, i) ==
  \/ s = r
  \/ Follows(s, r, t, r.abs_seqno, i) /\ ~ r.first_segment /\ f # r.abs_seqno
  \/ Follows(s, r, t, NextNumber(r, t, seg), i) /\ f = r.abs_seqno /\ (r.first_segment => seg.syn)

\* The reassembler t has heard a segment that the receiver r was given.
HeardBy(t, r, L, cap) ==
  /\ t \in ReassemblerRecord /\ ReassemblerInv(t, L) /\ t.capacity = cap
  /\ stream_out(r).bytes_written \in Nat /\ t.output.bytes_written \in Nat
  /\ stream_out(r).bytes_written <= t.output.bytes_written /\ t.output.bytes_written <= L
  /\ r.reassembler.next_assembling_index = stream_out(r).bytes_written
  /\ t.next_assembling_index = t.output.bytes_written
  /\ stream_out(r).input_ended \in BOOLEAN /\ t.output.input_ended \in BOOLEAN
  /\ t.output.input_ended => t.output.bytes_written = L
  /\ stream_out(r).input_ended => t.output.input_ended
  /\ t.output.bytes_read = stream_out(r).bytes_read

\* What missing_middle_handler() makes of r: it stores the bytes of d, with what they
\* overlap in the list, unless it does not return.
MiddleStored(t, r, d, L) ==
  /\ ReassemblerInv(t, L)
  /\ t.output = r.output /\ t.capacity = r.capacity
  /\ t.next_assembling_index = r.next_assembling_index
  /\ \A b \in Nat : HoldsAny(t.storage, b) => HoldsAny(r.storage, b) \/ Holds(d, b)
  /\ ~ t.hung => \A b \in Nat : HoldsAny(r.storage, b) \/ Holds(d, b) => HoldsAny(t.storage, b)
  /\ r.hung => t.hung
  /\ \A i \in 1 .. Len(t.storage) :
       \/ \E j \in 1 .. Len(r.storage) : t.storage[i] = r.storage[j]
       \/ t.storage[i].index = d.index /\ end_of(d) <= end_of(t.storage[i])
=============================================================================
