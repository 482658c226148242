---------------------------- MODULE TCPSystemProofs ----------------------------
(***************************************************************************)
(* The safety of two connections over a network that delays, reorders,     *)
(* duplicates and loses segments, for all capacities, streams and numbers  *)
(* of faults.                                                              *)
(***************************************************************************)
EXTENDS TCPSystemInvariant, ConnectionLemmas, ReassemblerLemmas

\* The receiver hears such a segment.
LEMMA FlowHears ==
  ASSUME NEW s, NEW r, NEW D, NEW A, NEW i, NEW M \in Nat, M + 4 < Half, Flow(s, r, D, A, i, M),
         NEW seg \in D, ~ seg.rst, NEW u, u = receiver_segment_received(r, seg), NEW L \in Totals(s, M)
  PROVE  Hears(u, r, L, i, recv_capacity)
<1> USE Zenon
<1>1. SenderOK(s) /\ s.isn = i /\ s.stream.bytes_written <= M /\ InTransit(seg, s) /\ Agree(s, r, A, L, i)
  BY DEF Flow
<1>2. i \in SeqNo /\ s.next_seqno \in Nat
  BY <1>1, SenderIs
<1>3. L \in Nat /\ L <= M + 1
  BY <1>1, TotalsIs
<1>4. L + 3 < Half
  BY <1>3, HalfIsHalf, SMT
<1>5. PICK f \in Nat : /\ Carried(seg, f, i, L)
                       /\ Len(seg.payload) > 0 \/ seg.fin => f + length_in_sequence_space(seg) <= s.next_seqno
  BY <1>1, TransitCarried
<1>6. Sound(r, L, i, recv_capacity) /\ Fits(r, L, s.next_seqno)
  BY <1>1 DEF Agree
<1>7. recv_capacity \in Nat \ {0}
  BY ConnectionAssumption, SMT
<1>8. stream_out(r).bytes_written \in Nat /\ window_size(r) \in Nat
  BY <1>3, <1>6, <1>7, SoundIs, SMT
<1>9. Len(seg.payload) > 0 \/ seg.fin => Fits(r, L, f + length_in_sequence_space(seg))
  <2> DEFINE n == length_in_sequence_space(seg)
  <2>1. seg \in SegmentRecord
    BY <1>1 DEF InTransit
  <2>2. n \in Nat
    BY <2>1, SegmentLength
  <2> HIDE DEF n
  <2>3. f + n \in Nat
    BY <2>2, SMT
  <2>4. f + n <= s.next_seqno => Fits(r, L, f + n)
    BY <1>2, <1>6, <1>8, <2>3, FitsLess
  <2> QED BY <1>5, <2>4 DEF n
<1> QED BY <1>2, <1>3, <1>4, <1>5, <1>6, <1>7, <1>9, SegmentSound

\* What happens to the receiver is progress, whatever the stream will be.
LEMMA ReceiverMoves ==
  ASSUME NEW s, NEW r, NEW D, NEW A, NEW i, NEW M \in Nat, M + 4 < Half, Flow(s, r, D, A, i, M),
         NEW u, ReceiverTurn(u, r, D), NEW L \in Totals(s, M)
  PROVE  Progress(u, r, L, i) /\ Onward(u, r)
<1> USE Zenon
<1>1. SenderOK(s) /\ s.stream.bytes_written <= M /\ Sound(r, L, i, recv_capacity)
  BY DEF Flow, Agree
<1>2. L \in Nat
  BY <1>1, TotalsIs
<1>3. recv_capacity \in Nat \ {0}
  BY ConnectionAssumption, SMT
<1> DEFINE a == stream_out(r).bytes_written  b == stream_out(r).bytes_read
<1>4. a \in Nat /\ b \in Nat
  BY <1>1, <1>2, <1>3, SoundIs, SMT
<1>5. a <= a /\ b <= b
  <2> HIDE DEF a, b
  <2> QED BY <1>4, SMT
<1>6. CASE u = r
  BY <1>1, <1>5, <1>6 DEF Progress, Onward
<1>7. CASE u = [r EXCEPT !.reassembler.output = set_error(@)]
  <2>1. Broken(u, r, L, i, recv_capacity)
    BY <1>1, <1>2, <1>7, ErrorSound
  <2> QED BY <1>1, <1>5, <2>1 DEF Broken, Progress, Onward, eof, buffer_empty
<1>8. CASE \E seg \in D : ~ seg.rst /\ u = receiver_segment_received(r, seg)
  <2>1. Hears(u, r, L, i, recv_capacity)
    BY <1>8, FlowHears
  <2>2. Onward(u, r)
    BY <1>1, <1>2, <1>3, <2>1, EofStill
  <2> QED BY <1>1, <1>5, <2>1, <2>2 DEF Progress, Hears
<1> QED BY <1>6, <1>7, <1>8 DEF ReceiverTurn

\* A turn of the receiver: it may send Q.
LEMMA FlowReceiver ==
  ASSUME NEW s, NEW r, NEW D, NEW A, NEW i, NEW M \in Nat, M + 4 < Half, Flow(s, r, D, A, i, M),
         NEW u, ReceiverTurn(u, r, D), NEW B, B \subseteq D, NEW Q, \A x \in Q : x.rst \/ StampedBy(x, u)
  PROVE  Flow(s, u, B, A \union Q, i, M)
<1> USE Zenon
<1>1. SenderOK(s) /\ s.isn = i /\ s.stream.bytes_written <= M /\ \A seg \in B : InTransit(seg, s)
  BY DEF Flow
<1>2. ASSUME NEW L \in Totals(s, M) PROVE Agree(s, u, A \union Q, L, i)
  <2>1. L \in Nat
    BY <1>1, TotalsIs
  <2>2. Agree(s, r, A, L, i)
    BY DEF Flow
  <2>3. Progress(u, r, L, i)
    BY ReceiverMoves
  <2> QED BY <1>1, <2>1, <2>2, <2>3, AgreeStill
<1> QED BY <1>1, <1>2 DEF Flow

\* The receiver stays one that may be sent to.
LEMMA ReceiverStays ==
  ASSUME NEW s, NEW r, NEW D, NEW A, NEW i, NEW M \in Nat, M + 4 < Half, Flow(s, r, D, A, i, M),
         NEW u, ReceiverTurn(u, r, D)
  PROVE  ReceiverOK(u) /\ Onward(u, r)
<1> USE Zenon
<1>1. SenderOK(s) /\ s.stream.bytes_written <= M
  BY DEF Flow
<1>2. PICK L \in Totals(s, M) : L \in Nat
  BY <1>1, TotalsSome
<1>3. Progress(u, r, L, i) /\ Onward(u, r)
  BY ReceiverMoves
<1>4. Sound(u, L, i, recv_capacity)
  BY <1>3 DEF Progress
<1> QED BY <1>2, <1>3, <1>4, SoundOK

-----------------------------------------------------------------------------

\* The two endpoints.
LEMMA PeerIs ==
  ASSUME NEW e \in Endpoint
  PROVE  /\ Peer(e) \in Endpoint /\ Peer(Peer(e)) = e /\ Peer(e) # e
         /\ \A x \in Endpoint : x = e \/ x = Peer(e)
  BY DEF Endpoint, Peer

\* What the scenario bounds.
LEMMA WritesFew ==
  ASSUME NEW sc \in Scenarios, NEW e \in Endpoint
  PROVE  sc.writes[e] \in Nat /\ sc.writes[e] + 4 < Half
<1>1. sc.writes[e] + 4 < Half
  BY SystemAssumption
<1>2. sc \in [writes : [Endpoint -> Nat], lost : Nat, duplicated : Nat, early : Nat]
  BY SystemAssumption
<1>3. sc.writes[e] \in Nat
  BY <1>2
<1> QED BY <1>1, <1>3

\* What an endpoint may rely on in a step.
LEMMA EndpointIs ==
  ASSUME SafetyInv, NEW e \in Endpoint
  PROVE  /\ Resting(conn[e]) /\ Hearing(conn[e], network[e])
         /\ \A seg \in network[e] : seg \in SegmentRecord /\ (~ seg.rst => seg.win \in 0 .. Quarter)
         /\ Delivered(conn[Peer(e)].sender, conn[e].receiver)
         /\ Flow(conn[e].sender, conn[Peer(e)].receiver, network[Peer(e)], network[e], isn[e], scenario.writes[e])
         /\ Flow(conn[Peer(e)].sender, conn[e].receiver, network[e], network[Peer(e)], isn[Peer(e)],
                 scenario.writes[Peer(e)])
<1> USE Zenon
<1> DEFINE p == Peer(e)  M == scenario.writes[e]  N == scenario.writes[p]
           s == conn[e].sender  r == conn[e].receiver
<1>1. p \in Endpoint /\ Peer(p) = e
  BY PeerIs
<1>2. M \in Nat /\ M + 4 < Half /\ N \in Nat /\ N + 4 < Half
  BY <1>1, WritesFew DEF SafetyInv
<1>3. Inbound(e) /\ Inbound(p)
  BY <1>1 DEF SafetyInv
<1>4. Flow(s, conn[p].receiver, network[p], network[e], isn[e], M)
  BY <1>1, <1>3 DEF Inbound
<1>5. Flow(conn[p].sender, r, network[e], network[p], isn[p], N)
  BY <1>3 DEF Inbound
<1> HIDE DEF p, M, N
<1>6. ASSUME NEW u, ReceiverTurn(u, r, network[e]) PROVE ReceiverOK(u)
  BY <1>2, <1>5, <1>6, ReceiverStays
<1>7. Hearing(conn[e], network[e]) /\ ReceiverOK(r)
  BY <1>6 DEF Hearing, ReceiverTurn
<1>8. conn[e] \in ConnRecord /\ conn[e].segments_out = <<>> /\ s.segments_out = <<>>
  BY DEF SafetyInv
<1>9. SenderOK(s) /\ s.stream.bytes_written <= M
  BY <1>4 DEF Flow
<1>10. Resting(conn[e])
  BY <1>7, <1>8, <1>9 DEF Resting
<1>11. ASSUME NEW seg \in network[e] PROVE seg \in SegmentRecord /\ (~ seg.rst => seg.win \in 0 .. Quarter)
  <2>1. seg \in SegmentRecord
    BY SMT DEF SafetyInv
  <2>2. PICK L \in Totals(s, M) : L \in Nat
    BY <1>2, <1>9, TotalsSome
  <2>3. seg.rst \/ Acks(seg, conn[p].receiver, L, isn[e])
    BY <1>4 DEF Flow, Agree
  <2> QED BY <2>1, <2>3 DEF Acks
<1>12. Delivered(conn[p].sender, r)
  BY <1>2, <1>5, FlowDelivers
<1> QED BY <1>4, <1>5, <1>7, <1>10, <1>11, <1>12 DEF p, M, N

\* An endpoint that hands its segments to the network keeps the invariant.
LEMMA EndpointStep ==
  ASSUME SafetyInv, NEW e \in Endpoint, NEW d, NEW B, B \subseteq network[e],
         ConnAt(conn[e].sender, d, network[e]), ReceiverTurn(d.receiver, conn[e].receiver, network[e]),
         d.sender.stream.bytes_written <= scenario.writes[e],
         Becomes(e, d, B), scenario' = scenario, got' = got
  PROVE  SafetyInv' /\ Stepped(e, d)
<1> USE Zenon
<1> DEFINE p == Peer(e)  M == scenario.writes[e]  N == scenario.writes[p]
           Q == SegsOf(d.segments_out)
           f == [d EXCEPT !.segments_out = <<>>]
<1>1. p \in Endpoint /\ Peer(p) = e /\ p # e /\ \A x \in Endpoint : x = e \/ x = p
  BY PeerIs
<1>2. M \in Nat /\ M + 4 < Half /\ N \in Nat /\ N + 4 < Half
  BY <1>1, WritesFew DEF SafetyInv
<1>3. /\ Flow(conn[e].sender, conn[p].receiver, network[p], network[e], isn[e], M)
      /\ Flow(conn[p].sender, conn[e].receiver, network[e], network[p], isn[p], N)
  BY EndpointIs
<1>4. /\ conn \in [Endpoint -> ConnRecord] /\ network \in [Endpoint -> SUBSET SegmentRecord]
      /\ scenario \in Scenarios /\ got \in [Endpoint -> Seq(Nat)]
      /\ d \in ConnRecord
  BY DEF SafetyInv, ConnAt
<1>5. /\ f \in ConnRecord /\ f.sender = d.sender /\ f.receiver = d.receiver /\ f.segments_out = <<>>
  <2>1. Emptied(f, d)
    BY <1>4, SentQueue
  <2> QED BY <2>1 DEF Emptied
<1>6. Q = {d.segments_out[i] : i \in DOMAIN d.segments_out}
  <2>1. d.segments_out \in Seq(SegmentRecord)
    BY <1>4, SMT DEF ConnRecord
  <2>2. DOMAIN d.segments_out = 1 .. Len(d.segments_out)
    BY <2>1, SMT
  <2> QED BY <2>2 DEF SegsOf
<1>7. conn' = [conn EXCEPT ![e] = f] /\ network' = [network EXCEPT ![e] = B, ![p] = @ \union Q]
  BY <1>6 DEF Becomes
<1>8. Q \subseteq SegmentRecord
  BY <1>4, SegsType, SMT DEF ConnRecord
<1> HIDE DEF f, Q, p
<1>9. conn'[e] = f /\ conn'[p] = conn[p] /\ conn' \in [Endpoint -> ConnRecord]
  BY <1>1, <1>4, <1>5, <1>7, SMT
<1>10. /\ network'[e] = B /\ network'[p] = network[p] \union Q
       /\ network' \in [Endpoint -> SUBSET SegmentRecord]
  BY <1>1, <1>4, <1>7, <1>8, SMT
<1>11. /\ SenderTurn(conn[e].sender, d.sender, Q, network[e])
       /\ \A x \in Q : x.rst \/ StampedBy(x, d.receiver)
       /\ d.sender.segments_out = <<>>
  BY DEF ConnAt, Q
<1> HIDE DEF M, N
<1>12. Flow(d.sender, conn[p].receiver, network[p] \union Q, B, isn[e], M)
  <2>1. d.sender.stream.bytes_written <= M
    BY DEF M
  <2> QED BY <1>2, <1>3, <1>11, <2>1, FlowSender
<1>13. Flow(conn[p].sender, d.receiver, B, network[p] \union Q, isn[p], N)
  BY <1>2, <1>3, <1>11, FlowReceiver
<1>14. Onward(d.receiver, conn[e].receiver)
  BY <1>2, <1>3, ReceiverStays
<1>15. Inbound(e)' /\ Inbound(p)'
  BY <1>1, <1>5, <1>9, <1>10, <1>12, <1>13 DEF Inbound, M, N, p
<1>16. At(e)'
  <2>1. conn'[e].segments_out = <<>> /\ conn'[e].sender.segments_out = <<>>
    BY <1>5, <1>9, <1>11
  <2>2. inbound_stream(conn[e])'.bytes_read = inbound_stream(conn[e]).bytes_read
    BY <1>5, <1>9, <1>14 DEF inbound_stream, Onward, stream_out
  <2>3. got[e] = Bytes(1, inbound_stream(conn[e]).bytes_read)
    BY DEF SafetyInv
  <2> QED BY <1>15, <2>1, <2>2, <2>3 DEF At
<1>17. At(p)'
  <2>1. conn[p].segments_out = <<>> /\ conn[p].sender.segments_out = <<>>
        /\ got[p] = Bytes(1, inbound_stream(conn[p]).bytes_read)
    BY <1>1 DEF SafetyInv
  <2> QED BY <1>9, <1>15, <2>1 DEF At
<1>18. SafetyInv'
  <2>1. \A x \in Endpoint : At(x)'
    BY <1>1, <1>16, <1>17
  <2> QED BY <1>4, <1>9, <1>10, <2>1 DEF SafetyInv, At
<1> QED BY <1>5, <1>9, <1>14, <1>18 DEF Stepped, p

-----------------------------------------------------------------------------

\* Such a step keeps the invariant.
LEMMA ServeSafe ==
  ASSUME SafetyInv, NEW e \in Endpoint, NEW d, NEW B, B \subseteq network[e],
         Serves(conn[e].sender, conn[e], d, network[e]),
         Becomes(e, d, B), scenario' = scenario, got' = got
  PROVE  SafetyInv' /\ Served(e)
<1> USE Zenon
<1>1. /\ ConnAt(conn[e].sender, d, network[e]) /\ ReceiverTurn(d.receiver, conn[e].receiver, network[e])
      /\ SameApp(conn[e].sender, d.sender)
  BY DEF Serves
<1>2. d.sender.stream.bytes_written <= scenario.writes[e]
  <2>1. conn[e].sender.stream.bytes_written <= scenario.writes[e]
    BY EndpointIs DEF Flow
  <2> QED BY <1>1, <2>1 DEF SameApp
<1>3. SafetyInv' /\ Stepped(e, d)
  BY <1>1, <1>2, EndpointStep
<1>4. \A x \in Endpoint : SameApp(conn[x].sender, conn'[x].sender)
  <2>1. SameApp(conn[e].sender, conn'[e].sender)
    BY <1>1, <1>3 DEF Stepped
  <2>2. SameApp(conn[Peer(e)].sender, conn'[Peer(e)].sender)
    BY <1>3 DEF Stepped, SameApp
  <2> QED BY <2>1, <2>2, PeerIs
<1>5. conn'[Peer(e)].receiver = conn[Peer(e)].receiver /\ Onward(conn'[e].receiver, conn[e].receiver)
  BY <1>3 DEF Stepped
<1> QED BY <1>3, <1>4, <1>5 DEF Served

\* connect().
LEMMA ConnectSafe ==
  ASSUME SafetyInv, Connect
  PROVE  SafetyInv' /\ Served("client")
<1> USE Zenon
<1> DEFINE e == "client"
<1>0. e \in Endpoint
  BY SMT DEF Endpoint
<1> HIDE DEF e
<1>1. PICK d : d = connect(conn[e])
  BY SMT
<1>2. Resting(conn[e])
  BY <1>0, EndpointIs
<1>3. ConnAt(conn[e].sender, d, network[e]) /\ d.receiver = conn[e].receiver /\ SameApp(conn[e].sender, d.sender)
  BY <1>1, <1>2, ConnectAt
<1>4. Serves(conn[e].sender, conn[e], d, network[e])
  BY <1>3 DEF Serves, ReceiverTurn
<1>5. Becomes(e, d, network[e]) /\ scenario' = scenario /\ got' = got
  BY <1>1 DEF Connect, e
<1>6. network[e] \subseteq network[e]
  BY SMT
<1>7. SafetyInv' /\ Served(e)
  BY <1>0, <1>4, <1>5, <1>6, ServeSafe
<1> QED BY <1>7 DEF e

\* tick().
LEMMA TickSafe ==
  ASSUME SafetyInv, NEW e \in Endpoint, NEW ms \in TickSizes, Tick(e, ms)
  PROVE  SafetyInv' /\ Served(e)
<1>1. PICK d : d = connection_tick(conn[e], ms)
  OBVIOUS
<1>2. Resting(conn[e]) /\ Hearing(conn[e], network[e])
  BY EndpointIs, Zenon
<1>3. ms \in Nat
  BY SystemAssumption
<1>4. Serves(conn[e].sender, conn[e], d, network[e])
  BY <1>1, <1>2, <1>3, TickAt, Zenon
<1>5. Becomes(e, d, network[e]) /\ scenario' = scenario /\ got' = got
  BY <1>1, Zenon DEF Tick
<1>6. network[e] \subseteq network[e]
  OBVIOUS
<1> QED BY <1>4, <1>5, <1>6, ServeSafe, Zenon

\* segment_received().
LEMMA DeliverSafe ==
  ASSUME SafetyInv, NEW e \in Endpoint, NEW seg \in network[e], NEW again, Deliver(e, seg, again)
  PROVE  SafetyInv' /\ Served(e)
<1>1. PICK d : d = segment_received(conn[e], seg)
  OBVIOUS
<1>2. /\ Resting(conn[e]) /\ Hearing(conn[e], network[e])
      /\ seg \in SegmentRecord /\ (~ seg.rst => seg.win \in 0 .. Quarter)
  BY EndpointIs, Zenon
<1>3. Serves(conn[e].sender, conn[e], d, network[e])
  BY <1>1, <1>2, DeliverAt, Zenon
<1>4. PICK B : B = IF again THEN network[e] ELSE network[e] \ {seg}
  BY Zenon
<1>5. Becomes(e, d, B) /\ scenario' = scenario /\ got' = got
  BY <1>1, <1>4, Zenon DEF Deliver
<1>6. B \subseteq network[e]
  BY <1>4
<1> QED BY <1>3, <1>5, <1>6, ServeSafe, Zenon

\* write().
LEMMA WriteSafe ==
  ASSUME SafetyInv, NEW e \in Endpoint, NEW n \in 1 .. send_capacity, Write(e, n)
  PROVE  /\ SafetyInv' /\ Streamed(e) /\ ~ conn[e].sender.stream.input_ended
         /\ conn'[e].sender.stream.bytes_written = conn[e].sender.stream.bytes_written + n
         /\ conn'[e].sender.stream.input_ended = conn[e].sender.stream.input_ended
<1> USE Zenon
<1> DEFINE s == conn[e].sender.stream
<1>1. PICK d : d = connection_write(conn[e], Bytes(s.bytes_written + 1, s.bytes_written + n))
  BY SMT
<1>2. /\ ~ s.input_ended /\ n <= remaining_capacity(s)
      /\ s.bytes_written + n <= scenario.writes[e]
      /\ Becomes(e, d, network[e]) /\ scenario' = scenario /\ got' = got
  BY <1>1 DEF Write
<1>3. n \in Nat \ {0}
  BY ConnectionAssumption, SMT
<1>4. Resting(conn[e]) /\ ~ s.input_ended /\ n <= remaining_capacity(s)
  BY <1>2, EndpointIs
<1>5. /\ ConnAt(conn[e].sender, d, network[e]) /\ d.receiver = conn[e].receiver
      /\ d.sender.stream.bytes_written = s.bytes_written + n
      /\ d.sender.stream.input_ended = s.input_ended
  BY <1>1, <1>3, <1>4, WriteAt, ZenonT(40)
<1>6. ReceiverTurn(d.receiver, conn[e].receiver, network[e]) /\ d.sender.stream.bytes_written <= scenario.writes[e]
  BY <1>2, <1>5 DEF ReceiverTurn
<1>7. network[e] \subseteq network[e]
  BY SMT
<1>8. SafetyInv' /\ Stepped(e, d)
  BY <1>2, <1>5, <1>6, <1>7, EndpointStep
<1> QED BY <1>2, <1>5, <1>8 DEF Stepped, Streamed

\* end_input_stream().
LEMMA EndSafe ==
  ASSUME SafetyInv, NEW e \in Endpoint, EndInputStream(e)
  PROVE  /\ SafetyInv' /\ Streamed(e)
         /\ conn'[e].sender.stream.bytes_written = conn[e].sender.stream.bytes_written
         /\ conn'[e].sender.stream.input_ended
<1> USE Zenon
<1> DEFINE s == conn[e].sender.stream
<1>1. PICK d : d = end_input_stream(conn[e])
  BY SMT
<1>2. /\ ~ s.input_ended /\ Becomes(e, d, network[e]) /\ scenario' = scenario /\ got' = got
  BY <1>1 DEF EndInputStream
<1>3. Resting(conn[e]) /\ s.bytes_written <= scenario.writes[e]
  BY EndpointIs DEF Flow
<1>4. /\ ConnAt(conn[e].sender, d, network[e]) /\ d.receiver = conn[e].receiver
      /\ d.sender.stream.bytes_written = s.bytes_written
      /\ d.sender.stream.input_ended
  BY <1>1, <1>2, <1>3, EndAt
<1>5. ReceiverTurn(d.receiver, conn[e].receiver, network[e]) /\ d.sender.stream.bytes_written <= scenario.writes[e]
  BY <1>3, <1>4 DEF ReceiverTurn
<1>6. network[e] \subseteq network[e]
  BY SMT
<1>7. SafetyInv' /\ Stepped(e, d)
  BY <1>2, <1>4, <1>5, <1>6, EndpointStep
<1> QED BY <1>2, <1>4, <1>7 DEF Stepped, Streamed

\* read().
LEMMA ReadSafe ==
  ASSUME SafetyInv, NEW e \in Endpoint, NEW n \in 1 .. recv_capacity, Read(e, n)
  PROVE  SafetyInv' /\ HasRead(e, n)
<1> USE Zenon
<1> DEFINE p == Peer(e)  c == conn[e]  r == c.receiver  o == stream_out(r)
           M == scenario.writes[e]  N == scenario.writes[p]
           u == [r EXCEPT !.reassembler.output = pop_output(@, n)]
           d == [c EXCEPT !.receiver = u]
<1>1. p \in Endpoint /\ Peer(p) = e /\ p # e /\ \A x \in Endpoint : x = e \/ x = p
  BY PeerIs
<1>2. M \in Nat /\ N \in Nat
  BY <1>1, WritesFew DEF SafetyInv
<1>3. /\ Flow(c.sender, conn[p].receiver, network[p], network[e], isn[e], M)
      /\ Flow(conn[p].sender, r, network[e], network[p], isn[p], N)
  BY EndpointIs
<1>4. /\ conn \in [Endpoint -> ConnRecord] /\ network \in [Endpoint -> SUBSET SegmentRecord]
      /\ scenario \in Scenarios /\ got \in [Endpoint -> Seq(Nat)] /\ c \in ConnRecord
  BY DEF SafetyInv
<1>5. /\ n <= buffer_size(o) /\ got' = [got EXCEPT ![e] = @ \o peek_output(o, n)]
      /\ conn' = [conn EXCEPT ![e] = d]
      /\ scenario' = scenario /\ network' = network
  BY SMT DEF Read, inbound_stream
<1>6. n \in Nat
  BY ConnectionAssumption, SMT
<1>7. Resting(c)
  BY EndpointIs
<1>8. StreamInv(o) /\ o.bytes_read \in Nat
  <2>1. StreamInv(o)
    BY <1>7 DEF Resting, ReceiverOK
  <2>2. o \in StreamRecord
    BY <2>1 DEF StreamInv
  <2> QED BY <2>1, <2>2, SMT DEF StreamRecord
<1>9. peek_output(o, n) = Bytes(o.bytes_read + 1, o.bytes_read + n)
  BY <1>5, <1>6, <1>8, StreamPop
<1>10. PICK v : v = u
  OBVIOUS
<1>11. v = [r EXCEPT !.reassembler.output = pop_output(@, n)]
  BY <1>10, SMT
<1>12. /\ Flow(conn[p].sender, v, network[e], network[p], isn[p], N) /\ ReceiverOK(v)
       /\ stream_out(v).bytes_read = o.bytes_read + n
       /\ stream_out(v).input_ended = o.input_ended
       /\ stream_out(v).bytes_written = o.bytes_written
  <2> DEFINE t == conn[p].sender  D == network[e]  A == network[p]  i == isn[p]
  <2>1. N \in Nat /\ Flow(t, r, D, A, i, N) /\ n <= buffer_size(stream_out(r))
    BY <1>2, <1>3, <1>5
  <2> HIDE DEF t, D, A, i, N, r
  <2>2. v = ReadOff(r, n)
    BY <1>11 DEF r, ReadOff
  <2>3. Flow(t, v, D, A, i, N) /\ ReadFrom(v, r, n)
    BY <1>6, <2>1, <2>2, FlowRead
  <2> QED BY <2>3 DEF ReadFrom, t, D, A, i, N, r
<1>13. PICK f : f = [c EXCEPT !.receiver = v]
  OBVIOUS
<1>14. conn' = [conn EXCEPT ![e] = f]
  BY <1>5, <1>10, <1>13
<1>15. Composed(f, c, c.sender, v)
  BY <1>4, <1>12, <1>13, ReadRecord DEF ReceiverOK
<1>16. f \in ConnRecord /\ f.sender = c.sender /\ f.receiver = v /\ f.segments_out = c.segments_out
  BY <1>15 DEF Composed
<1>17. conn'[e] = f /\ conn'[p] = conn[p] /\ conn' \in [Endpoint -> ConnRecord]
  <2> HIDE DEF p, u, d
  <2> QED BY <1>1, <1>4, <1>14, <1>16, SMT
<1> HIDE DEF u, d
<1>18. PICK g : g = Bytes(1, o.bytes_read + n)
  BY SMT
<1>19. got[e] \o peek_output(o, n) = g /\ g \in Seq(Nat)
  <2> DEFINE b == o.bytes_read  m == o.bytes_read + n
  <2>1. 1 \in Nat /\ b \in Int /\ m \in Int /\ 1 <= b + 1 /\ b <= m /\ 1 <= m + 1
    BY <1>6, <1>8, SMT
  <2>2. got[e] = Bytes(1, b)
    BY DEF SafetyInv, inbound_stream
  <2>3. g = Bytes(1, m) /\ peek_output(o, n) = Bytes(b + 1, m)
    BY <1>9, <1>18
  <2> HIDE DEF b, m, o
  <2>4. Bytes(1, b) \o Bytes(b + 1, m) = Bytes(1, m)
    BY <2>1, BytesConcat
  <2>5. Bytes(1, m) \in Seq(Nat)
    BY <2>1, BytesType
  <2> QED BY <2>2, <2>3, <2>4, <2>5
<1>20. got' = [got EXCEPT ![e] = g]
  BY <1>5, <1>19
<1>21. got'[e] = g /\ got'[p] = got[p] /\ got' \in [Endpoint -> Seq(Nat)] /\ got' = [got EXCEPT ![e] = got'[e]]
  <2> HIDE DEF p
  <2>1. got'[e] = g /\ got'[p] = got[p] /\ got' \in [Endpoint -> Seq(Nat)]
    BY <1>1, <1>4, <1>19, <1>20, SMT
  <2> QED BY <1>20, <2>1
<1>22. /\ inbound_stream(conn'[e]).bytes_read = inbound_stream(conn[e]).bytes_read + n
       /\ inbound_stream(conn'[e]).bytes_written = inbound_stream(conn[e]).bytes_written
       /\ inbound_stream(conn'[e]).input_ended = inbound_stream(conn[e]).input_ended
  BY <1>12, <1>16, <1>17 DEF inbound_stream
<1>23. Inbound(e)' /\ Inbound(p)'
  BY <1>1, <1>3, <1>5, <1>12, <1>16, <1>17 DEF Inbound
<1>24. At(e)'
  <2>1. conn'[e].segments_out = <<>> /\ conn'[e].sender.segments_out = <<>>
    BY <1>7, <1>16, <1>17 DEF Resting
  <2>2. got'[e] = Bytes(1, inbound_stream(conn'[e]).bytes_read)
    BY <1>18, <1>21, <1>22 DEF inbound_stream
  <2> QED BY <1>23, <2>1, <2>2 DEF At
<1>25. At(p)'
  <2>1. conn[p].segments_out = <<>> /\ conn[p].sender.segments_out = <<>>
        /\ got[p] = Bytes(1, inbound_stream(conn[p]).bytes_read)
    BY <1>1 DEF SafetyInv
  <2> QED BY <1>17, <1>21, <1>23, <2>1 DEF At
<1>26. SafetyInv'
  <2>1. \A x \in Endpoint : At(x)'
    BY <1>1, <1>24, <1>25
  <2> QED BY <1>4, <1>5, <1>17, <1>21, <2>1 DEF SafetyInv, At
<1>27. \A x \in Endpoint : conn'[x].sender = conn[x].sender
  BY <1>1, <1>16, <1>17
<1> QED BY <1>17, <1>21, <1>22, <1>26, <1>27 DEF HasRead

\* A segment is lost.
LEMMA LoseSafe ==
  ASSUME SafetyInv, NEW e \in Endpoint, NEW seg \in network[e], Lose(e, seg)
  PROVE  SafetyInv'
<1> USE Zenon
<1>1. /\ network' = [network EXCEPT ![e] = @ \ {seg}]
      /\ scenario' = scenario /\ conn' = conn /\ got' = got
  BY DEF Lose
<1>2. /\ conn \in [Endpoint -> ConnRecord] /\ network \in [Endpoint -> SUBSET SegmentRecord]
      /\ scenario \in Scenarios /\ got \in [Endpoint -> Seq(Nat)]
  BY DEF SafetyInv
<1>3. network' \in [Endpoint -> SUBSET SegmentRecord] /\ \A x \in Endpoint : network'[x] \subseteq network[x]
  BY <1>1, <1>2, SMT
<1>4. ASSUME NEW x \in Endpoint PROVE At(x)'
  <2>1. Peer(x) \in Endpoint
    BY PeerIs
  <2>2. network'[x] \subseteq network[x] /\ network'[Peer(x)] \subseteq network[Peer(x)] /\ Inbound(x)
    BY <1>3, <2>1 DEF SafetyInv
  <2>3. Inbound(x)'
    BY <1>1, <2>2, FlowLess DEF Inbound
  <2>4. conn[x].segments_out = <<>> /\ conn[x].sender.segments_out = <<>>
        /\ got[x] = Bytes(1, inbound_stream(conn[x]).bytes_read)
    BY DEF SafetyInv
  <2> QED BY <1>1, <2>3, <2>4 DEF At
<1> QED BY <1>1, <1>2, <1>3, <1>4 DEF SafetyInv, At

\* The invariant holds at the beginning.
LEMMA InitSafe ==
  ASSUME Init
  PROVE  SafetyInv
<1> USE Zenon
<1>1. /\ scenario \in Scenarios
      /\ conn = [e \in Endpoint |-> TCPConnection(isn[e])]
      /\ network = [e \in Endpoint |-> {}] /\ got = [e \in Endpoint |-> <<>>]
  BY DEF Init
<1>2. isn \in [Endpoint -> SeqNo]
  BY SystemAssumption, SMT
<1>3. ASSUME NEW e \in Endpoint
      PROVE  /\ isn[e] \in SeqNo
             /\ conn[e] = TCPConnection(isn[e])
             /\ network[e] = {} /\ got[e] = <<>>
             /\ conn[e] \in ConnRecord /\ conn[e].segments_out = <<>>
             /\ conn[e].sender = TCPSender(send_capacity, isn[e])
             /\ conn[e].receiver = TCPReceiver(recv_capacity)
             /\ conn[e].sender.segments_out = <<>> /\ inbound_stream(conn[e]).bytes_read = 0
  <2>1. isn[e] \in SeqNo
    BY <1>2, SMT
  <2>2. conn[e] = TCPConnection(isn[e]) /\ network[e] = {} /\ got[e] = <<>>
    BY <1>1
  <2> QED BY <2>1, <2>2, NewConnection
<1>4. conn \in [Endpoint -> ConnRecord]
  BY <1>1, <1>3
<1>5. network \in [Endpoint -> SUBSET SegmentRecord]
  BY <1>1, SMT
<1>6. got \in [Endpoint -> Seq(Nat)]
  BY <1>1, SMT
<1>7. Bytes(1, 0) = <<>>
  <2>1. Bytes(1, 1 - 1) = <<>> /\ 1 - 1 = 0
    BY BytesEmpty, SMT
  <2> QED BY <2>1, SMT
<1>8. ASSUME NEW e \in Endpoint PROVE At(e)
  <2>1. Peer(e) \in Endpoint
    BY PeerIs
  <2>2. scenario.writes[Peer(e)] \in Nat
    BY <1>1, <2>1, WritesFew
  <2>3. /\ isn[Peer(e)] \in SeqNo /\ network[Peer(e)] = {} /\ network[e] = {}
        /\ conn[Peer(e)].sender = TCPSender(send_capacity, isn[Peer(e)])
        /\ conn[e].receiver = TCPReceiver(recv_capacity)
    BY <1>3, <2>1
  <2>4. Flow(conn[Peer(e)].sender, conn[e].receiver, {}, {}, isn[Peer(e)], scenario.writes[Peer(e)])
    BY <2>2, <2>3, FlowBegins
  <2>5. Inbound(e)
    BY <2>3, <2>4 DEF Inbound
  <2> QED BY <1>3, <1>7, <2>5 DEF At
<1> QED BY <1>1, <1>4, <1>5, <1>6, <1>8 DEF SafetyInv, At

\* The invariant is kept by every step.
LEMMA NextSafe ==
  ASSUME SafetyInv, [Next]_vars
  PROVE  SafetyInv'
<1> USE Zenon
<1>1. CASE Connect
  BY <1>1, ConnectSafe
<1>2. ASSUME NEW e \in Endpoint, NEW n \in 1 .. send_capacity, Write(e, n) PROVE SafetyInv'
  BY <1>2, WriteSafe
<1>3. ASSUME NEW e \in Endpoint, EndInputStream(e) PROVE SafetyInv'
  BY <1>3, EndSafe
<1>4. ASSUME NEW e \in Endpoint, NEW n \in 1 .. recv_capacity, Read(e, n) PROVE SafetyInv'
  BY <1>4, ReadSafe
<1>5. ASSUME NEW e \in Endpoint, NEW seg \in network[e], NEW again, Deliver(e, seg, again) PROVE SafetyInv'
  BY <1>5, DeliverSafe
<1>6. ASSUME NEW e \in Endpoint, NEW ms \in TickSizes, Tick(e, ms) PROVE SafetyInv'
  BY <1>6, TickSafe
<1>7. ASSUME NEW e \in Endpoint, NEW seg \in network[e], Lose(e, seg) PROVE SafetyInv'
  BY <1>7, LoseSafe
<1>8. CASE UNCHANGED vars
  BY <1>8 DEF SafetyInv, Inbound, vars
<1> QED BY <1>1, <1>2, <1>3, <1>4, <1>5, <1>6, <1>7, <1>8 DEF Next, App, Arrival, Time

\* SafetyInv, the inductive invariant: the two connections, what each has been told of
\* the other and what is still on its way agree, whatever the network has done.
THEOREM SystemSafe == Spec => []SafetyInv
<1>1. Init => SafetyInv
  BY InitSafe
<1>2. SafetyInv /\ [Next]_vars => SafetyInv'
  BY NextSafe
<1> QED BY <1>1, <1>2, PTL DEF Spec

-----------------------------------------------------------------------------

\* What SafetyInv says of the bytes, and the promise of a reliable stream.

\* A byte that is acknowledged has been delivered.
LEMMA AckedThen ==
  ASSUME SafetyInv
  PROVE  AckedIsDelivered
<1> USE Zenon
<1>1. ASSUME NEW e \in Endpoint
      PROVE  Smaller(conn[e].sender.confirmed_seqno - 1, conn[e].sender.stream.bytes_written)
               <= inbound_stream(conn[Peer(e)]).bytes_written
  <2> DEFINE w == inbound_stream(conn[Peer(e)]).bytes_written
             c == conn[e].sender.confirmed_seqno  b == conn[e].sender.stream.bytes_written
  <2>1. Peer(e) \in Endpoint /\ Peer(Peer(e)) = e
    BY PeerIs
  <2>2. Delivered(conn[e].sender, conn[Peer(e)].receiver)
    BY <2>1, EndpointIs
  <2>3. w \in Nat /\ b \in Nat /\ c \in Nat /\ (c <= w + 1 \/ w = b)
    BY <2>2 DEF Delivered, inbound_stream
  <2> HIDE DEF w, c, b
  <2>4. Smaller(c - 1, b) <= w
    BY <2>3, SMT DEF Smaller
  <2> QED BY <2>4 DEF w, c, b
<1> QED BY <1>1 DEF AckedIsDelivered

\* Whatever the network does, a byte that a sender takes for acknowledged has been
\* written to the output of the peer.
THEOREM AckedIsDeliveredHolds == Spec => []AckedIsDelivered
<1>1. SafetyInv => AckedIsDelivered
  BY AckedThen
<1> QED BY <1>1, SystemSafe, PTL

\* A clean close is complete.
LEMMA CleanThen ==
  ASSUME SafetyInv
  PROVE  CleanCloseIsComplete
<1> USE Zenon
<1>1. ASSUME NEW e \in Endpoint, state(conn[e]) = CLOSED
      PROVE  /\ inbound_stream(conn[Peer(e)]).bytes_written = conn[e].sender.stream.bytes_written
             /\ inbound_stream(conn[e]).bytes_written = conn[Peer(e)].sender.stream.bytes_written
             /\ conn[Peer(e)].sender.stream.input_ended
  <2>1. Peer(e) \in Endpoint /\ Peer(Peer(e)) = e
    BY PeerIs
  <2>2. Delivered(conn[e].sender, conn[Peer(e)].receiver)
    BY <2>1, EndpointIs
  <2>3. Delivered(conn[Peer(e)].sender, conn[e].receiver) /\ Resting(conn[e])
    BY EndpointIs
  <2>4. SenderOK(conn[e].sender)
    BY <2>3 DEF Resting
  <2>5. sender_summary(conn[e].sender) = "FIN_ACKED" /\ receiver_summary(conn[e].receiver) = "FIN_RECV"
    <3> DEFINE a == sender_summary(conn[e].sender)  b == receiver_summary(conn[e].receiver)
               f == conn[e].active  g == conn[e].active /\ conn[e].linger_after_streams_finish
    <3>1. [sender |-> a, receiver |-> b, active |-> f, linger |-> g] =
          [sender |-> "FIN_ACKED", receiver |-> "FIN_RECV", active |-> FALSE, linger |-> FALSE]
      BY <1>1 DEF state, CLOSED, TCPState
    <3> HIDE DEF a, b, f, g
    <3>2. a = "FIN_ACKED" /\ b = "FIN_RECV"
      BY <3>1, SMT
    <3> QED BY <3>2 DEF a, b
  <2>6. stream_out(conn[e].receiver).input_ended
    BY <2>5, SMT DEF receiver_summary
  <2>7. conn[e].sender.fin_sent /\ conn[e].sender.confirmed_seqno = conn[e].sender.next_seqno
    BY <2>4, <2>5, FinAcked
  <2> QED BY <2>2, <2>3, <2>6, <2>7 DEF Delivered, inbound_stream
<1> QED BY <1>1 DEF CleanCloseIsComplete

\* Whatever the network does, a connection in state CLOSED leaves nothing behind.
THEOREM CleanCloseIsCompleteHolds == Spec => []CleanCloseIsComplete
<1>1. SafetyInv => CleanCloseIsComplete
  BY CleanThen
<1> QED BY <1>1, SystemSafe, PTL
=============================================================================
