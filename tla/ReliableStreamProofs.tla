------------------------- MODULE ReliableStreamProofs --------------------------
(***************************************************************************)
(* Two connections over a network that delays, reorders, duplicates and    *)
(* loses segments implement the two reliable byte streams of               *)
(* ReliableStream, for all capacities, streams and numbers of faults.      *)
(***************************************************************************)
EXTENDS TCPSystemProofs

\* What an application has read, before and after a step.
LEMMA SeenAlways ==
  ASSUME SafetyInv, SafetyInv', NEW e \in Endpoint
  PROVE  /\ Seen(conn[Peer(e)].sender, conn[e].receiver, got[e])
         /\ Seen(conn'[Peer(e)].sender, conn'[e].receiver, got'[e])
<1> USE Zenon
<1>1. Peer(e) \in Endpoint
  BY PeerIs
<1>2. scenario.writes[Peer(e)] \in Nat /\ scenario'.writes[Peer(e)] \in Nat
  BY <1>1, WritesFew DEF SafetyInv
<1>3. /\ got[e] = Bytes(1, stream_out(conn[e].receiver).bytes_read)
      /\ Flow(conn[Peer(e)].sender, conn[e].receiver, network[e], network[Peer(e)],
              isn[Peer(e)], scenario.writes[Peer(e)])
  BY DEF SafetyInv, Inbound, inbound_stream
<1>4. /\ got'[e] = Bytes(1, stream_out(conn'[e].receiver).bytes_read)
      /\ Flow(conn'[Peer(e)].sender, conn'[e].receiver, network'[e], network'[Peer(e)],
              isn[Peer(e)], scenario'.writes[Peer(e)])
  BY DEF SafetyInv, Inbound, inbound_stream
<1>5. Seen(conn[Peer(e)].sender, conn[e].receiver, got[e])
  BY <1>2, <1>3, FlowSeen
<1>6. Seen(conn'[Peer(e)].sender, conn'[e].receiver, got'[e])
  BY <1>2, <1>4, FlowSeen
<1> QED BY <1>5, <1>6, SMT

\* An application may have read, and may have been told of the end.
LEMMA ReceiveStep ==
  ASSUME SafetyInv, SafetyInv', NEW e \in Endpoint,
         \A x \in Endpoint : SameApp(conn[x].sender, conn'[x].sender),
         conn'[Peer(e)].receiver = conn[Peer(e)].receiver,
         got' = [got EXCEPT ![e] = got'[e]],
         stream_out(conn[e].receiver).bytes_read <= stream_out(conn'[e].receiver).bytes_read,
         eof(stream_out(conn[e].receiver)) => eof(stream_out(conn'[e].receiver))
  PROVE  Stream!Receive(e, Peer(e))
<1> USE Zenon
<1> DEFINE p == Peer(e)  r == stream_out(conn[e].receiver).bytes_read
           q == stream_out(conn'[e].receiver).bytes_read  b == conn[p].sender.stream.bytes_written
<1>1. p \in Endpoint /\ \A x \in Endpoint : x = e \/ x = p
  BY PeerIs
<1>2. SentBytes' = SentBytes
  BY DEF SentBytes, SameApp
<1>3. HasEnded' = HasEnded
  BY DEF HasEnded, SameApp
<1>4. ToldEnd' = [ToldEnd EXCEPT ![e] = @ \/ ToldEnd'[e]]
  <2> DEFINE a == [x \in Endpoint |-> eof(stream_out(conn[x].receiver))]
             c == [x \in Endpoint |-> eof(stream_out(conn'[x].receiver))]
  <2>1. ASSUME NEW x \in Endpoint, x # e PROVE c[x] = a[x]
    BY <1>1, <2>1
  <2>2. a[e] \in BOOLEAN /\ c[e] \in BOOLEAN /\ (a[e] => c[e])
    BY DEF eof
  <2>3. c[e] = (a[e] \/ c[e])
    BY <2>2
  <2>4. /\ a = [x \in Endpoint |-> a[x]] /\ c = [x \in Endpoint |-> c[x]]
        /\ ToldEnd = a /\ ToldEnd' = c
    BY DEF ToldEnd, inbound_stream
  <2> HIDE DEF a, c
  <2>5. c = [a EXCEPT ![e] = a[e] \/ c[e]]
    BY <2>1, <2>3, <2>4
  <2> QED BY <2>4, <2>5
<1>5. /\ Seen(conn[p].sender, conn[e].receiver, got[e])
      /\ Seen(conn'[p].sender, conn'[e].receiver, got'[e])
  BY SeenAlways
<1>6. /\ conn'[p].sender.stream.bytes_written = b
      /\ conn'[p].sender.stream.input_ended = conn[p].sender.stream.input_ended
  BY <1>1 DEF SameApp
<1>7. got[e] = Bytes(1, r) /\ r \in Nat /\ b \in Nat
  BY <1>5 DEF Seen
<1>8. /\ got'[e] = Bytes(1, q) /\ q \in Nat /\ q <= b /\ r <= q
  BY <1>5, <1>6 DEF Seen
<1>9. SentBytes[p] = Bytes(1, b) /\ HasEnded[p] = conn[p].sender.stream.input_ended
  BY <1>1 DEF SentBytes, HasEnded
<1>10. ToldEnd'[e] => HasEnded[p] /\ got'[e] = SentBytes[p]
  <2>1. ASSUME eof(stream_out(conn'[e].receiver)) PROVE conn[p].sender.stream.input_ended /\ q = b
    BY <1>5, <1>6, <2>1 DEF Seen
  <2>2. ToldEnd'[e] = eof(stream_out(conn'[e].receiver))
    BY DEF ToldEnd, inbound_stream
  <2> QED BY <1>8, <1>9, <2>1, <2>2
<1>11. \E n \in Len(got[e]) .. Len(SentBytes[p]) : got' = [got EXCEPT ![e] = SubSeq(SentBytes[p], 1, n)]
  <2> HIDE DEF p, r, q, b
  <2>1. Len(Bytes(1, r)) = r /\ Len(Bytes(1, b)) = b
    BY <1>7, FirstBytes
  <2>2. SubSeq(Bytes(1, b), 1, q) = Bytes(1, q)
    BY <1>7, <1>8, FirstOfFirst
  <2>3. q \in Len(got[e]) .. Len(SentBytes[p])
    <3>1. q \in r .. b
      BY <1>7, <1>8, SMT
    <3> QED BY <1>7, <1>9, <2>1, <3>1
  <2>4. got' = [got EXCEPT ![e] = SubSeq(SentBytes[p], 1, q)]
    BY <1>8, <1>9, <2>2
  <2> QED BY <2>3, <2>4
<1> QED BY <1>2, <1>3, <1>4, <1>10, <1>11 DEF Stream!Receive, SentBytes, HasEnded, ToldEnd

\* A call that the application has no part in.
LEMMA ServedStep ==
  ASSUME SafetyInv, SafetyInv', NEW e \in Endpoint, Served(e)
  PROVE  Stream!Receive(e, Peer(e))
<1> USE Zenon
<1>1. /\ \A x \in Endpoint : SameApp(conn[x].sender, conn'[x].sender)
      /\ conn'[Peer(e)].receiver = conn[Peer(e)].receiver
  BY DEF Served
<1>2. got' = [got EXCEPT ![e] = got'[e]]
  <2>1. got \in [Endpoint -> Seq(Nat)] /\ got' = got
    BY DEF SafetyInv, Served
  <2> QED BY <2>1, SMT
<1>3. /\ stream_out(conn'[e].receiver).bytes_read = stream_out(conn[e].receiver).bytes_read
      /\ eof(stream_out(conn[e].receiver)) => eof(stream_out(conn'[e].receiver))
  BY DEF Served, Onward
<1>4. stream_out(conn[e].receiver).bytes_read \in Nat
  BY SeenAlways DEF Seen
<1>5. stream_out(conn[e].receiver).bytes_read <= stream_out(conn'[e].receiver).bytes_read
  BY <1>3, <1>4, SMT
<1> QED BY <1>1, <1>2, <1>3, <1>5, ReceiveStep

\* read().
LEMMA ReadStep ==
  ASSUME SafetyInv, SafetyInv', NEW e \in Endpoint, NEW n \in Nat \ {0}, HasRead(e, n)
  PROVE  Stream!Receive(e, Peer(e))
<1> USE Zenon
<1> DEFINE o == stream_out(conn[e].receiver)  t == stream_out(conn'[e].receiver)
<1>1. /\ \A x \in Endpoint : SameApp(conn[x].sender, conn'[x].sender)
      /\ conn'[Peer(e)].receiver = conn[Peer(e)].receiver
      /\ got' = [got EXCEPT ![e] = got'[e]]
  BY DEF HasRead, SameApp
<1>2. t.bytes_read = o.bytes_read + n /\ t.bytes_written = o.bytes_written /\ t.input_ended = o.input_ended
  BY DEF HasRead, inbound_stream
<1>3. /\ o.bytes_read \in Nat /\ t.bytes_read <= t.bytes_written
      /\ eof(o) <=> o.input_ended /\ o.bytes_read = o.bytes_written
  BY SeenAlways DEF Seen
<1> HIDE DEF o, t
<1>4. o.bytes_read <= t.bytes_read /\ o.bytes_read # o.bytes_written
  BY <1>2, <1>3, SMT
<1>5. eof(o) => eof(t)
  BY <1>3, <1>4
<1> QED BY <1>1, <1>4, <1>5, ReceiveStep DEF o, t

\* The sender's stream alone changes.
LEMMA StreamedIs ==
  ASSUME NEW e \in Endpoint, Streamed(e)
  PROVE  /\ got' = got /\ ToldEnd' = ToldEnd
         /\ \A x \in Endpoint : x # e => conn'[x] = conn[x]
<1>1. \A x \in Endpoint : x = e \/ x = Peer(e)
  BY PeerIs, Zenon
<1> QED BY <1>1, Zenon DEF Streamed, ToldEnd, inbound_stream

\* write().
LEMMA SendStep ==
  ASSUME SafetyInv, NEW e \in Endpoint, NEW n \in 1 .. send_capacity, Write(e, n)
  PROVE  Stream!Send(e)
<1> USE Zenon
<1> DEFINE b == conn[e].sender.stream.bytes_written  c == conn'[e].sender.stream.bytes_written
<1>1. /\ SafetyInv' /\ Streamed(e) /\ ~ conn[e].sender.stream.input_ended
      /\ c = b + n /\ conn'[e].sender.stream.input_ended = conn[e].sender.stream.input_ended
  BY WriteSafe
<1>2. /\ got' = got /\ ToldEnd' = ToldEnd
      /\ \A x \in Endpoint : x # e => conn'[x] = conn[x]
  BY <1>1, StreamedIs
<1>3. HasEnded' = HasEnded
  BY <1>1, <1>2 DEF HasEnded
<1>4. b \in Nat
  <2>1. Peer(e) \in Endpoint /\ Peer(Peer(e)) = e
    BY PeerIs
  <2> QED BY <1>1, <2>1, SeenAlways DEF Seen
<1>5. n \in Nat \ {0}
  BY ConnectionAssumption, SMT
<1>6. SentBytes[e] = Bytes(1, b) /\ SentBytes'[e] = Bytes(1, c) /\ HasEnded[e] = conn[e].sender.stream.input_ended
  BY DEF SentBytes, HasEnded
<1>7. SentBytes' = [SentBytes EXCEPT ![e] = Bytes(1, c)]
  <2>1. SentBytes' = [x \in Endpoint |-> IF x = e THEN Bytes(1, c) ELSE SentBytes[x]]
    BY <1>2 DEF SentBytes
  <2>2. SentBytes = [x \in Endpoint |-> SentBytes[x]]
    BY DEF SentBytes
  <2> QED BY <2>1, <2>2
<1> HIDE DEF b, c
<1>8. c \in Nat /\ b < c
  BY <1>1, <1>4, <1>5, SMT
<1>9. Len(Bytes(1, b)) = b /\ Len(Bytes(1, c)) = c
  BY <1>4, <1>8, FirstBytes
<1>10. Bytes(1, c) = [k \in 1 .. c |-> k]
  BY <1>8, FirstBytes
<1>11. Len(SentBytes'[e]) > Len(SentBytes[e])
  BY <1>4, <1>6, <1>8, <1>9, SMT
<1>12. SentBytes' = [SentBytes EXCEPT ![e] = [k \in 1 .. Len(SentBytes'[e]) |-> k]]
  BY <1>6, <1>7, <1>9, <1>10
<1>13. ~ HasEnded[e]
  BY <1>1, <1>6
<1> QED BY <1>2, <1>3, <1>11, <1>12, <1>13 DEF Stream!Send, SentBytes, HasEnded, ToldEnd

\* end_input_stream().
LEMMA EndStep ==
  ASSUME SafetyInv, NEW e \in Endpoint, EndInputStream(e)
  PROVE  Stream!EndStream(e)
<1> USE Zenon
<1>1. /\ SafetyInv' /\ Streamed(e) /\ conn'[e].sender.stream.input_ended
      /\ conn'[e].sender.stream.bytes_written = conn[e].sender.stream.bytes_written
  BY EndSafe
<1>2. /\ got' = got /\ ToldEnd' = ToldEnd
      /\ \A x \in Endpoint : x # e => conn'[x] = conn[x]
  BY <1>1, StreamedIs
<1>3. SentBytes' = SentBytes
  BY <1>1, <1>2 DEF SentBytes
<1>4. conn'[e].sender.stream.input_ended = TRUE
  <2>1. conn' \in [Endpoint -> ConnRecord]
    BY <1>1 DEF SafetyInv
  <2>2. conn'[e].sender \in SenderRecord
    BY <2>1, SMT DEF ConnRecord
  <2>3. conn'[e].sender.stream.input_ended \in BOOLEAN
    BY <2>2 DEF SenderRecord, StreamRecord
  <2> QED BY <1>1, <2>3
<1>5. HasEnded' = [HasEnded EXCEPT ![e] = TRUE]
  <2>1. HasEnded' = [x \in Endpoint |-> IF x = e THEN TRUE ELSE HasEnded[x]]
    BY <1>2, <1>4 DEF HasEnded
  <2>2. HasEnded = [x \in Endpoint |-> HasEnded[x]]
    BY DEF HasEnded
  <2> QED BY <2>1, <2>2
<1> QED BY <1>2, <1>3, <1>5 DEF Stream!EndStream, SentBytes, HasEnded, ToldEnd

\* Every step of the system is one of the abstract specification, or none.
LEMMA StreamStep ==
  ASSUME SafetyInv, SafetyInv', [Next]_vars
  PROVE  [Stream!Next]_(Stream!vars)
<1> USE Zenon
<1>1. ASSUME NEW e \in Endpoint, Stream!Receive(e, Peer(e)) \/ Stream!Send(e) \/ Stream!EndStream(e)
      PROVE  Stream!Next
  <2>1. Peer(e) \in Endpoint /\ e # Peer(e)
    BY PeerIs
  <2> QED BY <1>1, <2>1 DEF Stream!Next
<1>2. CASE Connect
  <2>1. "client" \in Endpoint
    BY SMT DEF Endpoint
  <2>2. Served("client")
    BY <1>2, ConnectSafe
  <2> QED BY <1>1, <2>1, <2>2, ServedStep
<1>3. ASSUME NEW e \in Endpoint, NEW n \in 1 .. send_capacity, Write(e, n) PROVE Stream!Next
  BY <1>1, <1>3, SendStep
<1>4. ASSUME NEW e \in Endpoint, EndInputStream(e) PROVE Stream!Next
  BY <1>1, <1>4, EndStep
<1>5. ASSUME NEW e \in Endpoint, NEW n \in 1 .. recv_capacity, Read(e, n) PROVE Stream!Next
  <2>1. n \in Nat \ {0}
    BY ConnectionAssumption, SMT
  <2>2. HasRead(e, n)
    BY <1>5, ReadSafe
  <2> QED BY <1>1, <2>1, <2>2, ReadStep
<1>6. ASSUME NEW e \in Endpoint, NEW seg \in network[e], NEW again, Deliver(e, seg, again) PROVE Stream!Next
  <2>1. Served(e)
    BY <1>6, DeliverSafe
  <2> QED BY <1>1, <2>1, ServedStep
<1>7. ASSUME NEW e \in Endpoint, NEW ms \in TickSizes, Tick(e, ms) PROVE Stream!Next
  <2>1. Served(e)
    BY <1>7, TickSafe
  <2> QED BY <1>1, <2>1, ServedStep
<1>8. ASSUME conn' = conn, got' = got PROVE UNCHANGED Stream!vars
  BY <1>8 DEF Stream!vars
<1>9. ASSUME NEW e \in Endpoint, NEW seg \in network[e], Lose(e, seg) PROVE UNCHANGED Stream!vars
  BY <1>8, <1>9 DEF Lose
<1>10. CASE UNCHANGED vars
  BY <1>8, <1>10 DEF vars
<1> QED BY <1>2, <1>3, <1>4, <1>5, <1>6, <1>7, <1>9, <1>10 DEF Next, App, Arrival, Time

\* At the beginning nothing is written and nothing read.
LEMMA StreamInit ==
  ASSUME Init
  PROVE  Stream!Init
<1>1. /\ conn = [e \in Endpoint |-> TCPConnection(isn[e])]
      /\ got = [e \in Endpoint |-> <<>>]
  BY Zenon DEF Init
<1>2. isn \in [Endpoint -> SeqNo]
  BY SystemAssumption
<1>3. Bytes(1, 0) = <<>>
  <2>1. Bytes(1, 1 - 1) = <<>> /\ 1 - 1 = 0
    BY BytesEmpty
  <2> QED BY <2>1
<1>4. ASSUME NEW e \in Endpoint
      PROVE  /\ Bytes(1, conn[e].sender.stream.bytes_written) = <<>>
             /\ conn[e].sender.stream.input_ended = FALSE
             /\ eof(inbound_stream(conn[e])) = FALSE
  <2>1. isn[e] \in SeqNo
    BY <1>2
  <2>2. conn[e] = TCPConnection(isn[e])
    BY <1>1, Zenon
  <2>3. /\ conn[e].sender.stream.bytes_written = 0 /\ conn[e].sender.stream.input_ended = FALSE
        /\ inbound_stream(conn[e]).input_ended = FALSE
    BY <2>1, <2>2, NewConnection, Zenon
  <2> QED BY <1>3, <2>3, Zenon DEF eof
<1> QED BY <1>1, <1>4, Zenon DEF Stream!Init

\* The system implements the two byte streams: each application reads what the other has
\* written, in order, and is told of the end only when it has read everything.
THEOREM ReliableDeliveryHolds == Spec => ReliableDelivery
<1>1. Init => Stream!Init
  BY StreamInit
<1>2. SafetyInv /\ SafetyInv' /\ [Next]_vars => [Stream!Next]_(Stream!vars)
  BY StreamStep
<1> QED BY <1>1, <1>2, SystemSafe, PTL DEF Spec, ReliableDelivery, Stream!Spec
=============================================================================
