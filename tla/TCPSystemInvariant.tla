-------------------------- MODULE TCPSystemInvariant ---------------------------
(***************************************************************************)
(* The inductive invariant of two connections over a network, and what     *)
(* their steps do to it.                                                   *)
(***************************************************************************)
EXTENDS TCPSystem, ConnectionInvariants

\* The direction in which e receives.
Inbound(e) == Flow(conn[Peer(e)].sender, conn[e].receiver, network[e], network[Peer(e)],
                   isn[Peer(e)], scenario.writes[Peer(e)])

\* The inductive invariant.
SafetyInv ==
  /\ scenario \in Scenarios
  /\ conn \in [Endpoint -> ConnRecord]
  /\ network \in [Endpoint -> SUBSET SegmentRecord]
  /\ got \in [Endpoint -> Seq(Nat)]
  /\ \A e \in Endpoint : /\ conn[e].segments_out = <<>> /\ conn[e].sender.segments_out = <<>>
                         /\ got[e] = Bytes(1, inbound_stream(conn[e]).bytes_read)
                         /\ Inbound(e)

-----------------------------------------------------------------------------

\* The invariant at one endpoint: its connection rests, and both directions flow.
At(e) ==
  /\ conn[e].segments_out = <<>> /\ conn[e].sender.segments_out = <<>>
  /\ got[e] = Bytes(1, inbound_stream(conn[e]).bytes_read)
  /\ Inbound(e)

\* The step of an endpoint, as the endpoint that has become d sees it.
Stepped(e, d) ==
  /\ conn'[e].sender = d.sender /\ conn'[e].receiver = d.receiver
  /\ conn'[Peer(e)] = conn[Peer(e)]
  /\ Onward(d.receiver, conn[e].receiver)

-----------------------------------------------------------------------------

\* A step in which no application takes part: one endpoint may learn of the end.
Served(e) ==
  /\ got' = got
  /\ \A x \in Endpoint : SameApp(conn[x].sender, conn'[x].sender)
  /\ conn'[Peer(e)].receiver = conn[Peer(e)].receiver
  /\ Onward(conn'[e].receiver, conn[e].receiver)

\* A step of an application that writes to its stream, or ends it.
Streamed(e) ==
  /\ got' = got
  /\ conn'[Peer(e)] = conn[Peer(e)]
  /\ conn'[e].receiver = conn[e].receiver

\* A step of an application that reads.
HasRead(e, n) ==
  /\ got' = [got EXCEPT ![e] = got'[e]]
  /\ \A x \in Endpoint : conn'[x].sender = conn[x].sender
  /\ conn'[Peer(e)].receiver = conn[Peer(e)].receiver
  /\ inbound_stream(conn'[e]).bytes_read = inbound_stream(conn[e]).bytes_read + n
  /\ inbound_stream(conn'[e]).bytes_written = inbound_stream(conn[e]).bytes_written
  /\ inbound_stream(conn'[e]).input_ended = inbound_stream(conn[e]).input_ended

-----------------------------------------------------------------------------

\* The bytes that each application has written, whether it has ended its stream, and
\* whether it has been told of the end of the other's: what the abstract variables stand for.
SentBytes == [e \in Endpoint |-> Bytes(1, conn[e].sender.stream.bytes_written)]

HasEnded == [e \in Endpoint |-> conn[e].sender.stream.input_ended]

ToldEnd == [e \in Endpoint |-> eof(inbound_stream(conn[e]))]
=============================================================================
