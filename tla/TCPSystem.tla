------------------------------- MODULE TCPSystem -------------------------------
(***************************************************************************)
(* Two TCPConnections, a client and a server, over a network that delays,  *)
(* reorders, duplicates and loses segments.  Each connection is driven the *)
(* way the event loop of TCPSpongeSocket drives it: application bytes,     *)
(* arriving segments and ticks, one at a time and only while it is active. *)
(* What a call sends is handed to the network at once: a segment that      *)
(* waits in the connection's queue is one that the network delays.         *)
(***************************************************************************)
EXTENDS ConnectionOps

CONSTANTS
  isn,             \* the initial sequence number of each endpoint
  Scenarios,       \* bounds: what each application writes, and how often the network
                   \*   loses a segment, delivers one again, or lets a tick come early
  TickSizes,       \* the milliseconds one call of tick() may report
  MaxSkew,         \* how far one endpoint's ticks may run ahead of the other's
  MaxStored        \* bound: how many datagrams are stored (the code has no limit)

Endpoint == {"client", "server"}

Peer(e) == IF e = "client" THEN "server" ELSE "client"

\* The network may hold a segment for ever: no sequence number is used for two bytes.
ASSUME SystemAssumption ==
  /\ isn \in [Endpoint -> SeqNo]
  /\ Scenarios \subseteq [writes : [Endpoint -> Nat], lost : Nat, duplicated : Nat, early : Nat]
  /\ \A s \in Scenarios : \A e \in Endpoint : s.writes[e] + 4 < Half
  /\ TickSizes \subseteq Nat \ {0}
  /\ MaxSkew \in Nat \ {0} /\ MaxStored \in Nat

VARIABLES
  scenario,      \* what happens in this run
  conn,          \* the connection of each endpoint
  network,       \* the segments on their way to each endpoint
  got,           \* history: the bytes that each application has read
  faults,        \* how many segments were lost and repeated, and ticks came early
  skew           \* how far the time of each endpoint is ahead of the other's

vars == <<scenario, conn, network, got, faults, skew>>

Init ==
  /\ scenario \in Scenarios
  /\ conn = [e \in Endpoint |-> TCPConnection(isn[e])]
  /\ network = [e \in Endpoint |-> {}]
  /\ got = [e \in Endpoint |-> <<>>]
  /\ faults = [lost |-> 0, duplicated |-> 0, early |-> 0]
  /\ skew = [e \in Endpoint |-> 0]

\* The event loop serves the connection.
Running(e) == conn[e].active /\ ~ hung(conn[e])

\* connect() and listen_and_accept() return to the application in these states.
Opened(e) == IF e = "client" THEN conn[e].sender.next_seqno > 0 /\ state(conn[e]) # SYN_SENT
             ELSE state(conn[e]) \notin {LISTEN, SYN_RCVD, SYN_SENT}

\* The endpoint's connection becomes c, and what c wants sent goes to the network,
\* of which `inbound' is what remains on its way to e.
Becomes(e, c, inbound) ==
  /\ conn' = [conn EXCEPT ![e] = [c EXCEPT !.segments_out = <<>>]]
  /\ network' = [network EXCEPT ![e] = inbound,
                                ![Peer(e)] = @ \union {c.segments_out[i] : i \in DOMAIN c.segments_out}]

Connect ==
  /\ conn["client"].sender.next_seqno = 0
  /\ Becomes("client", connect(conn["client"]), network["client"])
  /\ UNCHANGED <<scenario, got, faults, skew>>

\* Rule 2 of the event loop: it takes no more than fits.
Write(e, n) ==
  LET s == conn[e].sender.stream
  IN  /\ Running(e) /\ Opened(e) /\ ~ s.input_ended
      /\ n <= remaining_capacity(s)
      /\ s.bytes_written + n <= scenario.writes[e]
      /\ Becomes(e, connection_write(conn[e], Bytes(s.bytes_written + 1, s.bytes_written + n)), network[e])
      /\ UNCHANGED <<scenario, got, faults, skew>>

\* Rule 2 again: the application has shut down its side.  (When the rule is cancelled in
\* the next pass, end_input_stream() is called once more; module SpongeSocket shows that
\* this changes nothing.)
EndInputStream(e) ==
  /\ Running(e) /\ Opened(e) /\ ~ conn[e].sender.stream.input_ended
  /\ conn[e].sender.stream.bytes_written = scenario.writes[e]
  /\ Becomes(e, end_input_stream(conn[e]), network[e])
  /\ UNCHANGED <<scenario, got, faults, skew>>

\* Rule 3: bytes go to the application, also after the connection has ended.
Read(e, n) ==
  LET s == inbound_stream(conn[e])
  IN  /\ ~ hung(conn[e])
      /\ n <= buffer_size(s)
      /\ got' = [got EXCEPT ![e] = @ \o peek_output(s, n)]
      /\ conn' = [conn EXCEPT ![e].receiver.reassembler.output = pop_output(@, n)]
      /\ UNCHANGED <<scenario, network, faults, skew>>

\* Rule 1: a segment arrives, and may arrive again.
Deliver(e, seg, again) ==
  /\ Running(e)
  /\ again => faults.duplicated < scenario.duplicated
  /\ faults' = [faults EXCEPT !.duplicated = @ + (IF again THEN 1 ELSE 0)]
  /\ Becomes(e, segment_received(conn[e], seg), IF again THEN network[e] ELSE network[e] \ {seg})
  /\ Len(conn'[e].receiver.reassembler.storage) <= MaxStored
  /\ UNCHANGED <<scenario, got, skew>>

Lose(e, seg) ==
  /\ faults.lost < scenario.lost
  /\ faults' = [faults EXCEPT !.lost = @ + 1]
  /\ network' = [network EXCEPT ![e] = @ \ {seg}]
  /\ UNCHANGED <<scenario, conn, got, skew>>

\* Nothing is on its way to an endpoint that would take it.
Quiet == \A e \in Endpoint : network[e] = {} \/ ~ Running(e)

\* Time passes for an active connection that has been set in motion.
Ticking(e) == Running(e) /\ conn[e].sender.next_seqno > 0

\* A tick is early when a segment on its way could make it unnecessary.
TickAllowed(e, ms) ==
  /\ Ticking(e)
  /\ Quiet \/ faults.early < scenario.early
  /\ Ticking(Peer(e)) => skew[e] + ms <= MaxSkew

\* _tcp_loop(), which every thread runs with its own clock.
Tick(e, ms) ==
  /\ TickAllowed(e, ms)
  /\ faults' = [faults EXCEPT !.early = @ + (IF Quiet THEN 0 ELSE 1)]
  /\ skew' = IF Ticking(Peer(e)) THEN [skew EXCEPT ![e] = @ + ms, ![Peer(e)] = @ - ms]
             ELSE [d \in Endpoint |-> 0]
  /\ Becomes(e, connection_tick(conn[e], ms), network[e])
  /\ UNCHANGED <<scenario, got>>

\* What the two applications do.
App == \/ Connect
       \/ \E e \in Endpoint : \/ \E n \in 1 .. send_capacity : Write(e, n)
                             \/ EndInputStream(e)
                             \/ \E n \in 1 .. recv_capacity : Read(e, n)

Arrival == \E e \in Endpoint : \E seg \in network[e] : Deliver(e, seg, FALSE)

Time == \E e \in Endpoint : \E ms \in TickSizes : Tick(e, ms)

Next ==
  \/ App
  \/ Arrival
  \/ Time
  \/ \E e \in Endpoint : \E seg \in network[e] : Deliver(e, seg, TRUE) \/ Lose(e, seg)

Spec == Init /\ [][Next]_vars

\* ENABLED App, ENABLED Arrival and ENABLED Time, spelled out.
AppReady ==
  \/ conn["client"].sender.next_seqno = 0
  \/ \E e \in Endpoint :
       \/ ~ hung(conn[e]) /\ ~ buffer_empty(inbound_stream(conn[e]))
       \/ /\ Running(e) /\ Opened(e) /\ ~ conn[e].sender.stream.input_ended
          /\ \/ conn[e].sender.stream.bytes_written = scenario.writes[e]
             \/ remaining_capacity(conn[e].sender.stream) > 0

ArrivalReady == \E e \in Endpoint : Running(e) /\ \E seg \in network[e] :
  Len(segment_received(conn[e], seg).receiver.reassembler.storage) <= MaxStored

TimeReady == \E e \in Endpoint : \E ms \in TickSizes : TickAllowed(e, ms)

\* The applications go on as long as they have something to do, the network
\* delivers what it does not lose, and time passes: each thread comes back to
\* poll() and to tick() again and again.  Which endpoint comes next is left open.
\* (Weak fairness of App, Arrival and Time, with ENABLED spelled out.)
FairSpec == /\ Spec
            /\ []<>(~ AppReady) \/ []<><<App>>_vars
            /\ []<>(~ ArrivalReady) \/ []<><<Arrival>>_vars
            /\ []<>(~ TimeReady) \/ []<><<Time>>_vars

-----------------------------------------------------------------------------
\* The two streams, as the applications see them.
Stream == INSTANCE ReliableStream WITH
  sent   <- [e \in Endpoint |-> Bytes(1, conn[e].sender.stream.bytes_written)],
  ended  <- [e \in Endpoint |-> conn[e].sender.stream.input_ended],
  got    <- got,
  at_eof <- [e \in Endpoint |-> eof(inbound_stream(conn[e]))]

\* Each application reads exactly what the other one wrote, in order, and is told
\* of the end only after the last byte, whatever the network does.
ReliableDelivery == Stream!Spec

\* A byte that a sender takes for acknowledged, and will never send again, has
\* been written to the output of the peer.
AckedIsDelivered ==
  \A e \in Endpoint :
    Smaller(conn[e].sender.confirmed_seqno - 1, conn[e].sender.stream.bytes_written)
      <= inbound_stream(conn[Peer(e)]).bytes_written

\* A connection that ends cleanly leaves nothing behind: everything that its
\* application wrote has reached the peer, and the peer's whole stream is here.
CleanCloseIsComplete ==
  \A e \in Endpoint : state(conn[e]) = CLOSED =>
    /\ inbound_stream(conn[Peer(e)]).bytes_written = conn[e].sender.stream.bytes_written
    /\ inbound_stream(conn[e]).bytes_written = conn[Peer(e)].sender.stream.bytes_written
    /\ conn[Peer(e)].sender.stream.input_ended

OfficialStates == {LISTEN, SYN_RCVD, SYN_SENT, ESTABLISHED, CLOSE_WAIT, LAST_ACK, CLOSING,
                   FIN_WAIT_1, FIN_WAIT_2, TIME_WAIT, RESET, CLOSED}

\* The passive closer whose FIN is acknowledged: tick() will find it CLOSED.
LAST_ACK_DONE == TCPState("FIN_ACKED", "FIN_RECV", TRUE, FALSE)

\* The peer ended first, but this side's application had ended too, and only its FIN was
\* still waiting for the window: tcp_connection.cc lets the connection linger, which no
\* state with a name does here.
CLOSE_WAIT_LINGERS == TCPState("SYN_ACKED", "FIN_RECV", TRUE, TRUE)

\* The network has not interfered, nor has a timer gone off too soon, and no call hangs.
Faultless == /\ faults = [lost |-> 0, duplicated |-> 0, early |-> 0]
             /\ \A e \in Endpoint : ~ hung(conn[e])

\* Over a network that only reorders, a connection is always in one of the states
\* that TCPState names, or about to be CLOSED by the next tick, or in the one that
\* has no name, for the one reason there is. A lost or repeated segment of the handshake
\* leads to other states without a name, of which this says nothing.
InOfficialState ==
  Faultless => \A e \in Endpoint :
    \/ state(conn[e]) \in OfficialStates \union {LAST_ACK_DONE}
    \/ state(conn[e]) = CLOSE_WAIT_LINGERS /\ eof(conn[e].sender.stream) /\ ~ conn[e].sender.fin_sent

\* Over such a network no connection is reset.
NeverReset == Faultless => \A e \in Endpoint : state(conn[e]) # RESET

\* Once both applications have ended their streams, both connections come to an
\* end: neither waits for ever for something that the other will not send.  (Or one
\* of them hangs: see NeverHangs.)
BothEnd == <>((\A e \in Endpoint : ~ conn[e].active) \/ (\E e \in Endpoint : hung(conn[e])))

\* stream_reassembler.hh: substrings come "possibly out of order, and possibly
\* overlapping"; every call returns.
NeverHangs == \A e \in Endpoint : ~ hung(conn[e])

\* tcp_connection.hh: a connection should "stay active (and keep ACKing)" after both
\* streams have ended, "in case the remote TCPConnection doesn't know we've received
\* its whole stream".  When it has lingered to the end, the remote knows or is about
\* to be told.
LingeringConvinces ==
  \A e \in Endpoint : state(conn[e]) = CLOSED /\ conn[e].linger_after_streams_finish =>
    conn[Peer(e)].sender.bytes_in_flight = 0 \/ network[Peer(e)] # {}
=============================================================================
