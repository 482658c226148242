----------------------------- MODULE ConnectionOps -----------------------------
(***************************************************************************)
(* libsponge/tcp_connection.{hh,cc} and tcp_helpers/tcp_state.{hh,cc}: the *)
(* methods of a TCPConnection, as operators on a record that holds its     *)
(* members.  last_tick_time, which is only compared with the lingering     *)
(* time, stops growing there.                                              *)
(***************************************************************************)
EXTENDS SenderOps, ReceiverOps

CONSTANTS
  recv_capacity, send_capacity,   \* TCPConfig
  MAX_RETX_ATTEMPTS,   \* TCPConfig::MAX_RETX_ATTEMPTS
  linger_factor,       \* the connection lingers for linger_factor * rt_timeout: 10 in the code
  WinMod               \* the header's window is unsigned modulo WinMod: 2^16

\* The largest window is far below the distance up to which numbers can be compared.
ASSUME ConnectionAssumption == /\ recv_capacity \in Nat \ {0} /\ send_capacity \in Nat \ {0}
                               /\ MAX_RETX_ATTEMPTS \in Nat
                               /\ linger_factor \in Nat \ {0}
                               /\ WinMod \in Nat \ {0} /\ WinMod <= Half \div 2

TCPConnection(isn) ==
  [sender |-> TCPSender(send_capacity, isn), receiver |-> TCPReceiver(recv_capacity),
   segments_out |-> <<>>, linger_after_streams_finish |-> TRUE, active |-> TRUE,
   last_tick_time |-> 0]

inbound_stream(c) == stream_out(c.receiver)

linger_time == linger_factor * rt_timeout

\* The thread that runs the connection never returns from a call.
hung(c) == c.receiver.reassembler.hung

check_inbound_ended(c) == /\ c.receiver.reassembler.unassembled_bytes = 0
                          /\ inbound_stream(c).input_ended

check_outbound_ended(c) == /\ eof(c.sender.stream)
                           /\ c.sender.next_seqno = c.sender.stream.bytes_written + 2
                           /\ c.sender.bytes_in_flight = 0

\* A segment on its way out gets the receiver's ackno and window.
stamped(c, seg) ==
  [seg EXCEPT !.ack = has_ackno(c.receiver),
              !.ackno = IF has_ackno(c.receiver) THEN ackno(c.receiver) ELSE @,
              !.win = window_size(c.receiver) % WinMod]

send_segments_out(c) ==
  LET q == c.sender.segments_out
  IN  [c EXCEPT !.segments_out = @ \o [i \in 1 .. Len(q) |-> stamped(c, q[i])],
                !.sender.segments_out = <<>>]

\* A segment with RST arrives, from the peer or from the connection itself.
reset_received(c) == [c EXCEPT !.sender.stream = set_error(@),
                               !.receiver.reassembler.output = set_error(@),
                               !.active = FALSE,
                               !.last_tick_time = 0]

\* A variant that always lingers.
stop_lingering_never(c) == c

\* The peer finished first: there is no need to linger.
stop_lingering(c) ==
  IF check_inbound_ended(c) /\ ~ eof(c.sender.stream)
  THEN [c EXCEPT !.linger_after_streams_finish = FALSE] ELSE c

acknowledged(c, seg) ==
  IF seg.ack THEN send_segments_out([c EXCEPT !.sender = ack_received(@, seg.ackno, seg.win)]) ELSE c

\* A variant that does not answer a segment unless there is something to send.
answered_rarely(c, seg) ==
  IF length_in_sequence_space(seg) = 0 THEN c ELSE send_segments_out([c EXCEPT !.sender = fill_window(@)])

\* A segment that takes up sequence space is answered, with an empty segment if
\* there is nothing else to send.
answered(c, seg) ==
  IF length_in_sequence_space(seg) = 0 THEN c
  ELSE LET filled == fill_window(c.sender)
           reply  == IF filled.segments_out # <<>> THEN filled ELSE send_empty_segment(filled)
       IN  send_segments_out([c EXCEPT !.sender = reply])

segment_received(c, seg) ==
  LET taken(c1) == IF hung(c1) THEN c1 ELSE answered(acknowledged(stop_lingering(c1), seg), seg)
  IN  IF seg.rst THEN reset_received(c)
      ELSE taken([c EXCEPT !.receiver = receiver_segment_received(@, seg), !.last_tick_time = 0])

connection_write(c, data) ==
  IF data = <<>> THEN c
  ELSE send_segments_out([c EXCEPT !.sender = fill_window([@ EXCEPT !.stream = write(c.sender.stream, data)])])

end_input_stream(c) ==
  send_segments_out([c EXCEPT !.sender = fill_window([@ EXCEPT !.stream = end_input(c.sender.stream)])])

connect(c) == send_segments_out([c EXCEPT !.sender = fill_window(@)])

\* The connection gives up: whatever waits to be sent is dropped, a RST goes out
\* and is also handled as if it had come in.
abort(c) ==
  LET rst == [BlankSegment EXCEPT !.seqno = wrap(c.sender.next_seqno, c.sender.isn), !.rst = TRUE]
  IN  reset_received([c EXCEPT !.segments_out = <<rst>>])

\* ~TCPConnection(): an active connection queues a RST behind what waits to be sent,
\* and takes the queue with it.
destroyed(c) ==
  IF c.active THEN [abort(c) EXCEPT !.segments_out = c.segments_out \o @] ELSE c

\* Both streams have ended: active until the time to linger is over.
linger(c) ==
  IF check_inbound_ended(c) /\ check_outbound_ended(c)
  THEN [c EXCEPT !.active = c.linger_after_streams_finish /\ c.last_tick_time < linger_time]
  ELSE c

connection_tick(c, ms) ==
  LET c1 == send_segments_out([c EXCEPT !.last_tick_time = Smaller(@ + ms, linger_time),
                                        !.sender = sender_tick(@, ms)])
      c2 == IF c1.sender.consecutive_retransmissions > MAX_RETX_ATTEMPTS THEN abort(c1) ELSE c1
  IN  linger(c2)

-----------------------------------------------------------------------------
\* TCPState: the summaries of the two halves and the names of their combinations.

receiver_summary(r) ==
  CASE stream_out(r).error -> "ERROR"
    [] ~ stream_out(r).error /\ ~ has_ackno(r) -> "LISTEN"
    [] ~ stream_out(r).error /\ has_ackno(r) ->
         IF stream_out(r).input_ended THEN "FIN_RECV" ELSE "SYN_RECV"

sender_summary(s) ==
  CASE s.stream.error -> "ERROR"
    [] ~ s.stream.error /\ s.next_seqno = 0 -> "CLOSED"
    [] ~ s.stream.error /\ s.next_seqno # 0 ->
         CASE s.next_seqno = s.bytes_in_flight -> "SYN_SENT"
           [] s.next_seqno # s.bytes_in_flight /\
              (~ eof(s.stream) \/ s.next_seqno < s.stream.bytes_written + 2) -> "SYN_ACKED"
           [] OTHER -> IF s.bytes_in_flight # 0 THEN "FIN_SENT" ELSE "FIN_ACKED"

state(c) == [sender |-> sender_summary(c.sender), receiver |-> receiver_summary(c.receiver),
             active |-> c.active, linger |-> c.active /\ c.linger_after_streams_finish]

\* The official states; `linger' holds in those that do not say otherwise.
TCPState(snd, rcv, act, lin) == [sender |-> snd, receiver |-> rcv, active |-> act, linger |-> lin]

LISTEN      == TCPState("CLOSED", "LISTEN", TRUE, TRUE)
SYN_RCVD    == TCPState("SYN_SENT", "SYN_RECV", TRUE, TRUE)
SYN_SENT    == TCPState("SYN_SENT", "LISTEN", TRUE, TRUE)
ESTABLISHED == TCPState("SYN_ACKED", "SYN_RECV", TRUE, TRUE)
CLOSE_WAIT  == TCPState("SYN_ACKED", "FIN_RECV", TRUE, FALSE)
LAST_ACK    == TCPState("FIN_SENT", "FIN_RECV", TRUE, FALSE)
CLOSING     == TCPState("FIN_SENT", "FIN_RECV", TRUE, TRUE)
FIN_WAIT_1  == TCPState("FIN_SENT", "SYN_RECV", TRUE, TRUE)
FIN_WAIT_2  == TCPState("FIN_ACKED", "SYN_RECV", TRUE, TRUE)
TIME_WAIT   == TCPState("FIN_ACKED", "FIN_RECV", TRUE, TRUE)
RESET       == TCPState("ERROR", "ERROR", FALSE, FALSE)
CLOSED      == TCPState("FIN_ACKED", "FIN_RECV", FALSE, FALSE)
=============================================================================
