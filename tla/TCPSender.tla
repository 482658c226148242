------------------------------- MODULE TCPSender -------------------------------
(***************************************************************************)
(* A TCPSender as its owner drives it: the application writes and ends the *)
(* stream, acknowledgments arrive in any order and with any content, and   *)
(* time passes.  The owner empties segments_out after every call, so the   *)
(* queue holds what the last call sent.                                    *)
(***************************************************************************)
EXTENDS SenderOps

CONSTANTS
  send_capacity,       \* TCPConfig::send_capacity, of the outgoing stream
  Isn,                 \* the initial sequence number
  MAX_RETX_ATTEMPTS,   \* TCPConfig::MAX_RETX_ATTEMPTS
  Windows,             \* the window sizes a peer may advertise
  TickSizes,           \* the milliseconds one call of tick() may report
  MaxBytes             \* bound: how many bytes the application writes in all

ASSUME MachineAssumption ==
  /\ send_capacity \in Nat \ {0}
  /\ Isn \in SeqNo
  /\ MAX_RETX_ATTEMPTS \in Nat
  /\ Windows \subseteq 0 .. Half \div 2   \* 16 bits, where sequence numbers have 32
  /\ TickSizes \subseteq Nat
  /\ MaxBytes \in Nat

VARIABLE sender

Init == sender = TCPSender(send_capacity, Isn)

\* The owner has taken the segments of the previous call.
Drained == [sender EXCEPT !.segments_out = <<>>]

\* TCPConnection::connect(), and the call at the end of segment_received().
FillWindow == sender' = fill_window(Drained)

\* TCPConnection::write(): the next n bytes of the application's stream.  The
\* socket that owns the connection writes nothing after it has ended the stream.
Write(n) ==
  /\ ~ sender.stream.input_ended
  /\ sender.stream.bytes_written + n <= MaxBytes
  /\ LET data == Bytes(sender.stream.bytes_written + 1, sender.stream.bytes_written + n)
     IN  sender' = fill_window([Drained EXCEPT !.stream = write(@, data)])

\* TCPConnection::end_input_stream().
EndInput == sender' = fill_window([Drained EXCEPT !.stream = end_input(@)])

AckReceived(ackno, window_size) == sender' = ack_received(Drained, ackno, window_size)

\* The connection stops ticking a sender that exceeded MAX_RETX_ATTEMPTS.
Tick(ms) ==
  /\ sender.consecutive_retransmissions <= MAX_RETX_ATTEMPTS
  /\ sender' = sender_tick(Drained, ms)

SendEmptySegment == sender' = send_empty_segment(Drained)

Next ==
  \/ FillWindow
  \/ \E n \in 1 .. MaxBytes : Write(n)
  \/ EndInput
  \/ \E ackno \in SeqNo, window_size \in Windows : AckReceived(ackno, window_size)
  \/ \E ms \in TickSizes : Tick(ms)
  \/ SendEmptySegment

Spec == Init /\ [][Next]_sender

\* The owner's loop calls tick() again and again with a positive time
\* (_tcp_loop in tcp_sponge_socket.cc); nothing else is assumed.
FairSpec == Spec /\ WF_sender(\E ms \in TickSizes \ {0} : Tick(ms))

-----------------------------------------------------------------------------
\* The absolute sequence number at which an outstanding segment starts.
Start(seg) == unwrap(seg.seqno, sender.isn, sender.next_seqno)

End(seg) == Start(seg) + length_in_sequence_space(seg)

Outstanding == sender.outstanding_segments

\* Everything from the oldest unacknowledged sequence number up to next_seqno can
\* still be retransmitted: the queue of outstanding segments (filled by
\* send_tcp_segment(), emptied by ack_received()) holds it without a gap or an
\* overlap, each segment with the bytes of the stream that its number stands for.
UnackedIsOutstanding ==
  IF Outstanding = <<>>
  THEN sender.confirmed_seqno = sender.next_seqno
  ELSE /\ Start(Outstanding[1]) <= sender.confirmed_seqno
       /\ sender.confirmed_seqno < End(Outstanding[1])
       /\ End(Outstanding[Len(Outstanding)]) = sender.next_seqno
       /\ \A i \in 1 .. Len(Outstanding) - 1 : End(Outstanding[i]) = Start(Outstanding[i + 1])
       /\ \A i \in 1 .. Len(Outstanding) :
            LET seg == Outstanding[i]
            IN  /\ seg.payload = Bytes(Start(seg), Start(seg) + Len(seg.payload) - 1)
                /\ seg.syn <=> Start(seg) = 0
                /\ seg.fin => i = Len(Outstanding)

\* bytes_in_flight(), which ack_received() lowers segment by segment, is the
\* amount of sequence space between the oldest outstanding segment and next_seqno.
InFlightIsOutstanding ==
  sender.bytes_in_flight = sequence_space(Outstanding, Len(Outstanding))

\* The retransmission timer runs exactly while something is outstanding:
\* otherwise a lost segment would never be sent again, or tick() would go on
\* counting towards an abort with nothing to resend.
TimerRunsIffOutstanding == sender.timing_begins <=> Outstanding # <<>>

\* No byte and no FIN waits with nothing to set it in motion: once the SYN is
\* out, whatever the application has written is on its way or something is
\* outstanding whose acknowledgment calls fill_window() (ack_received() calls it
\* only when the queue has become empty).
NothingStranded ==
  sender.next_seqno > 0 /\ Outstanding = <<>> =>
    /\ buffer_empty(sender.stream)
    /\ sender.stream.input_ended => sender.fin_sent

\* FIN is numbered after the last byte written and nothing follows it
\* (fill_window() sets it in two places, alone or on the last payload).
FinFollowsLastByte ==
  IF sender.fin_sent
  THEN eof(sender.stream) /\ sender.next_seqno = sender.stream.bytes_written + 2
  ELSE sender.next_seqno > 0 => sender.next_seqno = sender.stream.bytes_read + 1

\* Whatever a call sends for the first time lies within the window that the
\* receiver last advertised, where a zero window admits one sequence number.
WithinWindow ==
  [][sender'.next_seqno > sender.next_seqno =>
       sender'.next_seqno <= sender'.confirmed_seqno + logical_window(sender')]_sender

\* Whatever a call sends again covers the oldest unacknowledged sequence number.
ResendsOldest ==
  [][\A i \in 1 .. Len(sender'.segments_out) :
       LET seg == sender'.segments_out[i]
       IN  Start(seg) < sender.next_seqno =>
             Start(seg) <= sender.confirmed_seqno /\ sender.confirmed_seqno < End(seg)]_sender

Resend == /\ Outstanding # <<>>
          /\ sender'.outstanding_segments = Outstanding
          /\ sender'.segments_out = <<Outstanding[1]>>

\* As long as something stays outstanding, it is sent again and again until the
\* connection gives up, whatever acknowledgments, old or repeated, arrive: only
\* an ackno that covers a segment restarts the timer.
RetransmitsUntilAcked ==
  <>[](Outstanding # <<>>) =>
    \/ []<><<Resend>>_sender
    \/ <>(sender.consecutive_retransmissions > MAX_RETX_ATTEMPTS)
=============================================================================
