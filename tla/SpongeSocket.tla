------------------------------ MODULE SpongeSocket ------------------------------
(***************************************************************************)
(* tcp_helpers/tcp_sponge_socket.{hh,cc}: the owner's thread and the TCP    *)
(* thread of a TCPSpongeSocket, the pair of local sockets between them, the *)
(* event loop that runs the TCPConnection, and two owners: the copying loop *)
(* of apps/bidirectional_stream_copy.cc and get_URL() of apps/webget.cc.    *)
(* The peer is a TCPConnection too; its application takes what arrives at   *)
(* once.  Segments are neither lost nor reordered (module TCPSystem) nor    *)
(* damaged (module Adapters), and a round trip is shorter than the time-out *)
(* of poll().  Every call of the kernel takes what it can.                  *)
(***************************************************************************)
EXTENDS ConnectionOps

CONSTANTS
  copy_capacity,     \* buffer_size of bidirectional_stream_copy()
  pipe_capacity,     \* what the kernel holds in each direction between the two threads
  Scenarios          \* which owner, how it opens, what the peer is like, and bytes to send

ASSUME SocketAssumption ==
  /\ {copy_capacity, pipe_capacity} \subseteq Nat \ {0}
  /\ Scenarios \subseteq [owner : {"copy", "get", "quit"}, opens : {"connect", "listen"},
                          peer : {"prompt", "absent", "resets"}, sends : [{"owner", "peer"} -> Nat]]

VARIABLES
  scenario,
  t,          \* what the TCP thread works on: connection, flags, event loop
  pipe,       \* the local sockets: bytes down to the TCP thread and up to the owner, and
              \*   the directions that are shut down
  net,        \* segments on their way to the connection and from it
  o,          \* the owner
  abort_flag, \* _abort
  p,          \* the peer's connection
  got,        \* history: the bytes that the peer's application has read
  failed      \* history: the connection was reset, by the peer or by itself

vars == <<scenario, t, pipe, net, o, abort_flag, p, got, failed>>

BothShut == {"down", "up"}

NewConnection == TCPConnection(0)

\* Of the event loop and of the copying one: each has four rules, in this order.
Rules == <<1, 2, 3, 4>>

socket_pair == [down |-> <<>>, up |-> <<>>, shut |-> {}]

\* The owner: its standard input and output, its flags of the descriptors, and the locals
\* of the copying loop.
Owner == [at |-> "opening", input |-> Bytes(1, scenario.sends["owner"]), output |-> <<>>, typed |-> FALSE,
          input_eof |-> FALSE, output_closed |-> FALSE, eof |-> FALSE,
          outbound |-> ByteStream(copy_capacity), inbound |-> ByteStream(copy_capacity),
          outbound_shutdown |-> FALSE, inbound_shutdown |-> FALSE,
          rules |-> Rules, todo |-> <<>>]

\* The peer connects to a listener on its own.
Init ==
  /\ scenario \in Scenarios
  /\ LET peer == IF scenario.opens = "listen" THEN connect(NewConnection) ELSE NewConnection
     IN  p = [peer EXCEPT !.segments_out = <<>>] /\ net = [inward |-> peer.segments_out, outward |-> <<>>]
  /\ t = [tcp |-> IF scenario.opens = "connect" THEN connect(NewConnection) ELSE NewConnection,
          eof |-> FALSE, inbound_shutdown |-> FALSE, outbound_shutdown |-> FALSE,
          rules |-> Rules, todo |-> <<>>, at |-> "poll"]
  /\ pipe = socket_pair
  /\ o = Owner
  /\ abort_flag = FALSE /\ got = <<>> /\ failed = FALSE

-----------------------------------------------------------------------------
\* FileDescriptor::read() of a descriptor that holds these bytes and will not block: what
\* is read, what is left, and whether the descriptor is at its end.
fd_read(bytes, limit) ==
  LET len == Smaller(limit, Len(bytes))
  IN  [data |-> SubSeq(bytes, 1, len), left |-> SubSeq(bytes, len + 1, Len(bytes)),
       eof |-> limit > 0 /\ len = 0]

\* Socket::shutdown() of directions of the local sockets.
shutdown(s, directions) == [s EXCEPT !.pipe.shut = @ \union directions]

\* The rules of _initialize_TCP().  A state s has the fields t, pipe and net.

TcpGone(s, r) == r = 2 /\ s.t.eof

\* A variant that stops reading datagrams once the owner has been told of the end.
TcpInterestShort(s, r) ==
  LET inbound == inbound_stream(s.t.tcp)
  IN  CASE r = 1 -> s.t.tcp.active /\ ~ s.t.inbound_shutdown
        [] r = 2 -> s.t.tcp.active /\ ~ s.t.outbound_shutdown /\ remaining_capacity(s.t.tcp.sender.stream) > 0
        [] r = 3 -> ~ buffer_empty(inbound) \/ ((eof(inbound) \/ inbound.error) /\ ~ s.t.inbound_shutdown)
        [] r = 4 -> s.t.tcp.segments_out # <<>>

TcpInterest(s, r) ==
  LET inbound == inbound_stream(s.t.tcp)
  IN  CASE r = 1 -> s.t.tcp.active
        [] r = 2 -> s.t.tcp.active /\ ~ s.t.outbound_shutdown /\ remaining_capacity(s.t.tcp.sender.stream) > 0
        [] r = 3 -> ~ buffer_empty(inbound) \/ ((eof(inbound) \/ inbound.error) /\ ~ s.t.inbound_shutdown)
        [] r = 4 -> s.t.tcp.segments_out # <<>>

TcpCancel(s, r) ==
  IF r = 2 THEN [s EXCEPT !.t.tcp = end_input_stream(@), !.t.outbound_shutdown = TRUE] ELSE s

TcpReady(s, r) ==
  CASE r = 1 -> s.net.inward # <<>>
    [] r = 2 -> s.pipe.down # <<>> \/ "down" \in s.pipe.shut
    [] r = 3 -> Len(s.pipe.up) < pipe_capacity
    [] r = 4 -> TRUE

TcpHup(s, r) == r \in {2, 3} /\ s.pipe.shut = BothShut

EventLoop == INSTANCE EventLoopOps WITH Gone <- TcpGone, Interest <- TcpInterest, Cancel <- TcpCancel,
                                        Ready <- TcpReady, Hup <- TcpHup

\* Rule 1.
ReadDatagram(s) ==
  [s EXCEPT !.net.inward = Tail(@), !.t.tcp = segment_received(@, Head(s.net.inward))]

\* Rule 2.  It reads no more than fits into the stream, so write() takes all of it.
ReadPipe(s) ==
  LET r == fd_read(s.pipe.down, remaining_capacity(s.t.tcp.sender.stream))
      c == connection_write(s.t.tcp, r.data)
  IN  [s EXCEPT !.pipe.down = r.left,
                !.t.eof = r.eof,
                !.t.tcp = IF r.eof THEN end_input_stream(c) ELSE c,
                !.t.outbound_shutdown = @ \/ r.eof]

\* A variant of rule 3 that takes out of the stream what the pipe had no room for.
WritePipeAll(s) ==
  LET inbound == inbound_stream(s.t.tcp)
      len     == Smaller(buffer_size(inbound), pipe_capacity - Len(s.pipe.up))
      rest    == pop_output(inbound, buffer_size(inbound))
      ended   == eof(rest) \/ rest.error
      done    == [s EXCEPT !.pipe.up = @ \o peek_output(inbound, len),
                           !.t.tcp.receiver.reassembler.output = rest,
                           !.t.inbound_shutdown = @ \/ ended]
  IN  IF ended THEN shutdown(done, {"up"}) ELSE done

\* A variant of rule 3 that shuts the pipe down as soon as the peer's last byte is here.
WritePipeEager(s) ==
  LET inbound == inbound_stream(s.t.tcp)
      len     == Smaller(buffer_size(inbound), pipe_capacity - Len(s.pipe.up))
      rest    == pop_output(inbound, len)
      ended   == rest.input_ended \/ rest.error
      done    == [s EXCEPT !.pipe.up = @ \o peek_output(inbound, len),
                           !.t.tcp.receiver.reassembler.output = rest,
                           !.t.inbound_shutdown = @ \/ ended]
  IN  IF len > 0 /\ "up" \in s.pipe.shut THEN [s EXCEPT !.t.at = "killed"]
      ELSE IF ended THEN shutdown(done, {"up"}) ELSE done

\* Rule 3.  Bytes written to a socket that is shut down end the process (SIGPIPE); to
\* write no bytes is no call to the socket.
WritePipe(s) ==
  LET inbound == inbound_stream(s.t.tcp)
      len     == Smaller(buffer_size(inbound), pipe_capacity - Len(s.pipe.up))
      rest    == pop_output(inbound, len)
      ended   == eof(rest) \/ rest.error
      done    == [s EXCEPT !.pipe.up = @ \o peek_output(inbound, len),
                           !.t.tcp.receiver.reassembler.output = rest,
                           !.t.inbound_shutdown = @ \/ ended]
  IN  IF len > 0 /\ "up" \in s.pipe.shut THEN [s EXCEPT !.t.at = "killed"]
      ELSE IF ended THEN shutdown(done, {"up"}) ELSE done

\* Rule 4.  What is sent to an absent peer is lost.
WriteDatagrams(s) ==
  [s EXCEPT !.net.outward = IF scenario.peer = "absent" THEN @ ELSE @ \o s.t.tcp.segments_out,
            !.t.tcp.segments_out = <<>>]

\* The callbacks that reach their descriptor; an exception ends the process.
TcpUses(s, r) == r = 4 => s.t.tcp.segments_out # <<>>

TcpCallback(s, r) ==
  LET checked(done) == IF EventLoop!busy_wait(TcpUses(s, r), done, r) THEN [done EXCEPT !.t.at = "killed"] ELSE done
  IN  checked(CASE r = 1 -> ReadDatagram(s) [] r = 2 -> ReadPipe(s)
                [] r = 3 -> WritePipe(s)    [] r = 4 -> WriteDatagrams(s))

-----------------------------------------------------------------------------
\* The condition of the loop: connect() and listen_and_accept() run it while the
\* connection opens, and _tcp_main() until it breaks off.
LoopCondition ==
  o.at = "opening" =>
    IF scenario.opens = "connect" THEN state(t.tcp) = SYN_SENT ELSE state(t.tcp) \in {LISTEN, SYN_RCVD, SYN_SENT}

\* The end of a pass of _tcp_loop(), with the milliseconds (here: time-outs of poll())
\* since the last one.
PassEnds(s, ms) ==
  [s EXCEPT !.t.at = IF abort_flag THEN "left" ELSE "poll",
            !.t.tcp = IF ~ abort_flag /\ @.active THEN connection_tick(@, ms) ELSE @]

ThreadBecomes(s) ==
  /\ t' = s.t /\ pipe' = s.pipe /\ net' = s.net
  /\ failed' = (failed \/ s.t.tcp.sender.stream.error)
  /\ UNCHANGED <<scenario, o, abort_flag, p, got>>

\* wait_next_event(), up to the return of poll().  A descriptor that has hung up makes it
\* return even if no rule has asked.  Time passes when there is nothing to do and no segment
\* on its way to the peer; a connection that time does not change stays as it is.
Polled ==
  LET loop == EventLoop!set_up([t |-> t, pipe |-> pipe, net |-> net], t.rules)
      todo == EventLoop!to_serve(loop)
      s    == [loop.state EXCEPT !.t.rules = loop.rules, !.t.todo = todo]
  IN  IF EventLoop!nothing_to_poll(loop) THEN [s EXCEPT !.t.at = "left"]
      ELSE IF todo # <<>> THEN [s EXCEPT !.t.at = "serve"]
      ELSE IF net.outward = <<>> THEN PassEnds(s, 1)
      ELSE [t |-> t, pipe |-> pipe, net |-> net]

PollReady == t.at = "poll" /\ LoopCondition /\ Polled.t # t

Poll == PollReady /\ ThreadBecomes(Polled)

\* The next result of poll().  The answer to a callback may come before the rest.
Serve ==
  LET next == Head(t.todo)
      s    == [t |-> [t EXCEPT !.todo = Tail(@)], pipe |-> pipe, net |-> net]
      ThenPassEnds(done) == IF done.t.at = "serve" /\ done.t.todo = <<>> THEN PassEnds(done, 0) ELSE done
  IN  /\ t.at = "serve"
      /\ ThreadBecomes(ThenPassEnds(IF next.call = "callback" THEN TcpCallback(s, next.rule)
                                    ELSE [TcpCancel(s, next.rule) EXCEPT !.t.rules = EventLoop!erase(@, next.rule)]))

\* connect() or listen_and_accept() returns to the owner, and the thread starts.
StartThread ==
  /\ o.at = "opening"
  /\ t.at = "left" \/ (t.at = "poll" /\ ~ LoopCondition)
  /\ t' = [t EXCEPT !.at = "poll"]
  /\ o' = [o EXCEPT !.at = "app"]
  /\ UNCHANGED <<scenario, pipe, net, abort_flag, p, got, failed>>

\* The end of _tcp_main(): shutdown(SHUT_RDWR), then _tcp.reset().
ThreadShutdown ==
  /\ t.at = "left" /\ o.at # "opening"
  /\ t' = [t EXCEPT !.at = "reset"]
  /\ pipe' = shutdown([pipe |-> pipe], BothShut).pipe
  /\ UNCHANGED <<scenario, net, o, abort_flag, p, got, failed>>

ThreadReset ==
  /\ t.at = "reset"
  /\ t' = [t EXCEPT !.at = "finished", !.tcp = destroyed(@)]
  /\ UNCHANGED <<scenario, pipe, net, o, abort_flag, p, got, failed>>

ThreadStep == Poll \/ Serve \/ StartThread \/ ThreadShutdown \/ ThreadReset

-----------------------------------------------------------------------------
\* The rules of bidirectional_stream_copy(); a state s has the fields o and pipe.  Its
\* streams never have an error, and every callback reads or writes its descriptor.

CopyGone(s, r) ==
  CASE r = 1 -> s.o.input_eof [] r = 2 -> FALSE [] r = 3 -> s.o.eof [] r = 4 -> s.o.output_closed

CopyInterest(s, r) ==
  CASE r = 1 -> remaining_capacity(s.o.outbound) > 0
    [] r = 2 -> ~ buffer_empty(s.o.outbound) \/ (eof(s.o.outbound) /\ ~ s.o.outbound_shutdown)
    [] r = 3 -> remaining_capacity(s.o.inbound) > 0
    [] r = 4 -> ~ buffer_empty(s.o.inbound) \/ (eof(s.o.inbound) /\ ~ s.o.inbound_shutdown)

CopyCancel(s, r) ==
  IF r \in {1, 2} THEN [s EXCEPT !.o.outbound = end_input(@)] ELSE [s EXCEPT !.o.inbound = end_input(@)]

CopyReady(s, r) ==
  CASE r = 1 -> s.o.typed
    [] r = 2 -> Len(s.pipe.down) < pipe_capacity
    [] r = 3 -> s.pipe.up # <<>> \/ "up" \in s.pipe.shut
    [] r = 4 -> TRUE

CopyHup(s, r) == r \in {2, 3} /\ s.pipe.shut = BothShut

CopyLoop == INSTANCE EventLoopOps WITH Gone <- CopyGone, Interest <- CopyInterest, Cancel <- CopyCancel,
                                       Ready <- CopyReady, Hup <- CopyHup

CopyInput(s) ==
  LET r     == fd_read(s.o.input, remaining_capacity(s.o.outbound))
      taken == write(s.o.outbound, r.data)
  IN  [s EXCEPT !.o.input = r.left, !.o.input_eof = r.eof,
                !.o.outbound = IF r.eof THEN end_input(taken) ELSE taken]

CopyToSocket(s) ==
  LET len  == Smaller(buffer_size(s.o.outbound), pipe_capacity - Len(s.pipe.down))
      rest == pop_output(s.o.outbound, len)
      done == [s EXCEPT !.pipe.down = @ \o peek_output(s.o.outbound, len),
                        !.o.outbound = rest,
                        !.o.outbound_shutdown = @ \/ eof(rest)]
  IN  IF len > 0 /\ "down" \in s.pipe.shut THEN [s EXCEPT !.o.at = "killed"]
      ELSE IF eof(rest) THEN shutdown(done, {"down"}) ELSE done

CopyFromSocket(s) ==
  LET r     == fd_read(s.pipe.up, remaining_capacity(s.o.inbound))
      taken == write(s.o.inbound, r.data)
  IN  [s EXCEPT !.pipe.up = r.left, !.o.eof = r.eof,
                !.o.inbound = IF r.eof THEN end_input(taken) ELSE taken]

CopyOutput(s) ==
  LET rest == pop_output(s.o.inbound, buffer_size(s.o.inbound))
  IN  [s EXCEPT !.o.output = @ \o s.o.inbound.stream, !.o.inbound = rest,
                !.o.output_closed = @ \/ eof(rest), !.o.inbound_shutdown = @ \/ eof(rest)]

CopyCallback(s, r) ==
  CASE r = 1 -> CopyInput(s) [] r = 2 -> CopyToSocket(s) [] r = 3 -> CopyFromSocket(s) [] r = 4 -> CopyOutput(s)

OwnerBecomes(s) ==
  /\ o' = s.o /\ pipe' = s.pipe
  /\ UNCHANGED <<scenario, t, net, abort_flag, p, got, failed>>

\* The loop polls without a time-out.  A hangup that no rule has asked about lets it turn
\* with nothing to do.
CopyPolled ==
  LET loop == CopyLoop!set_up([o |-> o, pipe |-> pipe], o.rules)
      todo == CopyLoop!to_serve(loop)
      s    == [loop.state EXCEPT !.o.rules = loop.rules, !.o.todo = todo]
  IN  IF CopyLoop!nothing_to_poll(loop) THEN [s EXCEPT !.o.at = "copied"]
      ELSE IF todo # <<>> THEN s ELSE [o |-> o, pipe |-> pipe]

CopyPollReady == o.at = "app" /\ scenario.owner = "copy" /\ o.todo = <<>> /\ CopyPolled.o # o

CopyPoll == CopyPollReady /\ OwnerBecomes(CopyPolled)

CopyServe ==
  LET next == Head(o.todo)
      s    == [o |-> [o EXCEPT !.todo = Tail(@)], pipe |-> pipe]
  IN  /\ o.at = "app" /\ scenario.owner = "copy" /\ o.todo # <<>>
      /\ OwnerBecomes(IF next.call = "callback" THEN CopyCallback(s, next.rule)
                      ELSE [CopyCancel(s, next.rule) EXCEPT !.o.rules = CopyLoop!erase(@, next.rule)])

-----------------------------------------------------------------------------
\* get_URL(): one blocking write() of the request, then read() until the end.
Getting == o.at = "app" /\ scenario.owner \in {"get", "quit"}

GetWriteReady == Getting /\ o.input # <<>> /\ ("down" \in pipe.shut \/ Len(pipe.down) < pipe_capacity)

GetWrite ==
  LET len == Smaller(Len(o.input), pipe_capacity - Len(pipe.down))
  IN  /\ GetWriteReady
      /\ OwnerBecomes(IF "down" \in pipe.shut THEN [o |-> [o EXCEPT !.at = "killed"], pipe |-> pipe]
                      ELSE [o |-> [o EXCEPT !.input = SubSeq(@, len + 1, Len(@))],
                            pipe |-> [pipe EXCEPT !.down = @ \o SubSeq(o.input, 1, len)]])

GetReadReady == Getting /\ o.input = <<>> /\ (pipe.up # <<>> \/ "up" \in pipe.shut)

GetRead ==
  /\ GetReadReady
  /\ OwnerBecomes([o |-> [o EXCEPT !.output = @ \o pipe.up, !.eof = pipe.up = <<>>,
                                   !.at = IF pipe.up = <<>> THEN "copied" ELSE @],
                   pipe |-> [pipe EXCEPT !.up = <<>>]])

\* A variant that shuts down only what the owner reads.
wait_until_closed_reading ==
  /\ o.at = "copied"
  /\ OwnerBecomes(shutdown([o |-> [o EXCEPT !.at = "joining"], pipe |-> pipe], {"up"}))

wait_until_closed ==
  /\ o.at = "copied"
  /\ OwnerBecomes(shutdown([o |-> [o EXCEPT !.at = "joining"], pipe |-> pipe], BothShut))

\* ~TCPSpongeSocket() while the thread can be joined: the owner gives up at any time.
Destruct ==
  /\ o.at = "app" /\ scenario.owner = "quit"
  /\ abort_flag' = TRUE
  /\ o' = [o EXCEPT !.at = "joining"]
  /\ UNCHANGED <<scenario, t, pipe, net, p, got, failed>>

Join ==
  /\ o.at = "joining" /\ t.at = "finished"
  /\ OwnerBecomes([o |-> [o EXCEPT !.at = "done"], pipe |-> pipe])

\* Something arrives at standard input: the bytes, and the end behind them.
Type ==
  /\ scenario.owner = "copy" /\ ~ o.typed
  /\ OwnerBecomes([o |-> [o EXCEPT !.typed = TRUE], pipe |-> pipe])

OwnerStep == CopyPoll \/ CopyServe \/ GetWrite \/ GetRead \/ wait_until_closed \/ Join

-----------------------------------------------------------------------------
\* The peer's connection becomes c; its application reads everything.
PeerBecomes(c, outward) ==
  /\ p' = [c EXCEPT !.segments_out = <<>>,
                    !.receiver.reassembler.output = pop_output(@, buffer_size(inbound_stream(c)))]
  /\ got' = got \o inbound_stream(c).stream
  /\ net' = [inward |-> net.inward \o c.segments_out, outward |-> outward]
  /\ UNCHANGED <<scenario, t, pipe, o, abort_flag, failed>>

PeerReceive ==
  /\ net.outward # <<>>
  /\ PeerBecomes(IF p.active THEN segment_received(p, Head(net.outward)) ELSE p, Tail(net.outward))

PeerOpen == p.active /\ state(p) \in {ESTABLISHED, CLOSE_WAIT}

PeerWriteReady ==
  /\ PeerOpen /\ ~ p.sender.stream.input_ended
  /\ remaining_capacity(p.sender.stream) > 0 \/ p.sender.stream.bytes_written = scenario.sends["peer"]

PeerWrite ==
  LET sent == p.sender.stream.bytes_written
      next == Smaller(scenario.sends["peer"], sent + remaining_capacity(p.sender.stream))
  IN  /\ PeerWriteReady
      /\ PeerBecomes(IF sent < next THEN connection_write(p, Bytes(sent + 1, next)) ELSE end_input_stream(p),
                     net.outward)

\* The peer gives up instead.
PeerResets ==
  /\ scenario.peer = "resets" /\ PeerOpen
  /\ PeerBecomes(abort(p), net.outward)

PeerStep == PeerReceive \/ PeerWrite

Next == ThreadStep \/ OwnerStep \/ Destruct \/ Type \/ PeerStep \/ PeerResets

Spec == Init /\ [][Next]_vars

\* ENABLED <<A>>_vars for the steps of the two threads and of the peer, spelled out.
ThreadReady == \/ PollReady \/ t.at = "serve" \/ t.at = "reset" \/ t.at = "left"
               \/ o.at = "opening" /\ t.at = "poll" /\ ~ LoopCondition

OwnerReady == \/ CopyPollReady \/ (o.at = "app" /\ o.todo # <<>>)
              \/ GetWriteReady \/ GetReadReady
              \/ o.at = "copied" \/ (o.at = "joining" /\ t.at = "finished")

PeerReady == net.outward # <<>> \/ PeerWriteReady

\* Both threads and the peer go on, and something arrives at standard input.  (Weak
\* fairness of ThreadStep, OwnerStep, PeerStep and Type.)
FairSpec ==
  /\ Spec
  /\ []<>(~ ThreadReady) \/ []<><<ThreadStep>>_vars
  /\ []<>(~ OwnerReady) \/ []<><<OwnerStep>>_vars
  /\ []<>(~ PeerReady) \/ []<><<PeerStep>>_vars
  /\ (scenario.owner = "copy") ~> o.typed

-----------------------------------------------------------------------------
\* Both applications read what the other one has written, in order; each is told of the
\* end only after the last byte, unless the connection was reset or thrown away.
DeliveredInFull ==
  /\ o.output \o o.inbound.stream \o pipe.up = Bytes(1, Len(o.output \o o.inbound.stream \o pipe.up))
  /\ got = Bytes(1, Len(got))
  /\ o.eof /\ ~ failed => Len(o.output \o o.inbound.stream) = scenario.sends["peer"]
  /\ eof(inbound_stream(p)) => Len(got) = scenario.sends["owner"]

\* The end of the outbound stream is noticed twice, by rule 2 and by the cancellation of
\* the rule in the next pass: the second end_input_stream() neither changes the connection
\* nor sends anything. Rules 3 and 4 and a tick, which may give the connection up, come
\* in between.
CancelChangesNothing ==
  t.at = "poll" /\ t.eof /\ 2 \in { t.rules[i] : i \in 1 .. Len(t.rules) } => end_input_stream(t.tcp) = t.tcp

\* Neither thread ends the process by writing to a socket that the other has shut down,
\* as long as the connection is not reset.
NeverKilled == "killed" \in {t.at, o.at} => failed

\* When wait_until_closed() has returned, and there was no reset, both streams have been
\* delivered to their last byte and the peer has been told of the end.
WaitMeansClosed ==
  o.at = "done" /\ scenario.owner # "quit" /\ ~ failed =>
    /\ got = Bytes(1, scenario.sends["owner"]) /\ eof(inbound_stream(p))
    /\ o.output = Bytes(1, scenario.sends["peer"])
    /\ state(t.tcp) = CLOSED

\* The owner gets through: connect() and the copying return, and the TCP thread can be
\* joined, after wait_until_closed() and from the destructor. The peer answers and in the
\* end closes its own stream, or resets at any moment, or does not exist; of one that
\* stays and never closes, tcp_sponge_socket.hh:65 says itself that the wait is for ever.
OwnerReturns == <>(o.at = "done" \/ "killed" \in {t.at, o.at})
=============================================================================
