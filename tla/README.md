# A TLA+ model of the sponge TCP stack

The repository is a user-space TCP/IP stack in C++17: `libsponge` (byte
streams, reassembly, TCP sender, receiver and connection, an ARP-speaking
network interface, sockets driven by an event loop) and a few applications on
top of it. This directory holds a specification of its state machines, the
configurations that TLC checks, and theorems whose proofs TLAPS checks.
Paths below are relative to `src/`; `L/` stands for `libsponge/`.

## 1. The system

| Part | Source | State | Operations |
|---|---|---|---|
| wrapping integers | `L/wrapping_integers.*` | none | `wrap`, `unwrap`, difference of two 32-bit numbers |
| byte stream | `L/byte_stream.*` | queue of at most `capacity` bytes, counts of bytes written and read, input-ended and error flags | `write`, `peek_output`, `pop_output`, `end_input`, `set_error` |
| stream reassembler | `L/stream_reassembler.*` | output byte stream, list of stored datagrams, `_unassembled_bytes`, `_next_assembling_index`, `smallest_temporty_index` | `push_substring` |
| TCP receiver | `L/tcp_receiver.*` | reassembler, `abs_seqno`, peer's initial number, `first_segment` | `segment_received`, `ackno`, `window_size` |
| TCP sender | `L/tcp_sender.*` | outgoing stream, `_next_seqno`, `confirmed_seqno`, outstanding segments, bytes in flight, timer, timeout, retransmission count | `fill_window`, `ack_received`, `tick`, `send_empty_segment` |
| TCP connection | `L/tcp_connection.*` | sender, receiver, outgoing queue, linger flag, active flag, time since the last segment | `connect`, `write`, `end_input_stream`, `segment_received`, `tick`, destructor |
| TCP states | `L/tcp_helpers/tcp_state.*` | none | names for combinations of sender and receiver state |
| TCP socket | `L/tcp_helpers/tcp_sponge_socket.*` | connection, event loop with four rules, a socket pair to the application, two threads | `connect`, `listen_and_accept`, `wait_until_closed`, `_tcp_loop`, `_tcp_main`, destructor |
| lossy adapter | `L/tcp_helpers/lossy_fd_adapter.hh` | loss rates | drops segments either way |
| network interface | `L/network_interface.*` | ARP table, pending requests, waiting datagrams, outgoing frames | `send_datagram`, `recv_frame`, `tick` |
| router | `L/router.*` | list of interfaces | `add_route`, `route_one_datagram` (both empty), `route` |
| event loop | `L/util/eventloop.*` | list of rules | `add_rule`, `wait_next_event` |
| stream copy | `apps/bidirectional_stream_copy.cc` | two byte streams, event loop | copies both ways until both ends are done |
| headers, parsers, checksum | `L/util/parser.*`, `L/tcp_helpers/*header*`, `*datagram*`, `*frame*`, `*message*`, `L/util/util.*` | cursor and error of a parser | `parse`, `serialize` |
| adapters | `L/tcp_helpers/tcp_over_ip.*`, `fd_adapter.*`, `tuntap_adapter.*` | configured peer, listening flag | wrap and unwrap segments in IP or UDP datagrams |
| buffers | `L/util/buffer.*` | shared strings with an offset | `remove_prefix`, views |
| descriptors, sockets, addresses | `L/util/*` | eof and closed flags | wrappers of system calls |
| applications | `apps/*` | none of their own | open a socket, copy or fetch, wait; command lines |

How they meet: the application writes to a socket pair; the TCP thread's event
loop moves those bytes into the connection, moves arriving segments into it,
moves the inbound stream back to the application and sends what the connection
has queued. Between two rounds of the loop it calls `tick`. A connection owns a
sender and a receiver that know nothing of each other: every outgoing segment
is stamped with the receiver's ackno and window, every incoming one goes first
to the receiver, then, if it carries an ackno, to the sender. The receiver owns
a reassembler and keeps its own count, `abs_seqno`, of what it acknowledges.

What makes it hard:

* **Reordering, loss and repetition** of segments that carry data one way and
  acknowledgments the other.
* **Duplicated bookkeeping.** The receiver's `abs_seqno` and the reassembler's
  index, the sender's queue and its counters, the interface's table, pending
  list and waiting list are kept in step by hand, in several handlers.
* **Edges**: windows of zero, FIN alone or on the last bytes, wrapping numbers,
  bytes beyond the capacity, expiry at exactly the limit.
* **Timers**: retransmission with backoff, giving up, lingering, ARP repetition.
* **Loops that edit what they walk** (`missing_middle_handler`, the interface's
  list of waiting datagrams and its `tick`), which may skip an element or fail to end.
* **Closing**: two connections that each wait for the other; two threads of one
  socket, of which one waits for the other's end.
* **Flags set in one pass of a loop and read in the next**: the end of a stream is
  noticed by a callback, by a cancellation and by an interest, in any order.
* **Partial writes**, to the pipe between the threads and over several buffers.
* **Errors that are dropped on the way**: the results of the headers' parsers.
* **A listener that takes its address from the first packet.**

`PROJECT.json` lists these hazards at the line where each one bites, with the
properties that watch it.

## 2. The modules

A class is modelled in two layers. `XOps` gives its methods as operators from a
record of its members to the record afterwards; `X` is the state machine that
applies them. The connection can thus be composed from the very operators that
the components' own runs check.

| Module | Models |
|---|---|
| `WrappingIntegers` | `wrap`, `unwrap`, signed distance, for a space of `SeqSize` numbers (2^32 in the code) |
| `SequenceNumbers` | a peer and an endpoint that move along a stream; what `unwrap` promises |
| `ByteStreamOps` | `ByteStream` |
| `ListOps` | `erase` of a `std::list`, for the loops that edit a list while they walk it |
| `TCPSegments` | the fields of a segment that the protocol reads, `length_in_sequence_space` |
| `SenderOps`, `TCPSender` | `TCPSender`; the machine lets any ackno with any window arrive at any time |
| `ReceivedStream` | the constants that the reassembler's and the receiver's machine share |
| `ReassemblerOps`, `StreamReassembler` | `StreamReassembler` |
| `ReceiverOps`, `TCPReceiver` | `TCPReceiver`, with its peer's segments repeated and reordered at will |
| `ConnectionOps` | `TCPConnection` and `TCPState`, over the sender's and the receiver's operators |
| `TCPSystem` | two connections, each driven by the rules of its socket's event loop, and the network |
| `ReliableStream` | abstract: what a connection promises to its two applications |
| `NetworkInterface` | `NetworkInterface` |
| `BufferOps` | `Buffer`, `BufferList`, `BufferViewList` |
| `WireFormats` | the parser, the checksum, and `parse` and `serialize` of TCP, IPv4, Ethernet and ARP, over bytes |
| `Adapters` | the UDP, tun and Ethernet adapters, the lossy one around them, and `FileDescriptor::write` |
| `EventLoopOps` | the parts of `EventLoop::wait_next_event`, for rules given as constant operators; instantiated for each of the two loops |
| `SpongeSocket` | one `TCPSpongeSocket`: its two threads, the pipe, the event loop, the connection, its owner (the copying loop, `get_URL`) and a peer |
| `MCReassembler`, `MCReceiver`, `MCSystem`, `MCAdapters`, `MCSocket` | values of constants for TLC |
| `StreamInvariants`, `SenderInvariants`, `ConnectionInvariants`, `TCPSystemInvariant` | the predicates and relations in which the proofs are stated (section 4) |
| `StreamLemmas`, `ReassemblerLemmas`, `SenderLemmas`, `ConnectionLemmas`, and `ReassemblerReceiverProofs`, `SenderInterfaceProofs`, `TCPSystemProofs`, `ReliableStreamProofs` | lemmas and theorems (section 4) |

Bytes are named by their position in the stream, so that a byte out of place
shows. Segments carry wrapped numbers, so that the code's `unwrap` is exercised
wherever the code calls it. Everything else in a payload or a header that the
protocol does not read is left out, except in `WireFormats` and `Adapters`, which
are about the bytes themselves.

Definitions whose comment begins with "A variant" change one definition the way
a plausible slip would; every property fails under at least one of them, which
shows that it is sensitive to the code it is about.

### How state and actions correspond to the code

* **Sender.** One action for each public method. `segments_out` holds what the
  last call queued, because the connection empties the queue after every call.
  `fill_window` keeps the code's three branches (SYN, FIN alone, a loop over
  payloads) and its early returns. `ack_received` refuses a number beyond
  `_next_seqno` and one below `confirmed_seqno`, drops covered segments from
  the front, and calls `fill_window` only when the queue has become empty.
* **Reassembler.** `push_substring` calls itself for stored datagrams: the calls
  are a recursive function over the length of the storage. The scan in
  `missing_middle_handler` that goes back to the start of the list after a merge
  is a function over the number of rounds; a round that goes back to the start
  without having changed anything repeats for ever, and the model sets `hung`.
  (The code goes back with `--begin()`, which the standard leaves undefined; in
  libstdc++'s circular list it is `end()`, and the loop's `++` leads to the first.)
* **Receiver.** `segment_received` in the code's order: the SYN, the repeated SYN
  that is dropped, the push, and the update of `abs_seqno`.
* **Connection.** `segment_received` and `tick` with everything that they call.
  `last_tick_time` stops growing at the lingering time, beyond which it is never
  told apart.
* **System.** `Connect`, `Write`, `EndInputStream`, `Read`, `Deliver` and `Tick`
  are `connect()`, rules 2, 2, 3, 1 and `_tcp_loop()`. What a call queues goes
  into the network in the same step: a segment that rule 4 has not sent yet
  behaves like one that the network delays. The second `end_input_stream()`, from
  the cancel callback of rule 2, is left to `SpongeSocket`, which shows that it
  changes nothing. The network may lose a segment (`LossyFdAdapter`), deliver it
  twice, or let a timer go off while a segment is on its way; how often is bounded
  by the scenario.
* **Interface.** `SendDatagram`, `RecvARP` and `InterfaceTick`. Waiting
  datagrams stand in one list for all hops, as in the code. `flush` is the loop of
  `recv_frame` over it: one `flush_step` for each turn, which sends and erases the
  element it stands on, and stays, or goes on to the next. The recursive call
  `send_datagram` finds the hop it was just told of, so it only sends. A frame with an
  IPv4 datagram changes nothing.
* **Wire formats.** A header is a layout (the order and lengths of its fields) and
  what `parse` and `serialize` do around it. The parser's error is sticky, and every
  header keeps both results of the code: what its own `parse` returns and what the
  parser remembers. `IPv4Datagram`, `TCPSegment` and `EthernetFrame` only look at the
  second, and so does the model. A 32-bit number is the pair of its halves, so that
  the checksum stays within TLC's integers.
* **Adapters.** A packet is built by the sender's own `serialize`, may have a byte
  changed or its length changed, and is then read by the code's `parse`. `Read` and
  `Write` are those of the three adapters; the second outcome of each is the lossy
  adapter's, which drops what was read but cannot undo that the inner adapter has
  bound itself. Of the Ethernet adapter's interface only the entry of the one next
  hop is kept, as that is all the adapter ever sends to; its timers, whose values are
  `NetworkInterface`'s subject, fire at any time. `FdWrite` and `FdWriteLoop` are
  `FileDescriptor::write`, with a kernel that takes any positive part.
* **Event loop and socket.** One `Poll` is `wait_next_event` up to the return of
  `poll()`: cancellations and interests in the order of the rules, the exit, the
  time-out. One `Serve` handles one result, so that the other thread may come between
  any two callbacks; what is ready was decided at the `poll()`, as in the code. After
  the last one `tick` is called. `connect` and `listen_and_accept` run the same loop
  in the owner's thread until the connection's state says otherwise. A write to a
  socket that is shut down kills the process, and so does the loop's exception for a
  busy wait. `wait_until_closed`, `Destruct` and `Join` are the owner's end,
  `ThreadShutdown` and `ThreadReset` the thread's. The rules of
  `bidirectional_stream_copy` run on the same operators of the loop.
  A hangup reported for a rule that asked for nothing lets the code's loop turn
  without effect; the model stays where it is.

## 3. The runs

Passing runs:

| Run | Checks | Bounds |
|---|---|---|
| `sequence_numbers` | `UnwrapIsClosest`, `UnwrapUndoesWrap` | space of 8, absolute numbers to 26: three wraps, all initial numbers and checkpoints |
| `sender` | the queue of outstanding segments covers exactly what is unacknowledged; bytes in flight, timer, FIN and window agree with it; a retransmission is of the oldest segment; nothing waits with nothing to set it in motion; what stays unacknowledged is retransmitted for ever or given up | space of 16 with the initial number close to its end, payloads of 2, capacity 3, 5 bytes, windows 0, 1, 2, 4, every one of the 16 acknos |
| `reassembler` | order, completeness and end of the output; calls return | stream of 7, capacity 5, at most 4 stored datagrams; every non-empty substring; every one of at most two bytes, the empty ones included; and each of the 64 ways to cut the stream once, also with the end in an empty substring of its own |
| `receiver` | ackno and window against what was written to the output | stream of 9, capacity 6, space of 32; three peers: FIN alone, FIN on the last bytes, empty acknowledgments between |
| `system_streams` | `ReliableDelivery` (the system implements `ReliableStream`), `AckedIsDelivered`, `CleanCloseIsComplete` | 2 bytes one way, one segment lost or one delivered twice |
| `system_closing` | `BothEnd`; without faults `NeverReset` and `InOfficialState` | no data with one loss, one repetition and one early timeout; one byte each way, and two bytes one way, without faults |
| `interface` | `NothingLost`, `WaitsForAnswer`, `MappingIsFresh`, `RepeatedInTime`, `KeepsAsking` | two hops, two other hosts, 2 datagrams to each hop, every ARP message; times 4 and 3, ticks 1 and 2 |
| `adapters` | `DeliveredAsSent`: what is delivered is what was sent; `OnlyOurPeer` and `IntactIsHeard`: exactly the peer is heard; `RepliesReachPeer`; `WritesWhole` | three adapters, listening (on any or on its own address) or bound; three remote addresses, three contacted ones; a SYN with options, three bytes of data, a segment with SYN and RST; any one byte of a packet changed by 6 or by 128, any length from nothing to two more; two segments waiting for the next hop |
| `socket` | `DeliveredInFull`, `CancelChangesNothing`, `NeverKilled`, `WaitMeansClosed`, and `OwnerReturns` | owners that copy, fetch or give up at any moment; a peer that answers, resets at any moment or does not exist; up to two bytes down and three up; pipe, copy buffers and send capacity of one byte, so that every write is partial |

Some properties hold under conditions that are part of their statement, and that
the module names: `InWindow` (no substring beyond the capacity), `NoneEmpty` (no empty
substring, except one that carries the end), `CutOnce` (a sender repeats whole
substrings), `OnlyStream` (no empty segments), `FinRides` (FIN with the last byte), `Faultless` (no loss,
repetition or early timeout so far). Without the condition the code does
something else, and section 5 says what.

Why the bounds are enough to be interesting: sequence numbers wrap in every run
that uses them; the stream is longer than the capacity, so that the window closes
and opens again; the sender sees all acknos, old, partial, exact and beyond, and
windows smaller and larger than what is in flight; the substrings overlap in all
ways that intervals can; `linger_factor = 2` and `MAX_RETX_ATTEMPTS = 1` keep
lingering shorter than the time until a sender gives up, as in the code, where
they are 10 and 8 and where `system_linger` uses them.

**Deadlock** is not checked where the system may stop: when the bounded stream has
been delivered and read (`reassembler`, `receiver`), both connections have ended
(the system's runs), or the owner is done (`socket`).

**Fairness.** The sender and the interface are ticked again and again by the loop
that owns them (`_tcp_loop` in `tcp_sponge_socket.cc`): weak fairness of a tick
with a positive time, and of nothing else. In the system, `FairSpec` says that
the applications go on, that the network delivers what it does not lose and that
time passes: each thread comes back to `poll()` and `tick()`. Which endpoint
comes next is left open. In `SpongeSocket`, both threads and the peer go on when
they can (they are threads of the kernel, and `poll()` returns when a descriptor is
ready or its time is over), and something arrives at standard input at some time:
without it the copying loop, which polls with no time-out, rightly waits for ever.
The peer's reset and the owner's giving up are not fair: they may never happen. A peer
that exists goes on and in the end closes its stream; `OwnerReturns` says nothing of one
that does not, for which `tcp_sponge_socket.hh:65` announces that the wait may be for ever.

Runs that show where the code and its documentation disagree. Each one checks a
single property, taken from the quoted line:

| Run | What happens |
|---|---|
| `receiver_fin_lost` | A FIN that arrives at a closed window is dropped by the reassembler and acknowledged by the receiver; the stream never ends. |
| `system_hang` | Over a network that only reorders, a stored segment followed by an empty acknowledgment with the same number sends `missing_middle_handler` round for ever. |
| `system_linger` | After both streams have ended, a late acknowledgment raises the lingering side's `abs_seqno` past the FIN. Its later acknos are beyond what the peer has sent; the peer ignores them and is left retransmitting. |

## 4. The proofs

The proofs hold for every value of the constants that the named assumptions allow;
the runs check the same definitions on small instances. TLC was also given each inductive
invariant, `SafetyInv` of the whole system included, on the instance of its component's run.

| Module | Holds |
|---|---|
| `StreamInvariants`, `SenderInvariants`, `ConnectionInvariants`, `TCPSystemInvariant` | definitions only: invariants of a reassembler and a receiver, of a sender, of one direction of a connection, of the system, and the relations between a record before and after a call |
| `StreamLemmas` | induction on naturals and on prefixes, arithmetic modulo `SeqSize`, sequences, `Bytes`, byte streams, segments, the first parts of the reassembler |
| `ReassemblerLemmas` | what `push_substring`, the loops below it and `TCPReceiver::segment_received` do to a reassembler and a receiver |
| `SenderLemmas` | what each method of `TCPSender` does to the record of its members |
| `ConnectionLemmas` | what the handlers of `TCPConnection` do to each direction |
| `ReassemblerReceiverProofs` | `unwrap`; the reassembler's invariants; the receiver's invariants and its action property |
| `SenderInterfaceProofs` | the network interface; the sender's invariants and action properties |
| `TCPSystemProofs` | two connections over a bad network |
| `ReliableStreamProofs` | that they implement `ReliableStream` |

**Induction.** The prover cannot instantiate the library's induction theorems, whose
parameter is an operator. `StreamLemmas` goes another way: `WFMin` gives every non-empty
set of naturals a least element (`LeastElement`), and from that a set that holds 0 and,
with every number, the next one holds all of them (`SetInduction`). A recursive function
of the model is unfolded by showing, by that induction on the bound of its domain, that a
function with its equation exists (`SumsIs`, `RoundsIs`, `ScansIs`, `PushesIs`). What its
last value is then follows by induction on the number of rounds.

### Sequence numbers

For every even `SeqSize`, initial number and checkpoint, `unwrap` returns a number that
wraps to its argument and no natural number that does so is closer
(`UnwrapReturnsTheClosest`); within less than half the space of the checkpoint it undoes
`wrap` (`UnwrapInvertsWrap`). The argument: the signed distance of two wrapped numbers is
congruent to that of the absolute ones and lies in `-Half .. Half - 1`
(`DistanceCongruent`); two numbers congruent modulo `SeqSize` are equal or at least
`SeqSize` apart (`Multiple`); a result below zero is moved up by one `SeqSize`, and then
nothing lower is a candidate. Assumed: `SeqSize` is even and positive.

### Network interface

For any sets of hosts, any times to live and any ticks, the invariants of the interface's
run. `TypeOK` is inductive by itself; the point is that no time to live, which is
unsigned in the code, goes below one. `WaitsForAnswer` is inductive with it.
`NothingLost` is not inductive alone: a datagram sent to a known hop would overtake those
that wait for that hop; it needs `WaitsForAnswer`, by which none does. The walk over the
list has an invariant of its own (`Flushing`): what was sent, followed by what is left for
the hop, is what waited for it; nothing before the cursor is for the hop; for every other
hop the list still says the same. As a turn either shortens the list or moves the cursor,
as many turns as the list is long are enough (`FlushIs`).
`MappingIsFresh` and `RepeatedInTime` each tie a time to live to the history of what was
heard and asked, and are inductive with `TypeOK`. Assumed: `InterfaceAssumption` (the
host's own addresses differ from the others', times are positive).

### Sender

All five invariants of the run and both its action properties, for every payload size,
capacity, initial number and stream, and for every sequence of acknos and windows. None
of them is inductive. `SenderOK` adds what the code relies on without saying so:

* `QueueInv`: there is a function `pos` such that the i-th outstanding segment carries
  the stream from the absolute number `pos[i]` on, ends where the next one begins, and the
  last ends at `_next_seqno`; `confirmed_seqno` lies within the first one; bytes in
  flight is `_next_seqno - pos[1]`. The segments themselves hold only wrapped numbers:
  `ack_received` unwraps them around `_next_seqno`, and the proof that it drops
  exactly the covered ones needs that all of them lie within half the space. This is where
  the windows must not exceed a quarter of the numbers (`MachineAssumption`: 16 bits
  against 32).
* `NumberedInv`: what has been numbered is what has been read from the stream.
* `MovingInv` and `TimerInv`: nothing waits, and the timer stands, only with an empty queue.

`fill_window` is treated by its three branches; the loop over payloads by induction on
its rounds (`FillPayloads`), with `Sent` as the relation between the sender before and
after that composes over rounds. `ack_received` and `tick` follow.

### Reassembler

`OutputIsPrefix` for every set of substrings within the window, overlapping, empty or
repeated. `OutputIsContiguous` for every set of non-empty ones, overlapping or repeated (an
empty one may carry the end of the stream): `NoneEmpty` is part of its statement, as an
empty substring really does hold up what is behind it (section 5). `CallsReturn` and
`EndIsRemembered` likewise, and for streams that were cut once. The inductive invariant `ReassembledInv` says:

* `ReassemblerInv`: the index is the number of bytes written; the output has ended only
  at the last byte; what is stored is sorted and each datagram is a piece of the stream
  below the limit (bytes read plus capacity);
* the bytes that are written or stored are those that were pushed (`Known`);
* `Settled`: every stored datagram begins beyond the index or is already written. This is
  what makes the output contiguous, and holds between calls only: inside a call, the
  recursion at `stream_reassembler.cc:63` is still at work (`Calm`);
* `ReassemblerCut`, if the stream was cut once: what is stored are parts of that cut, the
  index never stands inside one of them, and the end is known once the part that carries it
  has been written.

The scan of `missing_middle_handler` gets an invariant of its own (`ScanInv`) and a
measure (`RoundsLeft`: the length of the list, then the distance to its end) that shows
that the bound on its rounds is enough: it ends by itself or is the scan that hangs. The
recursion of `push_substring` ends because every call takes a stored datagram.

`missing_middle_handler` is where proving changed the model: the list is erased and
sorted by `erase` and `sorted_insert`, written over positions, instead of by operators of
the community modules that the prover does not know. Both state what the code's
`erase`, `push_front` and `sort` do.

### Receiver

`AckedIsWritten` for every peer; `AckFollowsOutput`, `AckIsExact` and
`WindowNeverShrinks` for the peers they speak of; for every capacity, stream and initial
number, with segments repeated and reordered at will. The invariant has two layers.
`Sound` needs nothing but `ReassemblerInv`: the number that is expected is at most one
beyond what was written, or everything was written. `Exact`, for a peer that sends nothing
but its stream, takes up the reassembler's `Settled` and `ReassemblerCut`: the number is
exactly one beyond, until the FIN counts, and with the FIN on the last byte it counts
when the output ends. A segment is either the expected one or changes only what is stored;
that the second kind never moves the output is `Settled` with the fact that the index stands
at a boundary of the cut (`OtherSegment`). `WindowNeverShrinks` is not a consequence of
`Sound` alone: written bytes close the window, and only the exact number makes up for them.

Assumed (`ReceiverAssumption`): the stream is shorter than half the numbers, as any of its
segments may come again at any time; the peer's segments are the SYN, parts of the
stream, the FIN with or after the last byte, or empty; parts do not overlap, as
`TCPSender` sends again what it has sent.

### The system

`AckedIsDelivered`, `CleanCloseIsComplete` and the refinement `ReliableDelivery`, for all
capacities, initial numbers and streams, and for any number of losses, repetitions and
early timeouts: the network is a set from which a segment may be delivered now, later,
again or never. The inductive invariant is `SafetyInv`. It looks at each direction by
itself (`Flow`): a sender `s`, the peer's receiver `r`, the segments `D` on their way to
`r` and `A` on their way to `s`.

* `SenderOK(s)`, the invariant of the sender's own theorems. It holds for every ackno and
  window, so that nothing has to be known of the peer to use it again here.
* `InTransit`: whatever is in `D` is a RST, carries the part of the stream that its number
  says, or is empty and has a number that `s` has reached. It stays so for ever, as `s` never
  changes what it has numbered: this is what makes delays and repetitions harmless.
* `Agree(s, r, A, L, i)`: for a stream of `L` bytes, `r` is `Sound` (the receiver's
  invariant); what `s` takes for confirmed has arrived; what `s` has numbered, and the
  window it has been given, fit into the room of `r`; and each segment in `A` acknowledges
  no more than has arrived and offers no more room than there is (`Acks`). A segment in `A`
  may be old: it still says no more than the truth, because what has arrived only grows, and
  so does the right edge of the room, which is the capacity beyond what has been read.

The length `L` is the point where the two machines do not meet: the receiver's invariant
speaks of a stream whose length is fixed, while here the application still writes.
`Totals(s, M)` are the lengths that the stream may still turn out to have: any one from
what has been read from it to one more than will be written, and exactly one once FIN was
sent. `Flow` asks `Agree` for each of them. What holds for two lengths cannot depend on
either: so a receiver that has seen the end while FIN was not sent would have written both
`M` and `M + 1` bytes, and a byte that the sender counts as confirmed must have been
written (`FlowDelivers`).

A call of the connection is followed through its parts (`segment_received`: reset,
receiver, lingering, acknowledgment, answer, `send_segments_out`; `tick` with the abort),
each of which keeps `ConnAt`: what waits in the queue is what the sender sent, stamped by
the receiver as it is now. `EndpointStep` then moves both directions at once: the segments
that leave an endpoint are data for one and acknowledgments for the other.

Refinement: `Write` is `Send`, `EndInputStream` is `EndStream`, every other step of an
endpoint is `Receive` (with nothing read, unless it is `Read`), and a loss is none. The
step conditions of `ReliableStream` follow from `Seen`, which is what `SafetyInv` says to
the application.

Assumed (`SystemAssumption`, `ConnectionAssumption`): what each application writes, and the handshake, take up
less than half of the numbers (2^31 in the code) because a segment may be held for ever
and come again; without a bound on the life of a segment the statement is not true of TCP.
The largest window is at most a quarter of the numbers (16 bits against 32). As the
runs check the assumption too, their `WinMod` is 4 for a space of 16, and 8 for one of 32
in the socket's run.

`connection_write` and `end_input_stream` name the stream they change twice, as the prover
misreads an `@` inside the EXCEPT of another; the meaning is the same.

### Only model-checked

* All liveness properties (`RetransmitsUntilAcked`, `BothEnd`, `KeepsAsking`,
  `OwnerReturns`): the prover has no ENABLED and no fairness.
* `NeverReset` and `InOfficialState`. They speak of runs without faults so far, in which
  the order of events matters: the timers of both sides against each other, and which
  segments can still be on their way in each of the twelve states. An inductive invariant
  would have to list these states; TLC does.
* The adapters (`DeliveredAsSent`, `OnlyOurPeer`, `IntactIsHeard`, `RepliesReachPeer`,
  `WritesWhole`), whose model computes layouts and checksums over bytes: that a changed byte
  changes the checksum holds for particular layouts and lengths, not for all constants.
* The socket (`DeliveredInFull`, `CancelChangesNothing`, `NeverKilled`, `WaitMeansClosed`):
  these tie the positions of two threads in their loops to the state of the connection.
* The bounds `MaxBytes` and `MaxStored` are guards of the model; the theorems hold for
  every value of them.

## 5. Further observations

Met while translating the code, and not the subject of a run of their own:

* `StreamReassembler::empty()` (`L/stream_reassembler.cc:185`) returns the count
  of unassembled bytes as a bool: true when something waits, where
  `L/stream_reassembler.hh:95` says the opposite. Nothing calls it.
* Overlapping datagrams stored side by side are counted twice by
  `unassembled_bytes()` (`.hh:90` says once), and what is stored may exceed the
  capacity (`.hh:68`).
* `overlap_merger` (`.cc:158`) keeps the first datagram's eof flag only: with
  overlapping substrings the end of the stream may be forgotten. This is why
  `EndIsRemembered` asks for `CutOnce`.
* An empty substring is stored like any other and stops the recursion at
  `.cc:60`: contiguous bytes stay behind. Next to a stored datagram with the same index
  it sends the scan round for ever (`system_hang`). `TCPReceiver::segment_received`
  does push empty ones (`L/tcp_receiver.cc:43`), one for every empty acknowledgment.
  This is why `OutputIsContiguous`, `EndIsRemembered` and `CallsReturn` ask for
  `NoneEmpty`, and `AckFollowsOutput` for `OnlyStream`.
* `connect()` waits for the end of `SYN_SENT` (`tcp_sponge_socket.cc:225`). If
  the SYN/ACK is lost, the answer to the repeated SYN is an empty acknowledgment
  that ends that state while the peer's SYN is still missing. That combination has
  no name, and neither have some that follow a repeated segment of the handshake:
  `InOfficialState` speaks of runs without faults only.
* After a repeated ARP request the loop takes the elapsed time off the new wait at
  once (`network_interface.cc:141`), so the next one comes up to one tick early.
* `overlap_handler` (`L/stream_reassembler.cc:178`) advances the index by everything
  it was given, also by bytes that the output had no room for. For an overlapping
  substring that reaches beyond the capacity the output then skips bytes, where
  `.hh:75` says "Bytes that would exceed the capacity are silently discarded". A
  sender that keeps to the window sends no such substring; `InWindow` says so, and the
  reassembler's properties say nothing of any other.
* A single `NetworkInterface::tick` of five seconds or more with a request pending
  renews the entry and finds it due again, for ever (`network_interface.cc:130`). The
  ticks of the run are shorter, as are those of `_tcp_loop`.
* The connection's destructor queues a RST that is destroyed with the queue, while
  `tcp_sponge_socket.hh:75` says that a destructed socket "will send a RST".
* A passive closer whose own FIN still waits for the window lingers in a combination
  of states that has no name (`CLOSE_WAIT_LINGERS` in `TCPSystem`).
* After a reset with bytes left in the inbound stream, rule 3 shuts the pipe down and
  stays interested: the next pass writes to it, and SIGPIPE ends the process. The same
  happens to a copying owner that writes after the thread has shut the pipe down.
  `NeverKilled` therefore speaks of connections that were not reset.
* A reset that arrives in a pass does not stop rule 2 of the same pass from writing
  into the dead connection; nothing is sent.
* `connect()` reports success when it returns because the connection was given up
  (`tcp_sponge_socket.cc:226`): any state but `SYN_SENT` ends its loop.
* When both directions of the pipe are shut down, `poll()` reports the hangup also to
  rules that asked for nothing, and the loop turns without waiting until the
  connection has ended.
* `IPv4Datagram::parse`, `TCPSegment::parse` and `EthernetFrame::parse` ignore what
  their header's `parse` returns. A damaged IPv4 header is caught because its
  addresses and lengths enter the segment's checksum or the later comparisons; a
  changed header length can get through, but only for particular pairs of ports, which
  the run does not use: `DeliveredAsSent` is no statement about all ports. A frame
  that is too short is parsed without an error, into an empty header.
* The Ethernet adapter drops datagrams in frames that were padded to the minimal
  length: the payload's size must match the header's exactly.
* The UDP adapter looks at the ports of the datagram only, not at those inside the
  segment, and binds by remembering the peer, although the comment at
  `fd_adapter.cc:12` speaks of `connect()`.
* The lossy adapter may drop the SYN that a listener has just bound itself to; only
  the same peer's retransmission is then heard.
* The window in a header is 16 bits wide (`tcp_connection.cc:92`): a capacity of
  65536, which the option `-w` of the programs can set, would advertise zero.

## 6. What is not modelled

* **Router and `network_simulator`**: `add_route` and `route_one_datagram` are empty
  in this repository, so there is no routing to model, and the simulator drives
  nothing else.
* **`tcp_benchmark`, `tcp_native`, `udp_tcpdump`, `tun`**: the benchmark runs two
  connections in one thread with a fixed schedule, the second uses the kernel's TCP,
  the others print or copy packets.
* **Command lines, logging, `to_string`, hexdumps, random numbers, the clock.**
* **System calls**: opening tun devices, resolving names, binding and accepting
  kernel sockets; `poll()` failing or being interrupted; errors of descriptors
  (POLLERR, POLLNVAL). The event loop turns them into an exit or an exception.
* **`BufferList::remove_prefix`**, which no program of the repository calls.
* **Numbers of 64 bits** do not overflow within a connection and are unbounded.
* **Faults and threads at once**: `TCPSystem` has the faulty network and atomic rules,
  `SpongeSocket` the threads and a network that keeps everything in order, `Adapters`
  the damage on the wire. Their product is beyond TLC.
