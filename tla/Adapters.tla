-------------------------------- MODULE Adapters --------------------------------
(***************************************************************************)
(* The adapters between a TCPConnection and the world: TCPOverUDPSocket-   *)
(* Adapter, TCPOverIPv4OverTunFdAdapter, TCPOverIPv4OverEthernetAdapter,    *)
(* LossyFdAdapter, and FileDescriptor::write().  Packets are real bytes;    *)
(* on their way, one byte may change or the length may.  Of the            *)
(* NetworkInterface inside the Ethernet adapter only the entries of the     *)
(* next hop are kept, and its timers fire at any time (module              *)
(* NetworkInterface has the whole of it, with frames for bytes).            *)
(***************************************************************************)
EXTENDS WireFormats

CONSTANTS Kinds,          \* adapters to look at: "udp", "tun", "tap"; "stream" for a plain descriptor
          Locals,         \* addresses that the adapter may be configured with
          Remotes,        \* addresses that segments come from
          Contacted,      \* addresses that segments are sent to
          Segments,       \* segments that are sent, in both directions
          Deltas,         \* by how much a byte may change on its way
          Lists,          \* BufferLists to be written to a descriptor
          MaxWaiting      \* datagrams that are written while the next hop is unknown

VARIABLES kind,           \* the adapter
          config,         \* FdAdapterConfig: source and destination
          listening,      \* _listen
          packet,         \* what is about to be read, and what became of it on its way
          heard,          \* what the last read() returned
          first,          \* from and to of the first segment that read() returned
          interface,      \* of the NetworkInterface: the next hop's address, if known, whether it
                          \* was asked for, and the datagrams that wait for it
          out,            \* the packets that the last operation has sent
          written,        \* the segments that out carries, or that wait for the next hop
          writing         \* the FileDescriptor::write() in progress

vars == <<kind, config, listening, packet, heard, first, interface, out, written, writing>>

NoSegment == [none |-> "no segment"]

Dropped == [none |-> "dropped"]

NoPacket == [none |-> "no packet"]

Nobody == [none |-> "nobody"]

Idle == [views |-> <<>>, write_all |-> FALSE, given |-> <<>>, taken |-> <<>>, returned |-> TRUE]

\* Addresses of the Ethernet adapter's interface, of its next hop, and of a third station.
ethernet_address == <<2, 0, 0, 0, 0, 1>>

gateway_address == <<2, 0, 0, 0, 0, 2>>

interface_ip == <<2560, 1>>

next_hop == <<2560, 2>>

third_address == <<2, 0, 0, 0, 0, 3>>

third_ip == <<2560, 3>>

-----------------------------------------------------------------------------
WithPorts(c, seg) == [seg EXCEPT !.header.sport = c.source.port, !.header.dport = c.destination.port]

wrap_tcp_in_ip(c, segment) ==
  LET seg == WithPorts(c, segment)
      h   == [IPv4Header EXCEPT !.src = c.source.ip, !.dst = c.destination.ip,
                                !.len = @ + 20 + seg.header.doff * 4 + size(seg.payload)]
  IN  [header |-> h, payload |-> segment_serialize(seg, pseudo_cksum(h))]

\* What an adapter returns and is left with.
Returns(seg, c, listen) == [seg |-> seg, config |-> c, listening |-> listen]

\* A variant that keeps listening.
filtered_never_bound(c, listen, ip, r) ==
  LET h == r.segment.header
      bound == [source |-> [c.source EXCEPT !.ip = ip.dst], destination |-> [ip |-> ip.src, port |-> h.sport]]
  IN  IF ip.proto # PROTO_TCP \/ r.result # "NoError" \/ h.dport # c.source.port THEN Returns(NoSegment, c, listen)
      ELSE IF "syn" \in h.flags THEN Returns(r.segment, bound, FALSE) ELSE Returns(NoSegment, c, listen)

\* A variant that binds to the sender, but goes on to answer from its own address.
filtered_own_source(c, listen, ip, r) ==
  LET h == r.segment.header
      bound == [c EXCEPT !.destination = [ip |-> ip.src, port |-> h.sport]]
  IN  IF \/ ~ listen /\ (ip.dst # c.source.ip \/ ip.src # c.destination.ip)
         \/ ip.proto # PROTO_TCP \/ r.result # "NoError" \/ h.dport # c.source.port
         \/ listen /\ ("syn" \notin h.flags \/ "rst" \in h.flags)
      THEN Returns(NoSegment, c, listen)
      ELSE Returns(r.segment, IF listen THEN bound ELSE c, FALSE)

\* A variant that wants the datagram to be for its own address even while listening.
filtered_own_address(c, listen, ip, r) ==
  IF ip.dst # c.source.ip THEN Returns(NoSegment, c, listen) ELSE filtered_own_source(c, listen, ip, r)

\* What becomes of a datagram with this header and with a payload that was parsed as r.
\* An address goes through its dotted form and back unchanged.
filtered(c, listen, ip, r) ==
  LET h == r.segment.header
      bound == [source |-> [c.source EXCEPT !.ip = ip.dst], destination |-> [ip |-> ip.src, port |-> h.sport]]
      ignored == Returns(NoSegment, c, listen)
  IN  IF \/ ~ listen /\ (ip.dst # c.source.ip \/ ip.src # c.destination.ip)
         \/ ip.proto # PROTO_TCP
         \/ r.result # "NoError"
         \/ h.dport # c.source.port
      THEN ignored
      ELSE IF listen
      THEN IF "syn" \in h.flags /\ "rst" \notin h.flags THEN Returns(r.segment, bound, FALSE) ELSE ignored
      ELSE IF h.sport # c.destination.port THEN ignored
      ELSE Returns(r.segment, c, FALSE)

unwrap_tcp_in_ip(c, listen, dgram) ==
  filtered(c, listen, dgram.header, segment_parse(as_buffer(dgram.payload), pseudo_cksum(dgram.header)))

\* TCPOverUDPSocketAdapter::read(): the ports inside the segment are not looked at.
udp_read(c, listen, from, bytes) ==
  LET ignored == Returns(NoSegment, c, listen)
      parsed(r) ==
        IF r.result # "NoError" THEN ignored
        ELSE IF ~ listen THEN Returns(r.segment, c, FALSE)
        ELSE IF "syn" \in r.segment.header.flags /\ "rst" \notin r.segment.header.flags
        THEN Returns(r.segment, [c EXCEPT !.destination = from], FALSE)
        ELSE ignored
  IN  IF ~ listen /\ from # c.destination THEN ignored ELSE parsed(segment_parse(Buffer(bytes), 0))

\* TCPOverIPv4OverTunFdAdapter::read()
tun_read(c, listen, bytes) ==
  LET parsed(d) == IF d.result # "NoError" THEN Returns(NoSegment, c, listen)
                   ELSE unwrap_tcp_in_ip(c, listen, d.datagram)
  IN  parsed(datagram_parse(Buffer(bytes)))

-----------------------------------------------------------------------------
\* The Ethernet adapter.  NetworkInterface, as far as the next hop is concerned:
NoInterface == [known |-> FALSE, address |-> NoEthernetAddress, asked |-> FALSE, waiting |-> <<>>]

make_ARP(opcode, target_ethernet, target_ip) ==
  [hardware_type |-> 1, protocol_type |-> TYPE_IPv4, hardware_address_size |-> 6, protocol_address_size |-> 4,
   opcode |-> opcode, sender_ethernet_address |-> ethernet_address, sender_ip_address |-> interface_ip,
   target_ethernet_address |-> target_ethernet, target_ip_address |-> target_ip]

Frame(dst, src, type, payload) ==
  concatenate(frame_serialize([header |-> [dst |-> dst, src |-> src, type |-> type], payload |-> payload]))

ARPRequest ==
  Frame(ETHERNET_BROADCAST, ethernet_address, TYPE_ARP,
        <<Buffer(arp_serialize(make_ARP(OPCODE_REQUEST, NoEthernetAddress, next_hop)))>>)

ToNextHop(address, dgram) == Frame(address, ethernet_address, TYPE_IPv4, datagram_serialize(dgram))

\* send_datagram() to the next hop: the interface and the frames sent.
send_datagram(i, dgram) ==
  IF i.known THEN [interface |-> i, frames |-> <<ToNextHop(i.address, dgram)>>]
  ELSE [interface |-> [i EXCEPT !.asked = TRUE, !.waiting = Append(@, dgram)],
        frames |-> IF i.asked THEN <<>> ELSE <<ARPRequest>>]

\* recv_frame() of an ARP message: the reply if one is due, then the datagrams that waited.
recv_arp(i, buffer) ==
  LET learnt(m) == [known |-> TRUE, address |-> m.sender_ethernet_address, asked |-> FALSE, waiting |-> <<>>]
      reply(m) == Frame(m.sender_ethernet_address, ethernet_address, TYPE_ARP,
                        <<Buffer(arp_serialize(make_ARP(OPCODE_REPLY, m.sender_ethernet_address, m.sender_ip_address)))>>)
      flushed(m) == [k \in 1 .. Len(i.waiting) |-> ToNextHop(m.sender_ethernet_address, i.waiting[k])]
      valid(m, request, response) ==
        LET learns == (request \/ response) /\ m.sender_ip_address = next_hop
        IN  [interface |-> IF learns THEN learnt(m) ELSE i,
             frames |-> (IF request THEN <<reply(m)>> ELSE <<>>) \o (IF learns THEN flushed(m) ELSE <<>>)]
      parsed(r, m) ==
        IF r # "NoError" THEN [interface |-> i, frames |-> <<>>]
        ELSE valid(m, m.opcode = OPCODE_REQUEST /\ m.target_ip_address = interface_ip,
                      m.opcode = OPCODE_REPLY /\ m.target_ethernet_address = ethernet_address)
      received(r) == parsed(r.result, r.message)
  IN  received(arp_parse(buffer))

\* TCPOverIPv4OverEthernetAdapter::read(): what recv_frame() makes of the frame, then
\* send_pending(), then the datagram if there was one.
tap_read(i, c, listen, bytes) ==
  LET nothing == Returns(NoSegment, c, listen)
      datagram(d) == [read |-> IF d.result = "NoError" THEN unwrap_tcp_in_ip(c, listen, d.datagram) ELSE nothing,
                      interface |-> i, frames |-> <<>>]
      message(arp) == [read |-> nothing, interface |-> arp.interface, frames |-> arp.frames]
      parsed(result, h, payload) ==
        IF result = "NoError" /\ h.dst \in {ethernet_address, ETHERNET_BROADCAST} /\ h.type = TYPE_IPv4
        THEN datagram(datagram_parse(payload))
        ELSE IF result = "NoError" /\ h.dst \in {ethernet_address, ETHERNET_BROADCAST} /\ h.type = TYPE_ARP
        THEN message(recv_arp(i, payload))
        ELSE [read |-> nothing, interface |-> i, frames |-> <<>>]
      received(f) == parsed(f.result, f.frame.header, as_buffer(f.frame.payload))
  IN  received(frame_parse(Buffer(bytes)))

-----------------------------------------------------------------------------
NoAddress == [ip |-> <<0, 0>>, port |-> 0]

\* connect() names both ends; listen_and_accept() leaves the peer open, and the own
\* address may be 0.
Init ==
  /\ kind \in Kinds
  /\ listening \in BOOLEAN
  /\ \E own \in Locals, peer \in Remotes :
       /\ own.ip = NoAddress.ip => listening
       /\ config = [source |-> own, destination |-> IF listening THEN NoAddress ELSE peer]
  /\ packet = NoPacket /\ heard = NoSegment /\ first = Nobody
  /\ interface = NoInterface /\ out = <<>> /\ written = <<>> /\ writing = Idle

\* The bytes that write() of the UDP and of the tun adapter gives to the kernel.
serialized(c, seg) ==
  concatenate(IF kind = "udp" THEN segment_serialize(WithPorts(c, seg), 0) ELSE datagram_serialize(wrap_tcp_in_ip(c, seg)))

\* The bytes of a segment from another host, whose adapter is of the same kind.
Sent(c, seg) ==
  IF kind = "tap"
  THEN Frame(ethernet_address, gateway_address, TYPE_IPv4, datagram_serialize(wrap_tcp_in_ip(c, seg)))
  ELSE serialized(c, seg)

\* The packets of an earlier operation are gone.
Settled ==
  /\ packet = NoPacket
  /\ out' = <<>>
  /\ written' = IF interface.waiting = <<>> THEN <<>> ELSE written

Arrive(from, to, seg) ==
  /\ kind \in {"udp", "tun", "tap"}
  /\ Settled
  /\ LET c == [source |-> from, destination |-> to]
     IN  packet' = [bytes |-> Sent(c, seg), from |-> from, to |-> to, seg |-> WithPorts(c, seg), fate |-> "intact"]
  /\ heard' = NoSegment
  /\ UNCHANGED <<kind, config, listening, first, interface, writing>>

\* The next hop asks or answers; a third station asks.
ARPs ==
  { [make_ARP(opcode, IF opcode = OPCODE_REPLY THEN ethernet_address ELSE NoEthernetAddress, interface_ip)
      EXCEPT !.sender_ethernet_address = who[1], !.sender_ip_address = who[2]] :
    opcode \in {OPCODE_REQUEST, OPCODE_REPLY}, who \in {<<gateway_address, next_hop>>, <<third_address, third_ip>>} }

ArriveARP(arp) ==
  /\ kind = "tap"
  /\ Settled
  /\ packet' = [bytes |-> Frame(IF arp.opcode = OPCODE_REPLY THEN ethernet_address ELSE ETHERNET_BROADCAST,
                                arp.sender_ethernet_address, TYPE_ARP, <<Buffer(arp_serialize(arp))>>),
                from |-> Nobody, fate |-> "arp"]
  /\ heard' = NoSegment
  /\ UNCHANGED <<kind, config, listening, first, interface, writing>>

\* On its way, a segment's packet has one byte changed, or (not inside a UDP datagram,
\* which arrives whole) loses bytes at its end, or is padded.  What the interface knows
\* makes no difference to it.
Damage(i, d) ==
  /\ packet # NoPacket /\ packet.fate = "intact" /\ interface = NoInterface
  /\ i \in 1 .. Len(packet.bytes)
  /\ packet' = [packet EXCEPT !.bytes[i] = (@ + d) % 256, !.fate = "changed"]
  /\ UNCHANGED <<kind, config, listening, heard, first, interface, out, written, writing>>

CutOrPad(n) ==
  /\ kind # "udp"
  /\ packet # NoPacket /\ packet.fate = "intact" /\ interface = NoInterface
  /\ n \in 0 .. Len(packet.bytes) + 2 /\ n # Len(packet.bytes)
  /\ packet' = [packet EXCEPT !.bytes = resize(@, n), !.fate = "resized"]
  /\ UNCHANGED <<kind, config, listening, heard, first, interface, out, written, writing>>

\* A segment without its checksum, and with the bytes of its payload only.
Plain(seg) == [header |-> [seg.header EXCEPT !.cksum = 0], payload |-> str(seg.payload)]

\* read() of the adapter, and what the interface inside it sends.
adapter_read ==
  CASE kind = "udp" -> [read |-> udp_read(config, listening, packet.from, packet.bytes),
                        interface |-> interface, frames |-> <<>>]
    [] kind = "tun" -> [read |-> tun_read(config, listening, packet.bytes),
                        interface |-> interface, frames |-> <<>>]
    [] kind = "tap" -> tap_read(interface, config, listening, packet.bytes)

\* The LossyFdAdapter around it may drop what was read, but not undo what reading it
\* has changed.
Take(r) ==
  /\ config' = r.read.config
  /\ listening' = r.read.listening
  /\ interface' = r.interface
  /\ out' = r.frames
  /\ \/ heard' = IF r.read.seg = NoSegment THEN NoSegment
                 ELSE [seg |-> Plain(r.read.seg), sent |-> Plain(packet.seg),
                       from |-> packet.from, to |-> packet.to]
     \/ kind # "tap" /\ heard' = Dropped
  /\ first' = IF first = Nobody /\ heard' \notin {NoSegment, Dropped}
               THEN [from |-> packet.from, to |-> packet.to] ELSE first
  /\ packet' = NoPacket
  /\ UNCHANGED <<kind, written, writing>>

Read == packet # NoPacket /\ Take(adapter_read)

\* write(): TCPOverUDPSocketAdapter, TCPOverIPv4OverTunFdAdapter and LossyFdAdapter.
Write(seg) ==
  /\ kind \in {"udp", "tun"}
  /\ ~ listening /\ packet = NoPacket
  /\ \/ out' = <<serialized(config, seg)>> /\ written' = <<WithPorts(config, seg)>>
     \/ out' = <<>> /\ written' = <<>>
  /\ heard' = NoSegment
  /\ UNCHANGED <<kind, config, listening, packet, first, interface, writing>>

\* write() and send_pending() of the Ethernet adapter.
WriteEthernet(seg) ==
  /\ kind = "tap"
  /\ ~ listening /\ packet = NoPacket /\ Len(interface.waiting) < MaxWaiting
  /\ LET s == send_datagram(interface, wrap_tcp_in_ip(config, seg))
     IN  interface' = s.interface /\ out' = s.frames
  /\ written' = Append(IF interface.waiting = <<>> THEN <<>> ELSE written, WithPorts(config, seg))
  /\ heard' = NoSegment
  /\ UNCHANGED <<kind, config, listening, packet, first, writing>>

\* tick() and send_pending(): the entry of the next hop expires, or it is asked again.
Tick ==
  /\ kind = "tap"
  /\ packet = NoPacket
  /\ \/ interface.known /\ interface' = NoInterface /\ out' = <<>> /\ written' = <<>>
     \/ interface.asked /\ out' = <<ARPRequest>> /\ UNCHANGED <<interface, written>>
  /\ heard' = NoSegment
  /\ UNCHANGED <<kind, config, listening, packet, first, writing>>

-----------------------------------------------------------------------------
\* FileDescriptor::write(buffer, write_all) to a descriptor that takes what it likes.
FdWrite(list, write_all) ==
  /\ kind = "stream"
  /\ writing.returned
  /\ writing' = [views |-> BufferViewList(list), write_all |-> write_all, given |-> concatenate(list), taken |-> <<>>, returned |-> FALSE]
  /\ UNCHANGED <<kind, config, listening, packet, heard, first, interface, out, written>>

FdWriteLoop(bytes_written) ==
  /\ kind = "stream"
  /\ ~ writing.returned
  /\ bytes_written \in 0 .. views_size(writing.views)
  /\ bytes_written = 0 => views_size(writing.views) = 0
  /\ LET left == views_remove_prefix(writing.views, bytes_written)
     IN  writing' = [writing EXCEPT !.views = left,
                                    !.taken = @ \o SubSeq(joined(writing.views), 1, bytes_written),
                                    !.returned = ~ (writing.write_all /\ views_size(left) > 0)]
  /\ UNCHANGED <<kind, config, listening, packet, heard, first, interface, out, written>>

Next ==
  \/ \E from \in Remotes, to \in Contacted, seg \in Segments : Arrive(from, to, seg)
  \/ \E arp \in ARPs : ArriveARP(arp)
  \/ packet # NoPacket /\ \E i \in 1 .. Len(packet.bytes), d \in Deltas : Damage(i, d)
  \/ packet # NoPacket /\ \E n \in 0 .. Len(packet.bytes) + 2 : CutOrPad(n)
  \/ Read
  \/ \E seg \in Segments : Write(seg) \/ WriteEthernet(seg)
  \/ Tick
  \/ \E list \in Lists, write_all \in BOOLEAN : FdWrite(list, write_all)
  \/ \E n \in 0 .. views_size(writing.views) : FdWriteLoop(n)

Spec == Init /\ [][Next]_vars

-----------------------------------------------------------------------------
\* What read() gives to the connection is what the other host sent: no damage to a
\* single byte and no change of length makes it another segment, in spite of the
\* errors of the headers' parsers that IPv4Datagram::parse(), TCPSegment::parse() and
\* EthernetFrame::parse() do not look at. It is said of the ports in Remotes and Contacted:
\* with the error ignored at ipv4_datagram.cc:13, a changed IPv4 header length moves where
\* the segment begins, and for particular other pairs the checksum does not notice.
DeliveredAsSent == heard \notin {NoSegment, Dropped} => heard.seg = heard.sent

\* A connection hears one peer only, the one of the first segment it was given, which
\* is the one it answers: nobody else's segment is delivered, and no later SYN binds
\* the adapter to another.
OnlyOurPeer ==
  heard \notin {NoSegment, Dropped} =>
    /\ heard.from = first.from /\ heard.from = config.destination /\ ~ listening
    /\ kind # "udp" => heard.to = config.source

\* Nothing that comes unharmed from the peer to the bound address is refused, and nor
\* is a SYN by a listener, whatever address of the host it was sent to.
IntactIsHeard ==
  [][ (packet # NoPacket /\ packet' = NoPacket /\ packet.fate = "intact" /\ packet.to.port = config.source.port
            /\ (IF listening THEN "syn" \in packet.seg.header.flags /\ "rst" \notin packet.seg.header.flags
                ELSE packet.from = config.destination /\ (kind # "udp" => packet.to.ip = config.source.ip)))
      => heard' # NoSegment ]_vars

\* What the peer's adapter, which contacted the address that first.to says, hears in a
\* packet of ours.
PeerHears(bytes) ==
  LET c == IF first = Nobody THEN [source |-> config.destination, destination |-> config.source]
           ELSE [source |-> first.from, destination |-> first.to]
      framed(f) == IF f.header.dst = gateway_address /\ f.header.type = TYPE_IPv4
                   THEN tun_read(c, FALSE, str(as_buffer(f.payload))).seg ELSE NoSegment
  IN  IF kind = "udp" THEN udp_read(c, FALSE, c.destination, bytes).seg
      ELSE IF kind = "tun" THEN tun_read(c, FALSE, bytes).seg
      ELSE framed(frame_parse(Buffer(bytes)).frame)

\* The segments given to write() reach the peer as they were written, once each and in
\* their order, even when they had to wait for the next hop's Ethernet address and
\* when the peer had contacted an address that the listener was not configured with.
RepliesReachPeer ==
  LET AsWritten(segs) == /\ Len(segs) = Len(written)
                         /\ \A i \in 1 .. Len(segs) : Plain(segs[i]) = Plain(written[i])
  IN  interface.waiting = <<>> /\ out # <<>> /\ written # <<>>
      => AsWritten(SelectSeq([i \in 1 .. Len(out) |-> PeerHears(out[i])], LAMBDA seg : seg # NoSegment))

\* FileDescriptor::write() passes on the bytes of all its buffers, in order, each once,
\* however the descriptor cuts them up; with write_all it returns only then.
WritesWhole ==
  /\ writing.taken \o joined(writing.views) = writing.given
  /\ writing.returned /\ writing.write_all => writing.taken = writing.given
=============================================================================
