------------------------------ MODULE WireFormats ------------------------------
(***************************************************************************)
(* Bytes on the wire: util/parser, the InternetChecksum of util/util, and  *)
(* parse() and serialize() of tcp_helpers/{tcp_header, tcp_segment,        *)
(* ipv4_header, ipv4_datagram, ethernet_header, ethernet_frame,            *)
(* arp_message}.  An unsigned number of 32 bits is the pair of its 16-bit  *)
(* halves, an Ethernet address the sequence of its six bytes.              *)
(***************************************************************************)
EXTENDS BufferOps, TLC

NetParser(buffer) == [buffer |-> buffer, error |-> "NoError"]

check_size(p, n) == IF n > size(p.buffer) THEN [p EXCEPT !.error = "PacketTooShort"] ELSE p

parser_remove_prefix(p, n) ==
  LET q == check_size(p, n)
  IN  IF q.error # "NoError" THEN q ELSE [q EXCEPT !.buffer = remove_prefix(@, n)]

\* The number that bytes in network order stand for.
Number(bytes) ==
  CASE Len(bytes) = 1 -> bytes[1]
    [] Len(bytes) = 2 -> bytes[1] * 256 + bytes[2]
    [] Len(bytes) = 4 -> <<bytes[1] * 256 + bytes[2], bytes[3] * 256 + bytes[4]>>
    [] Len(bytes) = 6 -> bytes

\* u8(), u16() and u32(); with a length of 6, the loop of u8() that reads an Ethernet
\* address (its callers have made sure that the whole header is there).
parse_int(p, len) ==
  LET q == parser_remove_prefix(p, len)
  IN  [p |-> q,
       value |-> IF q.error # "NoError" THEN Number([i \in 1 .. len |-> 0])
                 ELSE Number(SubSeq(str(p.buffer), 1, len))]

\* The fields of a layout, one after the other, whatever has gone wrong before.
parse_fields(parser, layout) ==
  LET read[i \in 0 .. Len(layout)] ==
        IF i = 0 THEN [p |-> parser, header |-> <<>>]
        ELSE LET before == read[i - 1]
                 field  == parse_int(before.p, layout[i].len)
             IN  [p |-> field.p, header |-> before.header @@ (layout[i].name :> field.value)]
  IN  read[Len(layout)]

Octets(n) == <<n \div 256, n % 256>>

unparse_int(len, val) ==
  CASE len = 1 -> <<val>>
    [] len = 2 -> Octets(val)
    [] len = 4 -> Octets(val[1]) \o Octets(val[2])
    [] len = 6 -> val

unparse_fields(header, layout) ==
  LET written[i \in 0 .. Len(layout)] ==
        IF i = 0 THEN <<>> ELSE written[i - 1] \o unparse_int(layout[i].len, header[layout[i].name])
  IN  written[Len(layout)]

Field(name, len) == [name |-> name, len |-> len]

\* string::resize(): zeros behind, or cut.
resize(s, n) == [i \in 1 .. n |-> IF i <= Len(s) THEN s[i] ELSE 0]

-----------------------------------------------------------------------------
InternetChecksum(initial_sum) == [sum |-> initial_sum, parity |-> FALSE]

\* Every other byte counts 256 times.
add(check, data) ==
  LET high(i) == (i % 2 = 1) # check.parity
      total[i \in 0 .. Len(data)] ==
        IF i = 0 THEN check.sum ELSE total[i - 1] + (IF high(i) THEN 256 * data[i] ELSE data[i])
  IN  [sum |-> total[Len(data)], parity |-> (Len(data) % 2 = 1) # check.parity]

value(check) ==
  LET carried[s \in Nat] == IF s > 65535 THEN carried[(s \div 65536) + (s % 65536)] ELSE s
  IN  65535 - carried[check.sum]

-----------------------------------------------------------------------------
TCPHeaderLayout ==
  <<Field("sport", 2), Field("dport", 2), Field("seqno", 4), Field("ackno", 4), Field("off", 1),
    Field("fl_b", 1), Field("win", 2), Field("cksum", 2), Field("uptr", 2)>>

\* The bits of the flags; a header holds the set of those that are on.
Bit == [urg |-> 32, ack |-> 16, psh |-> 8, rst |-> 4, syn |-> 2, fin |-> 1]

TCPHeader == [sport |-> 0, dport |-> 0, seqno |-> <<0, 0>>, ackno |-> <<0, 0>>, doff |-> 5,
              flags |-> {}, win |-> 0, cksum |-> 0, uptr |-> 0]

tcp_header_parse(parser) ==
  LET skipped(h, p) == [header |-> h, p |-> p, result |-> p.error]
      checked(h, p) == IF h.doff < 5 THEN [header |-> h, p |-> p, result |-> "HeaderTooShort"]
                       ELSE skipped(h, parser_remove_prefix(p, h.doff * 4 - 20))
      decoded(r) == checked([f \in DOMAIN TCPHeader |->
                               CASE f = "doff"  -> r.header["off"] \div 16
                                 [] f = "flags" -> { b \in DOMAIN Bit : (r.header["fl_b"] \div Bit[b]) % 2 = 1 }
                                 [] OTHER       -> r.header[f]], r.p)
  IN  decoded(parse_fields(parser, TCPHeaderLayout))

FlagByte(flags) ==
  LET on(b) == IF b \in flags THEN Bit[b] ELSE 0
  IN  on("urg") + on("ack") + on("psh") + on("rst") + on("syn") + on("fin")

tcp_header_serialize(h) ==
  LET raw == [f \in (DOMAIN h \ {"doff", "flags"}) \union {"off", "fl_b"} |->
                CASE f = "off"  -> (h.doff * 16) % 256
                  [] f = "fl_b" -> FlagByte(h.flags)
                  [] OTHER      -> h[f]]
  IN  resize(unparse_fields(raw, TCPHeaderLayout), 4 * h.doff)

\* A variant that does not look at the checksum.
segment_parse_unchecked(buffer, datagram_layer_checksum) ==
  LET parsed(r) == [result |-> r.p.error, segment |-> [header |-> r.header, payload |-> r.p.buffer]]
  IN  parsed(tcp_header_parse(NetParser(buffer)))

\* TCPSegment::parse(): what the header's parser returns is not looked at.
segment_parse(buffer, datagram_layer_checksum) ==
  LET check == add(InternetChecksum(datagram_layer_checksum), str(buffer))
      parsed(r) == [result |-> r.p.error, segment |-> [header |-> r.header, payload |-> r.p.buffer]]
  IN  IF value(check) # 0
      THEN [result |-> "BadChecksum", segment |-> [header |-> TCPHeader, payload |-> Buffer(<<>>)]]
      ELSE parsed(tcp_header_parse(NetParser(buffer)))

\* TCPSegment::serialize(): a BufferList.
segment_serialize(seg, datagram_layer_checksum) ==
  LET blank == tcp_header_serialize([seg.header EXCEPT !.cksum = 0])
      check == add(add(InternetChecksum(datagram_layer_checksum), blank), str(seg.payload))
  IN  append(<<Buffer(tcp_header_serialize([seg.header EXCEPT !.cksum = value(check)]))>>, <<seg.payload>>)

-----------------------------------------------------------------------------
IPv4HeaderLayout ==
  <<Field("first_byte", 1), Field("tos", 1), Field("len", 2), Field("id", 2), Field("fo_val", 2),
    Field("ttl", 1), Field("proto", 1), Field("cksum", 2), Field("src", 4), Field("dst", 4)>>

PROTO_TCP == 6

IPv4Header == [ver |-> 4, hlen |-> 5, tos |-> 0, len |-> 0, id |-> 0, df |-> TRUE, mf |-> FALSE,
               offset |-> 0, ttl |-> 128, proto |-> PROTO_TCP, cksum |-> 0, src |-> <<0, 0>>, dst |-> <<0, 0>>]

payload_length(h) == (h.len - 4 * h.hlen) % 65536

pseudo_cksum(h) == h.src[1] + h.src[2] + h.dst[1] + h.dst[2] + h.proto + payload_length(h)

\* A header that is too short leaves the fields as they were.
ipv4_header_parse(parser) ==
  LET bytes == str(parser.buffer)
      returns(h, p, result) == [header |-> h, p |-> p, result |-> result]
      summed(h, p) ==
        IF p.error # "NoError" THEN returns(h, p, p.error)
        ELSE IF value(add(InternetChecksum(0), SubSeq(bytes, 1, 4 * h.hlen))) # 0 THEN returns(h, p, "BadChecksum")
        ELSE returns(h, p, "NoError")
      checked(h, p) ==
        IF Len(bytes) < 4 * h.hlen THEN returns(h, p, "PacketTooShort")
        ELSE IF h.ver # 4 THEN returns(h, p, "WrongIPVersion")
        ELSE IF h.hlen < 5 THEN returns(h, p, "HeaderTooShort")
        ELSE IF Len(bytes) # h.len THEN returns(h, p, "TruncatedPacket")
        ELSE summed(h, parser_remove_prefix(p, h.hlen * 4 - 20))
      decoded(r) == checked([f \in DOMAIN IPv4Header |->
                               CASE f = "ver"    -> r.header["first_byte"] \div 16
                                 [] f = "hlen"   -> r.header["first_byte"] % 16
                                 [] f = "df"     -> (r.header["fo_val"] \div 16384) % 2 = 1
                                 [] f = "mf"     -> (r.header["fo_val"] \div 8192) % 2 = 1
                                 [] f = "offset" -> r.header["fo_val"] % 8192
                                 [] OTHER        -> r.header[f]], r.p)
  IN  IF Len(bytes) < 20 THEN returns(IPv4Header, parser, "PacketTooShort")
      ELSE decoded(parse_fields(parser, IPv4HeaderLayout))

ipv4_header_serialize(h) ==
  LET raw == [f \in (DOMAIN h \ {"ver", "hlen", "df", "mf", "offset"}) \union {"first_byte", "fo_val"} |->
                CASE f = "first_byte" -> h.ver * 16 + (h.hlen % 16)
                  [] f = "fo_val" -> (IF h.df THEN 16384 ELSE 0) + (IF h.mf THEN 8192 ELSE 0) + (h.offset % 8192)
                  [] OTHER -> h[f]]
  IN  resize(unparse_fields(raw, IPv4HeaderLayout), 4 * h.hlen)

\* IPv4Datagram::parse(): here too, only the parser's own error counts.
datagram_parse(buffer) ==
  LET parsed(r) == [datagram |-> [header |-> r.header, payload |-> <<r.p.buffer>>],
                    result |-> IF size(r.p.buffer) # payload_length(r.header) THEN "PacketTooShort" ELSE r.p.error]
  IN  parsed(ipv4_header_parse(NetParser(buffer)))

WRONG_SIZE == "payload is wrong size"

datagram_serialize(dgram) ==
  LET check == add(InternetChecksum(0), ipv4_header_serialize([dgram.header EXCEPT !.cksum = 0]))
  IN  IF Len(concatenate(dgram.payload)) # payload_length(dgram.header) THEN WRONG_SIZE
      ELSE append(<<Buffer(ipv4_header_serialize([dgram.header EXCEPT !.cksum = value(check)]))>>, dgram.payload)

-----------------------------------------------------------------------------
TYPE_IPv4 == 2048

TYPE_ARP == 2054

EthernetHeaderLayout == <<Field("dst", 6), Field("src", 6), Field("type", 2)>>

NoEthernetAddress == [i \in 1 .. 6 |-> 0]

ETHERNET_BROADCAST == [i \in 1 .. 6 |-> 255]

\* A header that is too short leaves the fields as they were; the parser knows nothing of it.
ethernet_header_parse(parser) ==
  LET decoded(r) == [header |-> r.header, p |-> r.p, result |-> r.p.error]
  IN  IF size(parser.buffer) < 14
      THEN [header |-> [dst |-> NoEthernetAddress, src |-> NoEthernetAddress, type |-> 0],
            p |-> parser, result |-> "PacketTooShort"]
      ELSE decoded(parse_fields(parser, EthernetHeaderLayout))

ethernet_header_serialize(h) == unparse_fields(h, EthernetHeaderLayout)

\* EthernetFrame::parse().  Of a frame that is too short, all bytes are its payload, and
\* there is no error.
frame_parse(buffer) ==
  LET parsed(r) == [frame |-> [header |-> r.header, payload |-> <<r.p.buffer>>], result |-> r.p.error]
  IN  parsed(ethernet_header_parse(NetParser(buffer)))

frame_serialize(frame) == append(<<Buffer(ethernet_header_serialize(frame.header))>>, frame.payload)

ARPLayout ==
  <<Field("hardware_type", 2), Field("protocol_type", 2), Field("hardware_address_size", 1),
    Field("protocol_address_size", 1), Field("opcode", 2),
    Field("sender_ethernet_address", 6), Field("sender_ip_address", 4),
    Field("target_ethernet_address", 6), Field("target_ip_address", 4)>>

OPCODE_REQUEST == 1

OPCODE_REPLY == 2

supported(arp) ==
  /\ arp.hardware_type = 1 /\ arp.protocol_type = TYPE_IPv4
  /\ arp.hardware_address_size = 6 /\ arp.protocol_address_size = 4
  /\ arp.opcode \in {OPCODE_REQUEST, OPCODE_REPLY}

\* ARPMessage::parse(): an unsupported message is given up after its opcode.
arp_parse(buffer) ==
  LET decoded(r) == [message |-> r.header,
                     result |-> IF size(buffer) < 28 THEN "PacketTooShort"
                                ELSE IF ~ supported(r.header) THEN "Unsupported" ELSE r.p.error]
  IN  decoded(parse_fields(NetParser(buffer), ARPLayout))

UNSUPPORTED == "unsupported field combination"

arp_serialize(arp) == IF supported(arp) THEN unparse_fields(arp, ARPLayout) ELSE UNSUPPORTED
=============================================================================
