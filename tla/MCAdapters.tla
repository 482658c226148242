------------------------------ MODULE MCAdapters ------------------------------
(* Values of the constants of Adapters. *)
EXTENDS Adapters

At(ip, port) == [ip |-> ip, port |-> port]

\* Listening on any address, or on the interface's own.
AllLocals == {At(<<0, 0>>, 1440), At(interface_ip, 1440)}

AllRemotes == {At(<<2561, 7>>, 40000), At(<<2561, 7>>, 65000), At(<<2561, 8>>, 40000)}

AllContacted == {At(interface_ip, 1440), At(<<2560, 9>>, 1440), At(interface_ip, 1441)}

Segment(flags, doff, payload) ==
  [header |-> [TCPHeader EXCEPT !.flags = flags, !.doff = doff, !.seqno = <<65535, 65535>>,
                                !.ackno = <<32768, 1>>, !.win = 64000],
   payload |-> Buffer(payload)]

\* A SYN with four bytes of options, an odd number of bytes of data, a reset.
AllSegments == {Segment({"syn"}, 6, <<>>), Segment({"ack", "psh"}, 5, <<255, 0, 7>>), Segment({"syn", "rst"}, 5, <<>>)}

\* Buffers of several lengths, empty ones among them, and one that has lost its first byte.
AllLists == {<<Buffer(<<1, 2>>), Buffer(<<>>), Buffer(<<3>>), remove_prefix(Buffer(<<0, 4, 5, 6>>), 1)>>,
             <<Buffer(<<>>), Buffer(<<1>>)>>, <<Buffer(<<>>)>>}
=============================================================================
