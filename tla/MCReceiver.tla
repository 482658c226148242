------------------------------ MODULE MCReceiver ------------------------------
(* TCPReceiver for the model checker: what the peer sends. *)
EXTENDS TCPReceiver

Segment(from, len, fin) == [from |-> from, len |-> len, syn |-> FALSE, fin |-> fin]

Syn == [from |-> 0, len |-> 0, syn |-> TRUE, fin |-> FALSE]

\* The stream is cut into segments of two bytes and one byte in turn.
Cuts == { k \in 0 .. StreamLength : k % 3 # 1 } \union {StreamLength}

NextCut(i) == CHOOSE k \in Cuts : k > i /\ \A m \in Cuts : m > i => k <= m

\* The segment that starts at cut i; FIN rides on the last one or comes alone.
Data(i, fin) == Segment(1 + i, NextCut(i) - i, fin /\ NextCut(i) = StreamLength)

Starts == Cuts \ {StreamLength}

FinAlone == Segment(1 + StreamLength, 0, TRUE)

StreamFinAlone == { Data(i, FALSE) : i \in Starts } \union {Syn, FinAlone}

StreamFinRiding == { Data(i, TRUE) : i \in Starts } \union {Syn}

\* Empty segments at every number that can be the peer's next.
Acks == { Segment(1 + i, 0, FALSE) : i \in Cuts }
        \union { Segment(2 + StreamLength, 0, FALSE) }

StreamWithAcks == StreamFinAlone \union Acks

AnyPeer == {StreamFinAlone, StreamFinRiding, StreamWithAcks}

PeerFinAlone == {StreamFinAlone}
=============================================================================
