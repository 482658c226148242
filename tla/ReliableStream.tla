----------------------------- MODULE ReliableStream -----------------------------
(***************************************************************************)
(* What a connection promises to its two applications: two byte streams,   *)
(* one in each direction.  Each application reads a prefix of what the     *)
(* other has written, in order, and is told of the end only after it has   *)
(* read everything that was written before the end.                        *)
(***************************************************************************)
EXTENDS Naturals, Sequences

CONSTANT Endpoint

VARIABLES
  sent,     \* the bytes that each application has written
  ended,    \* whether it has ended its stream
  got,      \* the bytes that each application has read
  at_eof    \* whether it has been told of the end of the other's stream

vars == <<sent, ended, got, at_eof>>

Init == /\ sent = [e \in Endpoint |-> <<>>]
        /\ ended = [e \in Endpoint |-> FALSE]
        /\ got = [e \in Endpoint |-> <<>>]
        /\ at_eof = [e \in Endpoint |-> FALSE]

\* Byte k of a stream is named k.
Send(e) ==
  /\ ~ ended[e]
  /\ Len(sent'[e]) > Len(sent[e])
  /\ sent' = [sent EXCEPT ![e] = [k \in 1 .. Len(sent'[e]) |-> k]]
  /\ UNCHANGED <<ended, got, at_eof>>

EndStream(e) ==
  /\ ended' = [ended EXCEPT ![e] = TRUE]
  /\ UNCHANGED <<sent, got, at_eof>>

\* Application e reads what d has written; with the last byte it may learn the end.
Receive(e, d) ==
  /\ \E n \in Len(got[e]) .. Len(sent[d]) : got' = [got EXCEPT ![e] = SubSeq(sent[d], 1, n)]
  /\ at_eof' = [at_eof EXCEPT ![e] = @ \/ at_eof'[e]]
  /\ at_eof'[e] => ended[d] /\ got'[e] = sent[d]
  /\ UNCHANGED <<sent, ended>>

Next == \E e, d \in Endpoint : e # d /\ (Send(e) \/ EndStream(e) \/ Receive(e, d))

Spec == Init /\ [][Next]_vars
=============================================================================
