--------------------------- MODULE StreamReassembler ---------------------------
(***************************************************************************)
(* A StreamReassembler that is given substrings of one stream of           *)
(* StreamLength bytes, in any order and any number of times, while the     *)
(* application reads its output.                                           *)
(***************************************************************************)
EXTENDS ReceivedStream, ReassemblerOps, TCPSegments

CONSTANT Senders   \* sets of substrings, as pairs <<index, length>>: what a sender may push

ASSUME ReassemblerAssumption ==
  /\ capacity \in Nat \ {0}
  /\ StreamLength \in Nat
  /\ MaxStored \in Nat
  /\ \A subs \in Senders : \A sub \in subs :
       sub[1] \in Nat /\ sub[2] \in Nat /\ sub[1] + sub[2] <= StreamLength

VARIABLES
  reassembler,
  substrings,    \* what the sender of this stream pushes
  pushed         \* history: the indexes of the bytes pushed so far, StreamLength for the end

reassemblerVars == <<reassembler, substrings, pushed>>

Output == reassembler.output

ReassemblerInit == /\ reassembler = StreamReassembler(capacity)
        /\ substrings \in Senders
        /\ pushed = {}

\* The last byte of the stream carries the eof flag.
IsLast(sub) == sub[1] + sub[2] = StreamLength

Push(sub) ==
  /\ ~ reassembler.hung
  /\ reassembler' = push_substring(reassembler, Bytes(sub[1] + 1, sub[1] + sub[2]), sub[1], IsLast(sub))
  /\ Len(reassembler'.storage) <= MaxStored
  /\ pushed' = pushed \union (sub[1] .. sub[1] + sub[2] - 1) \union (IF IsLast(sub) THEN {StreamLength} ELSE {})
  /\ UNCHANGED substrings

\* The application takes n bytes from the output.
Read(n) ==
  /\ ~ reassembler.hung
  /\ n <= buffer_size(Output)
  /\ reassembler' = [reassembler EXCEPT !.output = pop_output(@, n)]
  /\ UNCHANGED <<substrings, pushed>>

\* The substring lies within what the receiver has advertised: a window of
\* remaining_capacity() bytes beyond the bytes it has written.  (Of one that ends beyond
\* it, the output takes only the bytes for which it has room, while the index advances
\* by all of them: from there on the output has a gap.)
InWindow(sub) == sub[1] + sub[2] <= Output.bytes_read + capacity

\* Substrings of a peer that respects the advertised window.
ReassemblerNext == \/ \E sub \in substrings : InWindow(sub) /\ Push(sub)
        \/ \E n \in 1 .. capacity : Read(n)

ReassemblerSpec == ReassemblerInit /\ [][ReassemblerNext]_reassemblerVars

-----------------------------------------------------------------------------
\* The bytes that push_substring() wrote are the first ones of the stream, in order
\* and without a gap, and it knows how many they are.  The output ends only once every
\* byte has been written.  This holds for a peer that keeps to the window.
OutputIsPrefix ==
  /\ reassembler.next_assembling_index = Output.bytes_written
  /\ Output.stream = Bytes(Output.bytes_read + 1, Output.bytes_written)
  /\ Output.input_ended => Output.bytes_written = StreamLength

\* The index of the first byte that was never pushed.
Contiguous == CHOOSE b \in 0 .. StreamLength :
  /\ 0 .. b - 1 \subseteq pushed
  /\ b < StreamLength => b \notin pushed

\* No substring is empty, unless it stands for the end of the stream.  (The code stores
\* an empty one that begins beyond the output.  It may then leave what is stored behind
\* it where it is, or go round for ever when a longer one begins at the same byte.)
NoneEmpty == \A sub \in substrings : sub[2] > 0 \/ sub[1] = StreamLength

\* Nothing that was pushed within the window is forgotten: as long as no substring is
\* empty, the output holds every byte up to the first one that was never pushed.
OutputIsContiguous == NoneEmpty /\ ~ reassembler.hung => Output.bytes_written = Contiguous

\* The sender has cut its stream once and for all: it repeats whole substrings.
CutOnce == \A a, b \in substrings : a = b \/ a[1] + a[2] <= b[1] \/ b[1] + b[2] <= a[1]

\* The end of the stream is not forgotten either: the output of a stream that was cut
\* once, into parts that are not empty, ends when all of it has been pushed, whichever
\* of its parts came first.
EndIsRemembered ==
  /\ NoneEmpty /\ CutOnce
  /\ Contiguous = StreamLength
  /\ StreamLength \in pushed
  => Output.input_ended

\* Every call returns, as long as the sender cuts its stream only once and into parts
\* that are not empty: the restarts of the scan in missing_middle_handler() come to an
\* end.
CallsReturn == NoneEmpty /\ CutOnce => ~ reassembler.hung
=============================================================================
