----------------------------- MODULE MCReassembler -----------------------------
(* StreamReassembler for the model checker: which substrings are pushed. *)
EXTENDS StreamReassembler

\* Every substring that is not empty: overlapping in all ways.
AllSubstrings == { sub \in (0 .. StreamLength) \X (1 .. StreamLength) : sub[1] + sub[2] <= StreamLength }

\* The parts into which the stream falls when it is cut at the given places.
Parts(cuts) == { sub \in AllSubstrings :
  /\ sub[1] \in cuts \union {0} /\ sub[1] + sub[2] \in cuts \union {StreamLength}
  /\ \A k \in cuts : k <= sub[1] \/ k >= sub[1] + sub[2] }

AllCuttings == { Parts(cuts) : cuts \in SUBSET (1 .. StreamLength - 1) }

\* The end of the stream once more, on its own, as a FIN without data brings it.
LoneEnd == {<<StreamLength, 0>>}

\* Empty substrings too, as tcp_receiver.cc pushes them for segments without data; the
\* others have at most two bytes.
WithEmpty == { sub \in (0 .. StreamLength) \X (0 .. 2) : sub[1] + sub[2] <= StreamLength }

EverySender == AllCuttings \union { parts \union LoneEnd : parts \in AllCuttings } \union {AllSubstrings, WithEmpty}
=============================================================================
