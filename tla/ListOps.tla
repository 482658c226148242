-------------------------------- MODULE ListOps --------------------------------
(* std::list as a sequence: what the loops that edit a list while they walk it use. *)
EXTENDS Integers, Sequences

\* The list without its i-th element; what followed it is now at position i.
erase(list, i) == SubSeq(list, 1, i - 1) \o SubSeq(list, i + 1, Len(list))
=============================================================================
