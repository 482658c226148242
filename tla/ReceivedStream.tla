----------------------------- MODULE ReceivedStream -----------------------------
(* The stream that a StreamReassembler or a TCPReceiver is given in the runs. *)

CONSTANTS
  capacity,       \* of the reassembler
  StreamLength,   \* how many bytes the stream has
  MaxStored       \* bound: how many datagrams are stored (the code has no limit)
=============================================================================
