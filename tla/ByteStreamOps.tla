----------------------------- MODULE ByteStreamOps -----------------------------
(***************************************************************************)
(* libsponge/byte_stream.{hh,cc}: the operations of a ByteStream, as       *)
(* operators on a record that holds its members.  _buffer_size is the      *)
(* length of the list _stream (both change by one in the same loop) and is *)
(* not kept separately.                                                    *)
(***************************************************************************)
EXTENDS Integers, Sequences

ByteStream(capacity) ==
  [stream |-> <<>>, capacity |-> capacity, bytes_written |-> 0, bytes_read |-> 0,
   input_ended |-> FALSE, error |-> FALSE]

Smaller(a, b) == IF a <= b THEN a ELSE b

Larger(a, b) == IF a <= b THEN b ELSE a

buffer_size(bs) == Len(bs.stream)

buffer_empty(bs) == bs.stream = <<>>

remaining_capacity(bs) == bs.capacity - Len(bs.stream)

\* A variant of eof() that does not wait for the reader.
eof_undrained(bs) == bs.input_ended

eof(bs) == bs.input_ended /\ buffer_empty(bs)

\* size_t write(data): as many bytes as fit; the count it returns is the growth
\* of bytes_written.
write(bs, data) ==
  LET n == Smaller(Len(data), remaining_capacity(bs))
  IN  [bs EXCEPT !.stream = @ \o SubSeq(data, 1, n), !.bytes_written = @ + n]

peek_output(bs, len) == SubSeq(bs.stream, 1, Smaller(len, buffer_size(bs)))

pop_output(bs, len) ==
  LET n == Smaller(len, buffer_size(bs))
  IN  [bs EXCEPT !.stream = SubSeq(@, n + 1, Len(@)), !.bytes_read = @ + n]

end_input(bs) == [bs EXCEPT !.input_ended = TRUE]

set_error(bs) == [bs EXCEPT !.error = TRUE]
=============================================================================
