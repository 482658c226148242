------------------------------- MODULE BufferOps -------------------------------
(***************************************************************************)
(* libsponge/util/buffer.{hh,cc}: strings that lose bytes at the front, and *)
(* lists of them.  A byte is a number below 256, a string a sequence of     *)
(* bytes.  A released storage is the empty one.  Where the code throws, the *)
(* operators have no value: a state that needs it is an error of the run.   *)
(***************************************************************************)
EXTENDS Integers, Sequences

LOCAL INSTANCE SequencesExt

OUT_OF_RANGE == "out_of_range"

Buffer(string) == [storage |-> string, offset |-> 0]

str(b) == SubSeq(b.storage, b.offset + 1, Len(b.storage))

size(b) == Len(str(b))

remove_prefix(b, n) ==
  IF n > size(b) THEN OUT_OF_RANGE
  ELSE LET moved == [b EXCEPT !.offset = @ + n]
       IN  IF moved.offset = Len(b.storage) THEN [moved EXCEPT !.storage = <<>>] ELSE moved

append(buffers, other) == buffers \o other

NOT_CONTIGUOUS == "runtime_error"

\* The conversion of a BufferList to a Buffer copes with at most one.
as_buffer(buffers) ==
  CASE Len(buffers) = 0 -> Buffer(<<>>) [] Len(buffers) = 1 -> buffers[1] [] OTHER -> NOT_CONTIGUOUS

concatenate(buffers) == FlattenSeq([i \in 1 .. Len(buffers) |-> str(buffers[i])])

\* BufferViewList(buffers): one view for each buffer.
BufferViewList(buffers) == [i \in 1 .. Len(buffers) |-> str(buffers[i])]

joined(views) == FlattenSeq(views)

views_size(views) == Len(joined(views))

\* A variant that cuts the next view where the list began.
views_remove_prefix_once(views, n) ==
  IF n < Len(views[1]) THEN [views EXCEPT ![1] = SubSeq(@, n + 1, Len(@))] ELSE Tail(views)

\* Whole views go while they are no longer than what is still to be removed; the
\* next one is shortened.
views_remove_prefix(views, n) ==
  LET through(k) == views_size(SubSeq(views, 1, k))
      last == CHOOSE k \in 0 .. Len(views) : through(k) >= n /\ \A j \in 0 .. k - 1 : through(j) < n
      kept == through(last) - n
      rest == SubSeq(views, last + 1, Len(views))
  IN  IF n > views_size(views) THEN OUT_OF_RANGE
      ELSE IF kept = 0 THEN rest
      ELSE <<SubSeq(views[last], Len(views[last]) - kept + 1, Len(views[last]))>> \o rest
=============================================================================
