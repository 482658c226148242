----------------------------- MODULE ReassemblerOps -----------------------------
(***************************************************************************)
(* libsponge/stream_reassembler.{hh,cc}: the methods of a                  *)
(* StreamReassembler, as operators on a record that holds its members.     *)
(* `storage' is temporarily_descrete_data_storage.  `hung' is TRUE once a  *)
(* call can no longer return: the scan of missing_middle_handler() starts  *)
(* over without having changed anything.                                   *)
(***************************************************************************)
EXTENDS ListOps, ByteStreamOps

StreamReassembler(capacity) ==
  [output |-> ByteStream(capacity), capacity |-> capacity, next_assembling_index |-> 0,
   smallest_temporty_index |-> 0, unassembled_bytes |-> 0, storage |-> <<>>, hung |-> FALSE]

\* The struct datagram; its size is the length of its data.
Datagram(data, index, eof_flag) == [data |-> data, index |-> index, eof |-> eof_flag]

end_of(dg) == dg.index + Len(dg.data)

\* dg1 takes over what dg2 has beyond dg1's end; dg1 keeps its own eof.
overlap_merger(dg1, dg2) ==
  [dg1 EXCEPT !.data = @ \o SubSeq(dg2.data, end_of(dg1) - dg2.index + 1, Len(dg2.data))]

\* A variant that does not recognise a datagram that is stored already.
same_never(dg, p) == FALSE

same(dg, p) == dg.index = p.index /\ end_of(dg) = end_of(p)

\* One round of the loop of missing_middle_handler(): the new datagram m.dg meets
\* the stored one at position m.i.
scan_step(m) ==
  LET dg == m.dg
      p  == m.storage[m.i]
      erased == [m EXCEPT !.storage = erase(@, m.i), !.freed = @ + Len(p.data), !.i = 1]
  IN  CASE m.result # "scanning" -> m
        [] m.result = "scanning" /\ m.i > Len(m.storage) -> [m EXCEPT !.result = "store"]
        [] OTHER ->
             CASE same(dg, p) -> [m EXCEPT !.result = "drop"]
               [] dg.index = p.index /\ end_of(dg) > end_of(p) -> erased
               [] ~ same(dg, p) /\ dg.index = p.index /\ end_of(dg) <= end_of(p) -> [m EXCEPT !.result = "hang"]
               [] dg.index > p.index /\ end_of(dg) > end_of(p) -> [m EXCEPT !.result = "store"]
               [] dg.index > p.index /\ end_of(dg) <= end_of(p) /\ dg.index < end_of(p) ->
                    [m EXCEPT !.result = "drop"]
               [] dg.index < p.index /\ p.index < end_of(dg) /\ end_of(p) <= end_of(dg) -> erased
               [] dg.index < p.index /\ p.index < end_of(dg) /\ end_of(p) > end_of(dg) ->
                    [erased EXCEPT !.dg = overlap_merger(dg, p)]
               [] OTHER -> [m EXCEPT !.i = @ + 1]

\* The whole loop: between two erasures it advances at most to the end of the list.
scan(storage, dg) ==
  LET rounds == (Len(storage) + 1) * (Len(storage) + 1)
      after[n \in 0 .. rounds] ==
        IF n = 0 THEN [storage |-> storage, dg |-> dg, i |-> 1, freed |-> 0, result |-> "scanning"]
                 ELSE scan_step(after[n - 1])
  IN  after[rounds]

\* A variant without the sort.
sorted_insert_front(storage, dg) == <<dg>> \o storage

\* push_front() and the stable sort of a list that is sorted but for its head: the
\* first k datagrams are those that begin before the new one.
sorted_insert(storage, dg) ==
  LET k == CHOOSE k \in 0 .. Len(storage) :
             \A i \in 1 .. Len(storage) : storage[i].index < dg.index <=> i <= k
  IN  SubSeq(storage, 1, k) \o <<dg>> \o SubSeq(storage, k + 1, Len(storage))

missing_middle_handler(r, dg) ==
  LET m == scan(r.storage, dg)
      kept == [r EXCEPT !.storage = m.storage, !.unassembled_bytes = @ - m.freed]
      stored == sorted_insert(m.storage, m.dg)
  IN  CASE m.result = "drop" -> kept
        [] m.result = "hang" -> [kept EXCEPT !.hung = TRUE]
        [] m.result = "store" -> [kept EXCEPT !.storage = stored,
                                              !.unassembled_bytes = @ + Len(m.dg.data),
                                              !.smallest_temporty_index = stored[1].index]

first_unassemble_byte_index(r) == IF r.storage = <<>> THEN 0 ELSE r.storage[1].index

\* The limit on an acceptable index.
indicator(r) == r.capacity + Larger(first_unassemble_byte_index(r), r.next_assembling_index)

\* The substring starts where the output ends.
assemble_next(r, dg) ==
  [r EXCEPT !.next_assembling_index = @ + Smaller(Len(dg.data), remaining_capacity(r.output)),
            !.output = write(@, dg.data)]

\* A variant that starts writing one byte early.
overlap_handler_early(r, dg) ==
  LET fresh == SubSeq(dg.data, r.next_assembling_index - dg.index, Len(dg.data))
  IN  [r EXCEPT !.output = write(@, fresh), !.next_assembling_index = @ + Len(fresh)]

\* The substring starts before the end of the output and reaches beyond it.
overlap_handler(r, dg) ==
  LET fresh == SubSeq(dg.data, r.next_assembling_index - dg.index + 1, Len(dg.data))
  IN  [r EXCEPT !.output = write(@, fresh), !.next_assembling_index = @ + Len(fresh)]

\* What push_substring() does with a substring that does not start beyond the end
\* of the output: write what is new, and end the output after the last substring
\* unless overlap_handler() reports that bytes were lost.
assemble(r, dg) ==
  LET overlaps == dg.index < r.next_assembling_index /\ end_of(dg) > r.next_assembling_index
      a == CASE dg.index = r.next_assembling_index -> assemble_next(r, dg)
             [] overlaps -> overlap_handler(r, dg)
             [] OTHER -> r
      data_exceeded == overlaps /\ a.next_assembling_index > a.output.bytes_written
  IN  IF dg.eof /\ ~ data_exceeded THEN [a EXCEPT !.output = end_input(@)] ELSE a

\* A variant that never looks at what is stored.
gap_fixed_never(r, dg) == FALSE

\* The first stored datagram may now be next.
gap_fixed(r, dg) == /\ r.next_assembling_index >= r.smallest_temporty_index
                    /\ dg.data # <<>>
                    /\ r.storage # <<>>

pop_stored(r) == [r EXCEPT !.storage = Tail(@),
                           !.unassembled_bytes = @ - Len(r.storage[1].data)]

\* One call of push_substring() without the call it makes of itself: c.todo holds
\* the substring to push, and afterwards the stored one that is pushed next.
push_step(c) ==
  IF c.todo = <<>> THEN c
  ELSE LET dg == c.todo[1]
           a  == assemble(c.r, dg)
       IN  CASE remaining_capacity(c.r.output) = 0 \/ dg.index >= indicator(c.r) ->
                  [c EXCEPT !.todo = <<>>]
             [] remaining_capacity(c.r.output) > 0 /\ dg.index < indicator(c.r) ->
                  IF dg.index > c.r.next_assembling_index
                  THEN [r |-> missing_middle_handler(c.r, dg), todo |-> <<>>]
                  ELSE IF gap_fixed(a, dg) THEN [r |-> pop_stored(a), todo |-> <<a.storage[1]>>]
                  ELSE [r |-> a, todo |-> <<>>]

\* Every recursive call takes one datagram out of the storage or is the last.
push_substring(r, data, index, eof_flag) ==
  LET calls == Len(r.storage) + 1
      after[n \in 0 .. calls] ==
        IF n = 0 THEN [r |-> r, todo |-> <<Datagram(data, index, eof_flag)>>]
                 ELSE push_step(after[n - 1])
  IN  after[calls].r
=============================================================================
