----------------------- MODULE ReassemblerReceiverProofs -----------------------
(***************************************************************************)
(* unwrap() returns what its documentation says, for every even size of    *)
(* the sequence space.  The safety of the StreamReassembler, for every     *)
(* capacity and every way to cut a stream, and of the TCPReceiver, for     *)
(* every capacity, every stream shorter than half the sequence numbers and *)
(* every peer that cuts it once.                                           *)
(***************************************************************************)
EXTENDS SequenceNumbers, StreamReassembler, TCPReceiver, ReassemblerLemmas

\* The number that unwrap() returns: congruent to n, and no other such number is
\* closer to the checkpoint.
LEMMA UnwrapClosest ==
  ASSUME NEW n \in Nat, NEW c \in Nat, NEW i \in SeqNo
  PROVE  LET u == unwrap(wrap(n, i), i, c)
         IN  /\ u \in Nat
             /\ wrap(u, i) = wrap(n, i)
             /\ \A x \in Nat : wrap(x, i) = wrap(n, i) => Apart(u, c) <= Apart(x, c)
<1> DEFINE d == distance(wrap(n, i), wrap(c, i))
           u == unwrap(wrap(n, i), i, c)
<1>0. i \in Int /\ i + n \in Int
  BY DEF SeqNo
<1>1. d \in -Half .. Half - 1 /\ \E k \in Int : d = n - c + SeqSize * k
  BY DistanceCongruent
<1>2. u = IF c + d >= 0 THEN c + d ELSE c + d + SeqSize
  BY DEF unwrap
<1> HIDE DEF d, u
<1>3. PICK k \in Int : d = n - c + SeqSize * k
  BY <1>1
<1>4. u \in Nat
  BY HalfIsHalf, <1>1, <1>2
<1>5. \E j \in Int : u = n + SeqSize * j
  <2> DEFINE k1 == k + 1
  <2>1. k1 \in Int /\ SeqSize * k1 = SeqSize * k + SeqSize /\ SeqSize * k \in Int
    BY HalfIsHalf
  <2> HIDE DEF k1
  <2>2. u = n + SeqSize * k \/ u = n + SeqSize * k1
    BY HalfIsHalf, <1>1, <1>2, <1>3, <2>1
  <2> QED BY <2>1, <2>2
<1>6. wrap(u, i) = wrap(n, i)
  <2>1. PICK j \in Int : u = n + SeqSize * j
    BY <1>5
  <2>2. i + u \in Int /\ i + u = (i + n) + SeqSize * j
    BY HalfIsHalf, <1>0, <1>4, <2>1
  <2> DEFINE a == i + n
             b == i + u
  <2>3. a \in Int /\ b \in Int /\ \E k1 \in Int : b = a + SeqSize * k1
    BY <1>0, <2>2
  <2> HIDE DEF a, b
  <2>4. b % SeqSize = a % SeqSize
    BY HalfIsHalf, <2>3, ModShift, Zenon
  <2> QED BY <2>4 DEF wrap, a, b
<1>7. ASSUME NEW x \in Nat, wrap(x, i) = wrap(n, i) PROVE Apart(u, c) <= Apart(x, c)
  <2>1. i + u \in Int /\ i + x \in Int /\ (i + u) % SeqSize = (i + x) % SeqSize
    BY <1>0, <1>4, <1>6, <1>7 DEF wrap
  <2>2. PICK j \in Int : i + x = (i + u) + SeqSize * j
    BY HalfIsHalf, <2>1, ModEqual, ZenonT(60)
  <2>3. /\ SeqSize * j \in Int
        /\ j >= 1 => SeqSize * j >= SeqSize
        /\ j <= -1 => SeqSize * j <= -SeqSize
        /\ j = 0 => SeqSize * j = 0
    BY HalfIsHalf, Multiple
  <2>4. x = u + SeqSize * j
    BY <1>0, <1>4, <2>2, <2>3
  <2>5. CASE c + d >= 0
    BY HalfIsHalf, <1>1, <1>2, <1>4, <2>3, <2>4, <2>5 DEF Apart
  <2>6. CASE c + d < 0
    BY HalfIsHalf, <1>1, <1>2, <1>4, <2>3, <2>4, <2>6 DEF Apart
  <2> QED BY <1>1, <2>5, <2>6
<1> QED BY <1>4, <1>6, <1>7 DEF u

\* The initial number is a wrapped one, the other two are natural.
InRange == isn \in SeqNo /\ absolute \in Nat /\ checkpoint \in Nat

\* The numbers stay in their ranges.
LEMMA AlwaysInRange == NumbersSpec => []InRange
<1>1. NumbersInit => InRange
  BY DEF NumbersInit, InRange
<1>2. InRange /\ [NumbersNext]_numbersVars => InRange'
  BY MaxAbsAssumption DEF InRange, NumbersNext, PeerMoves, CheckpointMoves, numbersVars
<1> QED BY <1>1, <1>2, PTL DEF NumbersSpec

\* wrapping_integers.cc: unwrap() returns "the 64-bit sequence number that wraps to
\* `n` and is closest to `checkpoint`", for every size of the sequence space.
THEOREM UnwrapReturnsTheClosest == NumbersSpec => []UnwrapIsClosest
<1>1. InRange => UnwrapIsClosest
  BY UnwrapClosest DEF InRange, UnwrapIsClosest, Unwrapped
<1> QED BY <1>1, AlwaysInRange, PTL

\* A number less than half the space away from the checkpoint survives the way over
\* the wire, for every size of the sequence space.
THEOREM UnwrapInvertsWrap == NumbersSpec => []UnwrapUndoesWrap
<1>1. InRange => UnwrapUndoesWrap
  BY HalfIsHalf, UnwrapOfWrap DEF InRange, UnwrapUndoesWrap, Unwrapped, Apart
<1> QED BY <1>1, AlwaysInRange, PTL

-----------------------------------------------------------------------------

\* The substring as a datagram.
PartFor(sub) == Datagram(Bytes(sub[1] + 1, sub[1] + sub[2]), sub[1], IsLast(sub))

\* What the sender's substrings are as datagrams.
Parts == { PartFor(sub) : sub \in substrings }

\* The inductive invariant.  The reassembler is sound; the bytes it knows are those
\* that were pushed; what waits begins beyond the output or is written already; and of
\* a stream that was cut once, it holds whole parts and every call has returned.
ReassembledInv ==
  /\ ReassemblerInv(reassembler, StreamLength)
  /\ reassembler.capacity = capacity
  /\ substrings \in Senders
  /\ \A b \in 0 .. StreamLength - 1 : Known(reassembler, b) => b \in pushed
  /\ ~ reassembler.hung => \A b \in 0 .. StreamLength - 1 : b \in pushed => Known(reassembler, b)
  /\ NoneEmpty => Settled(reassembler, StreamLength)
  /\ NoneEmpty /\ CutOnce => ReassemblerCut(reassembler, Parts, StreamLength)
  /\ StreamLength = 0 /\ 0 \in pushed => Output.input_ended

-----------------------------------------------------------------------------

\* The datagram of a substring within the limit w.
LEMMA SubstringPart ==
  ASSUME NEW w \in Nat, NEW sub, sub[1] \in Nat, sub[2] \in Nat, sub[1] + sub[2] <= StreamLength
  PROVE  /\ PartFor(sub).index = sub[1] /\ end_of(PartFor(sub)) = sub[1] + sub[2]
         /\ PartFor(sub).eof <=> IsLast(sub)
         /\ PartFor(sub) \in DatagramRecord
         /\ sub[1] + sub[2] <= w => Piece(PartFor(sub), StreamLength, w)
<1> USE Zenon
<1> DEFINE i == sub[1]  n == sub[2]  q == Bytes(i + 1, i + n)  last == IsLast(sub)  d == PartFor(sub)
<1>1. i \in Nat /\ n \in Nat /\ i + n <= StreamLength
  BY SMT
<1>2. last \in BOOLEAN /\ (last <=> i + n = StreamLength)
  BY DEF IsLast
<1>3. d = [data |-> q, index |-> i, eof |-> last]
  BY DEF PartFor, Datagram
<1> HIDE DEF i, n, last, d
<1>4. q \in Seq(Nat) /\ Len(q) = n
  <2>1. i + 1 \in Nat /\ i + n \in Int /\ i + 1 <= (i + n) + 1 /\ (i + n) - (i + 1) + 1 = n
    BY <1>1, SMT
  <2>2. q \in Seq(Nat) /\ Len(q) = (i + n) - (i + 1) + 1
    BY <2>1, BytesType
  <2> QED BY <2>1, <2>2, SMT
<1> HIDE DEF q
<1>5. d \in DatagramRecord /\ d.data = q /\ d.index = i /\ d.eof = last
  BY <1>1, <1>2, <1>3, <1>4, SMT DEF DatagramRecord
<1>6. end_of(d) = i + n
  BY <1>4, <1>5 DEF end_of
<1>7. ASSUME i + n <= w PROVE Piece(d, StreamLength, w)
  <2>1. d.data = Bytes(d.index + 1, end_of(d))
    BY <1>5, <1>6 DEF q
  <2> QED BY <1>1, <1>2, <1>5, <1>6, <1>7, <2>1 DEF Piece
<1> QED BY <1>2, <1>5, <1>6, <1>7 DEF i, n, last, d

\* What the substrings of a sender are.
LEMMA SubstringIs ==
  ASSUME substrings \in Senders, NEW sub \in substrings
  PROVE  sub[1] \in Nat /\ sub[2] \in Nat /\ sub[1] + sub[2] <= StreamLength
BY ReassemblerAssumption, Zenon

\* A stream that is cut once has parts that do not overlap, and the last one has the
\* eof flag.
LEMMA PartsAreCut ==
  ASSUME substrings \in Senders, NoneEmpty, CutOnce
  PROVE  Cut(Parts, StreamLength) /\ Marked(Parts, StreamLength)
<1> USE Zenon
<1>1. ASSUME NEW sub \in substrings
      PROVE  /\ sub[1] \in Nat /\ sub[2] \in Nat /\ sub[1] + sub[2] <= StreamLength
             /\ PartFor(sub).index = sub[1] /\ end_of(PartFor(sub)) = sub[1] + sub[2]
             /\ PartFor(sub).eof <=> sub[1] + sub[2] = StreamLength
             /\ PartFor(sub) \in DatagramRecord
  <2>1. sub[1] \in Nat /\ sub[2] \in Nat /\ sub[1] + sub[2] <= StreamLength
    BY SubstringIs
  <2>2. 0 \in Nat
    BY SMT
  <2> QED BY <2>1, <2>2, SubstringPart DEF IsLast
<1>2. ASSUME NEW sub \in substrings PROVE Whole(PartFor(sub), StreamLength)
  <2> DEFINE i == sub[1]  n == sub[2]
  <2>1. i \in Nat /\ n \in Nat /\ (n > 0 \/ i = StreamLength)
        /\ PartFor(sub).index = i /\ end_of(PartFor(sub)) = i + n
    BY <1>1 DEF NoneEmpty
  <2> HIDE DEF i, n
  <2>2. i < i + n \/ i = StreamLength
    BY <2>1, SMT
  <2> QED BY <2>1, <2>2 DEF Whole
<1>3. ASSUME NEW a \in substrings, NEW b \in substrings
      PROVE  \/ PartFor(a) = PartFor(b)
             \/ end_of(PartFor(a)) <= PartFor(b).index
             \/ end_of(PartFor(b)) <= PartFor(a).index
  BY <1>1 DEF CutOnce
<1>4. \A d \in Parts : \E sub \in substrings : d = PartFor(sub)
  BY DEF Parts
<1> QED BY <1>1, <1>2, <1>3, <1>4 DEF Cut, Marked

-----------------------------------------------------------------------------

\* The invariant holds initially.
LEMMA ReassembledInit == ReassemblerInit => ReassembledInv
<1> SUFFICES ASSUME ReassemblerInit PROVE ReassembledInv
  OBVIOUS
<1> DEFINE r == reassembler  L == StreamLength
<1>1. capacity \in Nat /\ L \in Nat /\ r = StreamReassembler(capacity) /\ substrings \in Senders /\ pushed = {}
  BY ReassemblerAssumption DEF ReassemblerInit
<1>2. /\ ReassemblerInv(r, L)
      /\ r.capacity = capacity /\ r.storage = <<>> /\ r.next_assembling_index = 0 /\ r.hung = FALSE
      /\ r.output.input_ended = FALSE
      /\ \A b \in Nat : ~ Known(r, b)
      /\ Settled(r, L)
  <2>1. Vacant(r, capacity, L)
    BY <1>1, NewReassembler, Zenon
  <2> QED BY <2>1, Zenon DEF Vacant
<1>3. \A b \in 0 .. L - 1 : b \in Nat
  BY <1>1
<1>4. ASSUME NoneEmpty, CutOnce PROVE ReassemblerCut(r, Parts, L)
  <2>1. Cut(Parts, L)
    BY <1>1, <1>4, PartsAreCut, Zenon
  <2>2. Within(r.storage, Parts)
    BY <1>2 DEF Within
  <2>3. ASSUME NEW d \in Parts PROVE d.index \in Nat /\ end_of(d) \in Nat
    <3>1. d \in DatagramRecord
      BY <2>1, Zenon DEF Cut
    <3> QED BY <3>1 DEF DatagramRecord, end_of
  <2>4. Reached(0, FALSE, Parts, L)
    BY <1>1, <2>3 DEF Reached
  <2> QED BY <1>2, <2>2, <2>4, Zenon DEF ReassemblerCut
<1> QED BY <1>1, <1>2, <1>3, <1>4, Zenon DEF ReassembledInv, Output

\* A substring within the window keeps it.
LEMMA PushReassembles ==
  ASSUME ReassembledInv, NEW sub \in substrings, InWindow(sub), Push(sub)
  PROVE  ReassembledInv'
<1> USE Zenon
<1> DEFINE r == reassembler  t == reassembler'  L == StreamLength
           i == sub[1]  n == sub[2]  d == PartFor(sub)
<1>1. /\ ReassemblerInv(r, L) /\ r.capacity = capacity /\ substrings \in Senders
      /\ ~ r.hung /\ substrings' = substrings /\ L \in Nat /\ capacity \in Nat
      /\ t = push_substring(r, Bytes(i + 1, i + n), i, IsLast(sub))
  BY ReassemblerAssumption DEF ReassembledInv, Push
<1>2. i \in Nat /\ n \in Nat /\ i + n <= L
  BY <1>1, SubstringIs
<1>3. Limit(r) \in Nat /\ i + n <= Limit(r)
  BY <1>1, ReassemblerIs DEF Limit, InWindow, Output
<1>4. /\ d.index = i /\ end_of(d) = i + n /\ (d.eof <=> i + n = L)
      /\ Piece(d, L, Limit(r))
  BY <1>2, <1>3, SubstringPart DEF IsLast
<1>5. d = Datagram(Bytes(i + 1, i + n), i, IsLast(sub))
  BY DEF PartFor
<1>6. ReassemblerInv(t, L) /\ Pushed(t, r, d, L)
  BY <1>1, <1>4, <1>5, PushKeeps, SMT
<1>7. t.capacity = capacity
  BY <1>1, <1>6 DEF Pushed
<1>8. pushed' = pushed \union (i .. i + n - 1) \union (IF i + n = L THEN {L} ELSE {})
  BY DEF Push, IsLast
<1>9. \A b \in Nat : Holds(d, b) <=> b \in i .. i + n - 1
  <2> HIDE DEF i, n, d
  <2> QED BY <1>2, <1>4, SMT DEF Holds
<1>10. \A b \in 0 .. L - 1 : b \in Nat /\ b # L /\ b \notin (IF i + n = L THEN {L} ELSE {})
  <2> HIDE DEF i, n
  <2> QED BY <1>1, <1>2, SMT
<1>11. \A b \in 0 .. L - 1 : b \in pushed' <=> b \in pushed \/ Holds(d, b)
  BY <1>8, <1>9, <1>10
<1> HIDE DEF t, r, d
<1>12. \A b \in 0 .. L - 1 : Known(t, b) => b \in pushed'
  BY <1>6, <1>10, <1>11 DEF ReassembledInv, Pushed, r
<1>13. ~ t.hung => \A b \in 0 .. L - 1 : b \in pushed' => Known(t, b)
  BY <1>1, <1>6, <1>10, <1>11 DEF ReassembledInv, Pushed, r
<1>14. (NoneEmpty <=> NoneEmpty') /\ (CutOnce <=> CutOnce') /\ Parts' = Parts
  BY <1>1 DEF NoneEmpty, CutOnce, Parts
<1>15. NoneEmpty => Settled(t, L)
  <2> SUFFICES ASSUME NoneEmpty PROVE Settled(t, L)
    BY SMT
  <2>1. n > 0 \/ i = L
    BY DEF NoneEmpty
  <2> HIDE DEF i, n
  <2>2. i < i + n \/ i = L
    BY <1>2, <2>1, SMT
  <2>3. Whole(d, L)
    BY <1>4, <2>2 DEF Whole
  <2> QED BY <1>6, <2>3 DEF ReassembledInv, Pushed, r
<1>16. ASSUME NoneEmpty, CutOnce PROVE ReassemblerCut(t, Parts, L)
  <2>1. Cut(Parts, L) /\ ReassemblerCut(r, Parts, L)
    BY <1>1, <1>16, PartsAreCut DEF ReassembledInv, r
  <2>2. d \in Parts
    BY DEF Parts, d
  <2> QED BY <1>1, <1>4, <1>5, <2>1, <2>2, CutPush, SMT
<1>17. ASSUME L = 0 PROVE t.output.input_ended
  <2>1. i = 0 /\ n = 0
    <3> HIDE DEF i, n
    <3> QED BY <1>2, <1>17, SMT
  <2>2. r.next_assembling_index = 0 /\ r.output.bytes_written = 0 /\ r.output.bytes_read = 0
    <3>1. /\ StreamInv(r.output) /\ r.next_assembling_index = r.output.bytes_written
          /\ r.output.bytes_written <= 0
      BY <1>1, <1>17 DEF ReassemblerInv
    <3>2. r.output.bytes_written \in Nat /\ r.output.bytes_read \in Nat
          /\ r.output.bytes_read <= r.output.bytes_written
      BY <1>1, <3>1, ReassemblerIs DEF StreamInv
    <3> QED BY <3>1, <3>2, SMT
  <2>3. remaining_capacity(r.output) > 0
    <3>1. remaining_capacity(r.output) = capacity - (0 - 0)
      BY <1>1, <2>2, StreamSize DEF ReassemblerInv
    <3> QED BY <3>1, ReassemblerAssumption, SMT
  <2>4. i <= r.next_assembling_index
    BY <2>1, <2>2, SMT
  <2>5. Written(t, r, d)
    BY <1>1, <1>4, <1>5, <2>3, <2>4, PushWrites, SMT
  <2>6. d.eof
    BY <1>4, <1>17, <2>1, SMT
  <2> QED BY <2>5, <2>6 DEF Written
<1> QED BY <1>1, <1>6, <1>7, <1>12, <1>13, <1>14, <1>15, <1>16, <1>17 DEF ReassembledInv, Output, t

\* So does reading.
LEMMA ReadReassembles ==
  ASSUME ReassembledInv, NEW n \in 1 .. capacity, Read(n)
  PROVE  ReassembledInv'
<1> DEFINE r == reassembler  t == reassembler'  L == StreamLength
<1>1. /\ ReassemblerInv(r, L) /\ L \in Nat /\ n \in Nat /\ n <= buffer_size(r.output)
      /\ t = [r EXCEPT !.output = pop_output(r.output, n)]
      /\ substrings' = substrings /\ pushed' = pushed
  BY ReassemblerAssumption DEF ReassembledInv, Read, Output
<1> HIDE DEF t, r
<1>2. /\ ReassemblerInv(t, L) /\ t.capacity = r.capacity /\ t.hung = r.hung
      /\ t.output.input_ended = r.output.input_ended
      /\ \A b : Known(t, b) <=> Known(r, b)
      /\ Settled(t, L) <=> Settled(r, L)
      /\ \A D : ReassemblerCut(t, D, L) <=> ReassemblerCut(r, D, L)
  <2>1. Taken(t, r, n, L)
    BY <1>1, ReadKeeps
  <2> QED BY <2>1, Zenon DEF Taken
<1>3. (NoneEmpty <=> NoneEmpty') /\ (CutOnce <=> CutOnce') /\ Parts' = Parts
  BY <1>1, Zenon DEF NoneEmpty, CutOnce, Parts
<1> QED BY <1>1, <1>2, <1>3, Zenon DEF ReassembledInv, Output, t, r

\* Every step keeps the invariant.
LEMMA ReassembledNext == ReassembledInv /\ [ReassemblerNext]_reassemblerVars => ReassembledInv'
<1> SUFFICES ASSUME ReassembledInv, [ReassemblerNext]_reassemblerVars PROVE ReassembledInv'
  OBVIOUS
<1>1. CASE \E sub \in substrings : InWindow(sub) /\ Push(sub)
  BY <1>1, PushReassembles, Zenon
<1>2. CASE \E n \in 1 .. capacity : Read(n)
  BY <1>2, ReadReassembles, Zenon
<1>3. CASE UNCHANGED reassemblerVars
  <2>1. reassembler' = reassembler /\ substrings' = substrings /\ pushed' = pushed
    BY <1>3 DEF reassemblerVars
  <2> QED BY <2>1, Zenon DEF ReassembledInv, NoneEmpty, CutOnce, Parts, Output
<1> QED BY <1>1, <1>2, <1>3, Zenon DEF ReassemblerNext

\* ReassembledInv holds in every state, whatever substrings within the window are pushed in
\* whatever order, and however the application reads.
THEOREM ReassemblerSafe == ReassemblerSpec => []ReassembledInv
BY ReassembledInit, ReassembledNext, PTL DEF ReassemblerSpec

-----------------------------------------------------------------------------

\* The bytes that push_substring() wrote are the first ones of the stream, in order and
\* without a gap, and it ends the output only after the last: whatever is pushed within the
\* window.
THEOREM OutputIsPrefixHolds == ReassemblerSpec => []OutputIsPrefix
<1>1. ReassembledInv => OutputIsPrefix
  BY Zenon DEF ReassembledInv, ReassemblerInv, StreamInv, OutputIsPrefix, Output
<1> QED BY <1>1, ReassemblerSafe, PTL

\* While calls return and no substring is empty, the output reaches up to the first byte that was never pushed.
LEMMA WrittenIsContiguous ==
  ASSUME ReassembledInv, NoneEmpty, ~ reassembler.hung
  PROVE  Output.bytes_written = Contiguous
<1> DEFINE r == reassembler  L == StreamLength  x == r.next_assembling_index
           P(b) == /\ 0 .. b - 1 \subseteq pushed
                   /\ b < L => b \notin pushed
<1>1. /\ ReassemblerInv(r, L) /\ L \in Nat /\ substrings \in Senders
      /\ \A b \in 0 .. L - 1 : Known(r, b) <=> b \in pushed
  BY ReassemblerAssumption, Zenon DEF ReassembledInv
<1>2. Settled(r, L)
  BY Zenon DEF ReassembledInv
<1>3. /\ x \in Nat /\ x <= L /\ x = r.output.bytes_written /\ Storage(r.storage, L, Limit(r))
      /\ Limit(r) \in Nat
  BY <1>1, ReassemblerIs, Zenon DEF ReassemblerInv
<1> HIDE DEF r, x
<1>4. 0 .. x - 1 \subseteq pushed
  <2> SUFFICES ASSUME NEW b \in 0 .. x - 1 PROVE b \in pushed
    OBVIOUS
  <2>1. b \in 0 .. L - 1 /\ b < x
    BY <1>1, <1>3
  <2> QED BY <1>1, <2>1, Zenon DEF Known, x
<1>5. x < L => x \notin pushed
  <2> SUFFICES ASSUME x < L, x \in pushed PROVE FALSE
    OBVIOUS
  <2>1. x \in 0 .. L - 1
    BY <1>1, <1>3
  <2>2. ~ Known(r, x)
    BY <1>1, <1>2, NextIsUnknown, Zenon DEF x
  <2> QED BY <1>1, <2>1, <2>2, Zenon
<1>6. x \in 0 .. L /\ P(x)
  BY <1>1, <1>3, <1>4, <1>5
<1> DEFINE k == CHOOSE b \in 0 .. L : P(b)
<1>7. k \in 0 .. L /\ P(k)
  <2> HIDE DEF P
  <2> QED BY <1>6
<1>8. k = Contiguous
  BY Zenon DEF Contiguous
<1> HIDE DEF k
<1>9. k = x
  <2>1. ASSUME k < x PROVE FALSE
    <3>1. k \in 0 .. x - 1 /\ k < L
      BY <1>1, <1>3, <1>7, <2>1
    <3> QED BY <1>4, <1>7, <3>1
  <2>2. ASSUME x < k PROVE FALSE
    <3>1. x \in 0 .. k - 1 /\ x < L
      BY <1>1, <1>3, <1>7, <2>2
    <3> QED BY <1>5, <1>7, <3>1
  <2> QED BY <1>1, <1>3, <1>7, <2>1, <2>2
<1> QED BY <1>3, <1>8, <1>9, Zenon DEF Output, r

\* Nothing that was pushed within the window is forgotten, in whatever order overlapping
\* substrings, none of them empty, come and go through the list.
THEOREM OutputIsContiguousHolds == ReassemblerSpec => []OutputIsContiguous
<1>1. ReassembledInv => OutputIsContiguous
  BY WrittenIsContiguous, Zenon DEF OutputIsContiguous
<1> QED BY <1>1, ReassemblerSafe, PTL

\* Every call of push_substring() returns if the stream was cut once, into parts that are
\* not empty.
THEOREM CallsReturnHolds == ReassemblerSpec => []CallsReturn
<1>1. ReassembledInv => CallsReturn
  BY Zenon DEF ReassembledInv, CallsReturn, ReassemblerCut
<1> QED BY <1>1, ReassemblerSafe, PTL

\* The output of such a stream ends once all of it has been pushed, whichever of its parts
\* came first.
THEOREM EndIsRememberedHolds == ReassemblerSpec => []EndIsRemembered
<1> USE Zenon
<1>1. ReassembledInv => EndIsRemembered
  <2> SUFFICES ASSUME ReassembledInv, NoneEmpty, CutOnce, Contiguous = StreamLength,
                      StreamLength \in pushed
               PROVE  Output.input_ended
    BY DEF EndIsRemembered
  <2>1. substrings \in Senders
    BY DEF ReassembledInv
  <2>2. ReassemblerCut(reassembler, Parts, StreamLength) /\ Marked(Parts, StreamLength)
    BY <2>1, PartsAreCut DEF ReassembledInv
  <2>3. reassembler.next_assembling_index = StreamLength
    <3>1. Output.bytes_written = Contiguous
      BY <2>2, WrittenIsContiguous DEF ReassemblerCut
    <3> QED BY <3>1 DEF ReassembledInv, ReassemblerInv, Output
  <2>4. StreamLength = 0 \/ StreamLength > 0
    BY ReassemblerAssumption, SMT
  <2>5. CASE StreamLength > 0
    BY <2>2, <2>3, <2>5 DEF ReassemblerCut, Reached, Output
  <2>6. CASE StreamLength = 0
    BY <2>6 DEF ReassembledInv
  <2> QED BY <2>4, <2>5, <2>6, SMT
<1> QED BY <1>1, ReassemblerSafe, PTL

-----------------------------------------------------------------------------

\* The peer's segment as a datagram.
PeerPart(p) == Datagram(Bytes(p.from, p.from + p.len - 1), IndexOf(p.from), p.fin)

\* The parts into which the peer cuts its stream.
PeerParts == { PeerPart(p) : p \in {q \in segments : ~ q.syn} }

\* The receiver of this stream is sound.
ReceiverInv(r) == Sound(r, StreamLength, PeerIsn, capacity)

\* The number is exactly one beyond what was written, until the FIN counts; if it rides on
\* the last byte, it counts when the output ends.
Exact(r, D, rides) ==
  /\ Settled(r.reassembler, StreamLength)
  /\ ReassemblerCut(r.reassembler, D, StreamLength)
  /\ ~ r.first_segment =>
       \/ r.abs_seqno = stream_out(r).bytes_written + 1
       \/ r.abs_seqno = StreamLength + 2 /\ stream_out(r).bytes_written = StreamLength
  /\ rides /\ ~ r.first_segment =>
       r.abs_seqno = stream_out(r).bytes_written + (IF stream_out(r).input_ended THEN 2 ELSE 1)

\* The inductive invariant: the receiver is sound, and exact if the peer sends nothing
\* but its stream.
SafetyInv == /\ segments \in Peers
             /\ ReceiverInv(receiver)
             /\ OnlyStream => Exact(receiver, PeerParts, FinRides)

-----------------------------------------------------------------------------

\* A segment of the peer, as it comes in.
LEMMA ArrivingIs ==
  ASSUME NEW p, PeerSegment(p)
  PROVE  /\ p.from \in Nat /\ p.len \in Nat /\ p.syn \in BOOLEAN /\ p.fin \in BOOLEAN
         /\ Arriving(p).seqno = wrap(p.from, PeerIsn)
         /\ Arriving(p).syn = p.syn /\ Arriving(p).fin = p.fin
         /\ Arriving(p).payload = Bytes(p.from, p.from + p.len - 1)
         /\ Arriving(p).payload \in Seq(Nat) /\ Len(Arriving(p).payload) = p.len
         /\ length_in_sequence_space(Arriving(p))
              = p.len + (IF p.syn THEN 1 ELSE 0) + (IF p.fin THEN 1 ELSE 0)
         /\ Carried(Arriving(p), p.from, PeerIsn, StreamLength)
         /\ PeerPart(p) = PartOf(Arriving(p), p.from)
<1> USE Zenon
<1> DEFINE f == p.from  n == p.len  q == Bytes(f, f + n - 1)  w == wrap(f, PeerIsn)  s == Arriving(p)
<1>1. f \in Nat /\ n \in Nat /\ p.syn \in BOOLEAN /\ p.fin \in BOOLEAN
  BY DEF PeerSegment
<1>2. w \in SeqNo
  BY <1>1, ReceiverAssumption, WrapType
<1>3. s = [BlankSegment EXCEPT !.seqno = w, !.syn = p.syn, !.fin = p.fin, !.payload = q]
  BY DEF Arriving
<1> HIDE DEF f, n, w, s
<1>4. q \in Seq(Nat) /\ Len(q) = n
  <2>1. f + n - 1 \in Int /\ f <= (f + n - 1) + 1 /\ (f + n - 1) - f + 1 = n
    BY <1>1, SMT
  <2>2. q \in Seq(Nat) /\ Len(q) = (f + n - 1) - f + 1
    BY <1>1, <2>1, BytesType
  <2> QED BY <2>1, <2>2, SMT
<1> HIDE DEF q
<1>5. s \in SegmentRecord /\ s.seqno = w /\ s.syn = p.syn /\ s.fin = p.fin /\ s.payload = q
  BY <1>1, <1>2, <1>3, <1>4, BlankSegmentIs DEF SegmentRecord
<1>6. length_in_sequence_space(s) = n + (IF p.syn THEN 1 ELSE 0) + (IF p.fin THEN 1 ELSE 0)
  BY <1>4, <1>5, SegmentLength
<1>7. Carried(s, f, PeerIsn, StreamLength)
  <2>1. /\ (p.syn <=> f = 0) /\ (p.syn => n = 0 /\ ~ p.fin) /\ f <= StreamLength + 2
        /\ (n > 0 => f + n <= StreamLength + 1) /\ (p.fin => f + n = StreamLength + 1)
    BY DEF PeerSegment, f, n
  <2>2. n = 0 => q = <<>>
    BY <1>4, SMT
  <2> QED BY <1>1, <1>4, <1>5, <2>1, <2>2 DEF Carried, w, q
<1>8. PeerPart(p) = PartOf(s, f)
  BY <1>5 DEF PeerPart, PartOf, f, n, q
<1> QED BY <1>1, <1>4, <1>5, <1>6, <1>7, <1>8 DEF f, n, w, s, q

\* The same segment as a datagram: a part of the stream.
LEMMA PartIs ==
  ASSUME NEW p, PeerSegment(p), NEW w \in Nat, p.len > 0 \/ p.fin => p.from + p.len <= w + 1
  PROVE  /\ PeerPart(p).index = IndexOf(p.from) /\ IndexOf(p.from) \in Nat
         /\ PeerPart(p).eof = p.fin
         /\ end_of(PeerPart(p)) = IndexOf(p.from) + p.len
         /\ PeerPart(p).data = <<>> <=> p.len = 0
         /\ p.from > 0 => IndexOf(p.from) = p.from - 1
         /\ p.from = 0 => IndexOf(p.from) = 0
         /\ Piece(PeerPart(p), StreamLength, w)
<1> USE Zenon
<1> DEFINE seg == Arriving(p)  f == p.from  d == PartOf(seg, f)
<1>1. /\ Carried(seg, f, PeerIsn, StreamLength) /\ PeerPart(p) = d
      /\ seg.fin = p.fin /\ Len(seg.payload) = p.len
  BY ArrivingIs
<1>2. StreamLength \in Nat
  BY ReceiverAssumption, SMT
<1>3. Len(seg.payload) > 0 \/ seg.fin => f + Len(seg.payload) <= w + 1
  BY <1>1
<1> HIDE DEF seg, f
<1>4. /\ d.index = IndexOf(f) /\ IndexOf(f) \in Nat
      /\ d.eof = seg.fin
      /\ end_of(d) = IndexOf(f) + Len(seg.payload)
      /\ d.data = <<>> <=> Len(seg.payload) = 0
      /\ f > 0 => IndexOf(f) = f - 1
      /\ f = 0 => IndexOf(f) = 0
      /\ Piece(d, StreamLength, w)
  <2>1. CarriedPart(seg, f, StreamLength, w)
    BY <1>1, <1>2, <1>3, CarriedIs
  <2> QED BY <2>1 DEF CarriedPart
<1> QED BY <1>1, <1>4 DEF f

\* The numbers of this receiver.
LEMMA ReceiverIs ==
  ASSUME NEW r, ReceiverInv(r)
  PROVE  /\ StreamLength \in Nat /\ capacity \in Nat /\ capacity > 0
         /\ r.abs_seqno \in Nat /\ r.first_segment \in BOOLEAN
         /\ r.reassembler.next_assembling_index = stream_out(r).bytes_written
         /\ stream_out(r).bytes_written \in Nat /\ stream_out(r).bytes_written <= StreamLength
         /\ stream_out(r).input_ended \in BOOLEAN
         /\ stream_out(r).input_ended => stream_out(r).bytes_written = StreamLength
         /\ stream_out(r).bytes_read \in Nat
         /\ window_size(r) \in Nat
         /\ window_size(r) = capacity - (stream_out(r).bytes_written - stream_out(r).bytes_read)
<1>1. StreamLength \in Nat /\ capacity \in Nat \ {0} /\ capacity \in Nat /\ capacity > 0
  BY ReceiverAssumption
<1>2. Sound(r, StreamLength, PeerIsn, capacity)
  BY Zenon DEF ReceiverInv
<1>3. /\ r.abs_seqno \in Nat /\ r.first_segment \in BOOLEAN
      /\ r.reassembler.next_assembling_index = stream_out(r).bytes_written
      /\ stream_out(r).bytes_written \in Nat /\ stream_out(r).bytes_written <= StreamLength
      /\ stream_out(r).input_ended \in BOOLEAN
      /\ stream_out(r).input_ended => stream_out(r).bytes_written = StreamLength
      /\ stream_out(r).bytes_read \in Nat
      /\ window_size(r) \in Nat
      /\ window_size(r) = capacity - (stream_out(r).bytes_written - stream_out(r).bytes_read)
  BY <1>1, <1>2, SoundIs
<1> QED BY <1>1, <1>3, Zenon

\* What the peer may send fits.
LEMMA PeerFits ==
  ASSUME ReceiverInv(receiver), NEW x \in Nat, x <= WindowEnd
  PROVE  Fits(receiver, StreamLength, x)
<1> DEFINE wr == stream_out(receiver).bytes_written  win == window_size(receiver)
<1>1. wr \in Nat /\ win \in Nat /\ receiver.first_segment \in BOOLEAN
  BY ReceiverIs, Zenon
<1>2. WindowEnd = IF receiver.first_segment THEN 1 ELSE 1 + wr + Larger(win, 1)
  BY Zenon DEF WindowEnd, StreamOut
<1> HIDE DEF wr, win
<1>3. x <= 1 + wr + Larger(win, 1)
  BY <1>1, <1>2 DEF Larger
<1> QED BY <1>3 DEF Fits, wr, win

\* A peer that sends nothing but its stream cuts it into parts that do not overlap.
LEMMA PeerPartsAreCut ==
  ASSUME segments \in Peers, OnlyStream
  PROVE  Cut(PeerParts, StreamLength)
<1> USE Zenon
<1> DEFINE L == StreamLength  S == {q \in segments : ~ q.syn}
<1>1. ASSUME NEW p \in S
      PROVE  /\ p.from \in Nat /\ p.len \in Nat /\ p.from > 0 /\ L \in Nat
             /\ PeerPart(p).index = p.from - 1 /\ end_of(PeerPart(p)) = p.from - 1 + p.len
             /\ PeerPart(p).eof = p.fin /\ PeerPart(p) \in DatagramRecord
             /\ p.len > 0 \/ p.fin
             /\ p.len > 0 => p.from + p.len <= L + 1
             /\ p.fin => p.from + p.len = L + 1
  <2>1. PeerSegment(p) /\ ~ p.syn
    BY ReceiverAssumption
  <2>2. p.from \in Nat /\ p.len \in Nat /\ p.from > 0
    BY <2>1, SMT DEF PeerSegment
  <2>3. L \in Nat
    BY ReceiverAssumption, SMT
  <2>4. p.from + p.len \in Nat /\ p.from + p.len <= p.from + p.len + 1
    BY <2>2, SMT
  <2>5. PeerPart(p).index = p.from - 1 /\ end_of(PeerPart(p)) = p.from - 1 + p.len
        /\ PeerPart(p).eof = p.fin /\ Piece(PeerPart(p), L, p.from + p.len)
    BY <2>1, <2>2, <2>4, PartIs
  <2> QED BY <2>1, <2>2, <2>3, <2>5 DEF Piece, PeerSegment, OnlyStream
<1>2. ASSUME NEW p \in S
      PROVE  Whole(PeerPart(p), L) /\ end_of(PeerPart(p)) <= L /\ (PeerPart(p).eof => end_of(PeerPart(p)) = L)
  <2> DEFINE f == p.from  n == p.len
  <2>1. /\ f \in Nat /\ n \in Nat /\ f > 0 /\ L \in Nat /\ (n > 0 \/ p.fin)
        /\ (n > 0 => f + n <= L + 1) /\ (p.fin => f + n = L + 1)
        /\ PeerPart(p).index = f - 1 /\ end_of(PeerPart(p)) = f - 1 + n /\ PeerPart(p).eof = p.fin
    BY <1>1
  <2> HIDE DEF f, n
  <2>2. (f - 1 < f - 1 + n \/ f - 1 = L) /\ f - 1 + n <= L /\ (p.fin => f - 1 + n = L)
    BY <2>1, SMT
  <2> QED BY <2>1, <2>2 DEF Whole
<1>3. ASSUME NEW p \in S, NEW q \in S
      PROVE  \/ PeerPart(p) = PeerPart(q)
             \/ end_of(PeerPart(p)) <= PeerPart(q).index
             \/ end_of(PeerPart(q)) <= PeerPart(p).index
  <2> DEFINE f == p.from  n == p.len  g == q.from  m == q.len
  <2>1. /\ f \in Nat /\ n \in Nat /\ f > 0 /\ L \in Nat /\ (n > 0 \/ p.fin)
        /\ (n > 0 => f + n <= L + 1) /\ (p.fin => f + n = L + 1)
        /\ PeerPart(p).index = f - 1 /\ end_of(PeerPart(p)) = f - 1 + n
    BY <1>1
  <2>2. /\ g \in Nat /\ m \in Nat /\ g > 0 /\ (m > 0 \/ q.fin)
        /\ (m > 0 => g + m <= L + 1) /\ (q.fin => g + m = L + 1)
        /\ PeerPart(q).index = g - 1 /\ end_of(PeerPart(q)) = g - 1 + m
    BY <1>1
  <2>3. n > 0 /\ m > 0 => (f = g /\ n = m /\ p.fin = q.fin) \/ f + n <= g \/ g + m <= f
    BY ReceiverAssumption DEF SegmentsCutOnce
  <2>4. f = g /\ n = m /\ p.fin = q.fin => PeerPart(p) = PeerPart(q)
    BY DEF PeerPart
  <2> HIDE DEF f, n, g, m
  <2>5. \/ f = g /\ n = m /\ p.fin = q.fin
        \/ f - 1 + n <= g - 1
        \/ g - 1 + m <= f - 1
    BY <2>1, <2>2, <2>3, SMT
  <2> QED BY <2>1, <2>2, <2>4, <2>5
<1>4. \A d \in PeerParts : \E p \in S : d = PeerPart(p)
  BY DEF PeerParts
<1> QED BY <1>1, <1>2, <1>3, <1>4 DEF Cut

\* The invariant of a receiver that may have heard a segment, and what it expects next.
Keeps(s, r) ==
  /\ ReceiverInv(s)
  /\ stream_out(s).bytes_read = stream_out(r).bytes_read
  /\ s.abs_seqno >= r.abs_seqno
  /\ OnlyStream => Exact(s, PeerParts, FinRides)
  /\ s = r \/ ~ s.first_segment

\* A segment that is not the expected one changes what is stored, and of a peer that
\* sends nothing but its stream no more than that.
LEMMA OtherSegment ==
  ASSUME SafetyInv, NEW p \in segments, NEW t, NEW s,
         Heard(t, receiver.reassembler, PeerPart(p), StreamLength),
         Follows(s, receiver, t, receiver.abs_seqno, PeerIsn), ~ receiver.first_segment,
         p.from # receiver.abs_seqno
  PROVE  Keeps(s, receiver)
<1> USE Zenon
<1> DEFINE r == receiver  R == r.reassembler  L == StreamLength  d == PeerPart(p)  abs == r.abs_seqno
           x == R.next_assembling_index  y == t.next_assembling_index
           e == R.output.input_ended  over == t.output.input_ended
<1>1. segments \in Peers /\ ReceiverInv(r) /\ PeerSegment(p) /\ L \in Nat
  BY ReceiverAssumption DEF SafetyInv
<1>2. /\ abs \in Nat /\ x = stream_out(r).bytes_written /\ x \in Nat /\ x <= L
      /\ e \in BOOLEAN /\ (e => x = L) /\ e = stream_out(r).input_ended
  BY <1>1, ReceiverIs DEF stream_out
<1>3. /\ ReassemblerInv(t, L) /\ t.capacity = R.capacity /\ x <= y /\ (e => over)
      /\ t.output.bytes_read = R.output.bytes_read
  BY DEF Heard
<1>4. y = t.output.bytes_written /\ y \in Nat /\ y <= L /\ (over => y = L) /\ over \in BOOLEAN
  <2>1. /\ y = t.output.bytes_written /\ y \in Nat /\ y <= L /\ (over => y = L) /\ StreamInv(t.output)
    BY <1>1, <1>3, ReassemblerIs DEF ReassemblerInv
  <2>2. over \in BOOLEAN
    BY <2>1, SMT DEF StreamInv, StreamRecord
  <2> QED BY <2>1, <2>2
<1>5. /\ s \in ReceiverRecord /\ s.reassembler = t /\ s.capacity = capacity /\ s.abs_seqno = abs
      /\ s.isn = PeerIsn /\ s.first_segment = FALSE /\ t.capacity = capacity /\ stream_out(s) = t.output
  BY <1>1, <1>3 DEF Follows, ReceiverInv, Sound, stream_out
<1>6. Hears(s, r, L, PeerIsn, capacity)
  <2>1. Sound(r, L, PeerIsn, capacity) /\ capacity \in Nat \ {0}
    BY <1>1, ReceiverAssumption DEF ReceiverInv
  <2> HIDE DEF d, L
  <2> QED BY <1>1, <2>1, OtherSound DEF d, L
<1>7. ASSUME OnlyStream PROVE Exact(s, PeerParts, FinRides)
  <2>1. /\ Settled(R, L) /\ ReassemblerCut(R, PeerParts, L) /\ Reached(x, e, PeerParts, L)
        /\ abs = x + 1 \/ (abs = L + 2 /\ x = L)
        /\ FinRides => abs = x + (IF e THEN 2 ELSE 1)
    BY <1>2, <1>7 DEF SafetyInv, Exact, ReassemblerCut
  <2>2. Cut(PeerParts, L)
    BY <1>1, <1>7, PeerPartsAreCut
  <2>3. CASE p.syn
    <3>1. /\ p.from = 0 /\ p.len = 0 /\ ~ p.fin
      BY <1>1, <2>3 DEF PeerSegment
    <3>2. d.data = <<>> /\ ~ d.eof /\ d.index = 0
      <4>1. 0 \in Nat /\ (p.len > 0 \/ p.fin => p.from + p.len <= 0 + 1)
        BY <3>1, SMT
      <4> QED BY <1>1, <3>1, <4>1, PartIs
    <3>3. 0 <= x
      BY <1>2, SMT
    <3>4. SameList(t, R) /\ y = x /\ (over <=> e)
      BY <3>2, <3>3 DEF Heard
    <3>5. Settled(t, L) /\ ReassemblerCut(t, PeerParts, L)
      <4>1. t.storage = R.storage /\ t.hung = R.hung
        BY <3>4 DEF SameList
      <4>2. over = e
        BY <1>2, <1>4, <3>4, SMT
      <4> QED BY <2>1, <3>4, <4>1, <4>2 DEF Settled, ReassemblerCut
    <3>6. over = e
      BY <1>2, <1>4, <3>4, SMT
    <3> QED BY <1>4, <1>5, <2>1, <3>4, <3>5, <3>6 DEF Exact
  <2>4. CASE ~ p.syn
    <3>1. d \in PeerParts
      BY <2>4 DEF PeerParts
    <3>2. /\ Whole(d, L) /\ end_of(d) <= L /\ d \in DatagramRecord
      BY <2>2, <3>1 DEF Cut
    <3>3. Settled(t, L) /\ ReassemblerCut(t, PeerParts, L)
      BY <2>1, <2>2, <3>1, <3>2 DEF Heard
    <3>4. p.from \in Nat /\ p.from > 0 /\ p.len \in Nat
      BY <1>1, <2>4, SMT DEF PeerSegment
    <3>5. d.index = p.from - 1
      <4>1. p.from + p.len \in Nat /\ p.from + p.len <= (p.from + p.len) + 1
        BY <3>4, SMT
      <4> QED BY <1>1, <3>4, <4>1, PartIs
    <3>6. d.index < x => end_of(d) <= x
      BY <2>1, <3>1 DEF Reached
    <3>7. d.index > x \/ end_of(d) <= x
      <4> DEFINE i == d.index  j == end_of(d)  f == p.from
      <4>1. i \in Nat /\ j \in Nat
        BY <3>2, SMT DEF DatagramRecord, end_of
      <4>2. /\ f \in Nat /\ f > 0 /\ i = f - 1 /\ j <= L /\ (i < x => j <= x) /\ f # abs
        BY <3>2, <3>4, <3>5, <3>6
      <4> HIDE DEF i, j, f, x, abs
      <4>3. i > x \/ j <= x
        BY <1>1, <1>2, <2>1, <4>1, <4>2, SMT
      <4> QED BY <4>3, SMT DEF i, j
    <3>8. y = x
      BY <2>1, <3>7 DEF Heard
    <3>9. FinRides => over = e
      <4> SUFFICES ASSUME FinRides, over PROVE e
        BY <1>2, <1>3, <1>4, SMT
      <4>1. \E q \in PeerParts : q.eof
        BY <3>3 DEF ReassemblerCut, Reached
      <4>2. PICK q \in segments : ~ q.syn /\ PeerPart(q).eof /\ PeerPart(q) \in PeerParts
        BY <4>1 DEF PeerParts
      <4>3. PeerSegment(q)
        BY <1>1, ReceiverAssumption
      <4>4. q.from \in Nat /\ q.len \in Nat
        BY <4>3 DEF PeerSegment
      <4>5. q.from + q.len \in Nat /\ q.from + q.len <= (q.from + q.len) + 1
        BY <4>4, SMT
      <4>6. /\ PeerPart(q).eof = q.fin /\ PeerPart(q).index = IndexOf(q.from) /\ IndexOf(q.from) \in Nat
            /\ end_of(PeerPart(q)) = IndexOf(q.from) + q.len
        BY <4>3, <4>5, PartIs
      <4>7. q.len > 0
        BY <4>2, <4>6 DEF FinRides
      <4>8. PeerPart(q).index < end_of(PeerPart(q))
        <5> DEFINE k == IndexOf(q.from)  m == q.len
        <5>1. k \in Nat /\ m \in Nat /\ m > 0
          BY <4>4, <4>6, <4>7, SMT
        <5> HIDE DEF k, m
        <5>2. k < k + m
          BY <5>1, SMT
        <5> QED BY <4>6, <5>2, SMT DEF k, m
      <4>9. end_of(PeerPart(q)) = L
        BY <2>2, <4>2 DEF Cut
      <4>10. L <= x
        BY <1>1, <1>4, <3>8, SMT
      <4> QED BY <2>1, <4>2, <4>8, <4>9, <4>10 DEF Reached
    <3> QED BY <1>4, <1>5, <2>1, <3>3, <3>8, <3>9 DEF Exact
  <2> QED BY <2>3, <2>4, SMT
<1> QED BY <1>6, <1>7 DEF Keeps, Hears, ReceiverInv

\* The segment that is expected moves the number on as far as the output goes.
LEMMA ExpectedSegment ==
  ASSUME SafetyInv, NEW p \in segments, NEW t, NEW s,
         Heard(t, receiver.reassembler, PeerPart(p), StreamLength),
         Follows(s, receiver, t, NextNumber(receiver, t, Arriving(p)), PeerIsn),
         receiver.first_segment => p.syn, p.from = receiver.abs_seqno
  PROVE  Keeps(s, receiver)
<1> USE Zenon
<1> DEFINE r == receiver  R == r.reassembler  L == StreamLength  d == PeerPart(p)  abs == r.abs_seqno
           x == R.next_assembling_index  y == t.next_assembling_index
           e == R.output.input_ended  over == t.output.input_ended
           f == p.from  n == p.len  fin == p.fin  seg == Arriving(p)  N == s.abs_seqno
<1>1. segments \in Peers /\ ReceiverInv(r) /\ PeerSegment(p) /\ L \in Nat
  BY ReceiverAssumption DEF SafetyInv
<1>2. /\ abs \in Nat /\ x = stream_out(r).bytes_written /\ x \in Nat /\ x <= L
      /\ e \in BOOLEAN /\ e = stream_out(r).input_ended /\ r.first_segment \in BOOLEAN
  BY <1>1, ReceiverIs DEF stream_out
<1>3. /\ ReassemblerInv(t, L) /\ t.capacity = R.capacity /\ x <= y /\ (e => over)
      /\ t.output.bytes_read = R.output.bytes_read
  BY DEF Heard
<1>4. y = t.output.bytes_written /\ y \in Nat /\ y <= L /\ (over => y = L) /\ over \in BOOLEAN
  <2>1. /\ y = t.output.bytes_written /\ y \in Nat /\ y <= L /\ (over => y = L) /\ StreamInv(t.output)
    BY <1>1, <1>3, ReassemblerIs DEF ReassemblerInv
  <2>2. over \in BOOLEAN
    BY <2>1, SMT DEF StreamInv, StreamRecord
  <2> QED BY <2>1, <2>2
<1>5. /\ s \in ReceiverRecord /\ s.reassembler = t /\ s.capacity = capacity
      /\ s.isn = PeerIsn /\ s.first_segment = FALSE /\ t.capacity = capacity /\ stream_out(s) = t.output
  BY <1>1, <1>3 DEF Follows, ReceiverInv, Sound, stream_out
<1>6. /\ f \in Nat /\ n \in Nat /\ fin \in BOOLEAN /\ p.syn \in BOOLEAN
      /\ f <= L + 2 /\ (n > 0 => f + n <= L + 1) /\ (fin => f + n = L + 1)
      /\ (p.syn <=> f = 0) /\ (p.syn => n = 0 /\ ~ fin) /\ f = abs
  BY <1>1 DEF PeerSegment
<1>7. /\ d.eof = fin /\ d.index = IndexOf(p.from) /\ end_of(d) = IndexOf(p.from) + n /\ (d.data = <<>> <=> n = 0)
      /\ (f > 0 => IndexOf(p.from) = f - 1) /\ (f = 0 => IndexOf(p.from) = 0)
  <2>1. f + n \in Nat /\ f + n <= (f + n) + 1
    BY <1>6, SMT
  <2> QED BY <1>1, <2>1, PartIs
<1>8. seg.fin = fin /\ Len(seg.payload) = n /\ Carried(seg, f, PeerIsn, L) /\ d = PartOf(seg, f)
  BY <1>1, ArrivingIs
<1>9. N = (IF n > 0 THEN y + 1 ELSE IF abs = 0 THEN 1 ELSE abs) + (IF fin \/ over THEN 1 ELSE 0)
  BY <1>4, <1>8 DEF Follows, NextNumber
<1>10. Hears(s, r, L, PeerIsn, capacity)
       /\ ((Len(seg.payload) > 0 \/ seg.fin) /\ f > 0
            /\ (f = stream_out(r).bytes_written + 1 \/ (f = L + 2 /\ stream_out(r).bytes_written = L)) =>
              /\ N = t.output.bytes_written + 1 \/ (N = L + 2 /\ t.output.bytes_written = L)
              /\ Len(seg.payload) > 0 => N = t.output.bytes_written + (IF over THEN 2 ELSE 1))
  <2>1. Sound(r, L, PeerIsn, capacity) /\ capacity \in Nat \ {0}
    BY <1>1, ReceiverAssumption DEF ReceiverInv
  <2>2. Heard(t, r.reassembler, PartOf(seg, f), L) /\ f = r.abs_seqno
        /\ Follows(s, r, t, NextNumber(r, t, seg), PeerIsn)
    BY <1>8
  <2> HIDE DEF L, seg, f, d
  <2> QED BY <1>1, <1>8, <2>1, <2>2, ExpectedSound, SMT
<1>11. /\ N \in Nat
       /\ (n > 0 \/ fin) /\ f > 0 /\ (abs = x + 1 \/ (abs = L + 2 /\ x = L)) =>
            /\ N = y + 1 \/ (N = L + 2 /\ y = L)
            /\ n > 0 => N = y + (IF over THEN 2 ELSE 1)
  <2>1. N \in Nat
    BY <1>5, SMT DEF ReceiverRecord
  <2> QED BY <1>2, <1>4, <1>6, <1>8, <1>10, <2>1
<1>13. ASSUME OnlyStream PROVE Exact(s, PeerParts, FinRides)
  <2>1. Settled(R, L) /\ ReassemblerCut(R, PeerParts, L)
    BY <1>13 DEF SafetyInv, Exact
  <2>2. Cut(PeerParts, L)
    BY <1>1, <1>13, PeerPartsAreCut
  <2>3. CASE p.syn
    <3>1. f = 0 /\ n = 0 /\ ~ fin /\ abs = 0
      BY <1>6, <2>3
    <3>2. r.first_segment /\ x = 0 /\ ~ e
      <4>1. ~ r.first_segment => abs > 0
        BY <1>1 DEF ReceiverInv, Sound
      <4>2. r.first_segment
        BY <1>2, <3>1, <4>1, SMT
      <4> QED BY <1>1, <1>2, <4>2 DEF ReceiverInv, Sound
    <3>3. 0 <= x
      BY <1>2, SMT
    <3>4. SameList(t, R) /\ y = x /\ (over <=> e)
      BY <1>7, <3>1, <3>3 DEF Heard
    <3>5. over = e
      BY <1>2, <1>4, <3>4, SMT
    <3>6. Settled(t, L) /\ ReassemblerCut(t, PeerParts, L)
      <4>1. t.storage = R.storage /\ t.hung = R.hung
        BY <3>4 DEF SameList
      <4> QED BY <2>1, <3>4, <3>5, <4>1 DEF Settled, ReassemblerCut
    <3>7. N = y + 1 /\ N = y + (IF over THEN 2 ELSE 1)
      <4> HIDE DEF abs, x, y, over, f, n, fin, L
      <4> QED BY <1>9, <3>1, <3>2, <3>4, <3>5, SMT
    <3> QED BY <1>4, <1>5, <3>6, <3>7 DEF Exact
  <2>4. CASE ~ p.syn
    <3>1. d \in PeerParts
      BY <2>4 DEF PeerParts
    <3>2. Whole(d, L)
      BY <2>2, <3>1 DEF Cut
    <3>3. Settled(t, L) /\ ReassemblerCut(t, PeerParts, L)
      BY <2>1, <2>2, <3>1, <3>2 DEF Heard
    <3>4. n > 0 \/ fin
      BY <1>13, <2>4 DEF OnlyStream
    <3>5. abs = x + 1 \/ (abs = L + 2 /\ x = L)
      BY <1>2, <1>13, <2>4 DEF SafetyInv, Exact
    <3>6. f > 0
      BY <1>6, <2>4, SMT
    <3>7. /\ N = y + 1 \/ (N = L + 2 /\ y = L)
          /\ n > 0 => N = y + (IF over THEN 2 ELSE 1)
      BY <1>11, <3>4, <3>5, <3>6
    <3>8. FinRides => n > 0
      BY <3>4 DEF FinRides
    <3> QED BY <1>4, <1>5, <3>3, <3>7, <3>8 DEF Exact
  <2> QED BY <1>6, <2>3, <2>4, SMT
<1> QED BY <1>10, <1>13 DEF Keeps, Hears, ReceiverInv

\* segment_received() keeps the invariant.
LEMMA SegmentKeeps ==
  ASSUME SafetyInv, NEW p \in segments, SegmentReceived(p)
  PROVE  Keeps(receiver', receiver)
<1> USE Zenon
<1> DEFINE r == receiver  s == receiver'  seg == Arriving(p)  f == p.from  L == StreamLength
           t == push_substring(r.reassembler, seg.payload, IndexOf(f), seg.fin)
<1>1. segments \in Peers /\ ReceiverInv(r) /\ PeerSegment(p)
  BY ReceiverAssumption DEF SafetyInv
<1>2. /\ L \in Nat /\ L + 3 < Half /\ PeerIsn \in SeqNo /\ capacity \in Nat \ {0}
      /\ Sound(r, L, PeerIsn, capacity)
  BY <1>1, ReceiverAssumption DEF ReceiverInv
<1>3. Carried(seg, f, PeerIsn, L) /\ PeerPart(p) = PartOf(seg, f) /\ seg.syn = p.syn
  BY <1>1, ArrivingIs
<1>4. Fits(r, L, f + length_in_sequence_space(seg))
  <2>1. f \in Nat
    BY <1>1, ArrivingIs
  <2> DEFINE n == length_in_sequence_space(seg)
  <2>2. seg \in SegmentRecord
    BY <1>3 DEF Carried
  <2>3. f + n <= WindowEnd
    BY DEF SegmentReceived
  <2> HIDE DEF seg, f
  <2>4. n \in Nat
    BY <2>2, SegmentLength
  <2> HIDE DEF n
  <2>5. f + n \in Nat
    BY <2>1, <2>4, SMT
  <2>6. Fits(receiver, StreamLength, f + n)
    BY <1>1, <2>3, <2>5, PeerFits
  <2> QED BY <2>6, SMT DEF n
<1>5. s = receiver_segment_received(r, seg)
  BY DEF SegmentReceived
<1> HIDE DEF seg, L, f
<1>6. Heard(t, r.reassembler, PartOf(seg, f), L)
  BY <1>2, <1>3, <1>4, SegmentHeard, SMT
<1>7. t \in ReassemblerRecord /\ t = push_substring(r.reassembler, seg.payload, IndexOf(f), seg.fin)
  BY <1>6 DEF Heard, ReassemblerInv
<1> HIDE DEF t
<1>8. \/ s = r
      \/ Follows(s, r, t, r.abs_seqno, PeerIsn) /\ ~ r.first_segment /\ f # r.abs_seqno
      \/ Follows(s, r, t, NextNumber(r, t, seg), PeerIsn) /\ f = r.abs_seqno /\ (r.first_segment => seg.syn)
  <2>1. SegmentCase(s, r, t, seg, f, PeerIsn)
    BY <1>2, <1>3, <1>5, <1>7, SegmentCases
  <2> QED BY <2>1 DEF SegmentCase
<1>9. CASE s = r
  <2>1. r.abs_seqno \in Nat
    BY <1>1, ReceiverIs
  <2>2. r.abs_seqno >= r.abs_seqno
    BY <2>1, SMT
  <2> QED BY <1>1, <1>9, <2>2 DEF Keeps, SafetyInv
<1>10. CASE Follows(s, r, t, r.abs_seqno, PeerIsn) /\ ~ r.first_segment /\ f # r.abs_seqno
  BY <1>3, <1>6, <1>10, OtherSegment DEF f, L
<1>11. CASE Follows(s, r, t, NextNumber(r, t, seg), PeerIsn) /\ f = r.abs_seqno /\ (r.first_segment => seg.syn)
  BY <1>3, <1>6, <1>11, ExpectedSegment DEF f, L, seg
<1> QED BY <1>8, <1>9, <1>10, <1>11, SMT

\* So does the application that reads.
LEMMA ReadKept ==
  ASSUME SafetyInv, NEW n \in Nat, ReadStream(n)
  PROVE  /\ ReceiverInv(receiver')
         /\ OnlyStream => Exact(receiver', PeerParts, FinRides)
         /\ receiver'.abs_seqno = receiver.abs_seqno
         /\ stream_out(receiver').bytes_written = stream_out(receiver).bytes_written
         /\ stream_out(receiver').bytes_read = stream_out(receiver).bytes_read + n
<1> USE Zenon
<1> DEFINE r == receiver  s == receiver'  L == StreamLength
<1>1. /\ Sound(r, L, PeerIsn, capacity) /\ L \in Nat /\ n <= buffer_size(stream_out(r))
      /\ s = [r EXCEPT !.reassembler.output = pop_output(@, n)]
  BY ReceiverAssumption DEF SafetyInv, ReceiverInv, ReadStream, StreamOut
<1> HIDE DEF r, s, L
<1>2. ReadBy(s, r, n, L, PeerIsn, capacity)
  BY <1>1, ReadSound
<1>3. OnlyStream => Exact(s, PeerParts, FinRides)
  BY <1>2 DEF ReadBy, SafetyInv, Exact, Taken, r, L
<1> QED BY <1>2, <1>3 DEF ReadBy, ReceiverInv, r, s, L

\* The invariant holds initially.
LEMMA InitSafe == Init => SafetyInv
<1> SUFFICES ASSUME Init PROVE SafetyInv
  OBVIOUS
<1> DEFINE r == receiver  R == r.reassembler  L == StreamLength
<1>1. capacity \in Nat /\ L \in Nat /\ segments \in Peers /\ r = TCPReceiver(capacity)
  BY ReceiverAssumption DEF Init
<1>2. /\ Sound(r, L, PeerIsn, capacity) /\ r.first_segment = TRUE /\ Vacant(R, capacity, L)
  BY <1>1, NewReceiver, Zenon
<1>3. /\ R.storage = <<>> /\ R.hung = FALSE /\ R.next_assembling_index = 0
      /\ R.output.input_ended = FALSE /\ Settled(R, L)
  BY <1>2, Zenon DEF Vacant
<1> HIDE DEF R
<1>7. ASSUME OnlyStream PROVE Exact(r, PeerParts, FinRides)
  <2>1. Cut(PeerParts, L)
    BY <1>1, <1>7, PeerPartsAreCut, Zenon
  <2>2. Within(R.storage, PeerParts)
    BY <1>3 DEF Within
  <2>3. ASSUME NEW d \in PeerParts PROVE d.index \in Nat /\ end_of(d) \in Nat
    <3>1. d \in DatagramRecord
      BY <2>1, Zenon DEF Cut
    <3> QED BY <3>1 DEF DatagramRecord, end_of
  <2>4. Reached(0, FALSE, PeerParts, L)
    BY <1>1, <2>3 DEF Reached
  <2>5. ReassemblerCut(R, PeerParts, L)
    BY <1>3, <2>2, <2>4, Zenon DEF ReassemblerCut
  <2> QED BY <1>2, <1>3, <2>5, Zenon DEF Exact, R
<1> QED BY <1>1, <1>2, <1>7, Zenon DEF SafetyInv, ReceiverInv

\* Every step keeps it.
LEMMA NextSafe == SafetyInv /\ [Next]_receiverVars => SafetyInv'
<1> USE Zenon
<1> SUFFICES ASSUME SafetyInv, [Next]_receiverVars PROVE SafetyInv'
  BY SMT
<1>1. ASSUME segments' = segments, ReceiverInv(receiver'), OnlyStream => Exact(receiver', PeerParts, FinRides)
      PROVE  SafetyInv'
  <2>1. segments' \in Peers
    BY <1>1 DEF SafetyInv
  <2>2. ReceiverInv(receiver)'
    BY <1>1 DEF ReceiverInv, Sound, stream_out
  <2>3. (OnlyStream => Exact(receiver, PeerParts, FinRides))'
    BY <1>1 DEF OnlyStream, Exact, PeerParts, FinRides, stream_out
  <2> QED BY <2>1, <2>2, <2>3 DEF SafetyInv
<1>2. ASSUME NEW p \in segments, SegmentReceived(p) PROVE SafetyInv'
  <2>1. Keeps(receiver', receiver) /\ segments' = segments
    BY <1>2, SegmentKeeps DEF SegmentReceived
  <2> QED BY <1>1, <2>1 DEF Keeps
<1>3. ASSUME NEW n \in 1 .. capacity, ReadStream(n) PROVE SafetyInv'
  <2>1. n \in Nat
    BY ReceiverAssumption, SMT
  <2>2. segments' = segments
    BY <1>3 DEF ReadStream
  <2> QED BY <1>1, <1>3, <2>1, <2>2, ReadKept
<1>4. CASE UNCHANGED receiverVars
  BY <1>1, <1>4 DEF receiverVars, SafetyInv
<1> QED BY <1>2, <1>3, <1>4 DEF Next

\* The inductive invariant of the receiver.
THEOREM ReceiverSafe == Spec => []SafetyInv
<1>1. Init => SafetyInv
  BY InitSafe
<1>2. SafetyInv /\ [Next]_receiverVars => SafetyInv'
  BY NextSafe
<1> QED BY <1>1, <1>2, PTL DEF Spec

\* A byte that is acknowledged has been written to the output, for every peer and in
\* whatever order its segments come: segment_received() keeps abs_seqno apart from the
\* reassembler, and never runs ahead of it.
THEOREM AckedIsWrittenHolds == Spec => []AckedIsWritten
<1>1. SafetyInv => AckedIsWritten
  <2> SUFFICES ASSUME SafetyInv PROVE AckedIsWritten
    OBVIOUS
  <2> DEFINE abs == receiver.abs_seqno  x == stream_out(receiver).bytes_written  L == StreamLength
  <2>1. ReceiverInv(receiver)
    BY Zenon DEF SafetyInv
  <2>2. abs \in Nat /\ x \in Nat /\ x <= L /\ L \in Nat
    BY <2>1, ReceiverIs, Zenon
  <2>3. abs <= x + 1 \/ x = L
    BY <2>1, Zenon DEF ReceiverInv, Sound
  <2> HIDE DEF abs, x, L
  <2>4. Smaller(abs - 1, L) <= x
    BY <2>2, <2>3 DEF Smaller
  <2> QED BY <2>4 DEF AckedIsWritten, StreamOut, abs, x, L
<1> QED BY <1>1, ReceiverSafe, PTL

\* Until the FIN counts, the ackno is one beyond what was written, for every peer that
\* sends nothing but its stream.
THEOREM AckFollowsOutputHolds == Spec => []AckFollowsOutput
<1>1. SafetyInv => AckFollowsOutput
  <2> SUFFICES ASSUME SafetyInv, OnlyStream, ~ receiver.first_segment, receiver.abs_seqno <= StreamLength + 1
               PROVE  receiver.abs_seqno = StreamOut.bytes_written + 1
    BY Zenon DEF AckFollowsOutput
  <2> DEFINE abs == receiver.abs_seqno  x == stream_out(receiver).bytes_written  L == StreamLength
  <2>1. L \in Nat /\ abs <= L + 1
    BY ReceiverAssumption
  <2>2. abs = x + 1 \/ abs = L + 2
    BY Zenon DEF SafetyInv, Exact
  <2> HIDE DEF abs, x, L
  <2>3. abs = x + 1
    BY <2>1, <2>2
  <2> QED BY <2>3 DEF StreamOut, abs, x
<1> QED BY <1>1, ReceiverSafe, PTL

\* ackno() is the number of the first byte that is missing, and beyond the FIN once the
\* output has ended, for every peer whose FIN comes with the last byte: the number and
\* the reassembler never disagree about the end.
THEOREM AckIsExactHolds == Spec => []AckIsExact
<1>1. SafetyInv => AckIsExact
  <2> SUFFICES ASSUME SafetyInv, FinRides, OnlyStream, ~ receiver.first_segment
               PROVE  receiver.abs_seqno = 1 + StreamOut.bytes_written + (IF StreamOut.input_ended THEN 1 ELSE 0)
    BY Zenon DEF AckIsExact, AckIsFirstNotReceived
  <2> DEFINE abs == receiver.abs_seqno  x == stream_out(receiver).bytes_written
             over == stream_out(receiver).input_ended
  <2>1. ReceiverInv(receiver)
    BY Zenon DEF SafetyInv
  <2>2. x \in Nat /\ over \in BOOLEAN
    BY <2>1, ReceiverIs, Zenon
  <2>3. abs = x + (IF over THEN 2 ELSE 1)
    BY Zenon DEF SafetyInv, Exact
  <2> HIDE DEF abs, x, over
  <2>4. abs = 1 + x + (IF over THEN 1 ELSE 0)
    BY <2>2, <2>3
  <2> QED BY <2>4 DEF StreamOut, abs, x, over
<1> QED BY <1>1, ReceiverSafe, PTL

\* A segment does not move the right edge of the window to the left.
LEMMA SegmentEdge ==
  ASSUME SafetyInv, NEW p \in segments, SegmentReceived(p), OnlyStream
  PROVE  receiver'.abs_seqno + window_size(receiver') >= receiver.abs_seqno + window_size(receiver)
<1> USE Zenon
<1> DEFINE r == receiver  s == receiver'  L == StreamLength
           abs == r.abs_seqno  x == stream_out(r).bytes_written  rd == stream_out(r).bytes_read
           n == s.abs_seqno    y == stream_out(s).bytes_written
           win == window_size(r)  edge == window_size(s)
<1>1. ReceiverInv(r) /\ Keeps(s, r)
  BY SegmentKeeps DEF SafetyInv
<1>2. ReceiverInv(s) /\ Exact(s, PeerParts, FinRides) /\ n >= abs /\ (s = r \/ ~ s.first_segment)
  BY <1>1 DEF Keeps
<1>3. /\ abs \in Nat /\ x \in Nat /\ x <= L /\ L \in Nat /\ rd \in Nat /\ capacity \in Nat
      /\ win = capacity - (x - rd) /\ win \in Nat /\ r.first_segment \in BOOLEAN
  BY <1>1, ReceiverIs
<1>4. n \in Nat /\ y \in Nat /\ y <= L /\ edge = capacity - (y - rd)
  BY <1>1, <1>2, ReceiverIs DEF Keeps
<1>5. CASE s = r
  <2>1. abs + win >= abs + win
    BY <1>3, SMT
  <2> QED BY <1>5, <2>1
<1>6. CASE ~ s.first_segment
  <2>1. n = y + 1 \/ (n = L + 2 /\ y = L)
    BY <1>2, <1>6 DEF Exact
  <2>2. r.first_segment => abs = 0 /\ x = 0
    BY <1>1 DEF ReceiverInv, Sound
  <2>3. ~ r.first_segment => abs = x + 1 \/ (abs = L + 2 /\ x = L)
    BY DEF SafetyInv, Exact
  <2> DEFINE first == r.first_segment
  <2> HIDE DEF abs, x, rd, n, y, win, edge, L, first
  <2>4. n + edge >= abs + win
    BY <1>2, <1>3, <1>4, <2>1, <2>2, <2>3, SMT DEF first
  <2> QED BY <2>4, SMT DEF abs, win, n, edge
<1> QED BY <1>2, <1>5, <1>6, SMT

\* Nor does the application that reads.
LEMMA ReadEdge ==
  ASSUME SafetyInv, NEW n \in Nat, ReadStream(n)
  PROVE  receiver'.abs_seqno + window_size(receiver') >= receiver.abs_seqno + window_size(receiver)
<1> DEFINE r == receiver  s == receiver'
           abs == r.abs_seqno  x == stream_out(r).bytes_written  rd == stream_out(r).bytes_read
           win == window_size(r)  edge == window_size(s)
<1>1. ReceiverInv(r) /\ ReceiverInv(s) /\ s.abs_seqno = abs
  BY ReadKept, Zenon DEF SafetyInv
<1>2. abs \in Nat /\ x \in Nat /\ rd \in Nat /\ capacity \in Nat /\ win = capacity - (x - rd)
  BY <1>1, ReceiverIs, Zenon
<1>3. edge = capacity - (x - (rd + n))
  BY <1>1, ReceiverIs, ReadKept, Zenon
<1> HIDE DEF abs, x, rd, win, edge
<1>4. abs + edge >= abs + win
  BY <1>2, <1>3
<1> QED BY <1>1, <1>4 DEF abs, win, edge

\* The right edge of the window never moves to the left, for every peer that sends
\* nothing but its stream.
THEOREM WindowNeverShrinksHolds == Spec => WindowNeverShrinks
<1> DEFINE Grows == OnlyStream => receiver'.abs_seqno + window_size(receiver')
                                    >= receiver.abs_seqno + window_size(receiver)
<1>1. SafetyInv /\ [Next]_receiverVars => [Grows]_receiverVars
  <2> SUFFICES ASSUME SafetyInv, Next PROVE Grows
    OBVIOUS
  <2>1. ASSUME NEW p \in segments, SegmentReceived(p) PROVE Grows
    BY <2>1, SegmentEdge, Zenon
  <2>2. ASSUME NEW n \in 1 .. capacity, ReadStream(n) PROVE Grows
    <3>1. n \in Nat
      BY ReceiverAssumption
    <3> QED BY <2>2, <3>1, ReadEdge, Zenon
  <2> QED BY <2>1, <2>2, Zenon DEF Next
<1> QED BY <1>1, ReceiverSafe, PTL DEF Spec, WindowNeverShrinks
=============================================================================
