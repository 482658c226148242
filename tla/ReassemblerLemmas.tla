--------------------------- MODULE ReassemblerLemmas ---------------------------
(***************************************************************************)
(* What push_substring() does to a StreamReassembler that is given parts   *)
(* of one stream of L bytes, and segment_received() to a TCPReceiver that  *)
(* is given segments with these parts.                                     *)
(***************************************************************************)
EXTENDS StreamLemmas

\* An erasure keeps the order, and loses the bytes of one datagram only.
LEMMA EraseKeeps ==
  ASSUME NEW L, NEW w, NEW q, Storage(q, L, w), NEW i \in 1 .. Len(q)
  PROVE  /\ Storage(erase(q, i), L, w)
         /\ Len(erase(q, i)) = Len(q) - 1 /\ Len(q) \in Nat
         /\ Among(erase(q, i), q)
         /\ \A b : HoldsAny(q, b) => HoldsAny(erase(q, i), b) \/ Holds(q[i], b)
<1> USE Zenon
<1> DEFINE e == erase(q, i)
           n == Len(q)
           at(j) == IF j < i THEN j ELSE j + 1
<1>1. q \in Seq(DatagramRecord) /\ n \in Nat
  BY SMT DEF Storage
<1>2. e \in Seq(DatagramRecord) /\ Len(e) = n - 1 /\ \A j \in 1 .. n - 1 : e[j] = q[at(j)]
  BY <1>1, EraseIs
<1> HIDE DEF e, n
<1>3. i \in 1 .. n
  BY SMT DEF n
<1>4. \A j \in 1 .. Len(e) : at(j) \in 1 .. n /\ e[j] = q[at(j)]
  BY <1>1, <1>2, <1>3, SMT
<1>5. \A j, k \in 1 .. Len(e) : j < k => at(j) < at(k)
  BY <1>1, <1>2, <1>3, SMT
<1>6. \A k \in 1 .. n : k # i => \E j \in 1 .. Len(e) : at(j) = k
  <2> SUFFICES ASSUME NEW k \in 1 .. n, k # i PROVE \E j \in 1 .. Len(e) : at(j) = k
    BY SMT
  <2>1. CASE k < i
    <3>1. k \in 1 .. Len(e) /\ at(k) = k
      BY <1>1, <1>2, <1>3, <2>1, SMT
    <3> QED BY <3>1
  <2>2. CASE k > i
    <3>1. k - 1 \in 1 .. Len(e) /\ at(k - 1) = k
      BY <1>1, <1>2, <1>3, <2>2, SMT
    <3> QED BY <3>1
  <2> QED BY <1>1, <1>3, <2>1, <2>2, SMT
<1> HIDE DEF at
<1>7. \A j \in 1 .. Len(e) : Piece(e[j], L, w)
  BY <1>4 DEF Storage, n
<1>8. \A j, k \in 1 .. Len(e) : j < k => e[j].index <= e[k].index
  <2> SUFFICES ASSUME NEW j \in 1 .. Len(e), NEW k \in 1 .. Len(e), j < k
               PROVE  e[j].index <= e[k].index
    BY SMT
  <2>1. at(j) < at(k) /\ at(j) \in 1 .. n /\ at(k) \in 1 .. n /\ e[j] = q[at(j)] /\ e[k] = q[at(k)]
    BY <1>4, <1>5
  <2> QED BY <2>1 DEF Storage, n
<1>9. Storage(e, L, w)
  BY <1>2, <1>7, <1>8 DEF Storage
<1>10. Among(e, q)
  BY <1>4 DEF Among, n
<1>11. ASSUME NEW b, HoldsAny(q, b) PROVE HoldsAny(e, b) \/ Holds(q[i], b)
  <2>1. PICK k \in 1 .. n : Holds(q[k], b)
    BY <1>11 DEF HoldsAny, n
  <2>2. CASE k = i
    BY <2>1, <2>2
  <2>3. CASE k # i
    <3>1. PICK j \in 1 .. Len(e) : at(j) = k
      BY <1>6, <2>3
    <3>2. e[j] = q[k]
      BY <1>4, <3>1
    <3> QED BY <2>1, <3>2 DEF HoldsAny
  <2> QED BY <2>2, <2>3
<1> QED BY <1>1, <1>2, <1>9, <1>10, <1>11 DEF e, n

\* The place of a new datagram in the list.
LEMMA PlaceIs ==
  ASSUME NEW L \in Nat, NEW w \in Nat, NEW q, Storage(q, L, w), NEW x \in Nat
  PROVE  LET k == CHOOSE k \in 0 .. Len(q) : \A i \in 1 .. Len(q) : q[i].index < x <=> i <= k
         IN  k \in 0 .. Len(q) /\ \A i \in 1 .. Len(q) : q[i].index < x <=> i <= k
<1> DEFINE n == Len(q)
           T == {k \in 0 .. n : \A i \in 1 .. n : q[i].index < x => i <= k}
           P(k) == \A i \in 1 .. n : q[i].index < x <=> i <= k
<1>1. n \in Nat
  BY DEF Storage
<1>2. \A i \in 1 .. n : q[i].index \in Nat
  BY PieceIs, Zenon DEF Storage
<1>3. \A i, j \in 1 .. n : i < j => q[i].index <= q[j].index
  BY Zenon DEF Storage
<1> HIDE DEF n
<1>4. T \subseteq Nat /\ n \in T
  BY <1>1
<1>5. PICK k \in T : \A y \in T : k <= y
  BY <1>4, LeastElement, Zenon
<1>6. k \in 0 .. n /\ \A i \in 1 .. n : q[i].index < x => i <= k
  BY <1>5
<1>7. ASSUME NEW i \in 1 .. n, i <= k PROVE q[i].index < x
  <2>1. k - 1 \in 0 .. n /\ k - 1 < k /\ k \in 1 .. n
    BY <1>1, <1>6, <1>7
  <2>2. k - 1 \notin T
    BY <1>1, <1>5, <1>6, <2>1
  <2>3. PICK j \in 1 .. n : q[j].index < x /\ ~ (j <= k - 1)
    BY <2>1, <2>2
  <2>4. j = k
    BY <1>1, <1>6, <2>3
  <2>5. q[k].index < x
    BY <2>3, <2>4
  <2>6. i = k \/ q[i].index <= q[k].index
    BY <1>1, <1>3, <1>7, <2>1
  <2>7. q[i].index \in Nat /\ q[k].index \in Nat
    BY <1>2, <2>1, Zenon
  <2> QED BY <2>5, <2>6, <2>7
<1>8. P(k)
  BY <1>6, <1>7, Zenon
<1> HIDE DEF P
<1>9. \E j \in 0 .. n : P(j)
  BY <1>6, <1>8, Zenon
<1> DEFINE c == CHOOSE j \in 0 .. n : P(j)
<1>10. c \in 0 .. n /\ P(c)
  BY <1>9, Zenon
<1> QED BY <1>10, Zenon DEF P, n

\* The list with a new datagram in its place.
LEMMA InsertIs ==
  ASSUME NEW L \in Nat, NEW w \in Nat, NEW q, Storage(q, L, w), NEW d, Piece(d, L, w)
  PROVE  Storage(sorted_insert(q, d), L, w) /\ Inserted(sorted_insert(q, d), q, d)
<1> DEFINE n == Len(q)
           k == CHOOSE k \in 0 .. Len(q) : \A i \in 1 .. Len(q) : q[i].index < d.index <=> i <= k
           a == SubSeq(q, 1, k)
           b == SubSeq(q, k + 1, Len(q))
           s == (a \o <<d>>) \o b
<1>1. d \in DatagramRecord /\ d.index \in Nat
  BY PieceIs, Zenon
<1>2. q \in Seq(DatagramRecord) /\ n \in Nat
  BY DEF Storage
<1>3. k \in 0 .. n /\ \A i \in 1 .. n : q[i].index < d.index <=> i <= k
  BY <1>1, PlaceIs, Zenon
<1>4. sorted_insert(q, d) = s
  BY Zenon DEF sorted_insert
<1> HIDE DEF k
<1>5. k \in Nat /\ k <= n
  BY <1>2, <1>3
<1>6. a \in Seq(DatagramRecord) /\ Len(a) = k /\ \A j \in 1 .. k : a[j] = q[j]
  <2>1. 1 \in 1 .. Len(q) + 1 /\ k \in 0 .. Len(q) /\ 1 <= k + 1
    BY <1>2, <1>5
  <2>2. /\ a \in Seq(DatagramRecord) /\ Len(a) = k - 1 + 1
        /\ \A j \in 1 .. k - 1 + 1 : a[j] = q[1 + j - 1]
    BY <1>2, <2>1, SubSeqIs, Zenon
  <2> HIDE DEF a
  <2> QED BY <1>5, <2>2
<1>7. b \in Seq(DatagramRecord) /\ Len(b) = n - k /\ \A j \in 1 .. n - k : b[j] = q[j + k]
  BY <1>2, <1>5, DropFirst, Zenon
<1> HIDE DEF a, b, n
<1>8. /\ a \o <<d>> \in Seq(DatagramRecord) /\ Len(a \o <<d>>) = k + 1
      /\ \A j \in 1 .. k : (a \o <<d>>)[j] = q[j]
      /\ (a \o <<d>>)[k + 1] = d
  <2>1. <<d>> \in Seq(DatagramRecord) /\ Len(<<d>>) = 1 /\ <<d>>[1] = d
    BY <1>1
  <2> DEFINE e == <<d>>
  <2> HIDE DEF e
  <2>2. e \in Seq(DatagramRecord) /\ Len(e) = 1 /\ e[1] = d
    BY <2>1 DEF e
  <2>3. /\ a \o e \in Seq(DatagramRecord) /\ Len(a \o e) = Len(a) + Len(e)
        /\ \A j \in 1 .. Len(a) : (a \o e)[j] = a[j]
        /\ \A j \in Len(a) + 1 .. Len(a) + Len(e) : (a \o e)[j] = e[j - Len(a)]
    BY <1>6, <2>2, ConcatIs, Zenon
  <2>4. (a \o e)[k + 1] = d
    <3>1. k + 1 \in Len(a) + 1 .. Len(a) + Len(e) /\ (k + 1) - Len(a) = 1
      BY <1>5, <1>6, <2>2
    <3> QED BY <2>2, <2>3, <3>1
  <2>5. \A j \in 1 .. k : (a \o e)[j] = q[j]
    BY <1>6, <2>3
  <2>6. Len(a \o e) = k + 1
    BY <1>5, <1>6, <2>2, <2>3
  <2> QED BY <2>3, <2>4, <2>5, <2>6, Zenon DEF e
<1> DEFINE c == a \o <<d>>
<1> HIDE DEF c
<1>9. /\ c \in Seq(DatagramRecord) /\ Len(c) = k + 1 /\ (\A j \in 1 .. k : c[j] = q[j]) /\ c[k + 1] = d
  BY <1>8, Zenon DEF c
<1>10. s = c \o b
  BY Zenon DEF c
<1> HIDE DEF s
<1>11. /\ s \in Seq(DatagramRecord) /\ Len(s) = Len(c) + Len(b)
       /\ \A j \in 1 .. Len(c) : s[j] = c[j]
       /\ \A j \in Len(c) + 1 .. Len(c) + Len(b) : s[j] = b[j - Len(c)]
  BY <1>7, <1>9, <1>10, ConcatIs, Zenon
<1>12. Len(s) = n + 1
  BY <1>2, <1>5, <1>7, <1>9, <1>11
<1>13. \A j \in 1 .. k : s[j] = q[j]
  <2>1. \A j \in 1 .. k : j \in 1 .. Len(c)
    BY <1>5, <1>9
  <2> QED BY <1>9, <1>11, <2>1, Zenon
<1>14. s[k + 1] = d
  <2>1. k + 1 \in 1 .. Len(c)
    BY <1>5, <1>9
  <2> QED BY <1>9, <1>11, <2>1, Zenon
<1>15. ASSUME NEW j \in k + 2 .. n + 1 PROVE s[j] = q[j - 1]
  <2>1. j \in Len(c) + 1 .. Len(c) + Len(b) /\ j - Len(c) = j - k - 1 /\ j - k - 1 \in 1 .. n - k
        /\ (j - k - 1) + k = j - 1
    BY <1>2, <1>5, <1>7, <1>9
  <2>2. s[j] = b[j - k - 1]
    BY <1>11, <2>1
  <2> QED BY <1>7, <2>1, <2>2
<1>16. \A i \in 1 .. Len(s) : \/ i <= k /\ i \in 1 .. n /\ s[i] = q[i]
                              \/ i = k + 1 /\ s[i] = d
                              \/ i > k + 1 /\ i - 1 \in 1 .. n /\ s[i] = q[i - 1]
  <2> SUFFICES ASSUME NEW i \in 1 .. n + 1
               PROVE  \/ i <= k /\ i \in 1 .. n /\ s[i] = q[i]
                      \/ i = k + 1 /\ s[i] = d
                      \/ i > k + 1 /\ i - 1 \in 1 .. n /\ s[i] = q[i - 1]
    BY <1>12
  <2>1. CASE i <= k
    <3>1. i \in 1 .. n /\ i \in 1 .. k
      BY <1>2, <1>5, <2>1
    <3> QED BY <1>13, <2>1, <3>1, Zenon
  <2>2. CASE i = k + 1
    BY <1>14, <2>2
  <2>3. CASE i > k + 1
    <3>1. i \in k + 2 .. n + 1 /\ i - 1 \in 1 .. n
      BY <1>2, <1>5, <2>3
    <3> QED BY <1>15, <2>3, <3>1, Zenon
  <2> QED BY <1>2, <1>5, <2>1, <2>2, <2>3
<1>17. \A i \in 1 .. Len(s) : s[i] = d \/ \E j \in 1 .. n : s[i] = q[j]
  BY <1>16, Zenon
<1>18. \E i \in 1 .. Len(s) : s[i] = d
  <2>1. k + 1 \in 1 .. Len(s)
    BY <1>2, <1>5, <1>12
  <2> QED BY <1>14, <2>1, Zenon
<1>19. ASSUME NEW j \in 1 .. n PROVE \E i \in 1 .. Len(s) : s[i] = q[j]
  <2>1. CASE j <= k
    <3>1. j \in 1 .. k /\ j \in 1 .. Len(s)
      BY <1>2, <1>5, <1>12, <2>1
    <3> QED BY <1>13, <3>1, Zenon
  <2>2. CASE ~ (j <= k)
    <3>1. j + 1 \in k + 2 .. n + 1 /\ j + 1 \in 1 .. Len(s) /\ (j + 1) - 1 = j
      BY <1>2, <1>5, <1>12, <2>2
    <3>2. s[j + 1] = q[j]
      BY <1>15, <3>1
    <3> QED BY <3>1, <3>2, Zenon
  <2> QED BY <2>1, <2>2
<1>20. \A i \in 1 .. Len(s) : Piece(s[i], L, w)
  <2>1. \A i \in 1 .. n : Piece(q[i], L, w)
    BY Zenon DEF Storage, n
  <2> QED BY <1>17, <2>1, Zenon
<1>21. ASSUME NEW i \in 1 .. Len(s), NEW j \in 1 .. Len(s), i < j PROVE s[i].index <= s[j].index
  <2>1. \A m \in 1 .. n : q[m].index \in Nat
    BY PieceIs, Zenon DEF Storage, n
  <2>2. \A x, y \in 1 .. n : x < y => q[x].index <= q[y].index
    BY Zenon DEF Storage, n
  <2>3. \A x \in 1 .. n : q[x].index < d.index <=> x <= k
    BY <1>3, Zenon DEF n
  <2>4. i \in Nat /\ j \in Nat
    BY <1>12, <1>2
  <2>5. CASE i <= k /\ i \in 1 .. n /\ s[i] = q[i]
    <3>1. CASE j <= k /\ j \in 1 .. n /\ s[j] = q[j]
      BY <1>21, <2>2, <2>5, <3>1, Zenon
    <3>2. CASE j = k + 1 /\ s[j] = d
      <4>1. q[i].index < d.index /\ q[i].index \in Nat
        BY <2>1, <2>3, <2>5, Zenon
      <4> QED BY <1>1, <2>5, <3>2, <4>1
    <3>3. CASE j > k + 1 /\ j - 1 \in 1 .. n /\ s[j] = q[j - 1]
      <4>1. i < j - 1
        BY <1>5, <2>4, <2>5, <3>3
      <4> QED BY <2>2, <2>5, <3>3, <4>1, Zenon
    <3> QED BY <1>16, <3>1, <3>2, <3>3, Zenon
  <2>6. CASE i = k + 1 /\ s[i] = d
    <3>1. j > k + 1
      BY <1>5, <1>21, <2>4, <2>6
    <3>2. ~ (j <= k) /\ j # k + 1 /\ ~ (j - 1 <= k)
      BY <1>5, <2>4, <3>1
    <3>3. j - 1 \in 1 .. n /\ s[j] = q[j - 1]
      BY <1>16, <3>2, Zenon
    <3>4. ~ (q[j - 1].index < d.index)
      BY <2>3, <3>2, <3>3, Zenon
    <3>5. q[j - 1].index \in Nat
      BY <2>1, <3>3, Zenon
    <3>6. d.index <= q[j - 1].index
      <4> DEFINE y == q[j - 1].index
      <4> HIDE DEF y
      <4>1. y \in Nat /\ ~ (y < d.index)
        BY <3>4, <3>5 DEF y
      <4>2. d.index <= y
        BY <1>1, <4>1
      <4> QED BY <4>2 DEF y
    <3> QED BY <2>6, <3>3, <3>6, Zenon
  <2>7. CASE i > k + 1 /\ i - 1 \in 1 .. n /\ s[i] = q[i - 1]
    <3>1. ~ (j <= k) /\ j # k + 1 /\ i - 1 < j - 1
      BY <1>5, <1>21, <2>4, <2>7
    <3>2. j - 1 \in 1 .. n /\ s[j] = q[j - 1]
      BY <1>16, <3>1, Zenon
    <3> QED BY <2>2, <2>7, <3>1, <3>2, Zenon
  <2> QED BY <1>16, <2>5, <2>6, <2>7, Zenon
<1>22. Storage(s, L, w)
  BY <1>11, <1>20, <1>21, Zenon DEF Storage
<1>23. Inserted(s, q, d)
  BY <1>2, <1>12, <1>17, <1>18, <1>19, Zenon DEF Inserted, n
<1> QED BY <1>4, <1>22, <1>23, Zenon

\* What the scan does with the stored datagram p, by cases.
LEMMA ScanCases ==
  ASSUME NEW m \in ScanRecord, m.result = "scanning", m.i \in 1 .. Len(m.storage),
         NEW L \in Nat, NEW w \in Nat, Piece(m.dg, L, w), Piece(m.storage[m.i], L, w)
  PROVE  LET p == m.storage[m.i]
             t == scan_step(m)
         IN  \/ /\ t = Ended(m, "drop")
                /\ m.dg.index >= p.index /\ end_of(m.dg) <= end_of(p)
                /\ same(m.dg, p) \/ (m.dg.index < end_of(p) /\ p.index < m.dg.index)
             \/ t = Erased(m, m.dg) /\ m.dg.index <= p.index /\ end_of(p) <= end_of(m.dg)
                /\ ~ same(m.dg, p) /\ (m.dg.index = p.index \/ p.index < end_of(m.dg))
             \/ t = Ended(m, "hang") /\ m.dg.index = p.index /\ end_of(m.dg) < end_of(p)
             \/ t = Ended(m, "store")
             \/ t = Erased(m, overlap_merger(m.dg, p))
                /\ m.dg.index < p.index /\ p.index < end_of(m.dg) /\ end_of(m.dg) < end_of(p)
             \/ t = [m EXCEPT !.i = @ + 1]
<1> DEFINE dg == m.dg
           p == m.storage[m.i]
           t == scan_step(m)
           e == [m EXCEPT !.storage = erase(@, m.i), !.freed = @ + Len(p.data), !.i = 1]
<1>1. m.i \in Nat /\ m.storage \in Seq(DatagramRecord) /\ Len(m.storage) \in Nat /\ ~ (m.i > Len(m.storage))
  BY DEF ScanRecord
<1>2. dg.index \in Nat /\ p.index \in Nat /\ end_of(dg) \in Nat /\ end_of(p) \in Nat
  BY PieceIs, Zenon
<1> DEFINE y1 == CASE same(dg, p) -> [m EXCEPT !.result = "drop"]
               [] dg.index = p.index /\ end_of(dg) > end_of(p) -> e
               [] ~ same(dg, p) /\ dg.index = p.index /\ end_of(dg) <= end_of(p) -> [m EXCEPT !.result = "hang"]
               [] dg.index > p.index /\ end_of(dg) > end_of(p) -> [m EXCEPT !.result = "store"]
               [] dg.index > p.index /\ end_of(dg) <= end_of(p) /\ dg.index < end_of(p) -> [m EXCEPT !.result = "drop"]
               [] dg.index < p.index /\ p.index < end_of(dg) /\ end_of(p) <= end_of(dg) -> e
               [] dg.index < p.index /\ p.index < end_of(dg) /\ end_of(p) > end_of(dg) ->
                    [e EXCEPT !.dg = overlap_merger(dg, p)]
               [] OTHER -> [m EXCEPT !.i = @ + 1]
           y0 == [m EXCEPT !.result = "store"]
<1>3. t = y1
  <2>1. t = CASE m.result # "scanning" -> m
              [] m.result = "scanning" /\ m.i > Len(m.storage) -> y0
              [] OTHER -> y1
    BY Zenon DEF scan_step
  <2> HIDE DEF y0, y1, t
  <2> QED BY <1>1, <2>1
<1>4. e = Erased(m, dg)
  <2> DEFINE s1 == erase(m.storage, m.i)
             f1 == m.freed + Len(p.data)
  <2> HIDE DEF s1, f1
  <2>1. e = [m EXCEPT !.storage = s1, !.freed = f1, !.i = 1]
    BY DEF s1, f1, ScanRecord
  <2> HIDE DEF e
  <2>2. e = [storage |-> s1, dg |-> m.dg, i |-> 1, freed |-> f1, result |-> m.result]
    BY <2>1, Zenon DEF ScanRecord
  <2> QED BY <2>2, Zenon DEF Erased, s1, f1
<1>5. [e EXCEPT !.dg = overlap_merger(dg, p)] = Erased(m, overlap_merger(dg, p))
  <2> DEFINE s1 == erase(m.storage, m.i)
             f1 == m.freed + Len(p.data)
             o1 == overlap_merger(dg, p)
  <2>1. e = [storage |-> s1, dg |-> m.dg, i |-> 1, freed |-> f1, result |-> m.result]
    BY <1>4, Zenon DEF Erased
  <2> HIDE DEF s1, f1, e, o1
  <2>2. [e EXCEPT !.dg = o1]
           = [storage |-> s1, dg |-> o1, i |-> 1, freed |-> f1, result |-> m.result]
    BY <2>1
  <2> QED BY <2>2, Zenon DEF Erased, s1, f1, o1
<1> DEFINE d1 == Ended(m, "drop")  d2 == Ended(m, "hang")  d3 == Ended(m, "store")
           d4 == [e EXCEPT !.dg = overlap_merger(dg, p)]  d5 == [m EXCEPT !.i = @ + 1]
           x == dg.index  y == p.index  a == end_of(dg)  b == end_of(p)
<1>6. t =  CASE same(dg, p) -> d1
               [] x = y /\ a > b -> e
               [] ~ same(dg, p) /\ x = y /\ a <= b -> d2
               [] x > y /\ a > b -> d3
               [] x > y /\ a <= b /\ x < b -> d1
               [] x < y /\ y < a /\ b <= a -> e
               [] x < y /\ y < a /\ b > a -> d4
               [] OTHER -> d5
  BY <1>3, Zenon DEF Ended
<1>7. same(dg, p) <=> x = y /\ a = b
  BY Zenon DEF same
<1>8. x \in Nat /\ y \in Nat /\ a \in Nat /\ b \in Nat
  BY <1>2, Zenon
<1> HIDE DEF d1, d2, d3, d4, d5, x, y, a, b, e, t
<1>9. \/ t = d1 /\ x >= y /\ a <= b /\ (same(dg, p) \/ (x < b /\ y < x))
      \/ t = e /\ x <= y /\ b <= a /\ ~ same(dg, p) /\ (x = y \/ y < a)
      \/ t = d2 /\ x = y /\ a < b
      \/ t = d3
      \/ t = d4 /\ x < y /\ y < a /\ a < b
      \/ t = d5
  BY <1>6, <1>7, <1>8
<1>10. e = Erased(m, dg) /\ d4 = Erased(m, overlap_merger(dg, p))
  BY <1>4, <1>5 DEF d4, e
<1> QED BY <1>9, <1>10, Zenon DEF d1, d2, d3, d5, x, y, a, b, t

\* A datagram that takes over the rest of one that it overlaps.
LEMMA MergeIs ==
  ASSUME NEW L \in Nat, NEW w \in Nat, NEW d, NEW p, Piece(d, L, w), Piece(p, L, w),
         d.index < p.index, p.index < end_of(d), end_of(d) < end_of(p)
  PROVE  LET t == overlap_merger(d, p)
         IN  Piece(t, L, w) /\ t.index = d.index /\ end_of(t) = end_of(p)
<1> DEFINE t == overlap_merger(d, p)
           more == SubSeq(p.data, end_of(d) - p.index + 1, Len(p.data))
           x == d.index
           y == p.index
           a == end_of(d)
           b == end_of(p)
           data == d.data \o more
<1>1. d \in DatagramRecord /\ x \in Nat /\ y \in Nat /\ a \in Nat /\ b \in Nat /\ x <= a /\ y <= b
      /\ b <= L /\ b <= w /\ Len(p.data) \in Nat /\ b = y + Len(p.data)
  <2>1. d \in DatagramRecord /\ x \in Nat /\ y \in Nat /\ a \in Nat /\ b \in Nat /\ x <= a /\ y <= b
        /\ (y < b => b <= L /\ b <= w) /\ Len(p.data) \in Nat /\ b = y + Len(p.data)
    BY PieceIs, Zenon
  <2>2. y < a /\ a < b
    OBVIOUS
  <2> HIDE DEF x, y, a, b
  <2>3. y < b
    BY <2>1, <2>2
  <2> QED BY <2>1, <2>3, Zenon
<1>2. d.data = Bytes(x + 1, a) /\ p.data = Bytes(y + 1, b) /\ (d.eof => a = L)
  BY Zenon DEF Piece
<1>3. x < y /\ y < a /\ a < b
  OBVIOUS
<1>4. ~ d.eof
  <2> HIDE DEF a, b
  <2> QED BY <1>1, <1>2, <1>3
<1>5. d.eof \in BOOLEAN
  BY <1>1 DEF DatagramRecord
<1>6. t = [d EXCEPT !.data = data]
  BY Zenon DEF overlap_merger
<1>7. more = Bytes(a + 1, b)
  <2> DEFINE i == a - y + 1
             j == Len(p.data)
  <2> HIDE DEF a, b, x, y
  <2>1. i \in Nat \ {0} /\ j \in Nat /\ i <= j + 1 /\ j <= b - (y + 1) + 1 /\ y + 1 \in Nat /\ b \in Int
        /\ y + 1 <= b + 1
    BY <1>1, <1>3
  <2>2. (y + 1) + i - 1 = a + 1 /\ (y + 1) + j - 1 = b
    <3>1. \A u, v, z \in Nat : (u + 1) + (v - u + 1) - 1 = v + 1 /\ (u + 1) + z - 1 = u + z
      OBVIOUS
    <3> QED BY <1>1, <3>1, Zenon
  <2> HIDE DEF i, j
  <2>3. SubSeq(Bytes(y + 1, b), i, j) = Bytes((y + 1) + i - 1, (y + 1) + j - 1)
    BY <2>1, BytesSubSeq, Zenon
  <2>4. more = SubSeq(Bytes(y + 1, b), i, j)
    BY <1>2, Zenon DEF i, j, a, y
  <2> QED BY <2>2, <2>3, <2>4, Zenon
<1> HIDE DEF a, b, x, y, more
<1>8. data = Bytes(x + 1, b) /\ data \in Seq(Nat) /\ Len(data) = b - x
  <2>1. x + 1 \in Nat /\ a \in Int /\ b \in Int /\ x + 1 <= a + 1 /\ a <= b /\ x + 1 <= b + 1
        /\ b - (x + 1) + 1 = b - x
    BY <1>1, <1>3
  <2>2. Bytes(x + 1, a) \o Bytes(a + 1, b) = Bytes(x + 1, b)
    BY <2>1, BytesConcat, Zenon
  <2>3. Bytes(x + 1, b) \in Seq(Nat) /\ Len(Bytes(x + 1, b)) = b - (x + 1) + 1
    BY <2>1, BytesType, Zenon
  <2>4. data = Bytes(x + 1, b)
    BY <1>2, <1>7, <2>2
  <2> QED BY <2>1, <2>3, <2>4, Zenon
<1> HIDE DEF data, t
<1>9. t \in DatagramRecord /\ t.data = data /\ t.index = x /\ t.eof = d.eof
  BY <1>1, <1>6, <1>8, Zenon DEF DatagramRecord, x
<1>10. end_of(t) = b
  <2>1. end_of(t) = x + Len(data)
    BY <1>9, Zenon DEF end_of
  <2> QED BY <1>1, <1>8, <2>1
<1>11. Piece(t, L, w)
  BY <1>1, <1>4, <1>8, <1>9, <1>10, Zenon DEF Piece
<1> QED BY <1>9, <1>10, <1>11, Zenon DEF x, b, t

\* The scan begins.
LEMMA ScanBegins ==
  ASSUME NEW L \in Nat, NEW w \in Nat, NEW q, Storage(q, L, w), NEW d, Piece(d, L, w)
  PROVE  LET m == [storage |-> q, dg |-> d, i |-> 1, freed |-> 0, result |-> "scanning"]
         IN  ScanInv(m, q, d, L, w) /\ m.result = "scanning" /\ m.i = 1 /\ m.storage = q
<1> DEFINE m == [storage |-> q, dg |-> d, i |-> 1, freed |-> 0, result |-> "scanning"]
<1>1. q \in Seq(DatagramRecord) /\ Len(q) \in Nat
  BY DEF Storage
<1>2. d \in DatagramRecord /\ end_of(d) \in Nat
  BY PieceIs, Zenon
<1>3. m \in ScanRecord /\ m.storage = q /\ m.dg = d /\ m.i = 1 /\ m.result = "scanning"
  BY <1>1, <1>2 DEF ScanRecord
<1> HIDE DEF m
<1>4. m.i \in 1 .. Len(m.storage) + 1 /\ Len(m.storage) <= Len(q) /\ end_of(d) <= end_of(m.dg)
  BY <1>1, <1>2, <1>3
<1>5. Among(m.storage, q)
  BY <1>3, Zenon DEF Among
<1>6. m.result # "drop"
  BY <1>3
<1>7. ScanInv(m, q, d, L, w)
  BY <1>3, <1>4, <1>5, <1>6, Zenon DEF ScanInv
<1> QED BY <1>3, <1>7, Zenon DEF m

\* A datagram that is taken out of the list because the new one holds its bytes.
LEMMA ScanErases ==
  ASSUME NEW L \in Nat, NEW w \in Nat, NEW q, NEW d, NEW m, ScanInv(m, q, d, L, w),
         Storage(q, L, w), Piece(d, L, w),
         m.result = "scanning", m.i \in 1 .. Len(m.storage),
         NEW g, Piece(g, L, w), Covers(g, m, m.storage[m.i])
  PROVE  LET t == Erased(m, g)
         IN  ScanInv(t, q, d, L, w) /\ t.result = "scanning" /\ t.i = 1 /\ t.dg = g
             /\ Len(t.storage) = Len(m.storage) - 1
<1> USE Zenon
<1> DEFINE t == Erased(m, g)
           p == m.storage[m.i]
           e == erase(m.storage, m.i)
           f == m.freed + Len(p.data)
<1>1. m \in ScanRecord /\ Storage(m.storage, L, w) /\ Piece(m.dg, L, w) /\ Among(m.storage, q)
      /\ Len(m.storage) <= Len(q) /\ m.dg.index = d.index /\ end_of(d) <= end_of(m.dg)
  BY DEF ScanInv
<1>1a. /\ g.index = m.dg.index /\ g.index <= p.index /\ end_of(m.dg) <= end_of(g) /\ end_of(p) <= end_of(g)
       /\ \A b \in Nat : Holds(g, b) => Holds(m.dg, b) \/ Holds(p, b)
  BY DEF Covers
<1>2. Piece(p, L, w)
  BY <1>1 DEF Storage
<1>3. /\ Storage(e, L, w) /\ Len(e) = Len(m.storage) - 1 /\ Len(m.storage) \in Nat
      /\ Among(e, m.storage)
      /\ \A b : HoldsAny(m.storage, b) => HoldsAny(e, b) \/ Holds(p, b)
  BY <1>1, EraseKeeps
<1>4. /\ p.index \in Nat /\ end_of(p) \in Nat /\ Len(p.data) \in Nat
      /\ g \in DatagramRecord /\ g.index \in Nat /\ end_of(g) \in Nat
      /\ m.dg.index \in Nat /\ end_of(m.dg) \in Nat
  BY <1>1, <1>2, PieceIs
<1>5. e \in Seq(DatagramRecord) /\ f \in Nat
  <2>1. e \in Seq(DatagramRecord)
    BY <1>3 DEF Storage
  <2>2. m.freed \in Nat
    BY <1>1, SMT DEF ScanRecord
  <2>3. \A x, y \in Nat : x + y \in Nat
    BY SMT
  <2> QED BY <1>4, <2>1, <2>2, <2>3
<1>6. t = [storage |-> e, dg |-> g, i |-> 1, freed |-> f, result |-> "scanning"]
  BY DEF Erased
<1> HIDE DEF e, f, t
<1>7. t \in ScanRecord /\ t.storage = e /\ t.dg = g /\ t.i = 1 /\ t.result = "scanning"
  BY <1>4, <1>5, <1>6, SMT DEF ScanRecord
<1>8. Len(q) \in Nat
  BY SMT DEF Storage
<1>9. Len(t.storage) <= Len(q) /\ t.i \in 1 .. Len(t.storage) + 1
  <2>1. m.i \in 1 .. Len(m.storage)
    BY SMT
  <2>2. Len(m.storage) >= 1
    BY <1>3, <2>1, SMT
  <2>3. Len(e) \in Nat /\ Len(e) <= Len(q)
    BY <1>1, <1>3, <1>8, <2>2, SMT
  <2> QED BY <1>7, <2>3, SMT
<1>10. Among(t.storage, q)
  <2>1. Among(e, q)
    <3>1. \A i \in 1 .. Len(e) : \E j \in 1 .. Len(m.storage) : e[i] = m.storage[j]
      BY <1>3 DEF Among
    <3>2. \A i \in 1 .. Len(m.storage) : \E j \in 1 .. Len(q) : m.storage[i] = q[j]
      BY <1>1 DEF Among
    <3>3. ASSUME NEW i \in 1 .. Len(e) PROVE \E k \in 1 .. Len(q) : e[i] = q[k]
      <4>1. PICK j \in 1 .. Len(m.storage) : e[i] = m.storage[j]
        BY <3>1
      <4>2. PICK k \in 1 .. Len(q) : m.storage[j] = q[k]
        BY <3>2
      <4>3. e[i] = q[k]
        BY <4>1, <4>2, SMT
      <4> QED BY <4>3
    <3> QED BY <3>3 DEF Among
  <2> QED BY <1>7, <2>1
<1>11. end_of(d) <= end_of(t.dg)
  <2>1. end_of(d) \in Nat
    BY PieceIs
  <2> QED BY <1>1, <1>1a, <1>4, <1>7, <2>1, SMT
<1>12. ASSUME NEW b \in Nat, HoldsAny(q, b) \/ Holds(d, b) PROVE HoldsAny(t.storage, b) \/ Holds(t.dg, b)
  <2>1. HoldsAny(m.storage, b) \/ Holds(m.dg, b)
    BY <1>12 DEF ScanInv
  <2>2. HoldsAny(e, b) \/ Holds(p, b) \/ Holds(m.dg, b)
    BY <1>3, <2>1
  <2>3. Holds(p, b) => Holds(g, b)
    <3> DEFINE x == p.index  y == end_of(p)  u == g.index  v == end_of(g)
    <3>1. x \in Nat /\ y \in Nat /\ u \in Nat /\ v \in Nat /\ u <= x /\ y <= v
      BY <1>1a, <1>4
    <3> HIDE DEF x, y, u, v
    <3>2. x <= b /\ b < y => u <= b /\ b < v
      BY <3>1, SMT
    <3> QED BY <3>2 DEF Holds, x, y, u, v
  <2>4. Holds(m.dg, b) => Holds(g, b)
    BY <1>1a, <1>4, SMT DEF Holds
  <2> QED BY <1>7, <2>2, <2>3, <2>4
<1>13. ASSUME NEW b \in Nat, Holds(t.dg, b) PROVE HoldsAny(q, b) \/ Holds(d, b)
  <2>1. Holds(m.dg, b) \/ Holds(p, b)
    BY <1>1a, <1>7, <1>13
  <2>2. Holds(p, b) => HoldsAny(q, b)
    BY <1>1 DEF Among, HoldsAny
  <2> QED BY <2>1, <2>2 DEF ScanInv
<1>14. t.result # "drop"
  BY <1>7, SMT
<1>15. ScanInv(t, q, d, L, w)
  <2>1. t.dg.index = d.index
    BY <1>1, <1>1a, <1>7
  <2> QED BY <1>3, <1>7, <1>9, <1>10, <1>11, <1>12, <1>13, <1>14, <2>1 DEF ScanInv
<1> QED BY <1>3, <1>7, <1>15 DEF t

\* One round of the scan: it ends, takes a datagram out of the list and starts over,
\* or moves on to the next one.
LEMMA ScanStep ==
  ASSUME NEW L \in Nat, NEW w \in Nat, NEW q, NEW d, NEW m, ScanInv(m, q, d, L, w),
         Storage(q, L, w), Piece(d, L, w)
  PROVE  LET t == scan_step(m)
         IN  /\ ScanInv(t, q, d, L, w)
             /\ m.result # "scanning" => t = m
             /\ t.result = "scanning" => \/ Len(t.storage) = Len(m.storage) - 1 /\ t.i = 1
                                         \/ t.storage = m.storage /\ t.i = m.i + 1
<1> DEFINE t == scan_step(m)
           p == m.storage[m.i]
           g == m.dg
<1>1. m \in ScanRecord /\ Storage(m.storage, L, w) /\ Piece(g, L, w) /\ Among(m.storage, q)
      /\ Len(m.storage) <= Len(q) /\ g.index = d.index /\ end_of(d) <= end_of(g)
      /\ m.i \in 1 .. Len(m.storage) + 1
  BY Zenon DEF ScanInv
<1>2. Len(m.storage) \in Nat /\ m.i \in Nat /\ m.storage \in Seq(DatagramRecord)
  BY <1>1 DEF ScanRecord
<1>3. ASSUME NEW res \in {"store", "hang"} PROVE ScanInv(Ended(m, res), q, d, L, w) /\ Ended(m, res).result = res
  <2> DEFINE u == Ended(m, res)
  <2>1. /\ u \in ScanRecord /\ u.storage = m.storage /\ u.dg = m.dg /\ u.i = m.i /\ u.result = res
        /\ res # "drop"
    BY <1>1 DEF ScanRecord, Ended
  <2> HIDE DEF u
  <2>2. ScanInv(u, q, d, L, w)
    BY <2>1, Zenon DEF ScanInv
  <2> QED BY <2>1, <2>2, Zenon DEF u
<1>4. CASE m.result # "scanning"
  <2>1. t = m
    BY <1>4, Zenon DEF scan_step
  <2> HIDE DEF t
  <2> QED BY <1>4, <2>1, ZenonT(40) DEF t
<1>5. CASE m.result = "scanning" /\ m.i > Len(m.storage)
  <2> DEFINE X == Ended(m, "store")
  <2>1. t = X
    BY <1>5 DEF scan_step, Ended
  <2>2. ScanInv(X, q, d, L, w) /\ X.result = "store"
    BY <1>3
  <2> HIDE DEF t, X
  <2>3. t.result # "scanning"
    BY <2>1, <2>2
  <2> QED BY <1>5, <2>1, <2>2, <2>3, Zenon DEF t
<1>6. CASE m.result = "scanning" /\ m.i \in 1 .. Len(m.storage)
  <2>1. Piece(p, L, w)
    BY <1>1, <1>6, Zenon DEF Storage
  <2>2. /\ p.index \in Nat /\ end_of(p) \in Nat /\ g.index \in Nat /\ end_of(g) \in Nat
    BY <1>1, <2>1, PieceIs, Zenon
  <2>3. CASE t = Ended(m, "drop") /\ g.index >= p.index /\ end_of(g) <= end_of(p)
    <3> HIDE DEF t
    <3>1. /\ t \in ScanRecord /\ t.storage = m.storage /\ t.dg = g /\ t.i = m.i /\ t.result = "drop"
      BY <1>1, <2>3, SMTT(30) DEF ScanRecord, Ended
    <3>2. ASSUME NEW b \in Nat, Holds(g, b) PROVE HoldsAny(m.storage, b)
      <4>1. Holds(p, b)
        BY <2>2, <2>3, <3>2 DEF Holds
      <4> QED BY <1>6, <4>1, Zenon DEF HoldsAny
    <3>3. ScanInv(t, q, d, L, w)
      BY <3>1, <3>2, Zenon DEF ScanInv
    <3>4. t.result # "scanning"
      BY <3>1
    <3> QED BY <1>6, <3>3, <3>4, Zenon DEF t
  <2>4. CASE t = Erased(m, g) /\ g.index <= p.index /\ end_of(p) <= end_of(g)
    <3>1. end_of(g) <= end_of(g)
      BY <2>2
    <3>2. Covers(g, m, p)
      BY <2>4, <3>1, Zenon DEF Covers
    <3>3. /\ ScanInv(Erased(m, g), q, d, L, w) /\ Erased(m, g).result = "scanning" /\ Erased(m, g).i = 1
          /\ Len(Erased(m, g).storage) = Len(m.storage) - 1
      BY <1>1, <1>6, <3>2, ScanErases
    <3> QED BY <1>6, <2>4, <3>3, Zenon
  <2>5. CASE t = Ended(m, "hang")
    <3>1. ScanInv(Ended(m, "hang"), q, d, L, w) /\ Ended(m, "hang").result = "hang"
      BY <1>3
    <3> HIDE DEF t
    <3>2. t.result # "scanning"
      BY <2>5, <3>1
    <3> QED BY <1>6, <2>5, <3>1, <3>2, Zenon DEF t
  <2>6. CASE t = Ended(m, "store")
    <3>1. ScanInv(Ended(m, "store"), q, d, L, w) /\ Ended(m, "store").result = "store"
      BY <1>3
    <3> HIDE DEF t
    <3>2. t.result # "scanning"
      BY <2>6, <3>1
    <3> QED BY <1>6, <2>6, <3>1, <3>2, Zenon DEF t
  <2>7. CASE /\ t = Erased(m, overlap_merger(g, p))
             /\ g.index < p.index /\ p.index < end_of(g) /\ end_of(g) < end_of(p)
    <3> DEFINE h == overlap_merger(g, p)
    <3>1. Piece(h, L, w) /\ h.index = g.index /\ end_of(h) = end_of(p)
      BY <1>1, <2>1, <2>7, MergeIs
    <3> HIDE DEF h
    <3>2. end_of(g) <= end_of(h) /\ end_of(p) <= end_of(h) /\ h.index <= p.index /\ h.index = d.index
      <4> DEFINE x == g.index  y == p.index  a == end_of(g)  c == end_of(p)
      <4>1. x \in Nat /\ y \in Nat /\ a \in Nat /\ c \in Nat /\ x < y /\ a < c
        BY <2>2, <2>7, Zenon
      <4> HIDE DEF x, y, a, c
      <4>2. a <= c /\ c <= c /\ x <= y
        BY <4>1
      <4> QED BY <1>1, <3>1, <4>2, Zenon DEF x, y, a, c
    <3>3. ASSUME NEW b \in Nat, Holds(h, b) PROVE Holds(g, b) \/ Holds(p, b)
      <4>1. g.index <= b /\ b < end_of(p)
        BY <3>1, <3>3, Zenon DEF Holds
      <4> QED BY <2>2, <2>7, <4>1 DEF Holds
    <3>4. /\ ScanInv(Erased(m, h), q, d, L, w) /\ Erased(m, h).result = "scanning" /\ Erased(m, h).i = 1
          /\ Len(Erased(m, h).storage) = Len(m.storage) - 1
      <4>1. Covers(h, m, p)
        BY <3>1, <3>2, <3>3, Zenon DEF Covers
      <4> QED BY <1>6, <3>1, <4>1, ScanErases
    <3> QED BY <1>6, <2>7, <3>4, Zenon DEF h
  <2>8. CASE t = [m EXCEPT !.i = @ + 1]
    <3> DEFINE k == m.i + 1
    <3>1. k \in Nat /\ k \in 1 .. Len(m.storage) + 1
      BY <1>2, <1>6
    <3>2. t = [m EXCEPT !.i = k]
      BY <2>8, Zenon
    <3> HIDE DEF t, k
    <3>3. /\ t \in ScanRecord /\ t.storage = m.storage /\ t.dg = g /\ t.i = k /\ t.result = "scanning"
      BY <1>1, <1>6, <3>1, <3>2, Zenon DEF ScanRecord
    <3>4. t.result # "drop"
      BY <3>3
    <3>5. ScanInv(t, q, d, L, w)
      BY <3>1, <3>3, <3>4, Zenon DEF ScanInv
    <3> QED BY <1>6, <3>3, <3>5, Zenon DEF t, k
  <2> QED BY <1>1, <1>6, <2>1, <2>3, <2>4, <2>5, <2>6, <2>7, <2>8, ScanCases, Zenon
<1> QED BY <1>1, <1>2, <1>4, <1>5, <1>6

\* The recursive definition has a solution, so that it can be unfolded.
LEMMA ScansIs ==
  ASSUME NEW q, NEW d, NEW N \in Nat
  PROVE  /\ Scans(q, d, N)[0] = [storage |-> q, dg |-> d, i |-> 1, freed |-> 0, result |-> "scanning"]
         /\ \A n \in 1 .. N : Scans(q, d, N)[n] = scan_step(Scans(q, d, N)[n - 1])
<1> DEFINE s == [storage |-> q, dg |-> d, i |-> 1, freed |-> 0, result |-> "scanning"]
           F(f, k) == f = [n \in 0 .. k |-> IF n = 0 THEN s ELSE scan_step(f[n - 1])]
           S == {k \in Nat : \E f : F(f, k)}
<1>5. Scans(q, d, N) = CHOOSE f : F(f, N)
  BY Zenon DEF Scans
<1> HIDE DEF s
<1>1. 0 \in S
  <2>1. F([n \in 0 .. 0 |-> s], 0)
    OBVIOUS
  <2> QED BY <2>1, Zenon
<1>2. ASSUME NEW k \in Nat, k \in S PROVE k + 1 \in S
  <2>1. PICK f : F(f, k)
    BY <1>2
  <2> DEFINE g == [n \in 0 .. k + 1 |-> IF n <= k THEN f[n] ELSE scan_step(f[k])]
  <2>2. F(g, k + 1)
    <3>1. ASSUME NEW n \in 0 .. k + 1
          PROVE  g[n] = IF n = 0 THEN s ELSE scan_step(g[n - 1])
      BY <2>1
    <3> QED BY <3>1
  <2>3. k + 1 \in Nat
    OBVIOUS
  <2> HIDE DEF F, g
  <2> QED BY <2>2, <2>3
<1> HIDE DEF S
<1>3. \A n \in Nat : n \in S
  BY <1>1, <1>2, SetInduction
<1>4. \E f : F(f, N)
  BY <1>3, Zenon DEF S
<1> HIDE DEF F
<1>6. F(Scans(q, d, N), N)
  BY <1>4, <1>5, Zenon
<1> DEFINE g == Scans(q, d, N)
<1> HIDE DEF g
<1>7. F(g, N)
  BY <1>6 DEF g
<1>8. g[0] = s /\ \A n \in 1 .. N : g[n] = scan_step(g[n - 1])
  BY <1>7 DEF F
<1> QED BY <1>8, Zenon DEF s, g

\* Two facts about the number of rounds.
LEMMA RoundsLeft ==
  ASSUME NEW N \in Nat, NEW l \in 0 .. N, NEW i \in 1 .. l + 1, NEW n \in Nat,
         n <= (N - l) * (N + 1) + (i - 1)
  PROVE  /\ n + 1 <= (N - (l - 1)) * (N + 1) + (1 - 1)
         /\ n + 1 <= (N - l) * (N + 1) + ((i + 1) - 1)
         /\ n < (N + 1) * (N + 1)
<1> DEFINE P == (N - l) * (N + 1)
<1>1. P \in Int /\ l * N \in Nat
  OBVIOUS
<1>2. (N - (l - 1)) * (N + 1) = P + (N + 1)
  OBVIOUS
<1>3. (N + 1) * (N + 1) = P + l * N + l + (N + 1)
  OBVIOUS
<1> DEFINE Q == (N - (l - 1)) * (N + 1)
           R == (N + 1) * (N + 1)
           T == l * N
<1>4. P \in Int /\ T \in Nat /\ Q = P + (N + 1) /\ R = P + T + l + (N + 1) /\ n <= P + (i - 1)
  BY <1>1, <1>2, <1>3
<1> HIDE DEF P, Q, R, T
<1>5. n + 1 <= Q + (1 - 1) /\ n + 1 <= P + ((i + 1) - 1) /\ n < R
  BY <1>4
<1> QED BY <1>5 DEF P, Q, R

\* The scan keeps its invariant, and comes to an end.
LEMMA ScanEnds ==
  ASSUME NEW L \in Nat, NEW w \in Nat, NEW q, Storage(q, L, w), NEW d, Piece(d, L, w)
  PROVE  ScanInv(scan(q, d), q, d, L, w) /\ scan(q, d).result # "scanning"
<1> DEFINE l == Len(q)
           N == (l + 1) * (l + 1)
           after == Scans(q, d, N)
           Left(m, n) == n <= (l - Len(m.storage)) * (l + 1) + (m.i - 1)
           S == {n \in Nat : n <= N => /\ ScanInv(after[n], q, d, L, w)
                                       /\ after[n].result = "scanning" => Left(after[n], n)}
<1>1. l \in Nat
  BY DEF Storage
<1>2. N \in Nat
  BY <1>1
<1>3. scan(q, d) = after[N]
  BY Zenon DEF scan, Scans
<1>4. /\ after[0] = [storage |-> q, dg |-> d, i |-> 1, freed |-> 0, result |-> "scanning"]
      /\ \A n \in 1 .. N : after[n] = scan_step(after[n - 1])
  BY <1>2, ScansIs, Zenon
<1> HIDE DEF N, after, l
<1>5. ScanInv(after[0], q, d, L, w) /\ after[0].i = 1 /\ after[0].storage = q
  <2> DEFINE m == [storage |-> q, dg |-> d, i |-> 1, freed |-> 0, result |-> "scanning"]
  <2>1. ScanInv(m, q, d, L, w) /\ m.i = 1 /\ m.storage = q
    BY ScanBegins, Zenon
  <2>2. after[0] = m
    BY <1>4, Zenon
  <2> QED BY <2>1, <2>2, Zenon
<1>6. 0 \in S
  <2>1. 0 <= (l - l) * (l + 1) + (1 - 1)
    BY <1>1
  <2>2. Left(after[0], 0)
    BY <1>5, <2>1, Zenon DEF l
  <2> HIDE DEF Left
  <2> QED BY <1>5, <2>2
<1>7. ASSUME NEW n \in Nat, n \in S PROVE n + 1 \in S
  <2> SUFFICES ASSUME n + 1 <= N
               PROVE  /\ ScanInv(after[n + 1], q, d, L, w)
                      /\ after[n + 1].result = "scanning" => Left(after[n + 1], n + 1)
    BY <1>7
  <2> DEFINE m == after[n]
             t == after[n + 1]
  <2> HIDE DEF Left
  <2>1. ScanInv(m, q, d, L, w) /\ (m.result = "scanning" => Left(m, n))
    BY <1>2, <1>7
  <2>2. t = scan_step(m)
    BY <1>2, <1>4
  <2> HIDE DEF m, t
  <2>3. /\ ScanInv(t, q, d, L, w)
        /\ m.result # "scanning" => t = m
        /\ t.result = "scanning" => \/ Len(t.storage) = Len(m.storage) - 1 /\ t.i = 1
                                    \/ t.storage = m.storage /\ t.i = m.i + 1
    BY <2>1, <2>2, ScanStep
  <2>4. ASSUME t.result = "scanning" PROVE Left(t, n + 1)
    <3> DEFINE k == Len(m.storage)
    <3>1. m.result = "scanning"
      BY <2>3, <2>4
    <3>2. n <= (l - k) * (l + 1) + (m.i - 1)
      BY <2>1, <3>1, Zenon DEF Left
    <3>3. k \in 0 .. l /\ m.i \in 1 .. k + 1
      <4>1. m.i \in 1 .. k + 1 /\ k <= l /\ m \in ScanRecord
        BY <2>1, Zenon DEF ScanInv, l
      <4>2. k \in Nat
        BY <4>1 DEF ScanRecord
      <4> QED BY <1>1, <4>1, <4>2
    <3>4. /\ n + 1 <= (l - (k - 1)) * (l + 1) + (1 - 1)
          /\ n + 1 <= (l - k) * (l + 1) + ((m.i + 1) - 1)
      BY <1>1, <3>2, <3>3, RoundsLeft, Zenon
    <3> QED BY <2>3, <2>4, <3>4, Zenon DEF Left
  <2> QED BY <2>3, <2>4, Zenon DEF t
<1> HIDE DEF S
<1>8. N \in S
  BY <1>2, <1>6, <1>7, SetInduction
<1> DEFINE m == after[N]
<1>9. ScanInv(m, q, d, L, w) /\ (m.result = "scanning" => Left(m, N))
  <2>1. N <= N
    BY <1>2
  <2> HIDE DEF Left
  <2> QED BY <1>8, <2>1, Zenon DEF S
<1> HIDE DEF m
<1>10. ASSUME m.result = "scanning" PROVE FALSE
  <2> DEFINE k == Len(m.storage)
  <2>1. N <= (l - k) * (l + 1) + (m.i - 1)
    BY <1>9, <1>10, Zenon
  <2>2. k \in 0 .. l /\ m.i \in 1 .. k + 1
    <3>1. m.i \in 1 .. k + 1 /\ k <= l /\ m \in ScanRecord
      BY <1>9, Zenon DEF ScanInv, l
    <3>2. k \in Nat
      BY <3>1 DEF ScanRecord
    <3> QED BY <1>1, <3>1, <3>2
  <2>3. N < (l + 1) * (l + 1)
    BY <1>1, <1>2, <2>1, <2>2, RoundsLeft, Zenon
  <2>4. N < N
    BY <2>3, Zenon DEF N
  <2> QED BY <1>2, <2>4
<1> QED BY <1>3, <1>9, <1>10, Zenon DEF m

-----------------------------------------------------------------------------

\* What is left of the list does not begin before the list did.
LEMMA AmongFirst ==
  ASSUME NEW L \in Nat, NEW w \in Nat, NEW q, Storage(q, L, w), NEW s, Storage(s, L, w),
         Among(s, q), s # <<>>
  PROVE  q # <<>> /\ q[1].index <= s[1].index
<1>1. q \in Seq(DatagramRecord) /\ Len(q) \in Nat /\ s \in Seq(DatagramRecord) /\ Len(s) \in Nat
  BY DEF Storage
<1>2. 1 \in 1 .. Len(s)
  BY <1>1
<1>3. PICK j \in 1 .. Len(q) : s[1] = q[j]
  BY <1>2, Zenon DEF Among
<1>4. 1 \in 1 .. Len(q) /\ (j = 1 \/ 1 < j) /\ q # <<>>
  BY <1>1, <1>3
<1>5. q[1].index \in Nat
  BY <1>4, PieceIs, Zenon DEF Storage
<1>6. CASE j = 1
  BY <1>3, <1>4, <1>5, <1>6
<1>7. CASE 1 < j
  BY <1>3, <1>4, <1>7, Zenon DEF Storage
<1> QED BY <1>4, <1>6, <1>7, Zenon

\* A reassembler with another list, and the bytes of the list.
LEMMA StoreKeeps ==
  ASSUME NEW r, NEW L \in Nat, ReassemblerInv(r, L), NEW t \in ReassemblerRecord,
         t.output = r.output, t.capacity = r.capacity,
         t.next_assembling_index = r.next_assembling_index,
         Storage(t.storage, L, Limit(r)),
         t.storage # <<>> => t.smallest_temporty_index <= t.storage[1].index
  PROVE  ReassemblerInv(t, L) /\ Limit(t) = Limit(r)
<1>1. Limit(t) = Limit(r)
  BY Zenon DEF Limit
<1> QED BY <1>1, Zenon DEF ReassemblerInv

\* missing_middle_handler() stores the bytes of the new datagram, with what it
\* overlaps in the list, unless it does not return.
LEMMA MiddleKeeps ==
  ASSUME NEW r, NEW L \in Nat, ReassemblerInv(r, L), NEW d, Piece(d, L, Limit(r))
  PROVE  MiddleStored(missing_middle_handler(r, d), r, d, L)
<1> USE Zenon
<1> DEFINE t == missing_middle_handler(r, d)
           m == scan(r.storage, d)
           w == Limit(r)
           q == r.storage
           stored == sorted_insert(m.storage, m.dg)
           u == r.unassembled_bytes - m.freed
<1>1. /\ r \in ReassemblerRecord /\ q \in Seq(DatagramRecord) /\ Storage(q, L, w) /\ w \in Nat
      /\ r.unassembled_bytes \in Int /\ r.smallest_temporty_index \in Nat
  BY ReassemblerIs
<1>2. ScanInv(m, q, d, L, w) /\ m.result # "scanning"
  BY <1>1, ScanEnds
<1>3. t = CASE m.result = "drop" -> [r EXCEPT !.storage = m.storage, !.unassembled_bytes = u]
            [] m.result = "hang" -> [[r EXCEPT !.storage = m.storage, !.unassembled_bytes = u]
                                       EXCEPT !.hung = TRUE]
            [] m.result = "store" -> [[r EXCEPT !.storage = m.storage, !.unassembled_bytes = u]
                                        EXCEPT !.storage = stored,
                                               !.unassembled_bytes = @ + Len(m.dg.data),
                                               !.smallest_temporty_index = stored[1].index]
  <2>1. [r EXCEPT !.storage = m.storage, !.unassembled_bytes = @ - m.freed]
          = [r EXCEPT !.storage = m.storage, !.unassembled_bytes = u]
    BY SMT
  <2> QED BY <2>1 DEF missing_middle_handler
<1> HIDE DEF m
<1>4. /\ m \in ScanRecord /\ Storage(m.storage, L, w) /\ Piece(m.dg, L, w) /\ Among(m.storage, q)
      /\ m.dg.index = d.index /\ end_of(d) <= end_of(m.dg)
      /\ \A b \in Nat : HoldsAny(q, b) \/ Holds(d, b) => HoldsAny(m.storage, b) \/ Holds(m.dg, b)
      /\ \A b \in Nat : Holds(m.dg, b) => HoldsAny(q, b) \/ Holds(d, b)
      /\ m.result = "drop" => \A b \in Nat : Holds(m.dg, b) => HoldsAny(m.storage, b)
  BY <1>2 DEF ScanInv
<1>5. /\ m.storage \in Seq(DatagramRecord) /\ u \in Int
      /\ m.result \in {"store", "drop", "hang"}
  <2>1. m.freed \in Nat /\ m.storage \in Seq(DatagramRecord)
    BY <1>4, SMT DEF ScanRecord
  <2>2. m.result \in {"store", "drop", "hang"}
    BY <1>2, <1>4, SMT DEF ScanRecord
  <2>3. u \in Int
    BY <1>1, <2>1, SMT
  <2> QED BY <2>1, <2>2, <2>3
<1>6. m.storage # <<>> => r.smallest_temporty_index <= m.storage[1].index
  <2> SUFFICES ASSUME m.storage # <<>> PROVE r.smallest_temporty_index <= m.storage[1].index
    BY SMT
  <2>1. q # <<>> /\ q[1].index <= m.storage[1].index
    BY <1>1, <1>4, AmongFirst
  <2>2. r.smallest_temporty_index <= q[1].index
    BY <2>1 DEF ReassemblerInv
  <2>3. 1 \in 1 .. Len(q) /\ 1 \in 1 .. Len(m.storage)
    BY <1>1, <1>5, <2>1, SMT
  <2>4. q[1].index \in Nat /\ m.storage[1].index \in Nat
    BY <1>1, <1>4, <2>3, PieceIs DEF Storage
  <2> QED BY <1>1, <2>1, <2>2, <2>4, SMT
<1>7. \A b \in Nat : HoldsAny(m.storage, b) => HoldsAny(q, b)
  BY <1>4 DEF Among, HoldsAny
<1> HIDE DEF u, stored, t
<1>8. CASE m.result = "drop"
  <2>1. t = [r EXCEPT !.storage = m.storage, !.unassembled_bytes = u]
    BY <1>3, <1>8, SMT
  <2> DEFINE ms == m.storage
  <2> HIDE DEF ms
  <2>2. ms \in Seq(DatagramRecord) /\ t = [r EXCEPT !.storage = ms, !.unassembled_bytes = u]
    BY <1>5, <2>1 DEF ms
  <2>3. /\ t \in ReassemblerRecord /\ t.output = r.output /\ t.capacity = r.capacity /\ t.hung = r.hung
        /\ t.next_assembling_index = r.next_assembling_index /\ t.storage = ms
        /\ t.smallest_temporty_index = r.smallest_temporty_index
    BY <1>1, <1>5, <2>2 DEF ReassemblerRecord
  <2>4. ReassemblerInv(t, L)
    BY <1>4, <1>6, <2>3, StoreKeeps DEF ms
  <2>5. \A b \in Nat : HoldsAny(q, b) \/ Holds(d, b) => HoldsAny(ms, b)
    BY <1>4, <1>8 DEF ms
  <2>6. \A i \in 1 .. Len(ms) : \E j \in 1 .. Len(q) : ms[i] = q[j]
    BY <1>4 DEF Among, ms
  <2>7. MiddleStored(t, r, d, L)
    BY <1>7, <2>3, <2>4, <2>5, <2>6 DEF MiddleStored, ms
  <2> QED BY <2>7 DEF t
<1>9. CASE m.result = "hang"
  <2> DEFINE ms == m.storage
  <2> HIDE DEF ms
  <2>1. t = [[r EXCEPT !.storage = ms, !.unassembled_bytes = u] EXCEPT !.hung = TRUE]
    BY <1>3, <1>9, SMT DEF ms
  <2>2. ms \in Seq(DatagramRecord)
    BY <1>5 DEF ms
  <2>3. /\ t \in ReassemblerRecord /\ t.output = r.output /\ t.capacity = r.capacity /\ t.hung = TRUE
        /\ t.next_assembling_index = r.next_assembling_index /\ t.storage = ms
        /\ t.smallest_temporty_index = r.smallest_temporty_index
    BY <1>1, <1>5, <2>1, <2>2 DEF ReassemblerRecord
  <2>4. ReassemblerInv(t, L)
    BY <1>4, <1>6, <2>3, StoreKeeps DEF ms
  <2>6. \A i \in 1 .. Len(ms) : \E j \in 1 .. Len(q) : ms[i] = q[j]
    BY <1>4 DEF Among, ms
  <2>7. MiddleStored(t, r, d, L)
    BY <1>7, <2>3, <2>4, <2>6 DEF MiddleStored, ms
  <2> QED BY <2>7 DEF t
<1>10. CASE m.result = "store"
  <2> DEFINE ms == m.storage
             x == stored[1].index
             v == u + Len(m.dg.data)
  <2>1. /\ Storage(stored, L, w) /\ Len(stored) = Len(ms) + 1 /\ Len(ms) \in Nat
        /\ \A i \in 1 .. Len(stored) : stored[i] = m.dg \/ \E j \in 1 .. Len(ms) : stored[i] = ms[j]
        /\ \E i \in 1 .. Len(stored) : stored[i] = m.dg
        /\ \A j \in 1 .. Len(ms) : \E i \in 1 .. Len(stored) : stored[i] = ms[j]
    <3>1. Storage(m.storage, L, w) /\ Piece(m.dg, L, w) /\ w \in Nat
      BY <1>1, <1>4
    <3>2. Storage(stored, L, w) /\ Inserted(stored, m.storage, m.dg)
      BY <3>1, InsertIs DEF stored
    <3> QED BY <3>2 DEF Inserted
  <2>2. stored \in Seq(DatagramRecord) /\ 1 \in 1 .. Len(stored)
    BY <2>1, SMT DEF Storage
  <2>3. x \in Nat
    BY <1>1, <2>1, <2>2, PieceIs DEF Storage
  <2>4. Len(m.dg.data) \in Nat
    BY <1>1, <1>4, PieceIs
  <2>5. v \in Int
    BY <1>5, <2>4, SMT
  <2>6. t = [[r EXCEPT !.storage = ms, !.unassembled_bytes = u]
               EXCEPT !.storage = stored, !.unassembled_bytes = @ + Len(m.dg.data),
                      !.smallest_temporty_index = x]
    BY <1>3, <1>10, SMT
  <2>7. ms \in Seq(DatagramRecord)
    BY <1>5, SMT
  <2> HIDE DEF ms, x
  <2>8. t = [r EXCEPT !.storage = stored, !.unassembled_bytes = v, !.smallest_temporty_index = x]
    BY <1>1, <1>5, <2>6, <2>7 DEF ReassemblerRecord
  <2> HIDE DEF v
  <2>9. /\ t \in ReassemblerRecord /\ t.output = r.output /\ t.capacity = r.capacity /\ t.hung = r.hung
        /\ t.next_assembling_index = r.next_assembling_index /\ t.storage = stored
        /\ t.smallest_temporty_index = x
    BY <1>1, <2>2, <2>3, <2>5, <2>8 DEF ReassemblerRecord
  <2>10. x <= x /\ x = stored[1].index
    BY <2>3, SMT DEF x
  <2>11. ReassemblerInv(t, L)
    BY <2>1, <2>9, <2>10, StoreKeeps
  <2>12. ASSUME NEW b \in Nat, HoldsAny(stored, b) PROVE HoldsAny(q, b) \/ Holds(d, b)
    <3>1. HoldsAny(ms, b) \/ Holds(m.dg, b)
      BY <2>1, <2>12 DEF HoldsAny
    <3> QED BY <1>4, <1>7, <3>1 DEF ms
  <2>13. ASSUME NEW b \in Nat, HoldsAny(q, b) \/ Holds(d, b) PROVE HoldsAny(stored, b)
    <3>1. HoldsAny(ms, b) \/ Holds(m.dg, b)
      BY <1>4, <2>13 DEF ms
    <3> QED BY <2>1, <3>1 DEF HoldsAny
  <2>14. ASSUME NEW i \in 1 .. Len(stored)
         PROVE  \/ \E j \in 1 .. Len(q) : stored[i] = q[j]
                \/ stored[i].index = d.index /\ end_of(d) <= end_of(stored[i])
    <3>1. CASE stored[i] = m.dg
      BY <1>4, <3>1
    <3>2. CASE \E j \in 1 .. Len(ms) : stored[i] = ms[j]
      <4>1. PICK j \in 1 .. Len(ms) : stored[i] = ms[j]
        BY <3>2, SMT
      <4>2. PICK k \in 1 .. Len(q) : ms[j] = q[k]
        BY <1>4 DEF Among, ms
      <4> QED BY <4>1, <4>2
    <3> QED BY <2>1, <3>1, <3>2
  <2>15. MiddleStored(t, r, d, L)
    BY <2>9, <2>11, <2>12, <2>13, <2>14 DEF MiddleStored
  <2> QED BY <2>15 DEF t
<1> QED BY <1>5, <1>8, <1>9, <1>10, SMT

\* A reassembler with another output.
LEMMA OutputKeeps ==
  ASSUME NEW r, NEW L \in Nat, ReassemblerInv(r, L), NEW t \in ReassemblerRecord,
         SameList(t, r), StreamInv(t.output), t.output.capacity = r.capacity,
         t.next_assembling_index = t.output.bytes_written, t.output.bytes_written <= L,
         t.output.input_ended => t.output.bytes_written = L
  PROVE  ReassemblerInv(t, L) /\ Limit(t) = Limit(r)
<1> USE Zenon
<1>1. /\ t.storage = r.storage /\ t.capacity = r.capacity
      /\ t.smallest_temporty_index = r.smallest_temporty_index
      /\ t.output.bytes_read = r.output.bytes_read
  BY DEF SameList
<1>2. Limit(t) = Limit(r)
  BY <1>1 DEF Limit
<1>3. /\ Storage(r.storage, L, Limit(r))
      /\ r.storage # <<>> => r.smallest_temporty_index <= r.storage[1].index
  BY DEF ReassemblerInv
<1>4. /\ Storage(t.storage, L, Limit(t))
      /\ t.storage # <<>> => t.smallest_temporty_index <= t.storage[1].index
  BY <1>1, <1>2, <1>3
<1>5. t.output.capacity = t.capacity
  BY <1>1
<1> QED BY <1>2, <1>4, <1>5 DEF ReassemblerInv

\* Bytes that follow the output and fit its capacity are written.
LEMMA WriteKeeps ==
  ASSUME NEW r, NEW L \in Nat, ReassemblerInv(r, L), NEW n \in Nat,
         r.next_assembling_index + n <= L, r.next_assembling_index + n <= Limit(r)
  PROVE  LET x == r.next_assembling_index
             t == [r EXCEPT !.output = write(r.output, Bytes(x + 1, x + n)),
                            !.next_assembling_index = x + n]
         IN  /\ ReassemblerInv(t, L) /\ SameList(t, r) /\ t \in ReassemblerRecord
             /\ t.next_assembling_index = x + n /\ t.output.bytes_written = x + n
             /\ t.output.input_ended = r.output.input_ended
             /\ n <= remaining_capacity(r.output)
<1> USE Zenon
<1> DEFINE x == r.next_assembling_index
           o == write(r.output, Bytes(x + 1, x + n))
           y == x + n
           t == [r EXCEPT !.output = o, !.next_assembling_index = y]
           left == remaining_capacity(r.output)
<1>1. /\ r \in ReassemblerRecord /\ r.capacity \in Nat /\ x \in Nat /\ Limit(r) \in Nat
      /\ r.output.bytes_read \in Nat
  BY ReassemblerIs
<1>2. StreamInv(r.output) /\ r.output.capacity = r.capacity /\ x = r.output.bytes_written
      /\ (r.output.input_ended => r.output.bytes_written = L)
  BY DEF ReassemblerInv
<1>3. left = r.capacity - (x - r.output.bytes_read) /\ left \in Nat
  BY <1>2, StreamSize
<1>4. Limit(r) = r.output.bytes_read + r.capacity /\ y <= Limit(r) /\ y <= L
  BY DEF Limit
<1>5. n <= left /\ y \in Nat
  <2> DEFINE rd == r.output.bytes_read  cap == r.capacity  lim == Limit(r)
  <2>1. rd \in Nat /\ cap \in Nat /\ lim = rd + cap /\ x + n <= lim /\ left = cap - (x - rd) /\ x \in Nat
    BY <1>1, <1>3, <1>4
  <2> HIDE DEF rd, cap, lim, x, left
  <2> QED BY <2>1, SMT
<1>6. /\ StreamInv(o) /\ o.bytes_read = r.output.bytes_read /\ o.capacity = r.output.capacity
      /\ o.input_ended = r.output.input_ended
      /\ o.bytes_written = x + Smaller(n, left)
  <2> DEFINE bw == r.output.bytes_written
  <2>1. o = write(r.output, Bytes(bw + 1, bw + n)) /\ x = bw
    BY <1>2
  <2> HIDE DEF o, x
  <2> QED BY <1>2, <2>1, StreamWrite
<1> HIDE DEF o, left, y
<1>7. o.bytes_written = y
  <2>1. Smaller(n, left) = n
    BY <1>5 DEF Smaller
  <2> QED BY <1>6, <2>1 DEF y
<1>8. o \in StreamRecord
  BY <1>6 DEF StreamInv
<1>9. /\ t \in ReassemblerRecord /\ t.output = o /\ t.next_assembling_index = y
      /\ t.storage = r.storage /\ t.capacity = r.capacity /\ t.hung = r.hung
      /\ t.smallest_temporty_index = r.smallest_temporty_index
  BY <1>1, <1>5, <1>8 DEF ReassemblerRecord
<1>10. o.input_ended => y = L
  <2>1. CASE o.input_ended
    <3>1. x = L
      BY <1>2, <1>6, <2>1
    <3>2. x + n <= L /\ x \in Nat
      BY <1>1, <1>4 DEF y
    <3> QED BY <3>1, <3>2, SMT DEF y
  <2> QED BY <2>1, SMT
<1> HIDE DEF t, x
<1>11. SameList(t, r)
  BY <1>6, <1>9 DEF SameList
<1>12. ReassemblerInv(t, L)
  <2>1. StreamInv(t.output) /\ t.output.capacity = r.capacity
        /\ t.next_assembling_index = t.output.bytes_written /\ t.output.bytes_written <= L
        /\ (t.output.input_ended => t.output.bytes_written = L)
    BY <1>2, <1>4, <1>6, <1>7, <1>9, <1>10
  <2> QED BY <1>9, <1>11, <2>1, OutputKeeps
<1> QED BY <1>5, <1>6, <1>7, <1>9, <1>11, <1>12 DEF t, x, y, o, left

\* The output ends when all of the stream is written.
LEMMA EndKeeps ==
  ASSUME NEW r, NEW L \in Nat, ReassemblerInv(r, L), r.output.bytes_written = L
  PROVE  LET t == [r EXCEPT !.output = end_input(@)]
         IN  /\ ReassemblerInv(t, L) /\ SameList(t, r)
             /\ t.next_assembling_index = r.next_assembling_index /\ t.output.input_ended
<1> USE Zenon
<1> DEFINE o == end_input(r.output)
           t == [r EXCEPT !.output = o]
<1>1. r \in ReassemblerRecord
  BY ReassemblerIs
<1>2. StreamInv(r.output) /\ r.output.capacity = r.capacity /\ r.next_assembling_index = r.output.bytes_written
      /\ r.output.bytes_written <= L
  BY DEF ReassemblerInv
<1>3. /\ StreamInv(o) /\ o.bytes_read = r.output.bytes_read /\ o.capacity = r.output.capacity
      /\ o.input_ended = TRUE /\ o.bytes_written = r.output.bytes_written
  BY <1>2, StreamEnd
<1>4. o \in StreamRecord
  BY <1>3 DEF StreamInv
<1> HIDE DEF o
<1>5. /\ t \in ReassemblerRecord /\ t.output = o /\ t.next_assembling_index = r.next_assembling_index
      /\ t.storage = r.storage /\ t.capacity = r.capacity /\ t.hung = r.hung
      /\ t.smallest_temporty_index = r.smallest_temporty_index
  BY <1>1, <1>4, SMT DEF ReassemblerRecord
<1> HIDE DEF t
<1>6. SameList(t, r)
  BY <1>3, <1>5 DEF SameList
<1>7. ReassemblerInv(t, L)
  <2>1. StreamInv(t.output) /\ t.output.capacity = r.capacity
        /\ t.next_assembling_index = t.output.bytes_written /\ t.output.bytes_written <= L
        /\ (t.output.input_ended => t.output.bytes_written = L)
    BY <1>2, <1>3, <1>5
  <2> QED BY <1>5, <1>6, <2>1, OutputKeeps
<1> QED BY <1>3, <1>5, <1>6, <1>7 DEF t, o

\* The bytes of a substring beyond the output, and their number.
LEMMA FreshIs ==
  ASSUME NEW L \in Nat, NEW w \in Nat, NEW d, Piece(d, L, w), NEW x \in Nat, d.index <= x, x <= end_of(d)
  PROVE  LET fresh == SubSeq(d.data, x - d.index + 1, Len(d.data))
             n == end_of(d) - x
         IN  fresh = Bytes(x + 1, x + n) /\ Len(fresh) = n /\ n \in Nat /\ x + n = end_of(d)
<1> DEFINE a == d.index
           b == end_of(d)
           k == x - a
           n == b - x
           fresh == SubSeq(d.data, x - d.index + 1, Len(d.data))
<1>1. a \in Nat /\ b \in Nat /\ Len(d.data) \in Nat /\ b = a + Len(d.data)
  BY PieceIs, Zenon
<1>2. d.data = Bytes(a + 1, b) /\ a <= x /\ x <= b
  BY Zenon DEF Piece
<1> HIDE DEF a, b
<1>3. a + 1 \in Nat /\ b \in Int /\ a + 1 <= b + 1 /\ k \in Nat /\ k <= b - (a + 1) + 1
  BY <1>1, <1>2
<1>4. SubSeq(Bytes(a + 1, b), k + 1, Len(Bytes(a + 1, b))) = Bytes((a + 1) + k, b)
  <2> DEFINE c == a + 1
  <2> HIDE DEF k, c
  <2>1. c \in Nat /\ b \in Int /\ c <= b + 1 /\ k \in Nat /\ k <= b - c + 1
    BY <1>3 DEF c
  <2>2. SubSeq(Bytes(c, b), k + 1, Len(Bytes(c, b))) = Bytes(c + k, b)
    BY <2>1, BytesSplit, ZenonT(60)
  <2> QED BY <2>2 DEF c
<1>5. fresh = SubSeq(Bytes(a + 1, b), k + 1, Len(Bytes(a + 1, b)))
  BY <1>2, Zenon DEF a
<1>6. (a + 1) + k = x + 1 /\ n \in Nat /\ x + n = b /\ x + 1 \in Nat /\ x + 1 <= b + 1 /\ b - (x + 1) + 1 = n
  BY <1>1, <1>2
<1> HIDE DEF k, n, fresh
<1>7. fresh = Bytes(x + 1, b)
  BY <1>4, <1>5, <1>6, SMTT(30)
<1>8. Len(Bytes(x + 1, b)) = b - (x + 1) + 1
  BY <1>3, <1>6, BytesType, Zenon
<1> QED BY <1>6, <1>7, <1>8, Zenon DEF n, b, fresh

\* The writing part of assemble().
LEMMA AssembleWrites ==
  ASSUME NEW r, NEW L \in Nat, ReassemblerInv(r, L), NEW d, Piece(d, L, Limit(r)),
         d.index <= r.next_assembling_index
  PROVE  LET overlaps == d.index < r.next_assembling_index /\ end_of(d) > r.next_assembling_index
             a == CASE d.index = r.next_assembling_index -> assemble_next(r, d)
                    [] overlaps -> overlap_handler(r, d)
                    [] OTHER -> r
         IN  /\ ReassemblerInv(a, L) /\ SameList(a, r)
             /\ a.next_assembling_index = Larger(r.next_assembling_index, end_of(d))
             /\ a.output.input_ended = r.output.input_ended
<1> DEFINE x == r.next_assembling_index
           y == d.index
           z == end_of(d)
           n == z - x
           overlaps == y < x /\ z > x
           a == CASE y = x -> assemble_next(r, d) [] overlaps -> overlap_handler(r, d) [] OTHER -> r
           w == Limit(r)
           fresh == SubSeq(d.data, x - y + 1, Len(d.data))
           t == [r EXCEPT !.output = write(r.output, Bytes(x + 1, x + n)), !.next_assembling_index = x + n]
<1>1. r \in ReassemblerRecord /\ x \in Nat /\ w \in Nat /\ x <= L /\ x <= w
  BY ReassemblerIs, Zenon DEF ReassemblerInv, StreamInv, Limit
<1>2. /\ d \in DatagramRecord /\ y \in Nat /\ z \in Nat /\ y <= z /\ Len(d.data) \in Nat
      /\ z = y + Len(d.data) /\ (y < z => z <= L /\ z <= w)
  BY <1>1, PieceIs, Zenon
<1>3. ASSUME x <= z
      PROVE  /\ ReassemblerInv(t, L) /\ SameList(t, r)
             /\ t.next_assembling_index = Larger(x, z)
             /\ t.output.input_ended = r.output.input_ended
             /\ n <= remaining_capacity(r.output) /\ fresh = Bytes(x + 1, x + n) /\ Len(fresh) = n
             /\ x + n = z
  <2>1. fresh = Bytes(x + 1, x + n) /\ Len(fresh) = n /\ n \in Nat /\ x + n = z
    BY <1>1, <1>3, FreshIs, Zenon
  <2> HIDE DEF n, fresh
  <2>2. x + n <= L /\ x + n <= w
    <3>1. y <= x
      OBVIOUS
    <3> HIDE DEF x, y, z, w
    <3>2. z <= L /\ z <= w
      BY <1>1, <1>2, <3>1
    <3> QED BY <2>1, <3>2
  <2>3. /\ ReassemblerInv(t, L) /\ SameList(t, r)
        /\ t.next_assembling_index = x + n
        /\ t.output.input_ended = r.output.input_ended
        /\ n <= remaining_capacity(r.output)
    BY <2>1, <2>2, WriteKeeps, Zenon
  <2>4. Larger(x, z) = x + n
    BY <1>3, <2>1, Zenon DEF Larger
  <2> QED BY <2>1, <2>3, <2>4, Zenon DEF n, fresh
<1>4. CASE y = x
  <2> DEFINE left == remaining_capacity(r.output)
             o == write(r.output, d.data)
  <2>1. x <= z
    BY <1>2, <1>4
  <2>2. Len(d.data) = n /\ x + n = z
    <3> HIDE DEF x, y, z
    <3> QED BY <1>1, <1>2, <1>4
  <2>3. d.data = Bytes(x + 1, x + n)
    <3>1. d.data = Bytes(y + 1, z)
      BY Zenon DEF Piece
    <3> HIDE DEF x, y, z, n
    <3> QED BY <1>4, <2>2, <3>1
  <2>4. Smaller(Len(d.data), left) = n
    BY <1>3, <2>1, <2>2, Zenon DEF Smaller
  <2>5. a = assemble_next(r, d)
    <3>1. ~ overlaps
      BY <1>1, <1>4
    <3> HIDE DEF overlaps
    <3> QED BY <1>4, <3>1
  <2>6. assemble_next(r, d) = [r EXCEPT !.next_assembling_index = x + Smaller(Len(d.data), left), !.output = o]
    BY DEF assemble_next
  <2>7. a = [r EXCEPT !.next_assembling_index = x + n, !.output = o]
    BY <2>4, <2>5, <2>6, Zenon
  <2>8. a = t
    <3>1. o = write(r.output, Bytes(x + 1, x + n))
      BY <2>3, Zenon
    <3> DEFINE nx == x + n
    <3>2. nx \in Nat
      BY <1>2, <2>2
    <3> HIDE DEF o, a
    <3>3. t = [r EXCEPT !.output = o, !.next_assembling_index = nx]
      BY <3>1, Zenon
    <3>4. a = [r EXCEPT !.next_assembling_index = nx, !.output = o]
      BY <2>7, Zenon
    <3> HIDE DEF nx, t
    <3> QED BY <1>1, <3>2, <3>3, <3>4, Zenon DEF ReassemblerRecord
  <2> HIDE DEF a, t
  <2> QED BY <1>3, <2>1, <2>8, Zenon DEF a
<1>5. CASE y < x /\ z > x
  <2>1. x <= z /\ y # x
    BY <1>1, <1>2, <1>5
  <2>2. a = overlap_handler(r, d)
    BY <1>5, <2>1
  <2>3. overlap_handler(r, d) = [r EXCEPT !.output = write(r.output, fresh), !.next_assembling_index = x + Len(fresh)]
    BY DEF overlap_handler
  <2>4. a = t
    BY <1>3, <2>1, <2>2, <2>3, Zenon
  <2> HIDE DEF a, t
  <2> QED BY <1>3, <2>1, <2>4, Zenon DEF a
<1>6. CASE y < x /\ ~ (z > x)
  <2>1. y # x /\ z <= x
    BY <1>1, <1>2, <1>6
  <2>2. a = r
    BY <1>6, <2>1
  <2>3. Larger(x, z) = x
    BY <1>1, <1>2, <2>1 DEF Larger
  <2>4. SameList(r, r)
    BY Zenon DEF SameList
  <2> HIDE DEF a
  <2> QED BY <2>2, <2>3, <2>4, Zenon DEF a
<1>7. y <= x
  OBVIOUS
<1>8. y = x \/ y < x
  <2> HIDE DEF x, y
  <2> QED BY <1>1, <1>2, <1>7
<1> QED BY <1>4, <1>5, <1>6, <1>8, Zenon

\* assemble() keeps the invariant.
LEMMA AssembleKeeps ==
  ASSUME NEW r, NEW L \in Nat, ReassemblerInv(r, L), NEW d, Piece(d, L, Limit(r)),
         d.index <= r.next_assembling_index
  PROVE  LET t == assemble(r, d)
         IN  ReassemblerInv(t, L) /\ Assembled(t, r, d)
<1> USE Zenon
<1> DEFINE x == r.next_assembling_index
           overlaps == d.index < x /\ end_of(d) > x
           a == CASE d.index = x -> assemble_next(r, d) [] overlaps -> overlap_handler(r, d) [] OTHER -> r
           exceeded == overlaps /\ a.next_assembling_index > a.output.bytes_written
           b == [a EXCEPT !.output = end_input(@)]
           t == assemble(r, d)
<1>1. t = IF d.eof /\ ~ exceeded THEN b ELSE a
  BY DEF assemble
<1>2. /\ ReassemblerInv(a, L) /\ SameList(a, r)
      /\ a.next_assembling_index = Larger(r.next_assembling_index, end_of(d))
      /\ a.output.input_ended = r.output.input_ended
  BY AssembleWrites
<1> HIDE DEF a, t
<1>3. a.next_assembling_index = a.output.bytes_written /\ a.output.bytes_written \in Nat
  <2>1. a.output.bytes_written \in Nat
    BY <1>2, ReassemblerIs
  <2> QED BY <1>2, <2>1 DEF ReassemblerInv
<1>4. ~ exceeded
  BY <1>3, SMT
<1>5. CASE d.eof
  <2>1. t = b
    BY <1>1, <1>4, <1>5, SMT
  <2>2. a.output.bytes_written = L
    <3> DEFINE u == a.output.bytes_written  v == end_of(d)
    <3>1. u = Larger(x, v) /\ v = L /\ u <= L /\ u \in Nat
      BY <1>2, <1>3, <1>5 DEF ReassemblerInv, Piece
    <3>2. x \in Nat
      BY ReassemblerIs
    <3> HIDE DEF u, v, x
    <3>3. u = L
      BY <3>1, <3>2, SMT DEF Larger
    <3> QED BY <3>3, SMT DEF u
  <2>3. /\ ReassemblerInv(b, L) /\ SameList(b, a)
        /\ b.next_assembling_index = a.next_assembling_index /\ b.output.input_ended
    BY <1>2, <2>2, EndKeeps
  <2> HIDE DEF b
  <2>4. SameList(b, r)
    BY <1>2, <2>3 DEF SameList
  <2>5. Assembled(t, r, d)
    BY <1>2, <1>5, <2>1, <2>3, <2>4 DEF Assembled
  <2> QED BY <2>1, <2>3, <2>5 DEF t
<1>6. CASE ~ d.eof
  <2>1. t = a
    BY <1>1, <1>6, SMT
  <2>2. Assembled(t, r, d)
    BY <1>2, <1>6, <2>1 DEF Assembled
  <2> QED BY <1>2, <2>1, <2>2 DEF t
<1> QED BY <1>5, <1>6, SMT

\* Taking the first datagram from the list keeps the invariant.
LEMMA PopKeeps ==
  ASSUME NEW r, NEW L \in Nat, ReassemblerInv(r, L), r.storage # <<>>
  PROVE  LET t == pop_stored(r)
             d == r.storage[1]
         IN  /\ ReassemblerInv(t, L) /\ Popped(t, r, d) /\ Piece(d, L, Limit(r))
             /\ d \in DatagramRecord /\ 1 \in 1 .. Len(r.storage)
<1> USE Zenon
<1> DEFINE q == r.storage
           s == Tail(q)
           d == q[1]
           u == r.unassembled_bytes - Len(d.data)
           t == pop_stored(r)
           n == Len(q)
           w == Limit(r)
<1>1. /\ r \in ReassemblerRecord /\ q \in Seq(DatagramRecord) /\ Storage(q, L, w) /\ w \in Nat
      /\ r.unassembled_bytes \in Int /\ n \in Nat /\ r.smallest_temporty_index \in Nat
  BY ReassemblerIs
<1>2. s \in Seq(DatagramRecord) /\ Len(s) = n - 1 /\ \A i \in 1 .. n - 1 : s[i] = q[i + 1]
  BY <1>1, HeadTailIs
<1>3. n >= 1 /\ 1 \in 1 .. n
  BY <1>1, SMT
<1>4. Piece(d, L, w)
  BY <1>1, <1>3 DEF Storage
<1>5. Len(d.data) \in Nat /\ d.index \in Nat /\ d \in DatagramRecord
  BY <1>1, <1>4, PieceIs
<1>6. u \in Int
  BY <1>1, <1>5, SMTT(30)
<1>7. t = [r EXCEPT !.storage = s, !.unassembled_bytes = u]
  BY <1>1, SMT DEF pop_stored, ReassemblerRecord
<1> HIDE DEF s, u, t, n, d
<1>8. /\ t \in ReassemblerRecord /\ t.output = r.output /\ t.capacity = r.capacity /\ t.hung = r.hung
      /\ t.next_assembling_index = r.next_assembling_index /\ t.storage = s
      /\ t.smallest_temporty_index = r.smallest_temporty_index
  BY <1>1, <1>2, <1>6, <1>7 DEF ReassemblerRecord
<1>9. \A i \in 1 .. Len(s) : i + 1 \in 1 .. n /\ s[i] = q[i + 1] /\ 1 < i + 1
  BY <1>1, <1>2, SMT
<1>10. \A i, j \in 1 .. n : i < j => q[i].index <= q[j].index
  BY <1>1 DEF Storage, n
<1>11. Storage(s, L, w)
  <2>1. \A i \in 1 .. Len(s) : Piece(s[i], L, w)
    BY <1>1, <1>9 DEF Storage, n
  <2>2. ASSUME NEW i \in 1 .. Len(s), NEW j \in 1 .. Len(s), i < j PROVE s[i].index <= s[j].index
    <3>1. i + 1 < j + 1
      BY <1>1, <1>2, <2>2, SMT
    <3> QED BY <1>9, <1>10, <3>1
  <2> QED BY <1>2, <2>1, <2>2 DEF Storage
<1>12. \A i \in 1 .. Len(s) : d.index <= s[i].index
  BY <1>3, <1>9, <1>10 DEF d
<1>13. Among(s, q)
  BY <1>9 DEF Among, n
<1>14. s # <<>> => r.smallest_temporty_index <= s[1].index
  <2> SUFFICES ASSUME s # <<>> PROVE r.smallest_temporty_index <= s[1].index
    BY SMT
  <2>1. 1 \in 1 .. Len(s)
    BY <1>2, SMT
  <2>2. d.index <= s[1].index /\ Piece(s[1], L, w)
    BY <1>11, <1>12, <2>1 DEF Storage
  <2>3. s[1].index \in Nat
    BY <1>1, <2>2, PieceIs
  <2>4. r.smallest_temporty_index <= d.index
    BY DEF ReassemblerInv, d
  <2> QED BY <1>1, <1>5, <2>2, <2>3, <2>4, SMT
<1>15. ReassemblerInv(t, L)
  BY <1>8, <1>11, <1>14, StoreKeeps
<1>16. ASSUME NEW b \in Nat PROVE HoldsAny(q, b) <=> HoldsAny(s, b) \/ Holds(d, b)
  <2>1. ASSUME HoldsAny(q, b) PROVE HoldsAny(s, b) \/ Holds(d, b)
    <3>1. PICK i \in 1 .. n : Holds(q[i], b)
      BY <2>1 DEF HoldsAny, n
    <3>2. CASE i = 1
      BY <3>1, <3>2, SMT DEF d
    <3>3. CASE i # 1
      <4>1. i - 1 \in 1 .. Len(s) /\ (i - 1) + 1 = i
        BY <1>1, <1>2, <3>3, SMT
      <4>2. s[i - 1] = q[i]
        BY <1>2, <4>1, SMT
      <4> QED BY <3>1, <4>1, <4>2 DEF HoldsAny
    <3> QED BY <3>2, <3>3, SMT
  <2>2. HoldsAny(s, b) => HoldsAny(q, b)
    BY <1>13 DEF HoldsAny, Among
  <2>3. Holds(d, b) => HoldsAny(q, b)
    BY <1>3 DEF HoldsAny, d, n
  <2> QED BY <2>1, <2>2, <2>3
<1>17. Popped(t, r, d)
  BY <1>2, <1>8, <1>12, <1>13, <1>16 DEF Popped, n
<1> QED BY <1>3, <1>4, <1>5, <1>15, <1>17 DEF t, d, n

\* What one call does with the substring g, by cases: drop it, because there is no
\* room or nothing in it; store it; write it and go on with a stored one; write it.
LEMMA PushCases ==
  ASSUME NEW c \in CallRecord, NEW L \in Nat, ReassemblerInv(c.r, L), NEW g, c.todo = <<g>>,
         Piece(g, L, Limit(c.r))
  PROVE  LET t == push_step(c)
             x == c.r.next_assembling_index
             a == assemble(c.r, g)
         IN  \/ t = [r |-> c.r, todo |-> <<>>] /\ (end_of(g) = g.index \/ Limit(c.r) = x)
             \/ t = [r |-> missing_middle_handler(c.r, g), todo |-> <<>>] /\ g.index > x
             \/ /\ t = [r |-> pop_stored(a), todo |-> <<a.storage[1]>>]
                /\ g.index <= x /\ a.storage # <<>>
             \/ /\ t = [r |-> a, todo |-> <<>>] /\ g.index <= x
                /\ g.index < end_of(g) /\ a.storage # <<>>
                   => a.next_assembling_index < a.smallest_temporty_index
<1> DEFINE r == c.r
           x == r.next_assembling_index
           a == assemble(r, g)
           t == push_step(c)
           full == remaining_capacity(r.output) = 0
           far == g.index >= indicator(r)
           w == Limit(r)
<1>1. /\ r \in ReassemblerRecord /\ x \in Nat /\ w \in Nat /\ r.capacity \in Nat /\ r.output.bytes_read \in Nat
      /\ r.storage \in Seq(DatagramRecord) /\ Storage(r.storage, L, w)
  BY ReassemblerIs, Zenon
<1>2. g \in DatagramRecord /\ g.index \in Nat /\ end_of(g) \in Nat /\ g.index <= end_of(g)
      /\ (g.index < end_of(g) => end_of(g) <= w) /\ Len(g.data) \in Nat /\ end_of(g) = g.index + Len(g.data)
  BY <1>1, PieceIs, Zenon
<1>3. remaining_capacity(r.output) \in Nat /\ w = remaining_capacity(r.output) + x
  <2>1. StreamInv(r.output) /\ r.output.capacity = r.capacity /\ x = r.output.bytes_written
    BY Zenon DEF ReassemblerInv
  <2> DEFINE left == remaining_capacity(r.output)  rd == r.output.bytes_read  cap == r.capacity
  <2>2. left \in Nat /\ left = cap - (x - rd) /\ rd \in Nat /\ cap \in Nat /\ w = rd + cap
    BY <1>1, <2>1, StreamSize, Zenon DEF Limit
  <2> HIDE DEF left, rd, cap, x, w
  <2>3. w = left + x
    BY <1>1, <2>2
  <2> QED BY <2>2, <2>3, Zenon DEF left
<1>4. indicator(r) \in Nat /\ indicator(r) >= r.capacity + x
  <2>1. first_unassemble_byte_index(r) \in Nat
    <3>1. CASE r.storage = <<>>
      BY <3>1 DEF first_unassemble_byte_index
    <3>2. CASE r.storage # <<>>
      <4>1. 1 \in 1 .. Len(r.storage)
        BY <1>1, <3>2
      <4>2. r.storage[1].index \in Nat
        BY <1>1, <4>1, PieceIs, Zenon DEF Storage
      <4> QED BY <3>2, <4>2, Zenon DEF first_unassemble_byte_index
    <3> QED BY <3>1, <3>2
  <2> DEFINE f == first_unassemble_byte_index(r)
             cap == r.capacity
  <2>2. indicator(r) = cap + Larger(f, x)
    BY Zenon DEF indicator
  <2>3. f \in Nat /\ cap \in Nat /\ x \in Nat
    BY <1>1, <2>1, Zenon
  <2> HIDE DEF f, cap, x
  <2>4. Larger(f, x) \in Nat /\ Larger(f, x) >= x
    BY <2>3 DEF Larger
  <2>5. cap + Larger(f, x) \in Nat /\ cap + Larger(f, x) >= cap + x
    BY <2>3, <2>4
  <2> QED BY <2>2, <2>5, Zenon DEF cap
<1>5. far => end_of(g) = g.index
  <2> DEFINE cap == r.capacity  rd == r.output.bytes_read  i == g.index  e == end_of(g)  ind == indicator(r)
  <2>1. /\ w = rd + cap /\ rd \in Nat /\ cap \in Nat /\ rd <= x
        /\ i \in Nat /\ e \in Nat /\ i <= e /\ (i < e => e <= w) /\ ind \in Nat /\ ind >= cap + x /\ x \in Nat
    <3>1. rd <= x
      BY Zenon DEF ReassemblerInv, StreamInv
    <3> QED BY <1>1, <1>2, <1>4, <3>1, Zenon DEF Limit
  <2> HIDE DEF cap, rd, i, e, ind, x, w
  <2>2. i >= ind => e = i
    BY <2>1
  <2> QED BY <2>2 DEF i, e, ind
<1>6. full => w = x
  <2> DEFINE left == remaining_capacity(r.output)
  <2> HIDE DEF left, w, x
  <2>1. left \in Nat /\ w = left + x /\ x \in Nat
    BY <1>1, <1>3 DEF left
  <2> QED BY <2>1 DEF left
<1>7. c.todo # <<>> /\ c.todo[1] = g
  OBVIOUS
<1> DEFINE mid == missing_middle_handler(r, g)
           pop == pop_stored(a)
           next == a.storage[1]
           gap == gap_fixed(a, g)
<1>8. t = CASE full \/ far -> [c EXCEPT !.todo = <<>>]
            [] remaining_capacity(r.output) > 0 /\ g.index < indicator(r) ->
                 IF g.index > x THEN [r |-> mid, todo |-> <<>>]
                 ELSE IF gap THEN [r |-> pop, todo |-> <<next>>]
                 ELSE [r |-> a, todo |-> <<>>]
  BY <1>7, Zenon DEF push_step
<1>9. [c EXCEPT !.todo = <<>>] = [r |-> r, todo |-> <<>>]
  BY DEF CallRecord
<1>10. remaining_capacity(r.output) > 0 /\ g.index < indicator(r) <=> ~ (full \/ far)
  <2> DEFINE left == remaining_capacity(r.output)  i == g.index  ind == indicator(r)
  <2>1. left \in Nat /\ i \in Nat /\ ind \in Nat
    BY <1>2, <1>3, <1>4, Zenon
  <2> HIDE DEF left, i, ind
  <2>2. left > 0 /\ i < ind <=> ~ (left = 0 \/ i >= ind)
    BY <2>1
  <2> QED BY <2>2 DEF left, i, ind
<1>11. gap <=> /\ a.next_assembling_index >= a.smallest_temporty_index
               /\ g.data # <<>>
               /\ a.storage # <<>>
  BY Zenon DEF gap_fixed
<1>12. g.index < end_of(g) => g.data # <<>>
  <2>1. g.data = <<>> => Len(g.data) = 0
    OBVIOUS
  <2> QED BY <1>2, <2>1
<1>13. g.index <= x => a.next_assembling_index \in Nat /\ a.smallest_temporty_index \in Nat
  BY AssembleKeeps, ReassemblerIs, Zenon
<1>14. g.index <= x <=> ~ (g.index > x)
  BY <1>1, <1>2
<1> DEFINE u == a.next_assembling_index  v == a.smallest_temporty_index
<1>15. u \in Nat /\ v \in Nat => (u < v <=> ~ (u >= v))
  OBVIOUS
<1> DEFINE roomy == remaining_capacity(r.output) > 0 /\ g.index < indicator(r)
<1>16. roomy <=> ~ (full \/ far)
  BY <1>10
<1> HIDE DEF full, far, roomy, t, mid, pop, next, gap, a, u, v
<1>17. CASE full \/ far
  <2>1. t = [r |-> r, todo |-> <<>>]
    BY <1>8, <1>9, <1>16, <1>17 DEF roomy
  <2> QED BY <1>5, <1>6, <1>17, <2>1, Zenon DEF t
<1>18. CASE ~ (full \/ far) /\ g.index > x
  <2>1. t = [r |-> mid, todo |-> <<>>]
    BY <1>8, <1>16, <1>18 DEF roomy
  <2> QED BY <1>18, <2>1, Zenon DEF t, mid
<1>19. CASE ~ (full \/ far) /\ g.index <= x /\ gap
  <2>1. t = [r |-> pop, todo |-> <<next>>]
    BY <1>8, <1>14, <1>16, <1>19 DEF roomy
  <2> QED BY <1>11, <1>19, <2>1, Zenon DEF t, pop, next, a
<1>20. CASE ~ (full \/ far) /\ g.index <= x /\ ~ gap
  <2>1. t = [r |-> a, todo |-> <<>>]
    BY <1>8, <1>14, <1>16, <1>20 DEF roomy
  <2>2. g.index < end_of(g) /\ a.storage # <<>> => u < v
    BY <1>11, <1>12, <1>13, <1>15, <1>20, Zenon DEF u, v
  <2> QED BY <1>20, <2>1, <2>2, Zenon DEF t, a, u, v
<1> QED BY <1>14, <1>17, <1>18, <1>19, <1>20, Zenon

\* A call without a substring.
LEMMA CallDone ==
  ASSUME NEW L \in Nat, NEW r, ReassemblerInv(r, L), NEW t, t = [r |-> r, todo |-> <<>>]
  PROVE  CallInv(t, L) /\ t.r = r /\ t.todo = <<>> /\ (\A b : CallKnows(t, b) <=> Known(r, b))
         /\ (Calm(t, L) <=> Settled(r, L))
<1> USE Zenon
<1>1. r \in ReassemblerRecord
  BY ReassemblerIs
<1>2. t \in CallRecord /\ t.r = r /\ t.todo = <<>>
  BY <1>1, SMT DEF CallRecord
<1>3. CallInv(t, L)
  BY <1>2 DEF CallInv
<1>4. \A b : CallKnows(t, b) <=> Known(r, b)
  BY <1>2 DEF CallKnows
<1>5. Calm(t, L) <=> Settled(r, L)
  BY <1>2 DEF Calm, Settled
<1> QED BY <1>2, <1>3, <1>4, <1>5

\* The bytes that are known once a substring has been written.
LEMMA AssembledKnows ==
  ASSUME NEW r, NEW L \in Nat, ReassemblerInv(r, L), NEW g, Piece(g, L, Limit(r)),
         g.index <= r.next_assembling_index
  PROVE  LET a == assemble(r, g)
         IN  /\ ReassemblerInv(a, L) /\ SameList(a, r) /\ Limit(a) = Limit(r)
             /\ r.next_assembling_index <= a.next_assembling_index
             /\ r.output.input_ended => a.output.input_ended
             /\ \A b \in Nat : Known(a, b) <=> Known(r, b) \/ Holds(g, b)
<1> USE Zenon
<1> DEFINE a == assemble(r, g)
           x == r.next_assembling_index
           y == a.next_assembling_index
           i == g.index
           e == end_of(g)
<1>1. ReassemblerInv(a, L) /\ Assembled(a, r, g)
  BY AssembleKeeps
<1>2. x \in Nat /\ Limit(r) \in Nat
  BY ReassemblerIs
<1>3. i \in Nat /\ e \in Nat /\ i <= x
  BY <1>2, PieceIs
<1>4. SameList(a, r) /\ y = Larger(x, e) /\ (r.output.input_ended => a.output.input_ended)
  BY <1>1 DEF Assembled
<1>5. Limit(a) = Limit(r) /\ a.storage = r.storage
  BY <1>4 DEF SameList, Limit
<1> HIDE DEF a, x, y, i, e
<1>6. x <= y /\ \A b \in Nat : b < y <=> b < x \/ (i <= b /\ b < e)
  BY <1>2, <1>3, <1>4, SMT DEF Larger
<1>7. ASSUME NEW b \in Nat PROVE Known(a, b) <=> Known(r, b) \/ Holds(g, b)
  BY <1>5, <1>6 DEF Known, Holds, x, y, i, e
<1> QED BY <1>1, <1>4, <1>5, <1>6, <1>7 DEF a, x, y

\* One call keeps the invariant; if it makes another one, the list is shorter by one.
LEMMA PushStep ==
  ASSUME NEW L \in Nat, NEW c, CallInv(c, L)
  PROVE  LET t == push_step(c)
         IN  /\ CallInv(t, L) /\ CallMoves(c, t, L)
             /\ t.todo # <<>> => c.todo # <<>> /\ Len(t.r.storage) = Len(c.r.storage) - 1
<1> USE Zenon
<1> DEFINE t == push_step(c)
           r == c.r
           g == c.todo[1]
           x == r.next_assembling_index
           a == assemble(r, g)
           w == Limit(r)
           q == r.storage
<1>1. c \in CallRecord /\ ReassemblerInv(r, L)
  BY DEF CallInv
<1>2. /\ r \in ReassemblerRecord /\ x \in Nat /\ w \in Nat /\ Storage(q, L, w)
      /\ q \in Seq(DatagramRecord) /\ Len(q) \in Nat
  BY <1>1, ReassemblerIs
<1>3. CASE c.todo = <<>>
  <2>1. t = c
    BY <1>3, SMT DEF push_step
  <2>2. x <= x
    BY <1>2, SMT
  <2>3. CallMoves(c, c, L)
    BY <2>2 DEF CallMoves
  <2> HIDE DEF t
  <2> QED BY <1>3, <2>1, <2>3 DEF t
<1>4. CASE c.todo # <<>>
  <2>1. c.todo = <<g>> /\ Piece(g, L, w)
    BY <1>4 DEF CallInv
  <2>2. g \in DatagramRecord /\ g.index \in Nat /\ end_of(g) \in Nat /\ g.index <= end_of(g)
        /\ (g.index < end_of(g) => end_of(g) <= w)
    BY <1>2, <2>1, PieceIs
  <2>3. \A b : CallKnows(c, b) <=> Known(r, b) \/ Holds(g, b)
    BY <1>4 DEF CallKnows
  <2>4. ASSUME Calm(c, L)
        PROVE  /\ Whole(g, L)
               /\ \A i \in 1 .. Len(q) :
                    /\ Whole(q[i], L)
                    /\ q[i].index > x \/ end_of(q[i]) <= x \/ g.index <= q[i].index
    BY <1>4, <2>4 DEF Calm
  <2>5. \A i \in 1 .. Len(q) : Piece(q[i], L, w)
    BY <1>2 DEF Storage
  <2>6. \A i \in 1 .. Len(q) : /\ q[i].index \in Nat /\ end_of(q[i]) \in Nat
                               /\ q[i].index < end_of(q[i]) => end_of(q[i]) <= w
    BY <1>2, <2>5, PieceIs
  <2>7. x <= x
    BY <1>2, SMT
  <2>8. CASE t = [r |-> r, todo |-> <<>>] /\ (end_of(g) = g.index \/ w = x)
    <3> HIDE DEF t
    <3>1. /\ CallInv(t, L) /\ t.r = r /\ t.todo = <<>> /\ (\A b : CallKnows(t, b) <=> Known(r, b))
          /\ (Calm(t, L) <=> Settled(r, L))
      BY <1>1, <2>8, CallDone, SMT
    <3>2. ASSUME NEW b \in Nat, Holds(g, b) PROVE Known(r, b)
      <4>1. g.index <= b /\ b < end_of(g)
        BY <3>2 DEF Holds
      <4> DEFINE i == g.index  e == end_of(g)
      <4>2. i \in Nat /\ e \in Nat /\ i <= b /\ b < e /\ (i < e => e <= w) /\ (e = i \/ w = x)
        BY <2>2, <2>8, <4>1
      <4> HIDE DEF i, e, w, x
      <4>3. b < x
        BY <1>2, <4>2, SMT
      <4> QED BY <4>3 DEF Known, x
    <3>3. ASSUME Calm(c, L) PROVE Calm(t, L)
      <4>1. ASSUME NEW i \in 1 .. Len(q) PROVE Whole(q[i], L) /\ (q[i].index > x \/ end_of(q[i]) <= x)
        <5> DEFINE a1 == g.index  b1 == end_of(g)  u == q[i].index  v == end_of(q[i])
        <5>1. Whole(q[i], L) /\ (u < v \/ u = L) /\ (u > x \/ v <= x \/ a1 <= u)
          BY <2>4, <3>3, <4>1 DEF Whole
        <5>2. a1 < b1 \/ a1 = L
          BY <2>4, <3>3 DEF Whole
        <5>3. u \in Nat /\ v \in Nat /\ u <= v /\ (u < v => v <= w /\ v <= L)
              /\ a1 \in Nat /\ b1 \in Nat /\ (b1 = a1 \/ w = x)
          BY <1>2, <2>2, <2>5, <2>6, <2>8, PieceIs
        <5>4. x <= L
          BY <1>1 DEF ReassemblerInv
        <5> HIDE DEF a1, b1, u, v, w, x
        <5>5. u > x \/ v <= x
          BY <1>2, <5>1, <5>2, <5>3, <5>4, SMT
        <5> QED BY <5>1, <5>5 DEF u, v, x
      <4> QED BY <3>1, <4>1 DEF Settled
    <3>4. CallMoves(c, t, L)
      BY <2>3, <2>7, <3>1, <3>2, <3>3 DEF CallMoves
    <3> QED BY <3>1, <3>4 DEF t
  <2>9. CASE t = [r |-> missing_middle_handler(r, g), todo |-> <<>>] /\ g.index > x
    <3> DEFINE h == missing_middle_handler(r, g)
    <3>1. /\ ReassemblerInv(h, L)
          /\ h.output = r.output /\ h.capacity = r.capacity
          /\ h.next_assembling_index = x
          /\ \A b \in Nat : HoldsAny(h.storage, b) => HoldsAny(q, b) \/ Holds(g, b)
          /\ ~ h.hung => \A b \in Nat : HoldsAny(q, b) \/ Holds(g, b) => HoldsAny(h.storage, b)
          /\ r.hung => h.hung
          /\ \A i \in 1 .. Len(h.storage) :
               \/ \E j \in 1 .. Len(q) : h.storage[i] = q[j]
               \/ h.storage[i].index = g.index /\ end_of(g) <= end_of(h.storage[i])
      <4>1. MiddleStored(h, r, g, L)
        BY <1>1, <2>1, MiddleKeeps
      <4> QED BY <4>1 DEF MiddleStored
    <3> HIDE DEF t, h
    <3>2. t = [r |-> h, todo |-> <<>>]
      BY <2>9, SMT DEF h
    <3>3. /\ CallInv(t, L) /\ t.r = h /\ t.todo = <<>> /\ (\A b : CallKnows(t, b) <=> Known(h, b))
          /\ (Calm(t, L) <=> Settled(h, L))
      BY <3>1, <3>2, CallDone, SMT
    <3>4. \A b \in Nat : Known(h, b) => Known(r, b) \/ Holds(g, b)
      BY <3>1 DEF Known
    <3>5. ~ h.hung => \A b \in Nat : Known(r, b) \/ Holds(g, b) => Known(h, b)
      BY <3>1 DEF Known
    <3>6. ASSUME Calm(c, L), NEW i \in 1 .. Len(h.storage)
          PROVE  Whole(h.storage[i], L) /\ (h.storage[i].index > x \/ end_of(h.storage[i]) <= x)
      <4>1. CASE \E j \in 1 .. Len(q) : h.storage[i] = q[j]
        <5>1. PICK j \in 1 .. Len(q) : h.storage[i] = q[j]
          BY <4>1, SMT
        <5> DEFINE s == h.storage[i]
        <5>2. s = q[j]
          BY <5>1, SMT
        <5> HIDE DEF s
        <5>3. Whole(s, L) /\ (s.index > x \/ end_of(s) <= x \/ g.index <= s.index) /\ s.index \in Nat
          BY <2>4, <2>6, <3>6, <5>2, SMT
        <5>4. g.index <= s.index => s.index > x
          <6> DEFINE k == g.index  l == s.index
          <6>1. k \in Nat /\ l \in Nat /\ k > x
            BY <2>2, <2>9, <5>3
          <6> HIDE DEF k, l, x
          <6>2. k <= l => l > x
            BY <1>2, <6>1, SMT
          <6> QED BY <6>2, SMT DEF k, l
        <5> QED BY <5>3, <5>4 DEF s
      <4>2. CASE h.storage[i].index = g.index /\ end_of(g) <= end_of(h.storage[i])
        <5> DEFINE s == h.storage[i]
        <5>1. Piece(s, L, Limit(h)) /\ Limit(h) \in Nat
          BY <3>1, ReassemblerIs DEF Storage
        <5>2. end_of(s) \in Nat
          BY <5>1, PieceIs
        <5>3. Whole(g, L)
          BY <2>4, <3>6, SMT
        <5>4. s.index = g.index /\ end_of(g) <= end_of(s)
          BY <4>2, SMT
        <5> HIDE DEF s
        <5>5. Whole(s, L)
          <6>1. g.index < end_of(g) \/ g.index = L
            BY <5>3 DEF Whole
          <6> DEFINE a1 == g.index  b1 == end_of(g)  u == s.index  v == end_of(s)
          <6>2. a1 \in Nat /\ b1 \in Nat /\ v \in Nat /\ u = a1 /\ b1 <= v /\ (a1 < b1 \/ a1 = L)
            BY <2>2, <5>2, <5>4, <6>1
          <6> HIDE DEF a1, b1, u, v
          <6>3. u < v \/ u = L
            BY <6>2, SMT
          <6> QED BY <6>3, SMT DEF Whole, u, v
        <5>6. s.index > x
          BY <2>9, <5>4, SMT
        <5> QED BY <5>5, <5>6 DEF s
      <4> QED BY <3>1, <4>1, <4>2
    <3>7. Calm(c, L) => Calm(t, L)
      BY <3>1, <3>3, <3>6 DEF Settled
    <3>8. CallMoves(c, t, L)
      BY <2>3, <2>7, <3>1, <3>3, <3>4, <3>5, <3>7 DEF CallMoves
    <3> QED BY <3>3, <3>8 DEF t
  <2>10. ASSUME g.index <= x
         PROVE  /\ ReassemblerInv(a, L) /\ a.storage = q /\ a.capacity = r.capacity /\ a.hung = r.hung
                /\ a.output.bytes_read = r.output.bytes_read /\ Limit(a) = w
                /\ x <= a.next_assembling_index
                /\ r.output.input_ended => a.output.input_ended
                /\ \A b \in Nat : Known(a, b) <=> Known(r, b) \/ Holds(g, b)
    <3>1. /\ ReassemblerInv(a, L) /\ SameList(a, r) /\ Limit(a) = w
          /\ x <= a.next_assembling_index
          /\ r.output.input_ended => a.output.input_ended
          /\ \A b \in Nat : Known(a, b) <=> Known(r, b) \/ Holds(g, b)
      BY <1>1, <2>1, <2>10, AssembledKnows, SMT
    <3> HIDE DEF a
    <3> QED BY <3>1 DEF SameList
  <2>11. CASE /\ t = [r |-> pop_stored(a), todo |-> <<a.storage[1]>>]
              /\ g.index <= x /\ a.storage # <<>>
    <3> DEFINE p == pop_stored(a)
               d == a.storage[1]
    <3>1. /\ ReassemblerInv(p, L) /\ Popped(p, a, d) /\ Piece(d, L, Limit(a))
          /\ d \in DatagramRecord /\ 1 \in 1 .. Len(a.storage)
      BY <2>10, <2>11, PopKeeps
    <3> HIDE DEF t, p
    <3>2. t = [r |-> p, todo |-> <<d>>]
      BY <2>11 DEF p
    <3>3. p \in ReassemblerRecord
      BY <3>1, ReassemblerIs
    <3>3a. d = q[1] /\ 1 \in 1 .. Len(q)
      BY <2>10, <2>11, <3>1, SMT
    <3> HIDE DEF d
    <3>4. t \in CallRecord /\ t.r = p /\ t.todo = <<d>> /\ t.todo # <<>> /\ t.todo[1] = d
      BY <3>1, <3>2, <3>3, SMT DEF CallRecord
    <3> HIDE DEF a
    <3>5. /\ p.output = a.output /\ p.capacity = a.capacity /\ p.hung = a.hung
          /\ p.next_assembling_index = a.next_assembling_index
          /\ Len(p.storage) = Len(a.storage) - 1
          /\ Among(p.storage, a.storage)
          /\ \A b \in Nat : HoldsAny(a.storage, b) <=> HoldsAny(p.storage, b) \/ Holds(d, b)
          /\ \A i \in 1 .. Len(p.storage) : d.index <= p.storage[i].index
      BY <3>1 DEF Popped
    <3>6. CallInv(t, L)
      <4>1. Limit(p) = Limit(a)
        BY <3>5 DEF Limit
      <4> QED BY <3>1, <3>4, <4>1 DEF CallInv
    <3>7. ASSUME NEW b \in Nat PROVE CallKnows(t, b) <=> CallKnows(c, b)
      <4>1. CallKnows(t, b) <=> Known(p, b) \/ Holds(d, b)
        BY <3>4 DEF CallKnows
      <4>2. Known(p, b) \/ Holds(d, b) <=> Known(a, b)
        BY <3>5 DEF Known
      <4> QED BY <2>3, <2>10, <2>11, <4>1, <4>2
    <3>8. ASSUME Calm(c, L) PROVE Calm(t, L)
      <4>1. Whole(d, L)
        BY <2>4, <3>3a, <3>8
      <4>2. ASSUME NEW i \in 1 .. Len(p.storage) PROVE Whole(p.storage[i], L)
        <5>1. PICK j \in 1 .. Len(q) : p.storage[i] = q[j]
          BY <2>10, <2>11, <3>5 DEF Among
        <5>2. Whole(q[j], L)
          BY <2>4, <3>8
        <5> QED BY <5>1, <5>2
      <4> QED BY <3>4, <3>5, <4>1, <4>2 DEF Calm
    <3>9. CallMoves(c, t, L)
      <4>1. /\ p.output.bytes_read = r.output.bytes_read /\ p.capacity = r.capacity /\ p.hung = r.hung
            /\ x <= p.next_assembling_index /\ (r.output.input_ended => p.output.input_ended)
        BY <2>10, <2>11, <3>5
      <4> QED BY <3>4, <3>7, <3>8, <4>1 DEF CallMoves
    <3>10. Len(t.r.storage) = Len(c.r.storage) - 1
      BY <2>10, <2>11, <3>4, <3>5
    <3> QED BY <1>4, <3>6, <3>9, <3>10 DEF t
  <2>12. CASE /\ t = [r |-> a, todo |-> <<>>] /\ g.index <= x
              /\ g.index < end_of(g) /\ a.storage # <<>>
                 => a.next_assembling_index < a.smallest_temporty_index
    <3> DEFINE y == a.next_assembling_index
    <3> HIDE DEF t, a
    <3>0. ReassemblerInv(a, L) /\ a.storage = q
      BY <2>10, <2>12
    <3>1. /\ CallInv(t, L) /\ t.r = a /\ t.todo = <<>> /\ (\A b : CallKnows(t, b) <=> Known(a, b))
          /\ (Calm(t, L) <=> Settled(a, L))
      BY <2>12, <3>0, CallDone, SMT
    <3>2. ASSUME Calm(c, L), NEW i \in 1 .. Len(q)
          PROVE  Whole(q[i], L) /\ (q[i].index > y \/ end_of(q[i]) <= y)
      <4>1. Whole(q[i], L) /\ (g.index < end_of(g) \/ g.index = L)
        BY <2>4, <3>2 DEF Whole
      <4>2. q # <<>> /\ 1 \in 1 .. Len(q)
        BY <1>2, SMT
      <4>3. a.smallest_temporty_index <= q[1].index
        BY <3>0, <4>2 DEF ReassemblerInv
      <4>4. y \in Nat /\ a.smallest_temporty_index \in Nat
        BY <3>0, ReassemblerIs
      <4>5. i = 1 \/ 1 < i
        BY <1>2, SMT
      <4>6. i = 1 \/ q[1].index <= q[i].index
        BY <1>2, <4>2, <4>5 DEF Storage
      <4>7. /\ q[1].index \in Nat /\ q[i].index \in Nat /\ end_of(q[i]) \in Nat
            /\ q[i].index < end_of(q[i]) \/ q[i].index = end_of(q[i])
            /\ q[i].index < end_of(q[i]) => end_of(q[i]) <= L
        BY <1>2, <2>5, <4>2, PieceIs
      <4> DEFINE u == q[1].index  v == q[i].index  e == end_of(q[i])  z == a.smallest_temporty_index
      <4>8. u \in Nat /\ v \in Nat /\ (u = v \/ u <= v) /\ z <= u /\ y \in Nat /\ z \in Nat
            /\ e \in Nat /\ (v < e => e <= L) /\ (v < e \/ v = e) /\ (v < e \/ v = L)
        BY <4>1, <4>3, <4>4, <4>6, <4>7 DEF Whole
      <4>9. CASE g.index < end_of(g)
        <5>1. y < z
          BY <2>12, <3>0, <4>2, <4>9
        <5> HIDE DEF u, v, z, y
        <5>2. v > y
          BY <4>8, <5>1, SMT
        <5> QED BY <4>1, <5>2 DEF v, y
      <4>10. CASE g.index = L
        <5>1. L <= x /\ x <= y
          BY <2>10, <2>12, <4>10
        <5> HIDE DEF e, v, y, x
        <5>2. e <= y
          BY <1>2, <4>8, <5>1, SMT
        <5> QED BY <4>1, <5>2 DEF e, y
      <4> QED BY <4>1, <4>9, <4>10
    <3>3. Calm(c, L) => Calm(t, L)
      <4>1. Calm(c, L) => \A i \in 1 .. Len(a.storage) :
              Whole(a.storage[i], L) /\ (a.storage[i].index > y \/ end_of(a.storage[i]) <= y)
        BY <3>0, <3>2
      <4> QED BY <3>1, <4>1 DEF Settled
    <3>4. CallMoves(c, t, L)
      BY <2>3, <2>10, <2>12, <3>1, <3>3 DEF CallMoves
    <3> QED BY <3>1, <3>4 DEF t
  <2> QED BY <1>1, <2>1, <2>8, <2>9, <2>11, <2>12, PushCases
<1> QED BY <1>3, <1>4, SMT

\* The recursive definition has a solution, so that it can be unfolded.
LEMMA PushesIs ==
  ASSUME NEW c, NEW N \in Nat
  PROVE  /\ Pushes(c, N)[0] = c
         /\ \A n \in 1 .. N : Pushes(c, N)[n] = push_step(Pushes(c, N)[n - 1])
<1> DEFINE F(f, k) == f = [n \in 0 .. k |-> IF n = 0 THEN c ELSE push_step(f[n - 1])]
           S == {k \in Nat : \E f : F(f, k)}
<1>1. 0 \in S
  <2>1. F([n \in 0 .. 0 |-> c], 0)
    OBVIOUS
  <2> QED BY <2>1, Zenon
<1>2. ASSUME NEW k \in Nat, k \in S PROVE k + 1 \in S
  <2>1. PICK f : F(f, k)
    BY <1>2
  <2> DEFINE g == [n \in 0 .. k + 1 |-> IF n <= k THEN f[n] ELSE push_step(f[k])]
  <2>2. F(g, k + 1)
    <3>1. ASSUME NEW n \in 0 .. k + 1
          PROVE  g[n] = IF n = 0 THEN c ELSE push_step(g[n - 1])
      BY <2>1
    <3> QED BY <3>1
  <2>3. k + 1 \in Nat
    OBVIOUS
  <2> HIDE DEF F, g
  <2> QED BY <2>2, <2>3
<1> HIDE DEF S
<1>3. \A n \in Nat : n \in S
  BY <1>1, <1>2, SetInduction
<1>4. \E f : F(f, N)
  BY <1>3, Zenon DEF S
<1>5. Pushes(c, N) = CHOOSE f : F(f, N)
  BY Zenon DEF Pushes
<1> HIDE DEF F
<1>6. F(Pushes(c, N), N)
  BY <1>4, <1>5, Zenon
<1> QED BY <1>6 DEF F

\* Some calls, and one more.
LEMMA CallMovesOn ==
  ASSUME NEW L \in Nat, NEW c, NEW s, NEW t, CallInv(c, L), CallInv(s, L), CallInv(t, L),
         CallMoves(c, s, L), CallMoves(s, t, L)
  PROVE  CallMoves(c, t, L)
<1> USE Zenon
<1> DEFINE x == c.r.next_assembling_index
           y == s.r.next_assembling_index
           z == t.r.next_assembling_index
<1>1. x \in Nat /\ y \in Nat /\ z \in Nat
  BY ReassemblerIs DEF CallInv
<1>2. x <= y /\ y <= z
  BY DEF CallMoves
<1>3. x <= z
  <2> HIDE DEF x, y, z
  <2> QED BY <1>1, <1>2, SMT
<1>4. \A b \in Nat : CallKnows(t, b) => CallKnows(c, b)
  BY DEF CallMoves
<1>5. ~ t.r.hung => \A b \in Nat : CallKnows(c, b) => CallKnows(t, b)
  BY DEF CallMoves
<1>6. /\ t.r.output.bytes_read = c.r.output.bytes_read /\ t.r.capacity = c.r.capacity
      /\ c.r.output.input_ended => t.r.output.input_ended
      /\ c.r.hung => t.r.hung
      /\ Calm(c, L) => Calm(t, L)
  BY DEF CallMoves
<1> QED BY <1>3, <1>4, <1>5, <1>6 DEF CallMoves

\* push_substring() keeps the invariant, and forgets nothing.
LEMMA PushKeeps ==
  ASSUME NEW r, NEW L \in Nat, ReassemblerInv(r, L), NEW data, NEW index, NEW ended,
         Piece(Datagram(data, index, ended), L, Limit(r))
  PROVE  LET t == push_substring(r, data, index, ended)
         IN  ReassemblerInv(t, L) /\ Pushed(t, r, Datagram(data, index, ended), L)
<1> USE Zenon
<1> DEFINE d == Datagram(data, index, ended)
           c == [r |-> r, todo |-> <<d>>]
           N == Len(r.storage) + 1
           after == Pushes(c, N)
           t == push_substring(r, data, index, ended)
           Left(s, n) == s.todo # <<>> => Len(s.r.storage) + n <= Len(r.storage)
           S == {n \in Nat : n <= N => /\ CallInv(after[n], L) /\ CallMoves(c, after[n], L)
                                       /\ Left(after[n], n)}
<1>1. r \in ReassemblerRecord /\ Len(r.storage) \in Nat /\ r.next_assembling_index \in Nat /\ Limit(r) \in Nat
  BY ReassemblerIs
<1>2. d \in DatagramRecord
  BY <1>1, PieceIs
<1>3. N \in Nat
  BY <1>1, SMT
<1>4. t = after[N].r
  BY DEF push_substring, Pushes
<1>5. /\ after[0] = c
      /\ \A n \in 1 .. N : after[n] = push_step(after[n - 1])
  BY <1>3, PushesIs
<1>6. Piece(d, L, Limit(r))
  BY SMT
<1> HIDE DEF N, after, d
<1>7. c \in CallRecord /\ c.r = r /\ c.todo = <<d>> /\ c.todo # <<>> /\ c.todo[1] = d
  BY <1>1, <1>2, SMT DEF CallRecord
<1> HIDE DEF c
<1>8. CallInv(c, L)
  BY <1>6, <1>7 DEF CallInv
<1>9. CallMoves(c, c, L)
  <2>1. c.r.next_assembling_index <= c.r.next_assembling_index
    BY <1>1, <1>7, SMT
  <2> QED BY <2>1 DEF CallMoves
<1>10. 0 \in S
  <2>1. Left(c, 0)
    BY <1>1, <1>7, SMT
  <2> HIDE DEF Left
  <2> QED BY <1>5, <1>8, <1>9, <2>1, SMT
<1>11. ASSUME NEW n \in Nat, n \in S PROVE n + 1 \in S
  <2> HIDE DEF Left
  <2> SUFFICES ASSUME n + 1 <= N
               PROVE  /\ CallInv(after[n + 1], L) /\ CallMoves(c, after[n + 1], L)
                      /\ Left(after[n + 1], n + 1)
    BY <1>11, SMT
  <2> USE DEF Left
  <2> DEFINE s == after[n]
             u == after[n + 1]
  <2>1. CallInv(s, L) /\ CallMoves(c, s, L) /\ Left(s, n)
    <3>1. n <= N
      BY <1>3, SMT
    <3> HIDE DEF Left
    <3> QED BY <1>11, <3>1, SMT
  <2>2. u = push_step(s)
    BY <1>3, <1>5, SMT
  <2> HIDE DEF s, u
  <2>3. /\ CallInv(u, L) /\ CallMoves(s, u, L)
        /\ u.todo # <<>> => s.todo # <<>> /\ Len(u.r.storage) = Len(s.r.storage) - 1
    BY <2>1, <2>2, PushStep, SMT
  <2>4. CallMoves(c, u, L)
    BY <1>8, <2>1, <2>3, CallMovesOn, SMT
  <2>5. Left(u, n + 1)
    <3> SUFFICES ASSUME u.todo # <<>> PROVE Len(u.r.storage) + (n + 1) <= Len(r.storage)
      OBVIOUS
    <3>1. Len(s.r.storage) \in Nat
      BY <2>1, ReassemblerIs DEF CallInv
    <3> DEFINE i == Len(s.r.storage)  j == Len(u.r.storage)  k == Len(r.storage)
    <3>2. i \in Nat /\ k \in Nat /\ j = i - 1 /\ i + n <= k
      BY <1>1, <2>1, <2>3, <3>1
    <3> HIDE DEF i, j, k
    <3>3. j + (n + 1) <= k
      BY <3>2, SMT
    <3> QED BY <3>3 DEF j, k
  <2> HIDE DEF Left
  <2> QED BY <2>3, <2>4, <2>5 DEF u
<1> HIDE DEF S
<1>12. N \in S
  BY <1>3, <1>10, <1>11, SetInduction, SMT
<1> DEFINE s == after[N]
<1>13. CallInv(s, L) /\ CallMoves(c, s, L) /\ Left(s, N)
  <2>1. N <= N
    BY <1>3, SMT
  <2> HIDE DEF Left
  <2> QED BY <1>12, <2>1 DEF S
<1> HIDE DEF s
<1>14. s.todo = <<>>
  <2> SUFFICES ASSUME s.todo # <<>> PROVE FALSE
    BY SMT
  <2>1. Len(s.r.storage) \in Nat
    BY <1>13, ReassemblerIs DEF CallInv
  <2>2. Len(s.r.storage) + N <= Len(r.storage)
    BY <1>13
  <2>3. N = Len(r.storage) + 1
    BY DEF N
  <2> DEFINE i == Len(s.r.storage)  k == Len(r.storage)
  <2>4. i \in Nat /\ k \in Nat /\ i + N <= k /\ N = k + 1
    BY <1>1, <2>1, <2>2, <2>3
  <2> HIDE DEF i, k
  <2> QED BY <2>4, SMT
<1>15. t = s.r /\ ReassemblerInv(t, L)
  BY <1>4, <1>13 DEF CallInv, s
<1> HIDE DEF t
<1>16. \A b : CallKnows(c, b) <=> Known(r, b) \/ Holds(d, b)
  BY <1>7 DEF CallKnows
<1>17. \A b : CallKnows(s, b) <=> Known(t, b)
  BY <1>14, <1>15 DEF CallKnows
<1>18. Settled(r, L) /\ Whole(d, L) => Calm(c, L)
  BY <1>7 DEF Settled, Calm
<1>19. Calm(s, L) => Settled(t, L)
  BY <1>14, <1>15 DEF Settled, Calm
<1>20. Pushed(t, r, d, L)
  <2>1. /\ t.output.bytes_read = r.output.bytes_read /\ t.capacity = r.capacity
        /\ r.next_assembling_index <= t.next_assembling_index
        /\ r.output.input_ended => t.output.input_ended
        /\ r.hung => t.hung
    BY <1>7, <1>13, <1>15 DEF CallMoves
  <2>2. \A b \in Nat : Known(t, b) => Known(r, b) \/ Holds(d, b)
    BY <1>13, <1>16, <1>17 DEF CallMoves
  <2>3. ~ t.hung => \A b \in Nat : Known(r, b) \/ Holds(d, b) => Known(t, b)
    BY <1>13, <1>15, <1>16, <1>17 DEF CallMoves
  <2>4. Settled(r, L) /\ Whole(d, L) => Settled(t, L)
    BY <1>13, <1>18, <1>19 DEF CallMoves
  <2> QED BY <2>1, <2>2, <2>3, <2>4 DEF Pushed
<1> QED BY <1>15, <1>20 DEF t, d

-----------------------------------------------------------------------------

\* Parts that share a byte are the same.
LEMMA CutMeets ==
  ASSUME NEW L \in Nat, NEW w \in Nat, NEW D, Cut(D, L), NEW d \in D, NEW p \in D,
         Piece(d, L, w), Piece(p, L, w), d.index < end_of(p), p.index < end_of(d)
  PROVE  d = p
<1> USE Zenon
<1>1. d.index \in Nat /\ end_of(d) \in Nat /\ p.index \in Nat /\ end_of(p) \in Nat
  BY PieceIs
<1>2. d = p \/ end_of(d) <= p.index \/ end_of(p) <= d.index
  BY DEF Cut
<1> DEFINE a == d.index  b == end_of(d)  x == p.index  y == end_of(p)
<1>3. a \in Nat /\ b \in Nat /\ x \in Nat /\ y \in Nat /\ a < y /\ x < b
  BY <1>1
<1> HIDE DEF a, b, x, y
<1>4. ~ (b <= x) /\ ~ (y <= a)
  BY <1>3, SMT
<1> QED BY <1>2, <1>4 DEF a, b, x, y

\* The scan finds a datagram that is stored already, or stores it as it is.
LEMMA CutScan ==
  ASSUME NEW L \in Nat, NEW w \in Nat, NEW q, Storage(q, L, w), NEW d, Piece(d, L, w),
         NEW D, Cut(D, L), Within(q, D), d \in D
  PROVE  LET m == scan(q, d)
         IN  m.storage = q /\ m.dg = d /\ m.result \in {"store", "drop"}
<1> USE Zenon
<1> DEFINE l == Len(q)
           N == (l + 1) * (l + 1)
           after == Scans(q, d, N)
           Plain(m) == ScanInv(m, q, d, L, w) /\ m.storage = q /\ m.dg = d /\ m.result # "hang"
           S == {n \in Nat : n <= N => Plain(after[n])}
<1>1. l \in Nat
  BY SMT DEF Storage
<1>2. N \in Nat
  BY <1>1, SMT
<1>3. scan(q, d) = after[N]
  BY DEF scan, Scans
<1>4. /\ after[0] = [storage |-> q, dg |-> d, i |-> 1, freed |-> 0, result |-> "scanning"]
      /\ \A n \in 1 .. N : after[n] = scan_step(after[n - 1])
  BY <1>2, ScansIs
<1> HIDE DEF N, after, l
<1>5. 0 \in S
  <2> DEFINE m == [storage |-> q, dg |-> d, i |-> 1, freed |-> 0, result |-> "scanning"]
  <2>1. ScanInv(m, q, d, L, w)
    BY ScanBegins
  <2>2. m.storage = q /\ m.dg = d /\ m.result # "hang"
    BY SMT
  <2>3. after[0] = m
    BY <1>4
  <2> HIDE DEF m
  <2>4. Plain(after[0])
    BY <2>1, <2>2, <2>3
  <2> HIDE DEF Plain
  <2> QED BY <2>4, SMT
<1>6. ASSUME NEW m, Plain(m) PROVE Plain(scan_step(m))
  <2> DEFINE t == scan_step(m)
             p == q[m.i]
  <2>1. ScanInv(m, q, d, L, w) /\ m.storage = q /\ m.dg = d /\ m.result # "hang"
    BY <1>6
  <2>2. m \in ScanRecord /\ m.i \in 1 .. l + 1
    BY <2>1 DEF ScanInv, l
  <2>3. ScanInv(t, q, d, L, w)
    BY <2>1, ScanStep, SMT
  <2>4. ASSUME NEW res \in {"store", "drop"}, t = Ended(m, res)
        PROVE  t.storage = q /\ t.dg = d /\ t.result # "hang"
    <3> HIDE DEF t
    <3> QED BY <2>1, <2>2, <2>4, SMT DEF Ended, ScanRecord
  <2>5. CASE m.result # "scanning"
    <3>1. t = m
      BY <2>5 DEF scan_step
    <3> HIDE DEF t
    <3> QED BY <2>1, <3>1 DEF t
  <2>6. CASE m.result = "scanning" /\ m.i = l + 1
    <3>1. m.i > Len(m.storage)
      BY <1>1, <2>1, <2>6, SMT DEF l
    <3>2. t = Ended(m, "store")
      BY <2>6, <3>1, SMT DEF scan_step, Ended
    <3> HIDE DEF t
    <3> QED BY <2>3, <2>4, <3>2 DEF t
  <2>7. CASE m.result = "scanning" /\ m.i \in 1 .. l
    <3>1. Piece(p, L, w) /\ p \in D
      BY <2>7 DEF Storage, Within, l
    <3>2. /\ d.index \in Nat /\ end_of(d) \in Nat /\ p.index \in Nat /\ end_of(p) \in Nat
      BY <3>1, PieceIs
    <3>3. (d.index < end_of(d) \/ d.index = L) /\ (p.index < end_of(p) \/ p.index = L)
      BY <3>1 DEF Cut, Whole
    <3>3a. end_of(d) <= L /\ end_of(p) <= L /\ d.index <= end_of(d) /\ p.index <= end_of(p)
      BY <3>1, PieceIs DEF Cut
    <3>4. d.index < end_of(p) /\ p.index < end_of(d) => same(d, p)
      <4> SUFFICES ASSUME d.index < end_of(p), p.index < end_of(d) PROVE same(d, p)
        BY SMT
      <4>1. d = p
        BY <3>1, CutMeets, SMT
      <4> QED BY <4>1 DEF same
    <3> DEFINE a == d.index  b == end_of(d)  x == p.index  y == end_of(p)
    <3>5. /\ a \in Nat /\ b \in Nat /\ x \in Nat /\ y \in Nat /\ a <= b /\ x <= y /\ b <= L /\ y <= L
          /\ a < b \/ a = L
          /\ x < y \/ x = L
          /\ a < y /\ x < b => same(d, p)
      BY <3>2, <3>3, <3>3a, <3>4
    <3>5a. same(d, p) <=> a = x /\ b = y
      BY DEF same
    <3> HIDE DEF a, b, x, y
    <3>6. ~ (a <= x /\ y <= b /\ ~ same(d, p) /\ (a = x \/ x < b))
      BY <3>5, <3>5a, SMT
    <3>7. ~ (a = x /\ b < y)
      BY <3>5, <3>5a, SMT
    <3>8. ~ (a < x /\ x < b /\ b < y)
      BY <3>5, <3>5a, SMT
    <3>9. \/ t = Ended(m, "drop")
          \/ t = Erased(m, d) /\ a <= x /\ y <= b /\ ~ same(d, p) /\ (a = x \/ x < b)
          \/ t = Ended(m, "hang") /\ a = x /\ b < y
          \/ t = Ended(m, "store")
          \/ t = Erased(m, overlap_merger(d, p)) /\ a < x /\ x < b /\ b < y
          \/ t = [m EXCEPT !.i = @ + 1]
      <4>1. m.i \in 1 .. Len(m.storage) /\ Piece(m.dg, L, w) /\ Piece(m.storage[m.i], L, w)
        BY <2>1, <2>7, <3>1 DEF l
      <4> HIDE DEF t
      <4>2. LET r == m.storage[m.i]
         IN  \/ t = Ended(m, "drop")
             \/ t = Erased(m, m.dg) /\ m.dg.index <= r.index /\ end_of(r) <= end_of(m.dg)
                /\ ~ same(m.dg, r) /\ (m.dg.index = r.index \/ r.index < end_of(m.dg))
             \/ t = Ended(m, "hang") /\ m.dg.index = r.index /\ end_of(m.dg) < end_of(r)
             \/ t = Ended(m, "store")
             \/ t = Erased(m, overlap_merger(m.dg, r))
                /\ m.dg.index < r.index /\ r.index < end_of(m.dg) /\ end_of(m.dg) < end_of(r)
             \/ t = [m EXCEPT !.i = @ + 1]
        BY <2>2, <2>7, <4>1, ScanCases DEF t
      <4> QED BY <2>1, <4>2 DEF a, b, x, y
    <3>10. \/ t = Ended(m, "drop")
           \/ t = Ended(m, "store")
           \/ t = [m EXCEPT !.i = @ + 1]
      BY <3>6, <3>7, <3>8, <3>9
    <3>11. CASE t = [m EXCEPT !.i = @ + 1]
      <4> HIDE DEF t
      <4>1. t.storage = q /\ t.dg = d /\ t.result # "hang"
        BY <2>1, <2>2, <3>11, SMT DEF ScanRecord
      <4> QED BY <2>3, <4>1 DEF t
    <3> HIDE DEF t
    <3>12. t.storage = q /\ t.dg = d /\ t.result # "hang"
      BY <2>4, <3>10, <3>11, SMT DEF t
    <3> QED BY <2>3, <3>12 DEF t
  <2>8. m.i \in 1 .. l \/ m.i = l + 1
    BY <1>1, <2>2, SMT
  <2> QED BY <2>5, <2>6, <2>7, <2>8
<1> HIDE DEF Plain
<1>7. ASSUME NEW n \in Nat, n \in S PROVE n + 1 \in S
  <2> SUFFICES ASSUME n + 1 <= N PROVE Plain(after[n + 1])
    BY <1>7, SMT
  <2>1. n <= N
    BY <1>2, SMT
  <2>2. Plain(after[n])
    BY <1>7, <2>1, SMT
  <2>3. after[n + 1] = scan_step(after[n])
    BY <1>2, <1>4, SMT
  <2> QED BY <1>6, <2>2, <2>3
<1> HIDE DEF S
<1>8. N \in S
  BY <1>2, <1>5, <1>7, SetInduction, SMT
<1>9. Plain(after[N])
  <2>1. N <= N
    BY <1>2, SMT
  <2> QED BY <1>8, <2>1 DEF S
<1> DEFINE m == scan(q, d)
<1>10. Plain(m) /\ m.result # "scanning"
  BY <1>3, <1>9, ScanEnds
<1> HIDE DEF m
<1>11. m.storage = q /\ m.dg = d /\ m \in ScanRecord /\ m.result # "hang" /\ m.result # "scanning"
  BY <1>10 DEF Plain, ScanInv
<1>12. m.result \in {"store", "drop"}
  BY <1>11, SMT DEF ScanRecord
<1> QED BY <1>11, <1>12 DEF m

\* missing_middle_handler() returns, and keeps the parts as they are.
LEMMA CutMiddle ==
  ASSUME NEW r, NEW L \in Nat, ReassemblerInv(r, L), NEW d, Piece(d, L, Limit(r)),
         NEW D, Cut(D, L), Within(r.storage, D), d \in D
  PROVE  LET t == missing_middle_handler(r, d)
         IN  Within(t.storage, D) /\ t.hung = r.hung
<1> DEFINE t == missing_middle_handler(r, d)
           m == scan(r.storage, d)
           w == Limit(r)
           q == r.storage
           stored == sorted_insert(m.storage, m.dg)
           u == r.unassembled_bytes - m.freed
           kept == [r EXCEPT !.storage = m.storage, !.unassembled_bytes = @ - m.freed]
<1>1. /\ r \in ReassemblerRecord /\ q \in Seq(DatagramRecord) /\ Storage(q, L, w) /\ w \in Nat
  BY ReassemblerIs, Zenon
<1>2. m.storage = q /\ m.dg = d /\ m.result \in {"store", "drop"}
  BY <1>1, CutScan
<1>3. t = CASE m.result = "drop" -> kept
            [] m.result = "hang" -> [kept EXCEPT !.hung = TRUE]
            [] m.result = "store" -> [kept EXCEPT !.storage = stored,
                                                  !.unassembled_bytes = @ + Len(m.dg.data),
                                                  !.smallest_temporty_index = stored[1].index]
  BY Zenon DEF missing_middle_handler
<1>4. stored = sorted_insert(q, d)
  BY <1>2, Zenon
<1>5. Storage(stored, L, w) /\ Inserted(stored, q, d)
  BY <1>1, <1>4, InsertIs, Zenon
<1>6. kept.hung = r.hung /\ kept.storage = q
  BY <1>1, <1>2 DEF ReassemblerRecord
<1> HIDE DEF m, stored, t, kept
<1>7. CASE m.result = "drop"
  <2>1. t = kept
    BY <1>3, <1>7
  <2> QED BY <1>6, <2>1, Zenon DEF t
<1>8. CASE m.result = "store"
  <2> DEFINE big == [kept EXCEPT !.storage = stored,
                                 !.unassembled_bytes = @ + Len(m.dg.data),
                                 !.smallest_temporty_index = stored[1].index]
  <2>1. t = big
    BY <1>3, <1>8
  <2>2. big.storage = stored /\ big.hung = r.hung
    BY <1>1, <1>6 DEF kept, ReassemblerRecord
  <2> HIDE DEF big
  <2>3. Within(stored, D)
    BY <1>5, Zenon DEF Inserted, Within
  <2> QED BY <2>1, <2>2, <2>3, Zenon DEF t
<1> QED BY <1>2, <1>7, <1>8

\* Writing one more part g of the stream.
LEMMA ReachedOn ==
  ASSUME NEW L \in Nat, NEW D, Cut(D, L), NEW g \in D, NEW x \in Nat, NEW done, NEW over,
         Reached(x, done, D, L), g.index <= x, over <=> done \/ g.eof
  PROVE  Reached(Larger(x, end_of(g)), over, D, L)
<1> USE Zenon
<1> DEFINE y == Larger(x, end_of(g))
<1>1. ASSUME NEW d \in D PROVE /\ d.index \in Nat /\ end_of(d) \in Nat /\ d.index <= end_of(d)
                               /\ end_of(d) <= L /\ (d.eof => end_of(d) = L)
  <2>1. d \in DatagramRecord /\ end_of(d) <= L /\ (d.eof => end_of(d) = L)
    BY <1>1 DEF Cut
  <2>2. d.index \in Nat /\ Len(d.data) \in Nat
    BY <2>1, SMT DEF DatagramRecord
  <2>3. end_of(d) \in Nat /\ d.index <= end_of(d)
    BY <2>2, SMT DEF end_of
  <2> QED BY <2>1, <2>2, <2>3
<1> DEFINE u == g.index  v == end_of(g)
<1>2. u \in Nat /\ v \in Nat /\ u <= v /\ v <= L /\ u <= x /\ (g.eof => v = L)
  BY <1>1
<1>3. y \in Nat /\ x <= y /\ v <= y /\ (y = x \/ y = v)
  <2>1. y = IF x <= v THEN v ELSE x
    BY DEF Larger
  <2> HIDE DEF u, v, y
  <2> QED BY <1>2, <2>1, SMT
<1> HIDE DEF y
<1>4. ASSUME NEW d \in D, d.index < y PROVE end_of(d) <= y
  <2> DEFINE a == d.index  b == end_of(d)
  <2>1. a \in Nat /\ b \in Nat /\ a < y /\ (a < x => b <= x) /\ (b = v \/ b <= u \/ v <= a)
    BY <1>1, <1>4 DEF Reached, Cut
  <2> HIDE DEF a, b, u, v
  <2>2. b <= y
    BY <1>2, <1>3, <2>1, SMT
  <2> QED BY <2>2, SMT DEF b
<1>5. ASSUME NEW d \in D, d.eof, d.index < end_of(d), end_of(d) <= y PROVE over
  <2> DEFINE a == d.index  b == end_of(d)
  <2>1. a \in Nat /\ b \in Nat /\ a < b /\ b = L /\ (d = g \/ b <= u \/ v <= a) /\ b <= y
    BY <1>1, <1>5 DEF Cut
  <2>2. b <= x => done
    BY <1>5 DEF Reached
  <2> HIDE DEF a, b, u, v
  <2>3. b <= x \/ d = g
    BY <1>2, <1>3, <2>1, SMT
  <2> QED BY <1>5, <2>2, <2>3
<1>6. Marked(D, L) /\ L > 0 /\ y = L => over
  BY <1>3 DEF Marked, Reached
<1>7. over => \E d \in D : d.eof
  BY DEF Reached
<1> QED BY <1>4, <1>5, <1>6, <1>7 DEF Reached, y

\* One call keeps it.
LEMMA CutStep ==
  ASSUME NEW L \in Nat, NEW c, CallInv(c, L), NEW D, Cut(D, L), CallCut(c, D, L)
  PROVE  CallCut(push_step(c), D, L)
<1> USE Zenon
<1> DEFINE t == push_step(c)
           r == c.r
           g == c.todo[1]
           x == r.next_assembling_index
           a == assemble(r, g)
           w == Limit(r)
           q == r.storage
<1>1. c \in CallRecord /\ ReassemblerInv(r, L)
  BY DEF CallInv
<1>2. r \in ReassemblerRecord /\ x \in Nat /\ w \in Nat
  BY <1>1, ReassemblerIs
<1>3. CASE c.todo = <<>>
  <2>1. t = c
    BY <1>3, SMT DEF push_step
  <2> QED BY <2>1
<1>4. CASE c.todo # <<>>
  <2>1. c.todo = <<g>> /\ Piece(g, L, w)
    BY <1>4 DEF CallInv
  <2>2. ~ r.hung /\ Within(q, D) /\ g \in D /\ Reached(x, r.output.input_ended, D, L)
    BY <1>4 DEF CallCut
  <2>3. ASSUME NEW s, s \in ReassemblerRecord, t = [r |-> s, todo |-> <<>>],
               ~ s.hung, Within(s.storage, D),
               Reached(s.next_assembling_index, s.output.input_ended, D, L)
        PROVE  CallCut(t, D, L)
    <3> HIDE DEF t
    <3>1. t.r = s /\ t.todo = <<>>
      BY <2>3, SMT
    <3> QED BY <2>3, <3>1 DEF CallCut
  <2>4. CASE t = [r |-> r, todo |-> <<>>]
    <3> HIDE DEF t
    <3>1. CallCut(t, D, L)
      BY <1>2, <2>2, <2>3, <2>4, SMT
    <3> QED BY <3>1, SMT DEF t
  <2>5. CASE t = [r |-> missing_middle_handler(r, g), todo |-> <<>>]
    <3> DEFINE h == missing_middle_handler(r, g)
    <3>1. ReassemblerInv(h, L) /\ h.output = r.output /\ h.next_assembling_index = x
      <4>1. MiddleStored(h, r, g, L)
        BY <1>1, <2>1, MiddleKeeps
      <4> QED BY <4>1 DEF MiddleStored
    <3>2. Within(h.storage, D) /\ h.hung = r.hung
      BY <1>1, <2>1, <2>2, CutMiddle, SMT
    <3> HIDE DEF t, h
    <3>3. h \in ReassemblerRecord /\ t = [r |-> h, todo |-> <<>>]
      BY <2>5, <3>1, ReassemblerIs DEF h
    <3>4. CallCut(t, D, L)
      BY <2>2, <2>3, <3>1, <3>2, <3>3, SMT
    <3> QED BY <3>4, SMT DEF t
  <2>6. ASSUME g.index <= x
        PROVE  /\ ReassemblerInv(a, L) /\ a.storage = q /\ a.hung = r.hung
               /\ Reached(a.next_assembling_index, a.output.input_ended, D, L)
    <3>1. ReassemblerInv(a, L) /\ Assembled(a, r, g)
      BY <1>1, <2>1, <2>6, AssembleKeeps, SMT
    <3> HIDE DEF a
    <3>2. /\ a.storage = q /\ a.hung = r.hung
          /\ a.next_assembling_index = Larger(x, end_of(g))
          /\ r.output.input_ended \/ g.eof <=> a.output.input_ended
      BY <3>1 DEF Assembled, SameList
    <3>3. Reached(Larger(x, end_of(g)), a.output.input_ended, D, L)
      BY <1>2, <2>2, <2>6, <3>2, ReachedOn, SMT
    <3> QED BY <3>1, <3>2, <3>3
  <2>7. CASE t = [r |-> pop_stored(a), todo |-> <<a.storage[1]>>] /\ g.index <= x /\ a.storage # <<>>
    <3> DEFINE p == pop_stored(a)
               d == a.storage[1]
    <3>1. /\ ReassemblerInv(p, L) /\ Popped(p, a, d) /\ 1 \in 1 .. Len(a.storage)
      BY <2>6, <2>7, PopKeeps
    <3> HIDE DEF t, p, a
    <3>2. t = [r |-> p, todo |-> <<d>>]
      BY <2>7 DEF p
    <3> HIDE DEF d
    <3>3. t.r = p /\ t.todo[1] = d
      BY <3>2, SMT
    <3>4. d \in D
      BY <2>2, <2>6, <2>7, <3>1 DEF Within, d
    <3>5. p.output = a.output /\ p.hung = a.hung /\ p.next_assembling_index = a.next_assembling_index
          /\ Among(p.storage, a.storage)
      BY <3>1 DEF Popped
    <3>6. Within(p.storage, D)
      <4>1. Within(a.storage, D)
        BY <2>2, <2>6, <2>7
      <4> QED BY <3>5, <4>1 DEF Within, Among
    <3>7. ~ p.hung /\ Reached(p.next_assembling_index, p.output.input_ended, D, L)
      BY <2>2, <2>6, <2>7, <3>5
    <3>8. CallCut(t, D, L)
      BY <3>3, <3>4, <3>6, <3>7 DEF CallCut
    <3> QED BY <3>8, SMT DEF t
  <2>8. CASE t = [r |-> a, todo |-> <<>>] /\ g.index <= x
    <3> HIDE DEF t, a
    <3>1. ReassemblerInv(a, L) /\ Within(a.storage, D) /\ ~ a.hung
          /\ Reached(a.next_assembling_index, a.output.input_ended, D, L)
      BY <2>2, <2>6, <2>8
    <3>2. a \in ReassemblerRecord
      BY <3>1, ReassemblerIs
    <3>3. CallCut(t, D, L)
      BY <2>3, <2>8, <3>1, <3>2, SMT
    <3> QED BY <3>3, SMT DEF t
  <2> QED BY <1>1, <2>1, <2>4, <2>5, <2>7, <2>8, PushCases
<1> QED BY <1>3, <1>4, SMT

\* push_substring() keeps it.
LEMMA CutPush ==
  ASSUME NEW r, NEW L \in Nat, ReassemblerInv(r, L), NEW data, NEW index, NEW ended,
         Piece(Datagram(data, index, ended), L, Limit(r)),
         NEW D, Cut(D, L), ReassemblerCut(r, D, L), Datagram(data, index, ended) \in D
  PROVE  ReassemblerCut(push_substring(r, data, index, ended), D, L)
<1> DEFINE d == Datagram(data, index, ended)
           c == [r |-> r, todo |-> <<d>>]
           N == Len(r.storage) + 1
           after == Pushes(c, N)
           t == push_substring(r, data, index, ended)
           S == {n \in Nat : n <= N => CallInv(after[n], L) /\ CallCut(after[n], D, L)}
<1>1. r \in ReassemblerRecord /\ Len(r.storage) \in Nat /\ Limit(r) \in Nat
  BY ReassemblerIs, Zenon
<1>2. d \in DatagramRecord
  BY <1>1, PieceIs, Zenon
<1>3. N \in Nat
  BY <1>1
<1>4. t = after[N].r
  BY Zenon DEF push_substring, Pushes
<1>5. /\ after[0] = c
      /\ \A n \in 1 .. N : after[n] = push_step(after[n - 1])
  BY <1>3, PushesIs, Zenon
<1>6. Piece(d, L, Limit(r)) /\ d \in D
  OBVIOUS
<1> HIDE DEF N, after, d
<1>7. c \in CallRecord /\ c.r = r /\ c.todo = <<d>> /\ c.todo # <<>> /\ c.todo[1] = d
  BY <1>1, <1>2 DEF CallRecord
<1> HIDE DEF c
<1>8. CallInv(c, L) /\ CallCut(c, D, L)
  BY <1>6, <1>7, Zenon DEF CallInv, CallCut, ReassemblerCut
<1>9. 0 \in S
  BY <1>5, <1>8
<1>10. ASSUME NEW n \in Nat, n \in S PROVE n + 1 \in S
  <2> SUFFICES ASSUME n + 1 <= N
               PROVE  CallInv(after[n + 1], L) /\ CallCut(after[n + 1], D, L)
    BY <1>10
  <2> DEFINE s == after[n]
             u == after[n + 1]
  <2>1. CallInv(s, L) /\ CallCut(s, D, L)
    <3>1. n <= N
      BY <1>3
    <3> QED BY <1>10, <3>1
  <2>2. u = push_step(s)
    BY <1>3, <1>5
  <2> HIDE DEF s, u
  <2>3. CallInv(u, L)
    BY <2>1, <2>2, PushStep
  <2>4. CallCut(u, D, L)
    BY <2>1, <2>2, CutStep, Zenon
  <2> QED BY <2>3, <2>4, Zenon DEF u
<1> HIDE DEF S
<1>11. N \in S
  BY <1>3, <1>9, <1>10, SetInduction
<1>12. CallCut(after[N], D, L)
  <2>1. N <= N
    BY <1>3
  <2> QED BY <1>11, <2>1, Zenon DEF S
<1> QED BY <1>4, <1>12, Zenon DEF CallCut, ReassemblerCut

-----------------------------------------------------------------------------

\* A reassembler whose output is full changes nothing.
LEMMA PushFull ==
  ASSUME NEW r, Len(r.storage) \in Nat, NEW data, NEW index, NEW ended,
         remaining_capacity(r.output) = 0
  PROVE  push_substring(r, data, index, ended) = r
<1> DEFINE c == [r |-> r, todo |-> <<Datagram(data, index, ended)>>]
           N == Len(r.storage) + 1
           after == Pushes(c, N)
<1>1. N \in Nat
  OBVIOUS
<1>2. push_substring(r, data, index, ended) = after[N].r
  BY Zenon DEF push_substring, Pushes
<1>3. /\ after[0] = c
      /\ \A n \in 1 .. N : after[n] = push_step(after[n - 1])
  <2> HIDE DEF c, N
  <2> QED BY <1>1, PushesIs
<1> DEFINE T == {n \in Nat : n <= N => after[n] = c \/ after[n] = [c EXCEPT !.todo = <<>>]}
<1> HIDE DEF N, after
<1>4. 0 \in T
  BY <1>3
<1>5. ASSUME NEW n \in Nat, n \in T PROVE n + 1 \in T
  <2> SUFFICES ASSUME n + 1 <= N
               PROVE  after[n + 1] = c \/ after[n + 1] = [c EXCEPT !.todo = <<>>]
    BY <1>5
  <2>1. after[n] = c \/ after[n] = [c EXCEPT !.todo = <<>>]
    BY <1>1, <1>5
  <2>2. after[n + 1] = push_step(after[n])
    BY <1>1, <1>3
  <2>3. CASE after[n] = c
    <3>1. c.r = r /\ c.todo # <<>>
      OBVIOUS
    <3> HIDE DEF c
    <3>2. remaining_capacity(c.r.output) = 0 /\ ~ (remaining_capacity(c.r.output) > 0)
      BY <3>1
    <3>3. push_step(c) = [c EXCEPT !.todo = <<>>]
      BY <3>1, <3>2, Zenon DEF push_step
    <3> QED BY <2>2, <2>3, <3>3, Zenon
  <2>4. CASE after[n] = [c EXCEPT !.todo = <<>>]
    <3>1. after[n].todo = <<>>
      BY <2>4, Zenon
    <3>2. push_step(after[n]) = after[n]
      BY <3>1, Zenon DEF push_step
    <3> QED BY <2>2, <2>4, <3>2, Zenon
  <2> QED BY <2>1, <2>3, <2>4, Zenon
<1> HIDE DEF T
<1>6. N \in T
  BY <1>1, <1>4, <1>5, SetInduction
<1>7. after[N] = c \/ after[N] = [c EXCEPT !.todo = <<>>]
  BY <1>1, <1>6 DEF T
<1>8. c.r = r /\ [c EXCEPT !.todo = <<>>].r = r
  BY Zenon
<1> QED BY <1>2, <1>7, <1>8, Zenon

\* While there is room, a substring that does not begin beyond the output is written.
LEMMA StepWrites ==
  ASSUME NEW c \in CallRecord, NEW L \in Nat, ReassemblerInv(c.r, L), NEW g, c.todo = <<g>>,
         Piece(g, L, Limit(c.r)), g.index <= c.r.next_assembling_index,
         remaining_capacity(c.r.output) > 0
  PROVE  LET a == assemble(c.r, g)
         IN  push_step(c) = IF gap_fixed(a, g) THEN [r |-> pop_stored(a), todo |-> <<a.storage[1]>>]
                                               ELSE [r |-> a, todo |-> <<>>]
<1> DEFINE r == c.r
           x == r.next_assembling_index
           a == assemble(r, g)
           left == remaining_capacity(r.output)
           first == first_unassemble_byte_index(r)
<1>1. /\ x \in Nat /\ r.capacity \in Nat /\ r.output.bytes_read \in Nat /\ Limit(r) \in Nat
      /\ Storage(r.storage, L, Limit(r)) /\ Len(r.storage) \in Nat /\ r.storage \in Seq(DatagramRecord)
  BY ReassemblerIs, Zenon
<1>2. left \in Nat /\ left <= r.capacity
  <2>1. StreamInv(r.output) /\ r.output.capacity = r.capacity
    BY Zenon DEF ReassemblerInv
  <2> DEFINE rd == r.output.bytes_read  wr == r.output.bytes_written  cap == r.capacity
  <2>2. left \in Nat /\ left = cap - (wr - rd) /\ rd \in Nat /\ wr \in Nat /\ cap \in Nat /\ rd <= wr
    BY <1>1, <2>1, ReassemblerIs, StreamSize, Zenon DEF StreamInv
  <2> HIDE DEF left, rd, wr, cap
  <2>3. left \in Nat /\ left <= cap
    BY <2>2
  <2> QED BY <2>3 DEF cap
<1>3. first \in Nat
  <2>1. CASE r.storage = <<>>
    BY <2>1 DEF first_unassemble_byte_index
  <2>2. CASE r.storage # <<>>
    <3>1. 1 \in 1 .. Len(r.storage)
      BY <1>1, <2>2
    <3>2. r.storage[1].index \in Nat
      BY <1>1, <3>1, PieceIs, Zenon DEF Storage
    <3> QED BY <2>2, <3>2, Zenon DEF first_unassemble_byte_index
  <2> QED BY <2>1, <2>2
<1>4. g.index \in Nat
  BY <1>1, PieceIs, Zenon
<1>5. indicator(r) \in Nat /\ g.index < indicator(r)
  <2>1. indicator(r) = r.capacity + (IF first <= x THEN x ELSE first)
    BY Zenon DEF indicator, Larger
  <2> DEFINE cap == r.capacity  i == g.index  w == indicator(r)
  <2>2. cap \in Nat /\ cap > 0 /\ i \in Nat /\ i <= x /\ x \in Nat /\ first \in Nat
        /\ w = cap + (IF first <= x THEN x ELSE first)
    <3>1. cap > 0
      <4> HIDE DEF cap
      <4>1. left > 0 /\ left <= cap /\ cap \in Nat
        BY <1>1, <1>2, Zenon DEF cap
      <4> HIDE DEF left
      <4> QED BY <1>2, <4>1
    <3> QED BY <1>1, <1>3, <1>4, <2>1, <3>1, Zenon
  <2> HIDE DEF cap, i, w, first, x
  <2>3. w \in Nat /\ i < w
    BY <2>2
  <2> QED BY <2>3 DEF i, w
<1>6. left # 0 /\ ~ (g.index >= indicator(r)) /\ ~ (g.index > x)
  <2> DEFINE i == g.index  w == indicator(r)
  <2>1. left \in Nat /\ left > 0 /\ i \in Nat /\ w \in Nat /\ i < w /\ x \in Nat /\ i <= x
    BY <1>1, <1>2, <1>4, <1>5, Zenon
  <2> HIDE DEF left, i, w, x
  <2>2. left # 0 /\ ~ (i >= w) /\ ~ (i > x)
    BY <2>1
  <2> QED BY <2>2 DEF i, w
<1>7. c.todo # <<>> /\ c.todo[1] = g
  OBVIOUS
<1>8. push_step(c) = IF g.index > x THEN [r |-> missing_middle_handler(r, g), todo |-> <<>>]
                     ELSE IF gap_fixed(a, g) THEN [r |-> pop_stored(a), todo |-> <<a.storage[1]>>]
                     ELSE [r |-> a, todo |-> <<>>]
  BY <1>5, <1>6, <1>7, Zenon DEF push_step
<1> QED BY <1>6, <1>8, Zenon

\* push_substring() writes such a substring, and ends the output with the last one; an
\* empty one changes nothing else.
LEMMA PushWrites ==
  ASSUME NEW r, NEW L \in Nat, ReassemblerInv(r, L), NEW data, NEW index, NEW ended,
         Piece(Datagram(data, index, ended), L, Limit(r)),
         index <= r.next_assembling_index, remaining_capacity(r.output) > 0
  PROVE  Written(push_substring(r, data, index, ended), r, Datagram(data, index, ended))
<1> USE Zenon
<1> DEFINE d == Datagram(data, index, ended)
           c == [r |-> r, todo |-> <<d>>]
           N == Len(r.storage) + 1
           after == Pushes(c, N)
           t == push_substring(r, data, index, ended)
           a == assemble(r, d)
           e == end_of(d)
           Good(s) == /\ e <= s.r.next_assembling_index
                      /\ d.eof => s.r.output.input_ended
                      /\ d.data = <<>> => s.todo = <<>> /\ s.r = a
           S == {n \in Nat : n + 1 <= N => CallInv(after[n + 1], L) /\ Good(after[n + 1])}
<1>1. r \in ReassemblerRecord /\ Len(r.storage) \in Nat /\ Limit(r) \in Nat
  BY ReassemblerIs
<1>2. d \in DatagramRecord /\ d.index = index /\ e \in Nat
  <2>1. d \in DatagramRecord /\ e \in Nat
    BY <1>1, PieceIs
  <2>2. d.index = index
    BY SMT DEF Datagram
  <2> QED BY <2>1, <2>2
<1>3. N \in Nat /\ 1 \in 1 .. N /\ 0 + 1 = 1 /\ 1 - 1 = 0
  BY <1>1, SMT
<1>4. t = after[N].r
  BY DEF push_substring, Pushes
<1>5. /\ after[0] = c
      /\ \A n \in 1 .. N : after[n] = push_step(after[n - 1])
  <2> HIDE DEF c, N
  <2> QED BY <1>3, PushesIs, SMT
<1>6. Piece(d, L, Limit(r)) /\ d.index <= r.next_assembling_index
  BY <1>2
<1> HIDE DEF N, after, d
<1>7. c \in CallRecord /\ c.r = r /\ c.todo = <<d>> /\ c.todo # <<>> /\ c.todo[1] = d
  BY <1>1, <1>2, SMT DEF CallRecord
<1> HIDE DEF c
<1>8. CallInv(c, L)
  BY <1>6, <1>7 DEF CallInv
<1>9. ReassemblerInv(a, L) /\ Assembled(a, r, d)
  BY <1>6, AssembleKeeps, SMT
<1>10. after[1] = push_step(c)
  BY <1>3, <1>5
<1>11. after[1] = IF gap_fixed(a, d) THEN [r |-> pop_stored(a), todo |-> <<a.storage[1]>>]
                                     ELSE [r |-> a, todo |-> <<>>]
  <2>1. c \in CallRecord /\ ReassemblerInv(c.r, L) /\ c.todo = <<d>> /\ Piece(d, L, Limit(c.r))
        /\ d.index <= c.r.next_assembling_index /\ remaining_capacity(c.r.output) > 0
    BY <1>6, <1>7
  <2>2. push_step(c) = IF gap_fixed(assemble(c.r, d), d)
                       THEN [r |-> pop_stored(assemble(c.r, d)), todo |-> <<assemble(c.r, d).storage[1]>>]
                       ELSE [r |-> assemble(c.r, d), todo |-> <<>>]
    BY <2>1, StepWrites, SMT
  <2> QED BY <1>7, <1>10, <2>2
<1>12. CallInv(after[1], L)
  BY <1>8, <1>10, PushStep, SMT
<1>13. e <= a.next_assembling_index /\ (d.eof => a.output.input_ended)
  <2> HIDE DEF a, e
  <2>1. a.next_assembling_index = Larger(r.next_assembling_index, e) /\ (d.eof => a.output.input_ended)
    BY <1>9 DEF Assembled, e
  <2>2. r.next_assembling_index \in Nat
    BY ReassemblerIs
  <2> QED BY <1>2, <2>1, <2>2, SMT DEF Larger
<1> HIDE DEF a, e
<1>14. Good(after[1])
  <2>1. CASE ~ gap_fixed(a, d)
    <3>1. after[1] = [r |-> a, todo |-> <<>>]
      BY <1>11, <2>1
    <3>2. after[1].r = a /\ after[1].todo = <<>>
      BY <3>1, SMT
    <3> QED BY <1>13, <3>2
  <2>2. CASE gap_fixed(a, d)
    <3>1. d.data # <<>> /\ a.storage # <<>>
      BY <2>2 DEF gap_fixed
    <3> DEFINE p == pop_stored(a)
    <3>2. Popped(p, a, a.storage[1])
      BY <1>9, <3>1, PopKeeps
    <3>3. after[1] = [r |-> p, todo |-> <<a.storage[1]>>]
      BY <1>11, <2>2
    <3> HIDE DEF p
    <3>4. p.output = a.output /\ p.next_assembling_index = a.next_assembling_index
      BY <3>2 DEF Popped
    <3>5. after[1].r = p
      BY <3>3, SMT
    <3> QED BY <1>13, <3>1, <3>4, <3>5
  <2> QED BY <2>1, <2>2, SMT
<1>15. 0 \in S
  BY <1>3, <1>12, <1>14
<1>16. ASSUME NEW n \in Nat, n \in S PROVE n + 1 \in S
  <2> DEFINE s == after[n + 1]
             u == after[(n + 1) + 1]
  <2> SUFFICES ASSUME (n + 1) + 1 <= N PROVE CallInv(u, L) /\ Good(u)
    BY <1>16, SMT
  <2>1. CallInv(s, L) /\ Good(s)
    <3>1. n + 1 <= N
      BY <1>3, SMT
    <3> HIDE DEF Good
    <3> QED BY <1>16, <3>1, SMT
  <2>2. u = push_step(s)
    BY <1>3, <1>5, SMT
  <2> HIDE DEF s, u
  <2>3. CallInv(u, L) /\ CallMoves(s, u, L)
    BY <2>1, <2>2, PushStep, SMT
  <2>4. CASE d.data = <<>>
    <3>1. s.todo = <<>>
      BY <2>1, <2>4
    <3>2. u = s
      BY <2>2, <3>1 DEF push_step
    <3> QED BY <2>1, <3>2
  <2>5. CASE d.data # <<>>
    <3> DEFINE i == s.r.next_assembling_index  j == u.r.next_assembling_index
    <3>1. i \in Nat /\ j \in Nat /\ e <= i /\ i <= j
      BY <2>1, <2>3, ReassemblerIs DEF CallInv, CallMoves
    <3> HIDE DEF i, j
    <3>2. e <= j
      BY <1>2, <3>1, SMT
    <3>3. d.eof => u.r.output.input_ended
      BY <2>1, <2>3 DEF CallMoves
    <3> QED BY <2>3, <2>5, <3>2, <3>3 DEF j
  <2> QED BY <2>4, <2>5, SMT
<1> HIDE DEF S
<1>17. N - 1 \in S
  <2>1. N - 1 \in Nat
    BY <1>3, SMT
  <2> QED BY <1>15, <1>16, <2>1, SetInduction, SMT
<1>18. Good(after[N])
  <2>1. (N - 1) + 1 = N /\ (N - 1) + 1 <= N
    BY <1>3, SMT
  <2> HIDE DEF Good
  <2>2. Good(after[(N - 1) + 1])
    BY <1>17, <2>1 DEF S
  <2> QED BY <2>1, <2>2
<1> QED BY <1>4, <1>9, <1>18 DEF Written, d, e

\* The byte after the output is not known, unless the output is the whole stream.
LEMMA NextIsUnknown ==
  ASSUME NEW r, NEW L \in Nat, ReassemblerInv(r, L), Settled(r, L)
  PROVE  ~ Known(r, r.next_assembling_index)
<1> DEFINE x == r.next_assembling_index
<1>1. x \in Nat /\ Storage(r.storage, L, Limit(r)) /\ Limit(r) \in Nat
  BY ReassemblerIs, Zenon
<1> SUFFICES ASSUME Known(r, x) PROVE FALSE
  OBVIOUS
<1>2. ~ (x < x)
  <2> HIDE DEF x
  <2> QED BY <1>1
<1>3. PICK i \in 1 .. Len(r.storage) : Holds(r.storage[i], x)
  BY <1>2, Zenon DEF Known, HoldsAny
<1> DEFINE a == r.storage[i].index  b == end_of(r.storage[i])
<1>4. (a > x \/ b <= x) /\ a <= x /\ x < b
  BY <1>3, Zenon DEF Settled, Holds
<1>5. a \in Nat /\ b \in Nat
  BY <1>1, <1>3, PieceIs, Zenon DEF Storage
<1> HIDE DEF a, b, x
<1> QED BY <1>1, <1>4, <1>5

\* push_substring() does that.
LEMMA HeardIs ==
  ASSUME NEW r, NEW L \in Nat, ReassemblerInv(r, L), NEW data, NEW index, NEW ended, NEW d,
         d = Datagram(data, index, ended),
         NEW w \in Nat, Piece(d, L, w), w <= Limit(r) \/ remaining_capacity(r.output) = 0,
         d.eof /\ d.index <= r.next_assembling_index /\ r.next_assembling_index < end_of(d)
         => remaining_capacity(r.output) > 0
  PROVE  Heard(push_substring(r, data, index, ended), r, d, L)
<1> DEFINE x == r.next_assembling_index
           t == push_substring(r, data, index, ended)
           left == remaining_capacity(r.output)
<1>1. /\ x \in Nat /\ x <= L /\ Len(r.storage) \in Nat /\ Limit(r) \in Nat
      /\ r.next_assembling_index = r.output.bytes_written
  BY ReassemblerIs, Zenon DEF ReassemblerInv
<1>2. d \in DatagramRecord /\ d.index \in Nat /\ end_of(d) \in Nat /\ d.index = index
  <2>1. d.index = index
    BY DEF Datagram
  <2> QED BY <2>1, PieceIs, Zenon
<1>3. left \in Nat
  BY StreamSize, Zenon DEF ReassemblerInv
<1>4. CASE left = 0
  <2>1. t = r
    BY <1>1, <1>4, PushFull, Zenon
  <2>2. x <= x
    BY <1>1
  <2>3. ~ (left > 0)
    BY <1>4
  <2>4. SameList(r, r)
    BY Zenon DEF SameList
  <2> HIDE DEF left
  <2>5. ~ (d.eof /\ d.index <= x /\ x < end_of(d))
    BY <2>3, Zenon DEF left
  <2> QED BY <2>1, <2>2, <2>4, <2>5, Zenon DEF Heard
<1>5. CASE left # 0
  <2>1. left > 0
    <3> HIDE DEF left
    <3> QED BY <1>3, <1>5
  <2>2. Piece(d, L, Limit(r))
    <3> DEFINE full == d.index < end_of(d) \/ d.eof
    <3>1. w <= Limit(r) /\ (full => end_of(d) <= w)
      BY <1>5, PieceIs, Zenon
    <3> HIDE DEF full
    <3>2. full => end_of(d) <= Limit(r)
      BY <1>1, <1>2, <3>1
    <3> QED BY <3>2, Zenon DEF Piece, full
  <2>3. ReassemblerInv(t, L) /\ Pushed(t, r, d, L)
    BY <2>2, PushKeeps
  <2>4. ASSUME d.index <= x PROVE Written(t, r, d)
    BY <1>2, <2>1, <2>2, <2>4, PushWrites
  <2>5. ASSUME NEW D, Cut(D, L), d \in D, ReassemblerCut(r, D, L) PROVE ReassemblerCut(t, D, L)
    BY <2>2, <2>5, CutPush
  <2> HIDE DEF t
  <2> DEFINE y == t.next_assembling_index
  <2>6. y \in Nat /\ y <= L /\ x <= y
    BY <2>3, ReassemblerIs, Zenon DEF ReassemblerInv, Pushed
  <2>7. ASSUME d.eof, d.index <= x PROVE y = L /\ t.output.input_ended
    <3>1. end_of(d) = L /\ end_of(d) <= y /\ t.output.input_ended
      BY <2>4, <2>7, Zenon DEF Written, Piece
    <3> QED BY <2>6, <3>1
  <2>8. ASSUME d.data = <<>>, ~ d.eof, d.index <= x
        PROVE  SameList(t, r) /\ y = x /\ (t.output.input_ended <=> r.output.input_ended)
    <3>1. Assembled(t, r, d)
      BY <2>4, <2>8, Zenon DEF Written
    <3>2. end_of(d) = d.index
      <4>1. end_of(d) = d.index + Len(d.data) /\ Len(<<>>) = 0
        BY DEF end_of
      <4> QED BY <1>2, <2>8, <4>1
    <3>3. y = Larger(x, d.index)
      BY <3>1, <3>2, Zenon DEF Assembled
    <3>4. y = x
      <4> DEFINE i == d.index
      <4>1. i \in Nat /\ i <= x /\ y = Larger(x, i)
        BY <1>2, <2>8, <3>3
      <4> HIDE DEF i, x, y
      <4> QED BY <1>1, <4>1 DEF Larger
    <3> QED BY <2>8, <3>1, <3>4, Zenon DEF Assembled
  <2>9. ASSUME Settled(r, L), d.index > x \/ end_of(d) <= x PROVE y = x
    <3>1. ~ Known(r, x)
      BY <2>9, NextIsUnknown, Zenon
    <3>2. ~ Holds(d, x)
      <4> DEFINE i == d.index  e == end_of(d)
      <4>1. i \in Nat /\ e \in Nat /\ (i > x \/ e <= x)
        BY <1>2, <2>9, Zenon
      <4> HIDE DEF i, e, x
      <4>2. ~ (i <= x /\ x < e)
        BY <1>1, <4>1
      <4> QED BY <4>2 DEF Holds, i, e
    <3>3. ~ Known(t, x)
      BY <1>1, <2>3, <3>1, <3>2, Zenon DEF Pushed
    <3>4. ~ (x < y)
      BY <3>3, Zenon DEF Known
    <3> HIDE DEF x, y
    <3> QED BY <1>1, <2>6, <3>4
  <2> QED BY <2>3, <2>5, <2>6, <2>7, <2>8, <2>9, Zenon DEF Heard, Pushed, t
<1> QED BY <1>4, <1>5

-----------------------------------------------------------------------------

\* A segment as a datagram: a part of the stream.
LEMMA CarriedIs ==
  ASSUME NEW L \in Nat, NEW i, NEW seg, NEW f, Carried(seg, f, i, L), NEW w \in Nat,
         Len(seg.payload) > 0 \/ seg.fin => f + Len(seg.payload) <= w + 1
  PROVE  CarriedPart(seg, f, L, w)
<1> DEFINE q == seg.payload  n == Len(q)  k == IndexOf(f)  d == PartOf(seg, f)
<1>1. /\ f \in Nat /\ (f = 0 => q = <<>> /\ ~ seg.fin)
      /\ n > 0 => f + n <= L + 1
      /\ seg.fin => f + n = L + 1
      /\ n > 0 \/ seg.fin => f + n <= w + 1
      /\ q = Bytes(f, f + n - 1)
  BY Zenon DEF Carried
<1>2. q \in Seq(Nat) /\ n \in Nat /\ seg.syn \in BOOLEAN /\ seg.fin \in BOOLEAN
  BY DEF Carried, SegmentRecord
<1>3. k = IF f > 0 THEN f - 1 ELSE f
  BY Zenon DEF IndexOf
<1>4. d = [data |-> q, index |-> k, eof |-> seg.fin]
  BY Zenon DEF PartOf, Datagram
<1>5. (q = <<>> <=> n = 0) /\ (f = 0 => n = 0)
  BY <1>1, <1>2
<1> HIDE DEF n, k, d
<1>6. k \in Nat /\ (f > 0 => k = f - 1) /\ (f = 0 => k = 0)
  BY <1>1, <1>3
<1>7. q = Bytes(k + 1, k + n)
  <2>1. CASE f > 0
    <3>1. f = k + 1 /\ f + n - 1 = k + n
      BY <1>1, <1>2, <1>6, <2>1
    <3> QED BY <1>1, <3>1, Zenon
  <2>2. CASE f = 0
    <3>1. k + 1 = 1 /\ k + n = 1 - 1
      BY <1>5, <1>6, <2>2
    <3>2. Bytes(1, 1 - 1) = <<>>
      BY BytesEmpty
    <3> QED BY <1>1, <2>2, <3>1, <3>2, Zenon
  <2> QED BY <1>1, <2>1, <2>2
<1> HIDE DEF q
<1>8. d \in DatagramRecord /\ d.data = q /\ d.index = k /\ d.eof = seg.fin
  BY <1>2, <1>4, <1>6 DEF DatagramRecord
<1>9. end_of(d) = k + n
  BY <1>8, Zenon DEF end_of, n
<1>10. (k < k + n \/ seg.fin => k + n <= L /\ k + n <= w) /\ (seg.fin => k + n = L)
  BY <1>1, <1>2, <1>5, <1>6
<1>11. Piece(d, L, w)
  BY <1>7, <1>8, <1>9, <1>10, Zenon DEF Piece
<1> QED BY <1>1, <1>2, <1>5, <1>6, <1>8, <1>9, <1>11, Zenon DEF CarriedPart, q, n, k, d

\* The reassembler after a segment within the window.
LEMMA SegmentHeard ==
  ASSUME NEW L \in Nat, NEW i, NEW cap \in Nat \ {0}, NEW r, Sound(r, L, i, cap),
         NEW seg, NEW f, Carried(seg, f, i, L),
         Len(seg.payload) > 0 \/ seg.fin => Fits(r, L, f + length_in_sequence_space(seg))
  PROVE  Heard(push_substring(r.reassembler, seg.payload, IndexOf(f), seg.fin),
               r.reassembler, PartOf(seg, f), L)
<1> DEFINE R == r.reassembler  win == window_size(r)
           wr == stream_out(r).bytes_written  n == Len(seg.payload)  k == IndexOf(f)  d == PartOf(seg, f)
           fin == IF seg.fin THEN 1 ELSE 0
<1>1. /\ wr \in Nat /\ wr <= L /\ win \in Nat /\ Limit(R) = wr + win
      /\ R.next_assembling_index = wr /\ win = remaining_capacity(R.output)
  BY SoundIs DEF stream_out
<1>2. ReassemblerInv(R, L)
  BY Zenon DEF Sound
<1>3. /\ f \in Nat /\ n \in Nat /\ seg.syn \in BOOLEAN /\ seg.fin \in BOOLEAN /\ seg \in SegmentRecord
      /\ (f = 0 => n = 0 /\ ~ seg.fin)
      /\ (n > 0 => f + n <= L + 1)
      /\ (seg.fin => f + n = L + 1)
      /\ (seg.syn <=> f = 0)
  <2>1. f \in Nat /\ seg \in SegmentRecord /\ (f = 0 => seg.payload = <<>> /\ ~ seg.fin) /\ (seg.syn <=> f = 0)
        /\ (n > 0 => f + n <= L + 1) /\ (seg.fin => f + n = L + 1)
    BY Zenon DEF Carried
  <2>2. n \in Nat /\ seg.syn \in BOOLEAN /\ seg.fin \in BOOLEAN
    BY <2>1 DEF SegmentRecord
  <2>3. seg.payload = <<>> => n = 0
    OBVIOUS
  <2> QED BY <2>1, <2>2, <2>3, Zenon
<1>4. n > 0 \/ seg.fin => wr = L \/ f + n + fin <= 1 + wr + Larger(win, 1)
  <2> SUFFICES ASSUME n > 0 \/ seg.fin, wr # L PROVE f + n + fin <= 1 + wr + Larger(win, 1)
    OBVIOUS
  <2>1. ~ seg.syn
    BY <1>3
  <2>2. length_in_sequence_space(seg) = n + 0 + fin
    BY <2>1, Zenon DEF length_in_sequence_space
  <2>3. f + (n + 0 + fin) <= 1 + wr + Larger(win, 1)
    BY <2>2, Zenon DEF Fits
  <2> DEFINE edge == 1 + wr + Larger(win, 1)
  <2> HIDE DEF n, wr, win
  <2>4. edge \in Nat
    BY <1>1 DEF Larger
  <2> HIDE DEF edge
  <2>5. f + (n + 0 + fin) <= edge
    BY <2>3 DEF edge
  <2> HIDE DEF fin
  <2>6. fin \in Nat
    BY DEF fin
  <2>7. f + n + fin <= edge
    BY <1>3, <2>4, <2>5, <2>6
  <2> QED BY <2>7 DEF edge
<1>5. PICK w \in Nat : (w <= Limit(R) \/ win = 0) /\ (n > 0 \/ seg.fin => f + n <= w + 1)
  <2> HIDE DEF n, wr, win
  <2>1. CASE win = 0
    <3>1. f + n \in Nat /\ f + n <= (f + n) + 1
      BY <1>3
    <3> QED BY <2>1, <3>1
  <2>2. CASE win > 0
    <3>1. Larger(win, 1) = win
      BY <1>1, <2>2 DEF Larger
    <3>2. wr + win \in Nat /\ wr + win <= wr + win
      BY <1>1
    <3>3. n > 0 \/ seg.fin => f + n <= (wr + win) + 1
      BY <1>1, <1>3, <1>4, <3>1
    <3> QED BY <1>1, <3>2, <3>3, Zenon
  <2> QED BY <1>1, <2>1, <2>2
<1>6. /\ d.index = k /\ k \in Nat /\ d.eof = seg.fin /\ end_of(d) = k + n
      /\ Piece(d, L, w) /\ (f > 0 => k = f - 1) /\ (f = 0 => k = 0)
  <2>1. CarriedPart(seg, f, L, w)
    BY <1>5, CarriedIs, Zenon
  <2> QED BY <2>1, Zenon DEF CarriedPart
<1>7. d.eof /\ d.index <= wr /\ wr < end_of(d) => win > 0
  <2> SUFFICES ASSUME seg.fin, k <= wr, wr < k + n PROVE win > 0
    BY <1>6, Zenon
  <2> HIDE DEF n, k, wr, win
  <2>1. f > 0 /\ fin = 1 /\ k = f - 1 /\ f + n = L + 1
    BY <1>3, <1>6
  <2>2. wr = L \/ f + n + 1 <= 1 + wr + Larger(win, 1)
    BY <1>4, <2>1, Zenon
  <2>3. win \in Nat /\ wr \in Nat /\ f \in Nat /\ n \in Nat /\ k \in Nat
    BY <1>1, <1>3, <1>6, Zenon
  <2> QED BY <2>1, <2>2, <2>3 DEF Larger
<1>8. Heard(push_substring(R, seg.payload, k, seg.fin), R, d, L)
  <2>1. d = Datagram(seg.payload, k, seg.fin)
    BY Zenon DEF PartOf
  <2> HIDE DEF d, k, R
  <2>2. d.eof /\ d.index <= R.next_assembling_index /\ R.next_assembling_index < end_of(d)
        => remaining_capacity(R.output) > 0
    BY <1>1, <1>7, Zenon
  <2>3. w <= Limit(R) \/ remaining_capacity(R.output) = 0
    BY <1>1, <1>5, Zenon
  <2> QED BY <1>2, <1>5, <1>6, <2>1, <2>2, <2>3, HeardIs, Zenon
<1> QED BY <1>8

\* segment_received() by cases: the segment is not the first SYN, or repeats it; it is
\* not the one that is expected, or it is.
LEMMA SegmentCases ==
  ASSUME NEW L \in Nat, L + 3 < Half, NEW i \in SeqNo, NEW cap \in Nat \ {0},
         NEW r, Sound(r, L, i, cap), NEW seg, NEW f, Carried(seg, f, i, L),
         NEW t \in ReassemblerRecord,
         t = push_substring(r.reassembler, seg.payload, IndexOf(f), seg.fin),
         NEW s, s = receiver_segment_received(r, seg)
  PROVE  SegmentCase(s, r, t, seg, f, i)
<1> USE Zenon
<1> SUFFICES \/ s = r
             \/ Follows(s, r, t, r.abs_seqno, i) /\ ~ r.first_segment /\ f # r.abs_seqno
             \/ Follows(s, r, t, NextNumber(r, t, seg), i) /\ f = r.abs_seqno /\ (r.first_segment => seg.syn)
  BY DEF SegmentCase
<1> DEFINE abs == r.abs_seqno
           r1 == IF r.first_segment THEN [r EXCEPT !.first_segment = FALSE, !.isn = seg.seqno] ELSE r
           temp == unwrap(seg.seqno, r1.isn, r1.abs_seqno)
           index == IF temp > 0 THEN temp - 1 ELSE temp
           r2 == [r1 EXCEPT !.reassembler = push_substring(@, seg.payload, index, seg.fin)]
           n == NextNumber(r, t, seg)
<1>1. /\ r \in ReceiverRecord /\ abs \in Nat /\ r.first_segment \in BOOLEAN /\ r.isn \in SeqNo
      /\ r.reassembler \in ReassemblerRecord /\ r.capacity \in Nat
  BY SMT DEF Sound, ReceiverRecord
<1>2. /\ f \in Nat /\ seg.seqno = wrap(f, i) /\ f <= L + 2 /\ (seg.syn <=> f = 0)
      /\ seg.payload \in Seq(Nat) /\ seg.fin \in BOOLEAN /\ seg.syn \in BOOLEAN
  <2>1. seg \in SegmentRecord /\ f \in Nat /\ seg.seqno = wrap(f, i) /\ f <= L + 2 /\ (seg.syn <=> f = 0)
    BY DEF Carried
  <2>2. seg.payload \in Seq(Nat) /\ seg.fin \in BOOLEAN /\ seg.syn \in BOOLEAN
    BY <2>1, SMT DEF SegmentRecord
  <2> QED BY <2>1, <2>2
<1>3. s = IF r.first_segment /\ ~ seg.syn THEN r
          ELSE IF repeats_syn(r1, temp) THEN r1
          ELSE IF temp # r1.abs_seqno THEN r2
          ELSE [r2 EXCEPT !.abs_seqno = next_abs_seqno(r2, seg, @)]
  BY DEF receiver_segment_received
<1>4. Half \in Nat
  BY HalfIsHalf, SMT
<1>5. CASE r.first_segment /\ ~ seg.syn
  BY <1>3, <1>5
<1>6. CASE ~ r.first_segment \/ seg.syn
  <2>1. r.first_segment => f = 0 /\ abs = 0 /\ seg.seqno = i
    <3> SUFFICES ASSUME r.first_segment PROVE f = 0 /\ abs = 0 /\ seg.seqno = i
      BY SMT
    <3>1. f = 0 /\ abs = 0
      BY <1>2, <1>6 DEF Sound
    <3>2. wrap(0, i) = i
      BY HalfIsHalf, SMT DEF wrap, SeqNo
    <3> QED BY <1>2, <3>1, <3>2
  <2>2. r1 \in ReceiverRecord /\ r1.isn = i /\ r1.abs_seqno = abs /\ r1.first_segment = FALSE
        /\ r1.reassembler = r.reassembler /\ r1.capacity = r.capacity
    <3>1. CASE r.first_segment
      <4>1. r1 = [r EXCEPT !.first_segment = FALSE, !.isn = i]
        BY <2>1, <3>1
      <4> HIDE DEF r1
      <4> QED BY <1>1, <4>1 DEF ReceiverRecord
    <3>2. CASE ~ r.first_segment
      <4>1. r1 = r /\ r.isn = i
        BY <3>2 DEF Sound
      <4> HIDE DEF r1
      <4> QED BY <1>1, <3>2, <4>1
    <3> QED BY <3>1, <3>2
  <2> HIDE DEF r1
  <2>3. temp = f
    <3>1. abs <= L + 3
      BY DEF Sound
    <3> HIDE DEF abs
    <3>2. f - abs < Half /\ abs - f < Half
      BY <1>1, <1>2, <1>4, <3>1, SMT DEF abs
    <3>3. unwrap(wrap(f, i), i, abs) = f
      BY <1>1, <1>2, <3>2, UnwrapOfWrap, SMT DEF abs
    <3> QED BY <1>2, <2>2, <3>3 DEF abs
  <2>4. index = IndexOf(f)
    BY <2>3 DEF IndexOf
  <2> HIDE DEF temp, index
  <2>5. r2 = [r1 EXCEPT !.reassembler = t]
    BY <2>2, <2>4, SMT
  <2> HIDE DEF r2
  <2>6. r2 \in ReceiverRecord /\ r2.reassembler = t /\ r2.capacity = r.capacity /\ r2.abs_seqno = abs
        /\ r2.isn = i /\ r2.first_segment = FALSE
    BY <2>2, <2>5, SMT DEF ReceiverRecord
  <2>7. CASE repeats_syn(r1, temp)
    <3>1. abs = 1
      BY <2>2, <2>7 DEF repeats_syn
    <3>2. ~ r.first_segment
      BY <2>1, <3>1, SMT
    <3>3. s = r1 /\ r1 = r
      BY <1>3, <1>6, <2>7, <3>2 DEF r1
    <3> QED BY <3>3
  <2>8. CASE ~ repeats_syn(r1, temp) /\ f # abs
    <3>1. s = r2
      BY <1>3, <1>6, <2>2, <2>3, <2>8
    <3>2. ~ r.first_segment
      BY <2>1, <2>8
    <3> QED BY <2>6, <2>8, <3>1, <3>2 DEF Follows
  <2>9. CASE ~ repeats_syn(r1, temp) /\ f = abs
    <3>1. s = [r2 EXCEPT !.abs_seqno = next_abs_seqno(r2, seg, @)]
      BY <1>3, <1>6, <2>2, <2>3, <2>9
    <3>2. next_abs_seqno(r2, seg, abs)
            = (IF seg.payload # <<>> THEN t.output.bytes_written + 1
               ELSE IF abs = 0 THEN abs + 1 ELSE abs)
              + (IF seg.fin \/ t.output.input_ended THEN 1 ELSE 0)
      BY <2>6 DEF next_abs_seqno, stream_out
    <3>3. seg.payload # <<>> <=> Len(seg.payload) > 0
      BY <1>2, SMT
    <3>4. next_abs_seqno(r2, seg, abs) = n
      <4>1. abs = 0 => abs + 1 = 1
        BY SMT
      <4> QED BY <3>2, <3>3, <4>1 DEF NextNumber
    <3>5. n \in Nat
      <4> DEFINE wr == t.output.bytes_written
                 received == IF Len(seg.payload) > 0 THEN wr + 1 ELSE IF abs = 0 THEN 1 ELSE abs
      <4>1. wr \in Nat
        BY SMT DEF ReassemblerRecord, StreamRecord
      <4>2. n = received + (IF seg.fin \/ t.output.input_ended THEN 1 ELSE 0)
        BY DEF NextNumber
      <4> HIDE DEF wr, abs, n
      <4>3. received \in Nat
        BY <1>1, <4>1, SMT DEF abs
      <4> HIDE DEF received
      <4> QED BY <4>2, <4>3, SMT
    <3> HIDE DEF n
    <3>6. s = [r2 EXCEPT !.abs_seqno = n]
      BY <2>6, <3>1, <3>4, SMT
    <3>7. Follows(s, r, t, n, i)
      BY <2>6, <3>5, <3>6, SMT DEF Follows, ReceiverRecord
    <3> QED BY <1>6, <2>9, <3>7 DEF n
  <2> QED BY <2>7, <2>8, <2>9, SMT
<1> QED BY <1>1, <1>2, <1>5, <1>6

\* The numbers of that reassembler.
LEMMA HeardNumbers ==
  ASSUME NEW L \in Nat, NEW i, NEW cap \in Nat \ {0}, NEW r, Sound(r, L, i, cap), NEW t, NEW d,
         Heard(t, r.reassembler, d, L)
  PROVE  HeardBy(t, r, L, cap)
<1> USE Zenon
<1> DEFINE x == stream_out(r).bytes_written  y == t.output.bytes_written
<1>1. /\ x \in Nat /\ r.reassembler.next_assembling_index = x /\ stream_out(r).input_ended \in BOOLEAN
  BY SoundIs
<1>2. /\ ReassemblerInv(t, L) /\ t.capacity = cap /\ x <= t.next_assembling_index
      /\ (stream_out(r).input_ended => t.output.input_ended)
      /\ t.output.bytes_read = stream_out(r).bytes_read
  BY <1>1 DEF Heard, Sound, stream_out
<1>3. /\ t.next_assembling_index = y /\ y \in Nat /\ y <= L /\ (t.output.input_ended => y = L)
      /\ StreamInv(t.output) /\ t \in ReassemblerRecord
  BY <1>2, ReassemblerIs DEF ReassemblerInv
<1>4. t.output.input_ended \in BOOLEAN
  BY <1>3, SMT DEF StreamInv, StreamRecord
<1> QED BY <1>1, <1>2, <1>3, <1>4 DEF HeardBy

\* A segment that is not the expected one changes what is written and stored.
LEMMA OtherSound ==
  ASSUME NEW L \in Nat, NEW i, NEW cap \in Nat \ {0}, NEW r, Sound(r, L, i, cap), NEW t, NEW d,
         Heard(t, r.reassembler, d, L), NEW s, Follows(s, r, t, r.abs_seqno, i), ~ r.first_segment
  PROVE  Hears(s, r, L, i, cap)
<1> DEFINE x == stream_out(r).bytes_written  y == t.output.bytes_written  abs == r.abs_seqno
<1>1. /\ ReassemblerInv(t, L) /\ t.capacity = cap /\ x \in Nat /\ y \in Nat /\ x <= y /\ y <= L
      /\ stream_out(r).input_ended => t.output.input_ended
      /\ t.output.bytes_read = stream_out(r).bytes_read
  <2>1. HeardBy(t, r, L, cap)
    BY HeardNumbers, SMTT(30)
  <2> QED BY <2>1, Zenon DEF HeardBy
<1>2. /\ s \in ReceiverRecord /\ s.reassembler = t /\ s.capacity = cap /\ s.abs_seqno = abs
      /\ s.isn = i /\ s.first_segment = FALSE /\ stream_out(s) = t.output
  BY Zenon DEF Follows, Sound, stream_out
<1>3. abs \in Nat /\ abs > 0 /\ abs <= L + 3 /\ (abs <= x + 1 \/ x = L)
  BY SoundIs, Zenon DEF Sound
<1> HIDE DEF x, y, abs
<1>4. (abs <= y + 1 \/ y = L) /\ abs >= abs
  BY <1>1, <1>3
<1> QED BY <1>1, <1>2, <1>3, <1>4, Zenon DEF Hears, Sound, x, y, abs

\* The segment that is expected moves the number on as far as the output goes.
LEMMA ExpectedSound ==
  ASSUME NEW L \in Nat, NEW i, NEW cap \in Nat \ {0}, NEW r, Sound(r, L, i, cap),
         NEW seg, NEW f, Carried(seg, f, i, L), f = r.abs_seqno, NEW t,
         Heard(t, r.reassembler, PartOf(seg, f), L),
         NEW s, Follows(s, r, t, NextNumber(r, t, seg), i)
  PROVE  /\ Hears(s, r, L, i, cap)
         /\ LET x == stream_out(r).bytes_written
                y == t.output.bytes_written
                over == t.output.input_ended
                N == s.abs_seqno
            IN  (Len(seg.payload) > 0 \/ seg.fin) /\ f > 0 /\ (f = x + 1 \/ (f = L + 2 /\ x = L)) =>
                  /\ N = y + 1 \/ (N = L + 2 /\ y = L)
                  /\ Len(seg.payload) > 0 => N = y + (IF over THEN 2 ELSE 1)
<1> USE Zenon
<1> DEFINE x == stream_out(r).bytes_written  y == t.output.bytes_written  abs == r.abs_seqno
           over == t.output.input_ended  n == Len(seg.payload)  fin == seg.fin  d == PartOf(seg, f)
           N == NextNumber(r, t, seg)
<1>1. /\ ReassemblerInv(t, L) /\ t.capacity = cap /\ x \in Nat /\ y \in Nat /\ x <= y /\ y <= L
      /\ r.reassembler.next_assembling_index = x /\ t.next_assembling_index = y
      /\ over \in BOOLEAN /\ (over => y = L)
      /\ stream_out(r).input_ended => over
      /\ t.output.bytes_read = stream_out(r).bytes_read
  <2>1. HeardBy(t, r, L, cap)
    BY HeardNumbers
  <2> QED BY <2>1 DEF HeardBy
<1>2. /\ s \in ReceiverRecord /\ s.reassembler = t /\ s.capacity = cap /\ s.abs_seqno = N
      /\ s.isn = i /\ s.first_segment = FALSE /\ stream_out(s) = t.output
  BY DEF Follows, Sound, stream_out
<1>3. abs \in Nat /\ (abs <= x + 1 \/ x = L)
  BY SoundIs DEF Sound
<1>4. /\ f <= L + 2 /\ (n > 0 => f + n <= L + 1) /\ (fin => f + n = L + 1) /\ f = abs
      /\ (f = 0 => seg.payload = <<>> /\ ~ fin)
  BY DEF Carried
<1>5. /\ f \in Nat /\ n \in Nat /\ fin \in BOOLEAN /\ (seg.payload = <<>> => n = 0)
      /\ d.eof = fin /\ d.index = IndexOf(f) /\ end_of(d) = IndexOf(f) + n
      /\ (f > 0 => IndexOf(f) = f - 1)
  <2>1. f \in Nat /\ n \in Nat
    BY SMT DEF Carried, SegmentRecord
  <2>2. seg.fin \in BOOLEAN
    BY SMT DEF Carried, SegmentRecord
  <2>3. seg.payload = <<>> => n = 0
    BY SMT
  <2>4. d = [data |-> seg.payload, index |-> IndexOf(f), eof |-> seg.fin]
    BY DEF PartOf, Datagram
  <2>5. d.eof = seg.fin /\ d.index = IndexOf(f) /\ end_of(d) = IndexOf(f) + n
    BY <2>4, SMT DEF end_of
  <2>6. f > 0 => IndexOf(f) = f - 1
    BY DEF IndexOf
  <2> QED BY <2>1, <2>2, <2>3, <2>5, <2>6
<1>6. fin /\ f > 0 /\ f - 1 <= x /\ x < f - 1 + n => y = L /\ over
  BY <1>1, <1>5 DEF Heard
<1>7. N = (IF n > 0 THEN y + 1 ELSE IF abs = 0 THEN 1 ELSE abs) + (IF fin \/ over THEN 1 ELSE 0)
  BY DEF NextNumber
<1>8. /\ N \in Nat /\ N > 0 /\ N >= abs /\ N <= L + 3
      /\ N <= y + 1 \/ y = L
      /\ (n > 0 \/ fin) /\ f > 0 /\ (abs = x + 1 \/ (abs = L + 2 /\ x = L)) =>
           /\ N = y + 1 \/ (N = L + 2 /\ y = L)
           /\ n > 0 => N = y + (IF over THEN 2 ELSE 1)
  <2>1. f = 0 => n = 0 /\ ~ fin
    BY <1>4, <1>5
  <2>2. /\ x \in Nat /\ y \in Nat /\ x <= y /\ y <= L /\ over \in BOOLEAN /\ (over => y = L)
        /\ f \in Nat /\ n \in Nat /\ fin \in BOOLEAN
    BY <1>1, <1>5
  <2>3. /\ f <= L + 2 /\ (n > 0 => f + n <= L + 1) /\ (fin => f + n = L + 1) /\ f = abs
    BY <1>4
  <2> HIDE DEF abs, x, y, over, n, fin, N
  <2> QED BY <1>3, <1>6, <1>7, <2>1, <2>2, <2>3, SMT
<1>9. Hears(s, r, L, i, cap)
  BY <1>1, <1>2, <1>8 DEF Hears, Sound
<1> QED BY <1>2, <1>4, <1>8, <1>9

\* segment_received() keeps a receiver sound.
LEMMA SegmentSound ==
  ASSUME NEW L \in Nat, L + 3 < Half, NEW i \in SeqNo, NEW cap \in Nat \ {0},
         NEW r, Sound(r, L, i, cap), NEW seg, NEW f, Carried(seg, f, i, L),
         Len(seg.payload) > 0 \/ seg.fin => Fits(r, L, f + length_in_sequence_space(seg)),
         NEW s, s = receiver_segment_received(r, seg)
  PROVE  Hears(s, r, L, i, cap)
<1> USE Zenon
<1> DEFINE t == push_substring(r.reassembler, seg.payload, IndexOf(f), seg.fin)
           d == PartOf(seg, f)
<1>1. Heard(t, r.reassembler, d, L)
  BY SegmentHeard
<1>2. t \in ReassemblerRecord
  BY <1>1 DEF Heard, ReassemblerInv
<1>3. t = push_substring(r.reassembler, seg.payload, IndexOf(f), seg.fin)
  BY SMT
<1> HIDE DEF t
<1>4. \/ s = r
      \/ Follows(s, r, t, r.abs_seqno, i) /\ ~ r.first_segment /\ f # r.abs_seqno
      \/ Follows(s, r, t, NextNumber(r, t, seg), i) /\ f = r.abs_seqno /\ (r.first_segment => seg.syn)
  <2>1. SegmentCase(s, r, t, seg, f, i)
    BY <1>2, <1>3, SegmentCases
  <2> QED BY <2>1 DEF SegmentCase
<1>5. CASE s = r
  <2>1. r.abs_seqno \in Nat /\ stream_out(r).bytes_written \in Nat
    BY SoundIs
  <2>2. r.abs_seqno >= r.abs_seqno /\ stream_out(r).bytes_written <= stream_out(r).bytes_written
    BY <2>1, SMT
  <2> QED BY <1>5, <2>2 DEF Hears
<1>6. CASE Follows(s, r, t, r.abs_seqno, i) /\ ~ r.first_segment
  BY <1>1, <1>6, OtherSound
<1>7. CASE Follows(s, r, t, NextNumber(r, t, seg), i) /\ f = r.abs_seqno
  BY <1>1, <1>7, ExpectedSound
<1> QED BY <1>4, <1>5, <1>6, <1>7, SMT
=============================================================================
