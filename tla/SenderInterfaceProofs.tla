-------------------------- MODULE SenderInterfaceProofs --------------------------
(***************************************************************************)
(* The invariants of the NetworkInterface, for every set of neighbours,    *)
(* pair of times to live and sequence of tick sizes: each is inductive     *)
(* together with TypeOK.  The safety of the TCPSender as its owner drives  *)
(* it, for which SenderOK is the inductive invariant.                      *)
(***************************************************************************)
EXTENDS TCPSender, NetworkInterface, SenderLemmas

waiting == waiting_arp_response_ip_addr

queue == waiting_arp_internet_datagrams

\* Facts about sequences.
LEMMA ConcatAppend ==
  ASSUME NEW S, NEW s \in Seq(S), NEW t \in Seq(S), NEW e \in S
  PROVE  s \o Append(t, e) = Append(s \o t, e)
  OBVIOUS

\* Appending nothing changes nothing.
LEMMA ConcatEmpty == ASSUME NEW S, NEW s \in Seq(S) PROVE s \o <<>> = s
  OBVIOUS

\* Append() keeps the type of a queue.
LEMMA AppendIsSeq == ASSUME NEW S, NEW s \in Seq(S), NEW e \in S PROVE Append(s, e) \in Seq(S)
  OBVIOUS

\* An empty queue has every type.
LEMMA EmptyIsSeq == ASSUME NEW S PROVE <<>> \in Seq(S)
  OBVIOUS

\* Two queues of a type make one.
LEMMA ConcatIsSeq == ASSUME NEW S, NEW s \in Seq(S), NEW t \in Seq(S) PROVE s \o t \in Seq(S)
  OBVIOUS

\* An element may be counted to the sequence before it or to the one behind it.
LEMMA ConcatMiddle ==
  ASSUME NEW S, NEW s \in Seq(S), NEW t \in Seq(S), NEW e \in S
  PROVE  /\ <<e>> \in Seq(S) /\ <<e>> \o t \in Seq(S)
         /\ Append(s, e) \o t = s \o (<<e>> \o t)
  OBVIOUS

\* What a list holds.
LEMMA WaitingIs ==
  ASSUME NEW q \in Seq(Waiting)
  PROVE  Len(q) \in Nat /\ \A n \in 1 .. Len(q) : q[n] \in Waiting /\ q[n].ip \in IP /\ q[n].dgram \in Nat
<1>1. Len(q) \in Nat /\ \A n \in 1 .. Len(q) : q[n] \in Waiting
  BY ElementOf
<1>2. \A e \in Waiting : e.ip \in IP /\ e.dgram \in Nat
  BY DEF Waiting
<1> QED BY <1>1, <1>2, Zenon

\* The steps of DatagramsFor().
Collected(q, x) ==
  LET among[n \in 0 .. Len(q)] ==
        IF n = 0 THEN <<>>
        ELSE IF q[n].ip = x THEN Append(among[n - 1], q[n].dgram) ELSE among[n - 1]
  IN  among

\* f[n] is the datagrams for x among the first n elements of the list.
Collects(f, q, x) ==
  /\ f[0] = <<>>
  /\ \A n \in 1 .. Len(q) : f[n] = IF q[n].ip = x THEN Append(f[n - 1], q[n].dgram) ELSE f[n - 1]

\* DatagramsFor() collects them from one element of the list to the next.
LEMMA CollectedIs ==
  ASSUME NEW q \in Seq(Waiting), NEW x
  PROVE  Collects(Collected(q, x), q, x)
<1> DEFINE N == Len(q)
           step(s, n) == IF q[n].ip = x THEN Append(s, q[n].dgram) ELSE s
           F(f, k) == f = [n \in 0 .. k |-> IF n = 0 THEN <<>> ELSE step(f[n - 1], n)]
           S == {k \in Nat : \E f : F(f, k)}
           g == Collected(q, x)
<1>1. N \in Nat
  OBVIOUS
<1>2. g = CHOOSE f : F(f, N)
  BY Zenon DEF Collected
<1> HIDE DEF step, N, g
<1>3. 0 \in S
  <2>1. F([n \in 0 .. 0 |-> <<>>], 0)
    OBVIOUS
  <2> QED BY <2>1, Zenon
<1>4. ASSUME NEW k \in Nat, k \in S PROVE k + 1 \in S
  <2>1. PICK f : F(f, k)
    BY <1>4
  <2> DEFINE h == [n \in 0 .. k + 1 |-> IF n <= k THEN f[n] ELSE step(f[k], k + 1)]
  <2>2. F(h, k + 1)
    <3>1. ASSUME NEW n \in 0 .. k + 1
          PROVE  h[n] = IF n = 0 THEN <<>> ELSE step(h[n - 1], n)
      <4>1. CASE n <= k
        BY <2>1, <4>1
      <4>2. CASE n = k + 1
        BY <2>1, <4>2
      <4> QED BY <4>1, <4>2
    <3> QED BY <3>1
  <2>3. k + 1 \in Nat
    OBVIOUS
  <2> HIDE DEF F, h
  <2> QED BY <2>2, <2>3
<1> HIDE DEF S
<1>5. \A n \in Nat : n \in S
  BY <1>3, <1>4, SetInduction
<1>6. \E f : F(f, N)
  BY <1>1, <1>5, Zenon DEF S
<1> HIDE DEF F
<1>7. F(g, N)
  BY <1>2, <1>6, Zenon
<1>8. g[0] = <<>> /\ \A n \in 1 .. N : g[n] = step(g[n - 1], n)
  BY <1>1, <1>7 DEF F
<1>9. Collects(g, q, x)
  BY <1>8 DEF Collects, step, N
<1> QED BY <1>9 DEF g

\* At the end of the list it has them all.
LEMMA AllCollected == ASSUME NEW q, NEW x PROVE DatagramsFor(q, x) = Collected(q, x)[Len(q)]
  BY Zenon DEF DatagramsFor, Collected

\* They are a queue.
LEMMA CollectedType ==
  ASSUME NEW q \in Seq(Waiting), NEW x
  PROVE  \A n \in 0 .. Len(q) : Collected(q, x)[n] \in Seq(Nat)
<1> DEFINE g == Collected(q, x)  N == Len(q)
           S == {n \in Nat : n <= N => g[n] \in Seq(Nat)}
<1>1. N \in Nat /\ \A n \in 1 .. N : q[n].dgram \in Nat
  BY WaitingIs, Zenon
<1>2. Collects(g, q, x)
  BY CollectedIs, Zenon
<1> HIDE DEF g, N
<1>3. 0 \in S
  BY <1>2, EmptyIsSeq, Zenon DEF Collects
<1>4. ASSUME NEW n \in Nat, n \in S PROVE n + 1 \in S
  <2> SUFFICES ASSUME n + 1 <= N PROVE g[n + 1] \in Seq(Nat)
    OBVIOUS
  <2>0. n <= N /\ n + 1 \in 1 .. N /\ (n + 1) - 1 = n
    <3>1. N \in Nat
      BY <1>1, Zenon
    <3> QED BY <3>1
  <2>1. g[n] \in Seq(Nat) /\ n + 1 \in 1 .. N /\ (n + 1) - 1 = n
    BY <1>4, <2>0, Zenon
  <2>2. g[n + 1] = IF q[n + 1].ip = x THEN Append(g[n], q[n + 1].dgram) ELSE g[n]
    BY <1>2, <2>1 DEF Collects, N
  <2>3. Append(g[n], q[n + 1].dgram) \in Seq(Nat)
    BY <1>1, <2>1, AppendIsSeq
  <2> QED BY <2>1, <2>2, <2>3, Zenon
<1> HIDE DEF S
<1>5. \A n \in Nat : n \in S
  BY <1>3, <1>4, SetInduction
<1> QED BY <1>1, <1>5 DEF S, g, N

\* Those of the whole list too.
LEMMA DatagramsForType == ASSUME NEW q \in Seq(Waiting), NEW x PROVE DatagramsFor(q, x) \in Seq(Nat)
<1>1. Len(q) \in 0 .. Len(q)
  OBVIOUS
<1> QED BY <1>1, CollectedType, AllCollected, Zenon

\* There are none as long as no element is for x.
LEMMA NoDatagrams ==
  ASSUME NEW q \in Seq(Waiting), NEW x, NEW m \in 0 .. Len(q), \A j \in 1 .. m : q[j].ip # x
  PROVE  Collected(q, x)[m] = <<>>
<1> DEFINE g == Collected(q, x)  N == Len(q)
           S == {n \in Nat : n <= m => g[n] = <<>>}
<1>1. N \in Nat /\ m \in 0 .. N
  OBVIOUS
<1>2. Collects(g, q, x)
  BY CollectedIs, Zenon
<1> HIDE DEF g, N
<1>3. 0 \in S
  BY <1>2 DEF Collects
<1>4. ASSUME NEW n \in Nat, n \in S PROVE n + 1 \in S
  <2> SUFFICES ASSUME n + 1 <= m PROVE g[n + 1] = <<>>
    OBVIOUS
  <2>1. g[n] = <<>> /\ n + 1 \in 1 .. N /\ (n + 1) - 1 = n /\ n + 1 \in 1 .. m
    BY <1>1, <1>4
  <2>2. g[n + 1] = IF q[n + 1].ip = x THEN Append(g[n], q[n + 1].dgram) ELSE g[n]
    BY <1>2, <2>1 DEF Collects, N
  <2> QED BY <2>1, <2>2, Zenon
<1> HIDE DEF S
<1>5. \A n \in Nat : n \in S
  BY <1>3, <1>4, SetInduction
<1> QED BY <1>1, <1>5 DEF S, g

\* Lists that begin alike have the same datagrams there.
LEMMA SameDatagrams ==
  ASSUME NEW q \in Seq(Waiting), NEW p \in Seq(Waiting), NEW x,
         NEW m \in Nat, m <= Len(q), m <= Len(p), \A j \in 1 .. m : p[j] = q[j]
  PROVE  Collected(p, x)[m] = Collected(q, x)[m]
<1> DEFINE g == Collected(q, x)  h == Collected(p, x)  N == Len(q)  K == Len(p)
           S == {n \in Nat : n <= m => h[n] = g[n]}
<1>1. N \in Nat /\ K \in Nat /\ m <= N /\ m <= K
  OBVIOUS
<1>2. Collects(g, q, x)
  BY CollectedIs, Zenon
<1>3. Collects(h, p, x)
  BY CollectedIs, Zenon
<1> HIDE DEF g, h, N, K
<1>4. 0 \in S
  BY <1>2, <1>3 DEF Collects
<1>5. ASSUME NEW n \in Nat, n \in S PROVE n + 1 \in S
  <2> SUFFICES ASSUME n + 1 <= m PROVE h[n + 1] = g[n + 1]
    OBVIOUS
  <2>1. h[n] = g[n] /\ n + 1 \in 1 .. N /\ n + 1 \in 1 .. K /\ (n + 1) - 1 = n /\ p[n + 1] = q[n + 1]
    BY <1>1, <1>5
  <2>2. g[n + 1] = IF q[n + 1].ip = x THEN Append(g[n], q[n + 1].dgram) ELSE g[n]
    BY <1>2, <2>1 DEF Collects, N
  <2>3. h[n + 1] = IF p[n + 1].ip = x THEN Append(h[n], p[n + 1].dgram) ELSE h[n]
    BY <1>3, <2>1 DEF Collects, K
  <2> QED BY <2>1, <2>2, <2>3, Zenon
<1> HIDE DEF S
<1>6. \A n \in Nat : n \in S
  BY <1>4, <1>5, SetInduction
<1> QED BY <1>6 DEF S, g, h

\* What push_back() adds.
LEMMA AppendDatagram ==
  ASSUME NEW q \in Seq(Waiting), NEW e \in Waiting, NEW x
  PROVE  DatagramsFor(Append(q, e), x) =
           IF e.ip = x THEN Append(DatagramsFor(q, x), e.dgram) ELSE DatagramsFor(q, x)
<1> DEFINE p == Append(q, e)  N == Len(q)  h == Collected(p, x)
<1>1. p \in Seq(Waiting) /\ N \in Nat /\ Len(p) = N + 1 /\ p[N + 1] = e /\ \A j \in 1 .. N : p[j] = q[j]
  BY AppendIs
<1> HIDE DEF p, N
<1>2. h[N] = Collected(q, x)[N]
  <2>1. N <= Len(q) /\ N <= Len(p)
    BY <1>1 DEF N
  <2> QED BY <1>1, <2>1, SameDatagrams, Zenon
<1>3. Collects(h, p, x)
  BY <1>1, CollectedIs, Zenon
<1> HIDE DEF h
<1>4. h[N + 1] = IF p[N + 1].ip = x THEN Append(h[N], p[N + 1].dgram) ELSE h[N]
  BY <1>1, <1>3 DEF Collects
<1> QED BY <1>1, <1>2, <1>4, AllCollected, Zenon DEF p, N, h

\* What erase() takes away from the other hosts: nothing.
LEMMA EraseOther ==
  ASSUME NEW q \in Seq(Waiting), NEW i \in 1 .. Len(q), NEW x, q[i].ip # x
  PROVE  DatagramsFor(erase(q, i), x) = DatagramsFor(q, x)
<1> DEFINE p == erase(q, i)  N == Len(q)  g == Collected(q, x)  h == Collected(p, x)
           S == {m \in Nat : i + m <= N => h[(i + m) - 1] = g[i + m]}
<1>1. /\ p \in Seq(Waiting) /\ Len(p) = N - 1
      /\ \A j \in 1 .. N - 1 : p[j] = q[IF j < i THEN j ELSE j + 1]
  BY EraseIs, Zenon
<1>2. N \in Nat /\ i \in 1 .. N
  OBVIOUS
<1> HIDE DEF p
<1>3. Collects(g, q, x)
  BY CollectedIs, Zenon
<1>4. Collects(h, p, x)
  BY <1>1, CollectedIs, Zenon
<1>5. h[i - 1] = g[i - 1]
  <2>1. i - 1 \in Nat /\ i - 1 <= Len(q) /\ i - 1 <= Len(p)
    BY <1>1, <1>2
  <2>2. \A j \in 1 .. i - 1 : p[j] = q[j]
    BY <1>1, <1>2
  <2> QED BY <1>1, <2>1, <2>2, SameDatagrams, Zenon
<1> HIDE DEF g, h, N
<1>6. 0 \in S
  <2>1. g[i] = g[i - 1]
    BY <1>2, <1>3, Zenon DEF Collects, N
  <2> QED BY <1>2, <1>5, <2>1
<1>7. ASSUME NEW m \in Nat, m \in S PROVE m + 1 \in S
  <2> DEFINE k == i + m
  <2>1. k \in Nat /\ (i + (m + 1)) - 1 = k /\ i + (m + 1) = k + 1 /\ k >= i
    BY <1>2
  <2> SUFFICES ASSUME k + 1 <= N PROVE h[k] = g[k + 1]
    BY <2>1
  <2>2. h[k - 1] = g[k]
    BY <1>2, <1>7, <2>1
  <2> HIDE DEF k
  <2>3. k \in 1 .. Len(p) /\ k + 1 \in 1 .. N /\ (k + 1) - 1 = k /\ p[k] = q[k + 1]
    BY <1>1, <1>2, <2>1
  <2>4. h[k] = IF p[k].ip = x THEN Append(h[k - 1], p[k].dgram) ELSE h[k - 1]
    BY <1>4, <2>3, Zenon DEF Collects
  <2>5. g[k + 1] = IF q[k + 1].ip = x THEN Append(g[k], q[k + 1].dgram) ELSE g[k]
    BY <1>3, <2>3 DEF Collects, N
  <2> QED BY <2>2, <2>3, <2>4, <2>5, Zenon
<1> HIDE DEF S
<1>8. N - i \in S
  <2>1. \A n \in Nat : n \in S
    BY <1>6, <1>7, SetInduction
  <2> QED BY <1>2, <2>1
<1>9. h[N - 1] = g[N]
  BY <1>2, <1>8 DEF S
<1> QED BY <1>1, <1>9, AllCollected, Zenon DEF p, N, g, h

\* And from the host that is answered: the first of its datagrams, if none is before it.
LEMMA EraseFirst ==
  ASSUME NEW q \in Seq(Waiting), NEW i \in 1 .. Len(q), NEW x, q[i].ip = x, \A j \in 1 .. i - 1 : q[j].ip # x
  PROVE  DatagramsFor(q, x) = <<q[i].dgram>> \o DatagramsFor(erase(q, i), x)
<1> DEFINE p == erase(q, i)  N == Len(q)  g == Collected(q, x)  h == Collected(p, x)
           d == q[i].dgram
           S == {m \in Nat : i + m <= N => g[i + m] = <<d>> \o h[(i + m) - 1]}
<1>1. /\ p \in Seq(Waiting) /\ Len(p) = N - 1
      /\ \A j \in 1 .. N - 1 : p[j] = q[IF j < i THEN j ELSE j + 1]
  BY EraseIs, Zenon
<1>2. N \in Nat /\ i \in 1 .. N /\ d \in Nat
  BY WaitingIs, Zenon
<1> HIDE DEF p
<1>3. Collects(g, q, x)
  BY CollectedIs, Zenon
<1>4. Collects(h, p, x)
  BY <1>1, CollectedIs, Zenon
<1>5. g[i - 1] = <<>> /\ h[i - 1] = <<>>
  <2>1. i - 1 \in 0 .. Len(q) /\ i - 1 \in 0 .. Len(p)
    BY <1>1, <1>2
  <2>2. \A j \in 1 .. i - 1 : p[j].ip # x
    BY <1>1, <1>2
  <2> QED BY <1>1, <2>1, <2>2, NoDatagrams, Zenon
<1>6. \A n \in 0 .. Len(p) : h[n] \in Seq(Nat)
  BY <1>1, CollectedType, Zenon
<1> HIDE DEF g, h, N
<1>7. \A e \in Nat : <<e>> \in Seq(Nat) /\ Append(<<>>, e) = <<e>> /\ <<e>> \o <<>> = <<e>>
  OBVIOUS
<1>8. 0 \in S
  <2>1. g[i] = Append(g[i - 1], d)
    BY <1>2, <1>3, Zenon DEF Collects, N
  <2>2. g[i] = <<d>> \o h[i - 1]
    BY <1>2, <1>5, <1>7, <2>1, Zenon
  <2>3. i + 0 = i
    BY <1>2
  <2> QED BY <2>2, <2>3, Zenon
<1>9. ASSUME NEW m \in Nat, m \in S PROVE m + 1 \in S
  <2> DEFINE k == i + m
  <2>1. k \in Nat /\ (i + (m + 1)) - 1 = k /\ i + (m + 1) = k + 1 /\ k >= i
    BY <1>2
  <2> SUFFICES ASSUME k + 1 <= N PROVE g[k + 1] = <<d>> \o h[k]
    BY <2>1
  <2>2. g[k] = <<d>> \o h[k - 1]
    BY <1>2, <1>9, <2>1
  <2> HIDE DEF k
  <2>3. /\ k \in 1 .. Len(p) /\ k + 1 \in 1 .. N /\ (k + 1) - 1 = k /\ p[k] = q[k + 1]
        /\ k - 1 \in 0 .. Len(p)
    BY <1>1, <1>2, <2>1
  <2>4. h[k] = IF p[k].ip = x THEN Append(h[k - 1], p[k].dgram) ELSE h[k - 1]
    BY <1>4, <2>3, Zenon DEF Collects
  <2>5. g[k + 1] = IF q[k + 1].ip = x THEN Append(g[k], q[k + 1].dgram) ELSE g[k]
    BY <1>3, <2>3 DEF Collects, N
  <2>6. p[k].dgram \in Nat
    BY <1>1, <2>3, WaitingIs, Zenon
  <2>7. <<d>> \o Append(h[k - 1], p[k].dgram) = Append(<<d>> \o h[k - 1], p[k].dgram)
    <3>1. \A s, t \in Seq(Nat) : \A e \in Nat : s \o Append(t, e) = Append(s \o t, e)
      BY ConcatAppend, SMTT(30)
    <3> QED BY <1>2, <1>6, <1>7, <2>3, <2>6, <3>1, Zenon
  <2> QED BY <2>2, <2>3, <2>4, <2>5, <2>7, Zenon
<1> HIDE DEF S
<1>10. N - i \in S
  <2>1. \A n \in Nat : n \in S
    BY <1>8, <1>9, SetInduction
  <2> QED BY <1>2, <2>1
<1>11. g[N] = <<d>> \o h[N - 1]
  BY <1>2, <1>10 DEF S
<1> QED BY <1>1, <1>11, AllCollected, Zenon DEF p, N, g, h

-----------------------------------------------------------------------------

\* The rounds of flush().
Flushes(q, x) ==
  LET after[n \in 0 .. Len(q)] ==
        IF n = 0 THEN [list |-> q, i |-> 1, sent |-> <<>>] ELSE flush_step(after[n - 1], x)
  IN  after

\* Each is a step of the loop.
LEMMA FlushesIs ==
  ASSUME NEW q, NEW x, Len(q) \in Nat
  PROVE  /\ Flushes(q, x)[0] = [list |-> q, i |-> 1, sent |-> <<>>]
         /\ \A n \in 1 .. Len(q) : Flushes(q, x)[n] = flush_step(Flushes(q, x)[n - 1], x)
<1> DEFINE s == [list |-> q, i |-> 1, sent |-> <<>>]  N == Len(q)
           F(f, k) == f = [n \in 0 .. k |-> IF n = 0 THEN s ELSE flush_step(f[n - 1], x)]
           S == {k \in Nat : \E f : F(f, k)}
           g == Flushes(q, x)
<1>1. g = CHOOSE f : F(f, N)
  BY Zenon DEF Flushes
<1> HIDE DEF s, N, g
<1>2. 0 \in S
  <2>1. F([n \in 0 .. 0 |-> s], 0)
    OBVIOUS
  <2> QED BY <2>1, Zenon
<1>3. ASSUME NEW k \in Nat, k \in S PROVE k + 1 \in S
  <2>1. PICK f : F(f, k)
    BY <1>3
  <2> DEFINE h == [n \in 0 .. k + 1 |-> IF n <= k THEN f[n] ELSE flush_step(f[k], x)]
  <2>2. F(h, k + 1)
    <3>1. ASSUME NEW n \in 0 .. k + 1
          PROVE  h[n] = IF n = 0 THEN s ELSE flush_step(h[n - 1], x)
      BY <2>1
    <3> QED BY <3>1
  <2>3. k + 1 \in Nat
    OBVIOUS
  <2> HIDE DEF F, h
  <2> QED BY <2>2, <2>3
<1> HIDE DEF S
<1>4. \A n \in Nat : n \in S
  BY <1>2, <1>3, SetInduction
<1>5. \E f : F(f, N)
  BY <1>4, Zenon DEF S, N
<1> HIDE DEF F
<1>6. F(g, N)
  BY <1>1, <1>5, Zenon
<1>7. g[0] = s /\ \A n \in 1 .. N : g[n] = flush_step(g[n - 1], x)
  BY <1>6 DEF F, N
<1> QED BY <1>7, Zenon DEF s, N, g

\* The loop after n rounds over the list q: it has passed over no datagram for x, those it
\* has sent and those that are left are the ones there were, and the others are untouched.
Flushing(w, q, x, n) ==
  /\ w.list \in Seq(Waiting) /\ w.sent \in Seq(Nat) /\ w.i \in Nat \ {0}
  /\ Len(w.list) + n + 1 = Len(q) + w.i
  /\ \A j \in 1 .. Len(w.list) : \E k \in 1 .. Len(q) : w.list[j] = q[k]
  /\ \A j \in 1 .. w.i - 1 : w.list[j].ip # x
  /\ w.sent \o DatagramsFor(w.list, x) = DatagramsFor(q, x)
  /\ \A y : y # x => DatagramsFor(w.list, y) = DatagramsFor(q, y)

\* A round keeps this.
LEMMA FlushRound ==
  ASSUME NEW q \in Seq(Waiting), NEW x, NEW n \in Nat, n < Len(q), NEW w, Flushing(w, q, x, n)
  PROVE  Flushing(flush_step(w, x), q, x, n + 1)
<1> DEFINE l == w.list  i == w.i  t == w.sent  N == Len(q)  K == Len(l)  e == l[i]
           u == flush_step(w, x)
<1>1. /\ l \in Seq(Waiting) /\ t \in Seq(Nat) /\ i \in Nat \ {0}
      /\ K + n + 1 = N + i
      /\ \A j \in 1 .. K : \E k \in 1 .. N : l[j] = q[k]
      /\ \A j \in 1 .. i - 1 : l[j].ip # x
      /\ t \o DatagramsFor(l, x) = DatagramsFor(q, x)
      /\ \A y : y # x => DatagramsFor(l, y) = DatagramsFor(q, y)
  BY Zenon DEF Flushing
<1>2. N \in Nat /\ K \in Nat
  BY <1>1, WaitingIs, Zenon
<1>3. i \in 1 .. K /\ ~ (i > K) /\ i <= K
  <2> HIDE DEF N, K, i
  <2> QED BY <1>1, <1>2 DEF N
<1>4. CASE e.ip = x
  <2> DEFINE m == erase(l, i)  d == e.dgram
  <2>1. u = [list |-> m, i |-> i, sent |-> Append(t, d)]
    BY <1>3, <1>4, Zenon DEF flush_step
  <2>2. /\ m \in Seq(Waiting) /\ Len(m) = K - 1
        /\ \A j \in 1 .. K - 1 : m[j] = l[IF j < i THEN j ELSE j + 1]
    <3> HIDE DEF l, i
    <3> QED BY <1>1, <1>3, EraseIs
  <2>3. d \in Nat
    BY <1>1, <1>3, WaitingIs, Zenon
  <2>4. DatagramsFor(l, x) = <<d>> \o DatagramsFor(m, x)
    BY <1>1, <1>3, <1>4, EraseFirst, Zenon
  <2>5. \A y : y # x => DatagramsFor(m, y) = DatagramsFor(q, y)
    <3> SUFFICES ASSUME NEW y, y # x PROVE DatagramsFor(m, y) = DatagramsFor(q, y)
      OBVIOUS
    <3>1. l[i].ip # y
      BY <1>4
    <3> QED BY <1>1, <1>3, <3>1, EraseOther, Zenon
  <2> HIDE DEF m, d, l, i, t, K, N, u
  <2>6. DatagramsFor(m, x) \in Seq(Nat)
    BY <2>2, DatagramsForType, Zenon
  <2>7. Append(t, d) \o DatagramsFor(m, x) = DatagramsFor(q, x) /\ Append(t, d) \in Seq(Nat)
    <3>1. Append(t, d) \o DatagramsFor(m, x) = t \o (<<d>> \o DatagramsFor(m, x))
      <4>1. \A a, b \in Seq(Nat) : \A c \in Nat : Append(a, c) \o b = a \o (<<c>> \o b)
        BY ConcatMiddle, SMTT(30)
      <4> QED BY <1>1, <2>3, <2>6, <4>1, Zenon
    <3>2. Append(t, d) \in Seq(Nat)
      BY <1>1, <2>3, AppendIsSeq, Zenon
    <3> QED BY <1>1, <2>4, <3>1, <3>2, Zenon
  <2>8. Len(m) + (n + 1) + 1 = N + i
    BY <1>1, <1>2, <2>2
  <2>9. \A j \in 1 .. Len(m) : \E k \in 1 .. N : m[j] = q[k]
    <3> SUFFICES ASSUME NEW j \in 1 .. Len(m) PROVE \E k \in 1 .. N : m[j] = q[k]
      OBVIOUS
    <3>1. \E k \in 1 .. K : m[j] = l[k]
      BY <1>2, <2>2
    <3> QED BY <1>1, <3>1, Zenon
  <2>10. \A j \in 1 .. i - 1 : m[j].ip # x
    <3> SUFFICES ASSUME NEW j \in 1 .. i - 1 PROVE m[j].ip # x
      OBVIOUS
    <3>1. m[j] = l[j]
      BY <1>2, <1>3, <2>2
    <3> QED BY <1>1, <3>1, Zenon
  <2>11. u.list = m /\ u.i = i /\ u.sent = Append(t, d)
    BY <2>1
  <2> QED BY <1>1, <2>2, <2>5, <2>7, <2>8, <2>9, <2>10, <2>11, Zenon DEF Flushing, N, u
<1>5. CASE e.ip # x
  <2>1. u = [w EXCEPT !.i = i + 1]
    BY <1>3, <1>5, Zenon DEF flush_step
  <2>2. u.list = l /\ u.i = i + 1 /\ u.sent = t
    BY <2>1
  <2> HIDE DEF l, i, t, K, N, u
  <2>3. i + 1 \in Nat \ {0} /\ K + (n + 1) + 1 = N + (i + 1)
    BY <1>1, <1>2
  <2>4. \A j \in 1 .. (i + 1) - 1 : l[j].ip # x
    <3> SUFFICES ASSUME NEW j \in 1 .. (i + 1) - 1 PROVE l[j].ip # x
      OBVIOUS
    <3>1. j \in 1 .. i - 1 \/ j = i
      BY <1>1
    <3> QED BY <1>1, <1>5, <3>1, Zenon
  <2> QED BY <1>1, <2>2, <2>3, <2>4, Zenon DEF Flushing, N, K, u
<1> QED BY <1>4, <1>5, Zenon

\* The loop at its end: the datagrams for x are sent, all of them and in their order, and
\* the others are still in the list.
Flushed(w, q, x) ==
  /\ w.list \in Seq(Waiting) /\ w.sent \in Seq(Nat)
  /\ w.sent = DatagramsFor(q, x)
  /\ DatagramsFor(w.list, x) = <<>>
  /\ \A y : y # x => DatagramsFor(w.list, y) = DatagramsFor(q, y)
  /\ \A j \in 1 .. Len(w.list) : w.list[j].ip # x /\ \E k \in 1 .. Len(q) : w.list[j] = q[k]

\* This is what the loop of recv_frame() achieves.
LEMMA FlushIs == ASSUME NEW q \in Seq(Waiting), NEW x PROVE Flushed(flush(q, x), q, x)
<1> DEFINE N == Len(q)  g == Flushes(q, x)
           S == {n \in Nat : n <= N => Flushing(g[n], q, x, n)}
<1>1. N \in Nat
  BY WaitingIs, Zenon
<1>2. g[0] = [list |-> q, i |-> 1, sent |-> <<>>] /\ \A n \in 1 .. N : g[n] = flush_step(g[n - 1], x)
  BY <1>1, FlushesIs, Zenon
<1>3. flush(q, x) = g[N]
  BY Zenon DEF flush, Flushes
<1> HIDE DEF g
<1>4. 0 \in S
  <2>1. g[0].list = q /\ g[0].i = 1 /\ g[0].sent = <<>>
    BY <1>2
  <2>2. <<>> \in Seq(Nat) /\ <<>> \o DatagramsFor(q, x) = DatagramsFor(q, x)
    <3>1. DatagramsFor(q, x) \in Seq(Nat)
      BY DatagramsForType, Zenon
    <3> QED BY <3>1
  <2>3. 1 \in Nat \ {0} /\ N + 0 + 1 = N + 1 /\ 1 .. 1 - 1 = {}
    BY <1>1
  <2>4. Flushing(g[0], q, x, 0)
    BY <2>1, <2>2, <2>3, Zenon DEF Flushing
  <2> QED BY <2>4
<1>5. ASSUME NEW n \in Nat, n \in S PROVE n + 1 \in S
  <2> SUFFICES ASSUME n + 1 <= N PROVE Flushing(g[n + 1], q, x, n + 1)
    OBVIOUS
  <2>1. n < N /\ n + 1 \in 1 .. N /\ (n + 1) - 1 = n /\ Flushing(g[n], q, x, n)
    BY <1>1, <1>5
  <2>2. g[n + 1] = flush_step(g[n], x)
    BY <1>2, <2>1, Zenon
  <2> QED BY <2>1, <2>2, FlushRound, Zenon
<1> HIDE DEF S
<1>6. N \in S
  <2>1. \A n \in Nat : n \in S
    BY <1>4, <1>5, SetInduction
  <2> QED BY <1>1, <2>1
<1> DEFINE w == g[N]  l == w.list
<1>7. Flushing(w, q, x, N)
  BY <1>1, <1>6 DEF S
<1>8. /\ l \in Seq(Waiting) /\ w.sent \in Seq(Nat) /\ w.i \in Nat
      /\ Len(l) + N + 1 = N + w.i
      /\ \A j \in 1 .. Len(l) : \E k \in 1 .. Len(q) : l[j] = q[k]
      /\ \A j \in 1 .. w.i - 1 : l[j].ip # x
      /\ w.sent \o DatagramsFor(l, x) = DatagramsFor(q, x)
      /\ \A y : y # x => DatagramsFor(l, y) = DatagramsFor(q, y)
  BY <1>7, Zenon DEF Flushing
<1> HIDE DEF w, l
<1>9. w.i - 1 = Len(l) /\ Len(l) \in 0 .. Len(l)
  <2>1. Len(l) \in Nat
    BY <1>8, WaitingIs, Zenon
  <2> QED BY <1>1, <1>8, <2>1
<1>10. DatagramsFor(l, x) = <<>>
  BY <1>8, <1>9, NoDatagrams, AllCollected, Zenon
<1>11. w.sent = DatagramsFor(q, x)
  BY <1>8, <1>10, ConcatEmpty, Zenon
<1>12. Flushed(w, q, x)
  BY <1>8, <1>9, <1>10, <1>11, Zenon DEF l, Flushed
<1> QED BY <1>3, <1>12, Zenon DEF w

-----------------------------------------------------------------------------

\* The invariants hold in the state that the constructor leaves.
LEMMA InitTypeOK == InterfaceInit => TypeOK
<1> SUFFICES ASSUME InterfaceInit PROVE TypeOK
  OBVIOUS
<1>1. Unheard \in [eth : EthernetAddress \union {OwnEth}, ago : 0 .. arp_entry_default_ttl]
  BY InterfaceAssumption DEF Unheard
<1>2. <<>> \in Seq(Nat)
  OBVIOUS
<1>3. Resolved = {} /\ Pending = {}
  BY DEF InterfaceInit, Resolved, Pending
<1>4. arp_table \in [Resolved -> Entry] /\ waiting \in [Pending -> 1 .. arp_response_default_ttl]
  BY <1>3 DEF InterfaceInit, waiting
<1>5. /\ waiting_arp_internet_datagrams \in Seq(Waiting)
      /\ accepted \in [IP -> Seq(Nat)] /\ sent \in [IP -> Seq(Nat)]
  BY <1>2 DEF InterfaceInit
<1>6. heard \in [IP -> [eth : EthernetAddress \union {OwnEth}, ago : 0 .. arp_entry_default_ttl]]
  BY <1>1 DEF InterfaceInit
<1>7. hung \in BOOLEAN /\ asked \in [IP -> Nat]
  BY Zenon DEF InterfaceInit
<1> QED BY <1>3, <1>4, <1>5, <1>6, <1>7 DEF TypeOK, waiting

\* send_datagram() keeps the types.
LEMMA SendTypeOK == ASSUME TypeOK, NEW ip \in IP, SendDatagram(ip) PROVE TypeOK'
<1> USE InterfaceAssumption DEF TypeOK, Resolved, Pending, Entry
<1> DEFINE dgram == Len(accepted[ip]) + 1
<1>1. dgram \in Nat /\ accepted' \in [IP -> Seq(Nat)]
  BY SMTT(60) DEF SendDatagram
<1>2. Resolved' \subseteq IP /\ arp_table' \in [Resolved' -> Entry] /\ hung' \in BOOLEAN /\ heard' = heard
  BY DEF SendDatagram
<1>3. CASE SendKnown(ip, dgram)
  <2>1. sent' \in [IP -> Seq(Nat)]
    <3>1. sent[ip] \in Seq(Nat) /\ dgram \in Nat
      BY <1>1
    <3>2. Append(sent[ip], dgram) \in Seq(Nat)
      BY <3>1, AppendIsSeq
    <3> QED BY <1>3, <3>2 DEF SendKnown
  <2>2. waiting' = waiting /\ queue' = queue /\ asked' = asked
    BY <1>3 DEF SendKnown, waiting, queue
  <2> QED BY <1>1, <1>2, <2>1, <2>2, SMTT(60) DEF queue, waiting
<1>4. CASE SendUnknown(ip, dgram)
  <2>1. queue' \in Seq(Waiting) /\ sent' = sent
    <3>1. queue \in Seq(Waiting) /\ [ip |-> ip, dgram |-> dgram] \in Waiting
      BY <1>1 DEF queue, Waiting
    <3>2. queue' = Append(queue, [ip |-> ip, dgram |-> dgram]) /\ sent' = sent
      BY <1>4, Zenon DEF SendUnknown, queue
    <3> HIDE DEF TypeOK, dgram
    <3> QED BY <3>1, <3>2, AppendIsSeq, Zenon
  <2>2. asked' \in [IP -> Nat]
    <3>1. asked' = asked \/ asked' = [asked EXCEPT ![ip] = 0]
      BY <1>4, Zenon DEF SendUnknown
    <3>2. asked \in [IP -> Nat]
      OBVIOUS
    <3> HIDE DEF TypeOK
    <3> QED BY <3>1, <3>2
  <2>3. Pending' \subseteq IP /\ waiting' \in [Pending' -> 1 .. arp_response_default_ttl]
    <3>1. waiting' = waiting \/ waiting' = Assign(waiting, ip, arp_response_default_ttl)
      BY <1>4 DEF SendUnknown, waiting
    <3>2. arp_response_default_ttl \in 1 .. arp_response_default_ttl
      OBVIOUS
    <3>3. CASE waiting' = waiting
      BY <3>3 DEF waiting
    <3>4. CASE waiting' = Assign(waiting, ip, arp_response_default_ttl)
      BY <3>2, <3>4, SMTT(60) DEF waiting, Assign
    <3> QED BY <3>1, <3>3, <3>4
  <2> QED BY <1>1, <1>2, <2>1, <2>2, <2>3, Zenon DEF queue, waiting
<1> QED BY <1>3, <1>4, Zenon DEF SendDatagram

\* What recv_frame() does to the containers when it learns a mapping.
LEMMA LearnTypeOK ==
  ASSUME TypeOK, NEW ip \in IP, NEW eth \in EthernetAddress, NEW reply, Learn(ip, eth, reply),
         UNCHANGED <<hung, accepted, asked>>
  PROVE  TypeOK'
<1> USE InterfaceAssumption DEF TypeOK, Resolved, Pending, Entry
<1>1. Resolved' \subseteq IP /\ arp_table' \in [Resolved' -> Entry]
  BY DEF Learn, Assign
<1>2. Pending' \subseteq IP /\ waiting' \in [Pending' -> 1 .. arp_response_default_ttl]
  BY DEF Learn, Erase, waiting
<1>3. queue' \in Seq(Waiting) /\ sent' \in [IP -> Seq(Nat)]
  <2>1. queue \in Seq(Waiting) /\ sent \in [IP -> Seq(Nat)]
    BY Zenon DEF queue
  <2>2. /\ flush(queue, ip).list \in Seq(Waiting)
        /\ flush(queue, ip).sent \in Seq(Nat)
    <3>1. Flushed(flush(queue, ip), queue, ip)
      BY <2>1, FlushIs, Zenon
    <3> QED BY <3>1, Zenon DEF Flushed
  <2>3. queue' = flush(queue, ip).list /\ sent' = [sent EXCEPT ![ip] = @ \o flush(queue, ip).sent]
    BY Zenon DEF Learn, queue
  <2> HIDE DEF TypeOK, queue
  <2> QED BY <2>1, <2>2, <2>3, ConcatIsSeq
<1>4. heard' \in [IP -> [eth : EthernetAddress \union {OwnEth}, ago : 0 .. arp_entry_default_ttl]]
  BY DEF Learn
<1> QED BY <1>1, <1>2, <1>3, <1>4, SMTT(60) DEF queue, waiting

\* A message that is not for this host changes nothing; any other is learnt from.
LEMMA RecvCases ==
  ASSUME NEW frame \in ARPFrame, RecvARP(frame)
  PROVE  /\ UNCHANGED <<hung, accepted, asked>>
         /\ \/ \E ip \in IP, eth \in EthernetAddress : \E reply : Learn(ip, eth, reply)
            \/ UNCHANGED <<arp_table, waiting_arp_response_ip_addr, waiting_arp_internet_datagrams, sent, heard>>
  BY DEF RecvARP, ARPFrame

\* tick() keeps the types: no time to live goes below one.
LEMMA TickTypeOK == ASSUME TypeOK, NEW ms \in InterfaceTickSizes, InterfaceTick(ms) PROVE TypeOK'
<1> USE InterfaceAssumption DEF TypeOK, Resolved, Pending, Entry
<1>0. ms \in Nat
  OBVIOUS
<1>1. Resolved' \subseteq IP /\ arp_table' \in [Resolved' -> Entry]
  <2>1. arp_table' = [ip \in { i \in Resolved : ~ expired(arp_table[i].ttl, ms) } |->
                        [eth |-> arp_table[ip].eth, ttl |-> arp_table[ip].ttl - ms]]
    BY DEF InterfaceTick
  <2>2. Resolved' = { i \in Resolved : ~ expired(arp_table[i].ttl, ms) }
    BY <2>1
  <2>3. ASSUME NEW ip \in Resolved'
        PROVE  /\ arp_table'[ip].eth \in EthernetAddress
               /\ arp_table'[ip].ttl \in 1 .. arp_entry_default_ttl
               /\ arp_table'[ip] \in Entry
    BY <1>0, <2>1, <2>2, <2>3, SMTT(60) DEF expired
  <2> QED BY <2>1, <2>2, <2>3
<1>2. Pending' \subseteq IP /\ waiting' \in [Pending' -> 1 .. arp_response_default_ttl]
  <2>1. CASE hung'
    BY <2>1, Zenon DEF InterfaceTick, waiting
  <2>2. CASE ~ hung'
    <3>1. waiting' = [ip \in Pending |-> reasked(waiting[ip], ms)]
      BY <2>2 DEF InterfaceTick, waiting
    <3>2. ASSUME NEW ip \in Pending PROVE reasked(waiting[ip], ms) \in 1 .. arp_response_default_ttl
      <4>1. expired(waiting[ip], ms) => ms < arp_response_default_ttl
        <5>1. ~ ({ i \in Pending : expired(waiting[i], ms) } # {} /\ ms >= arp_response_default_ttl)
          BY <2>2, Zenon DEF InterfaceTick, waiting
        <5> QED BY <1>0, <5>1
      <4> QED BY <1>0, <4>1, SMTT(60) DEF reasked, expired, waiting
    <3> QED BY <3>1, <3>2 DEF waiting
  <2> QED BY <2>1, <2>2
<1>3. heard' \in [IP -> [eth : EthernetAddress \union {OwnEth}, ago : 0 .. arp_entry_default_ttl]]
  <2>1. heard' = [ip \in IP |-> [eth |-> heard[ip].eth, ago |-> Elapsed(heard[ip].ago, ms)]]
    BY DEF InterfaceTick
  <2> QED BY <1>0, <2>1, SMTT(60) DEF Elapsed
<1>4. asked' \in [IP -> Nat]
  <2>1. asked' = [ip \in IP |-> IF ip \in { i \in Pending : expired(waiting[i], ms) } THEN 0
                               ELSE IF ip \in Pending THEN asked[ip] + ms ELSE asked[ip]]
    BY DEF InterfaceTick, waiting
  <2> QED BY <1>0, <2>1, SMTT(60)
<1>5. hung' \in BOOLEAN
  BY Zenon DEF InterfaceTick
<1> QED BY <1>1, <1>2, <1>3, <1>4, <1>5, Zenon DEF InterfaceTick, waiting

\* Every call keeps the types.
LEMMA NextTypeOK == TypeOK /\ [InterfaceNext]_interfaceVars => TypeOK'
<1> SUFFICES ASSUME TypeOK, [InterfaceNext]_interfaceVars PROVE TypeOK'
  OBVIOUS
<1>1. ASSUME NEW frame \in ARPFrame, RecvARP(frame) PROVE TypeOK'
  BY <1>1, RecvCases, LearnTypeOK, ZenonT(60) DEF TypeOK, Resolved, Pending
<1>2. CASE UNCHANGED interfaceVars
  BY <1>2 DEF interfaceVars, TypeOK, Resolved, Pending
<1> QED BY <1>1, <1>2, SendTypeOK, TickTypeOK DEF InterfaceNext

\* The containers keep their types and no time to live goes below zero, whatever
\* datagrams, ARP messages and ticks come in whatever order.
THEOREM InterfaceTypeCorrect == InterfaceSpec => []TypeOK
  BY InitTypeOK, NextTypeOK, PTL DEF InterfaceSpec

-----------------------------------------------------------------------------

\* A next hop joins and leaves the three containers consistently.
LEMMA NextWaitsForAnswer == TypeOK /\ WaitsForAnswer /\ [InterfaceNext]_interfaceVars => WaitsForAnswer'
<1> SUFFICES ASSUME TypeOK, WaitsForAnswer, [InterfaceNext]_interfaceVars PROVE WaitsForAnswer'
  OBVIOUS
<1> USE DEF WaitsForAnswer, Resolved, Pending
<1>1. ASSUME NEW ip \in IP, SendDatagram(ip) PROVE WaitsForAnswer'
  <2> DEFINE dgram == Len(accepted[ip]) + 1
  <2>1. CASE SendKnown(ip, dgram)
    BY <1>1, <2>1 DEF SendDatagram, SendKnown
  <2>2. CASE SendUnknown(ip, dgram)
    <3>1. Pending' = Pending \union {ip} /\ Resolved' = Resolved /\ ip \notin Resolved
      BY <1>1, <2>2, Zenon DEF SendDatagram, SendUnknown, Assign
    <3>2. queue \in Seq(Waiting) /\ [ip |-> ip, dgram |-> dgram] \in Waiting
      BY DEF TypeOK, queue, Waiting
    <3>3. queue' = Append(queue, [ip |-> ip, dgram |-> dgram])
      BY <2>2, Zenon DEF SendUnknown, queue
    <3>4. \A n \in 1 .. Len(queue) : queue[n].ip \in Pending
      BY Zenon DEF queue
    <3> HIDE DEF queue, dgram, Pending, Resolved, WaitsForAnswer
    <3>5. \A n \in 1 .. Len(queue') : queue'[n].ip \in Pending \union {ip}
      BY <3>2, <3>3, <3>4
    <3> QED BY <3>1, <3>5, Zenon DEF queue, WaitsForAnswer
  <2> QED BY <1>1, <2>1, <2>2 DEF SendDatagram
<1>2. ASSUME NEW ip \in IP, NEW eth \in EthernetAddress, NEW reply, Learn(ip, eth, reply)
      PROVE  WaitsForAnswer'
  <2>1. Resolved' = Resolved \union {ip} /\ Pending' = Pending \ {ip}
    BY <1>2 DEF Learn, Assign, Erase
  <2>2. queue' = flush(queue, ip).list /\ queue \in Seq(Waiting)
    BY <1>2, Zenon DEF Learn, queue, TypeOK
  <2>3. \A n \in 1 .. Len(queue) : queue[n].ip \in Pending
    BY Zenon DEF queue
  <2> HIDE DEF queue, Pending, Resolved
  <2>4. \A n \in 1 .. Len(queue') : queue'[n].ip # ip /\ \E k \in 1 .. Len(queue) : queue'[n] = queue[k]
    <3>1. Flushed(flush(queue, ip), queue, ip)
      BY <2>2, FlushIs, Zenon
    <3> QED BY <2>2, <3>1, Zenon DEF Flushed
  <2>5. \A n \in 1 .. Len(queue') : queue'[n].ip \in Pending'
    BY <2>1, <2>3, <2>4, Zenon
  <2>6. Resolved' \intersect Pending' = {}
    BY <2>1, Zenon
  <2> QED BY <2>5, <2>6, Zenon DEF queue
<1>3. ASSUME NEW frame \in ARPFrame, RecvARP(frame) PROVE WaitsForAnswer'
  BY <1>2, <1>3, RecvCases
<1>4. ASSUME NEW ms \in InterfaceTickSizes, InterfaceTick(ms) PROVE WaitsForAnswer'
  <2>1. Resolved' \subseteq Resolved /\ Pending' = Pending /\ queue' = queue
    BY <1>4 DEF InterfaceTick, queue
  <2> QED BY <2>1 DEF queue
<1>5. CASE UNCHANGED interfaceVars
  BY <1>5 DEF interfaceVars
<1> QED BY <1>1, <1>3, <1>4, <1>5 DEF InterfaceNext

\* A datagram never waits without a request under way, and no address is both known
\* and asked for: no datagram is forgotten because nobody asks for its hop.
THEOREM DatagramsWaitForAnAnswer == InterfaceSpec => []WaitsForAnswer
<1>1. InterfaceInit => WaitsForAnswer
  BY DEF InterfaceInit, WaitsForAnswer, Resolved, Pending
<1> QED BY <1>1, NextWaitsForAnswer, InterfaceTypeCorrect, PTL DEF InterfaceSpec

-----------------------------------------------------------------------------

\* The invariants that NothingLost needs: a datagram overtakes none, because the
\* queue of a next hop whose address is known is empty.
LEMMA NextNothingLost == TypeOK /\ WaitsForAnswer /\ NothingLost /\ [InterfaceNext]_interfaceVars => NothingLost'
<1> SUFFICES ASSUME TypeOK, WaitsForAnswer, NothingLost, [InterfaceNext]_interfaceVars, NEW ip \in IP
             PROVE  sent'[ip] \o DatagramsFor(queue', ip) = accepted'[ip]
  BY Zenon DEF NothingLost, queue
<1> DEFINE held == DatagramsFor(queue, ip)
<1>0. queue \in Seq(Waiting) /\ held \in Seq(Nat)
  <2>1. queue \in Seq(Waiting)
    BY Zenon DEF TypeOK, queue
  <2> QED BY <2>1, DatagramsForType, Zenon
<1>1. /\ sent[ip] \in Seq(Nat) /\ held \in Seq(Nat) /\ accepted[ip] \in Seq(Nat)
      /\ sent[ip] \o held = accepted[ip]
  <2>1. sent[ip] \in Seq(Nat) /\ accepted[ip] \in Seq(Nat)
    BY SMTT(60) DEF TypeOK
  <2> QED BY <1>0, <2>1, Zenon DEF NothingLost, queue
<1> HIDE DEF held
<1>2. ASSUME NEW to \in IP, SendDatagram(to) PROVE sent'[ip] \o held' = accepted'[ip]
  <2> DEFINE dgram == Len(accepted[to]) + 1
  <2>1. dgram \in Nat
    BY DEF TypeOK
  <2>2. accepted'[ip] = IF ip = to THEN Append(accepted[ip], dgram) ELSE accepted[ip]
    BY <1>2 DEF SendDatagram, TypeOK
  <2>3. CASE SendKnown(to, dgram)
    <3> HIDE DEF dgram
    <3>1. ip = to => held = <<>>
      <4> SUFFICES ASSUME ip = to PROVE held = <<>>
        OBVIOUS
      <4>1. \A n \in 1 .. Len(queue) : queue[n].ip # ip
        BY <2>3, Zenon DEF SendKnown, WaitsForAnswer, queue
      <4>2. Len(queue) \in 0 .. Len(queue)
        BY <1>0
      <4> QED BY <1>0, <4>1, <4>2, NoDatagrams, AllCollected, Zenon DEF held
    <3>2. held' = held /\ sent'[ip] = IF ip = to THEN Append(sent[ip], dgram) ELSE sent[ip]
      BY <2>3 DEF SendKnown, TypeOK, queue, held
    <3>3. ip = to => accepted[ip] = sent[ip] /\ sent'[ip] \in Seq(Nat)
      <4>1. sent[ip] \o <<>> = sent[ip] /\ Append(sent[ip], dgram) \in Seq(Nat)
        BY <1>1, <2>1, ConcatEmpty, AppendIsSeq, Zenon
      <4> QED BY <1>1, <3>1, <3>2, <4>1, Zenon
    <3> QED BY <1>1, <2>2, <3>1, <3>2, <3>3, ConcatEmpty, ZenonT(60)
  <2>4. CASE SendUnknown(to, dgram)
    <3>1. sent'[ip] = sent[ip] /\ held' = IF to = ip THEN Append(held, dgram) ELSE held
      <4> DEFINE e == [ip |-> to, dgram |-> dgram]
      <4>1. sent' = sent /\ queue' = Append(queue, e)
        BY <2>4, Zenon DEF SendUnknown, queue
      <4> HIDE DEF dgram
      <4>2. e \in Waiting /\ e.ip = to /\ e.dgram = dgram
        BY <2>1 DEF Waiting
      <4> HIDE DEF e
      <4>3. DatagramsFor(Append(queue, e), ip) =
              IF e.ip = ip THEN Append(DatagramsFor(queue, ip), e.dgram) ELSE DatagramsFor(queue, ip)
        BY <1>0, <4>2, AppendDatagram
      <4> QED BY <4>1, <4>2, <4>3, Zenon DEF held
    <3>2. sent[ip] \o Append(held, dgram) = Append(sent[ip] \o held, dgram)
      <4> HIDE DEF dgram
      <4>1. \A s, t \in Seq(Nat) : \A e \in Nat : s \o Append(t, e) = Append(s \o t, e)
        BY ConcatAppend, SMTT(30)
      <4> QED BY <1>1, <2>1, <4>1, Zenon
    <3> QED BY <1>1, <2>2, <3>1, <3>2, Zenon
  <2> QED BY <1>2, <2>3, <2>4, Zenon DEF SendDatagram
<1>3. ASSUME NEW src \in IP, NEW eth \in EthernetAddress, NEW reply, Learn(src, eth, reply), accepted' = accepted
      PROVE  sent'[ip] \o held' = accepted'[ip]
  <2>1. queue' = flush(queue, src).list /\ sent' = [sent EXCEPT ![src] = @ \o flush(queue, src).sent]
    BY <1>3, Zenon DEF Learn, queue
  <2>2. Flushed(flush(queue, src), queue, src)
    BY <1>0, FlushIs, Zenon
  <2>3. sent'[ip] = IF ip = src THEN sent[ip] \o held ELSE sent[ip]
    <3>1. ip = src => flush(queue, src).sent = held
      BY <2>2, Zenon DEF Flushed, held
    <3>2. sent'[ip] = IF ip = src THEN sent[ip] \o flush(queue, src).sent ELSE sent[ip]
      BY <2>1 DEF TypeOK
    <3> QED BY <3>1, <3>2, Zenon
  <2>4. held' = IF ip = src THEN <<>> ELSE held
    <3>1. ip # src => DatagramsFor(flush(queue, src).list, ip) = held
      BY <2>2, Zenon DEF Flushed, held
    <3>2. ip = src => DatagramsFor(flush(queue, src).list, ip) = <<>>
      BY <2>2, Zenon DEF Flushed
    <3>3. held' = DatagramsFor(flush(queue, src).list, ip)
      BY <2>1, Zenon DEF held
    <3> QED BY <3>1, <3>2, <3>3, Zenon
  <2>5. (sent[ip] \o held) \o <<>> = sent[ip] \o held
    BY <1>1, ConcatEmpty, ConcatIsSeq, Zenon
  <2> QED BY <1>1, <1>3, <2>3, <2>4, <2>5, Zenon
<1>4. ASSUME NEW frame \in ARPFrame, RecvARP(frame) PROVE sent'[ip] \o held' = accepted'[ip]
  BY <1>1, <1>3, <1>4, RecvCases, Zenon DEF queue, held
<1>5. ASSUME NEW ms \in InterfaceTickSizes, InterfaceTick(ms) PROVE sent'[ip] \o held' = accepted'[ip]
  <2>1. sent' = sent /\ queue' = queue /\ accepted' = accepted
    BY <1>5 DEF InterfaceTick, queue
  <2> QED BY <1>1, <2>1, ZenonT(60) DEF held
<1>6. CASE UNCHANGED interfaceVars
  BY <1>1, <1>6, Zenon DEF interfaceVars, queue, held
<1> QED BY <1>2, <1>4, <1>5, <1>6, Zenon DEF InterfaceNext, held

\* Every datagram is sent exactly once and in its turn, or still waits.
THEOREM NoDatagramIsLost == InterfaceSpec => []NothingLost
<1>1. InterfaceInit => NothingLost
  <2>1. <<>> \in Seq(Nat) /\ <<>> \o <<>> = <<>>
    BY EmptyIsSeq, ConcatEmpty, Zenon
  <2>2. \A ip \in IP : DatagramsFor(<<>>, ip) = <<>>
    <3>1. <<>> \in Seq(Waiting) /\ Len(<<>>) = 0
      OBVIOUS
    <3> QED BY <3>1, CollectedIs, AllCollected, Zenon DEF Collects
  <2> QED BY <2>1, <2>2, Zenon DEF InterfaceInit, NothingLost
<1> QED BY <1>1, NextNothingLost, InterfaceTypeCorrect, DatagramsWaitForAnAnswer, PTL DEF InterfaceSpec

-----------------------------------------------------------------------------

\* An entry is made when a message is heard, and the two grow old together.
LEMMA NextMappingIsFresh == TypeOK /\ MappingIsFresh /\ [InterfaceNext]_interfaceVars => MappingIsFresh'
<1> SUFFICES ASSUME TypeOK, MappingIsFresh, [InterfaceNext]_interfaceVars PROVE MappingIsFresh'
  OBVIOUS
<1>1. ASSUME NEW ip \in IP, SendDatagram(ip) PROVE MappingIsFresh'
  BY <1>1 DEF SendDatagram, MappingIsFresh, Resolved
<1>2. ASSUME NEW src \in IP, NEW eth \in EthernetAddress, NEW reply, Learn(src, eth, reply)
      PROVE  MappingIsFresh'
  <2>1. /\ arp_table' = Assign(arp_table, src, [eth |-> eth, ttl |-> arp_entry_default_ttl])
        /\ heard' = [heard EXCEPT ![src] = [eth |-> eth, ago |-> 0]]
    BY <1>2 DEF Learn
  <2> QED BY <2>1, InterfaceAssumption, SMTT(60) DEF Assign, MappingIsFresh, Resolved, TypeOK
<1>3. ASSUME NEW frame \in ARPFrame, RecvARP(frame) PROVE MappingIsFresh'
  BY <1>2, <1>3, RecvCases DEF MappingIsFresh, Resolved
<1>4. ASSUME NEW ms \in InterfaceTickSizes, InterfaceTick(ms) PROVE MappingIsFresh'
  <2>1. arp_table' = [ip \in { i \in Resolved : ~ expired(arp_table[i].ttl, ms) } |->
                        [eth |-> arp_table[ip].eth, ttl |-> arp_table[ip].ttl - ms]]
    BY <1>4, SMTT(60) DEF InterfaceTick
  <2>2. heard' = [ip \in IP |-> [eth |-> heard[ip].eth, ago |-> Elapsed(heard[ip].ago, ms)]]
    BY <1>4 DEF InterfaceTick
  <2>3. ms \in Nat /\ arp_entry_default_ttl \in Nat
    BY InterfaceAssumption
  <2> SUFFICES ASSUME NEW ip \in IP
               PROVE  /\ ip \in Resolved' <=> heard'[ip].ago < arp_entry_default_ttl
                      /\ ip \in Resolved' => /\ arp_table'[ip].eth = heard'[ip].eth
                                          /\ arp_table'[ip].ttl + heard'[ip].ago = arp_entry_default_ttl
    BY DEF MappingIsFresh
  <2>4. /\ heard[ip].ago \in 0 .. arp_entry_default_ttl
        /\ ip \in Resolved <=> heard[ip].ago < arp_entry_default_ttl
        /\ ip \in Resolved => /\ arp_table[ip].ttl \in 1 .. arp_entry_default_ttl
                           /\ arp_table[ip].eth = heard[ip].eth
                           /\ arp_table[ip].ttl + heard[ip].ago = arp_entry_default_ttl
    BY DEF TypeOK, MappingIsFresh, Entry
  <2>5. ip \in Resolved' <=> ip \in Resolved /\ arp_table[ip].ttl > ms
    BY <2>1, <2>3, <2>4 DEF Resolved, expired
  <2>6. heard'[ip].ago = Elapsed(heard[ip].ago, ms) /\ heard'[ip].eth = heard[ip].eth
    BY <2>2
  <2>7. ip \in Resolved' => arp_table'[ip].ttl = arp_table[ip].ttl - ms /\ arp_table'[ip].eth = arp_table[ip].eth
    BY <2>1 DEF Resolved
  <2> QED BY <2>3, <2>4, <2>5, <2>6, <2>7, SMTT(60) DEF Elapsed
<1>5. CASE UNCHANGED interfaceVars
  BY <1>5 DEF interfaceVars, MappingIsFresh, Resolved
<1> QED BY <1>1, <1>3, <1>4, <1>5 DEF InterfaceNext

\* A mapping is used for exactly the default time to live after the host was last
\* heard, and with the address that it then gave.
THEOREM MappingsAreFresh == InterfaceSpec => []MappingIsFresh
<1>1. InterfaceInit => MappingIsFresh
  <2> SUFFICES ASSUME InterfaceInit PROVE MappingIsFresh
    OBVIOUS
  <2>1. Resolved = {}
    BY DEF InterfaceInit, Resolved
  <2>2. ASSUME NEW ip \in IP PROVE heard[ip].ago = arp_entry_default_ttl
    BY DEF InterfaceInit, Unheard
  <2>3. ASSUME NEW ip \in IP PROVE ~ (heard[ip].ago < arp_entry_default_ttl)
    BY <2>2, InterfaceAssumption
  <2> QED BY <2>1, <2>3, Zenon DEF MappingIsFresh
<1> QED BY <1>1, NextMappingIsFresh, InterfaceTypeCorrect, PTL DEF InterfaceSpec

-----------------------------------------------------------------------------

\* The time since a request and the time until its repetition add up to no more
\* than the time a request stays pending.
LEMMA NextRepeatedInTime == TypeOK /\ RepeatedInTime /\ [InterfaceNext]_interfaceVars => RepeatedInTime'
<1> SUFFICES ASSUME TypeOK, RepeatedInTime, [InterfaceNext]_interfaceVars, ~ hung', NEW ip \in Pending'
             PROVE  asked'[ip] + waiting'[ip] <= arp_response_default_ttl
  BY DEF RepeatedInTime, waiting
<1> DEFINE InTime == asked'[ip] + waiting'[ip] <= arp_response_default_ttl
<1>0. arp_response_default_ttl \in Nat
  BY InterfaceAssumption
<1>1. ASSUME NEW to \in IP, SendDatagram(to) PROVE InTime
  <2> DEFINE dgram == Len(accepted[to]) + 1
  <2>1. CASE SendKnown(to, dgram)
    BY <1>1, <2>1 DEF SendDatagram, SendKnown, RepeatedInTime, Pending, waiting
  <2>2. CASE SendUnknown(to, dgram)
    <3>1. CASE UNCHANGED <<waiting_arp_response_ip_addr, asked>>
      BY <1>1, <3>1 DEF SendDatagram, RepeatedInTime, Pending, waiting
    <3>2. CASE /\ waiting' = Assign(waiting, to, arp_response_default_ttl)
               /\ asked' = [asked EXCEPT ![to] = 0]
               /\ hung' = hung
      <4>1. ip = to => asked'[ip] = 0 /\ waiting'[ip] = arp_response_default_ttl
        BY <3>2 DEF TypeOK, Assign, waiting
      <4>2. ip # to => ip \in Pending /\ asked'[ip] = asked[ip] /\ waiting'[ip] = waiting[ip]
        BY <3>2 DEF TypeOK, Assign, waiting, Pending
      <4> QED BY <1>0, <3>2, <4>1, <4>2 DEF RepeatedInTime, waiting
    <3> QED BY <1>1, <2>2, <3>1, <3>2, SMTT(30) DEF SendDatagram, SendUnknown, waiting
  <2> QED BY <1>1, <2>1, <2>2, SMTT(60) DEF SendDatagram
<1>2. ASSUME NEW frame \in ARPFrame, RecvARP(frame) PROVE InTime
  <2>1. ip \in Pending /\ waiting'[ip] = waiting[ip] /\ asked' = asked /\ hung' = hung
    <3>1. hung' = hung /\ asked' = asked
      BY <1>2, RecvCases
    <3>2. (\E src : waiting' = Erase(waiting, src)) \/ waiting' = waiting
      BY <1>2, RecvCases, ZenonT(60) DEF Learn, waiting
    <3> QED BY <3>1, <3>2, Zenon DEF Erase, waiting, Pending
  <2> QED BY <2>1, Zenon DEF RepeatedInTime, waiting
<1>3. ASSUME NEW ms \in InterfaceTickSizes, InterfaceTick(ms) PROVE InTime
  <2>1. ms \in Nat
    BY InterfaceAssumption
  <2>2. waiting' = [i \in Pending |-> reasked(waiting[i], ms)] /\ ~ hung
    BY <1>3 DEF InterfaceTick, waiting
  <2>3. asked' = [j \in IP |-> IF j \in { i \in Pending : expired(waiting[i], ms) } THEN 0
                              ELSE IF j \in Pending THEN asked[j] + ms ELSE asked[j]]
    BY <1>3 DEF InterfaceTick, waiting
  <2>4. ip \in Pending /\ ip \in IP /\ waiting[ip] \in 1 .. arp_response_default_ttl /\ asked[ip] \in Nat
    BY <2>2 DEF TypeOK, Pending, waiting
  <2>5. asked[ip] + waiting[ip] <= arp_response_default_ttl
    BY <2>2, <2>4 DEF RepeatedInTime, waiting
  <2>6. CASE expired(waiting[ip], ms)
    <3>1. asked'[ip] = 0 /\ waiting'[ip] = arp_response_default_ttl - ms
      BY <2>2, <2>3, <2>4, <2>6 DEF reasked
    <3> QED BY <1>0, <2>1, <3>1
  <2>7. CASE ~ expired(waiting[ip], ms)
    <3>1. asked'[ip] = asked[ip] + ms /\ waiting'[ip] = waiting[ip] - ms
      BY <2>2, <2>3, <2>4, <2>7 DEF reasked
    <3> QED BY <1>0, <2>1, <2>4, <2>5, <3>1
  <2> QED BY <2>6, <2>7
<1>4. CASE UNCHANGED interfaceVars
  BY <1>4, Zenon DEF interfaceVars, RepeatedInTime, Pending, waiting
<1> QED BY <1>1, <1>2, <1>3, <1>4 DEF InterfaceNext

\* A request for an address that is still wanted is repeated in time.
THEOREM RequestsAreRepeated == InterfaceSpec => []RepeatedInTime
<1>1. InterfaceInit => RepeatedInTime
  BY Zenon DEF InterfaceInit, RepeatedInTime, Pending
<1> QED BY <1>1, NextRepeatedInTime, InterfaceTypeCorrect, PTL DEF InterfaceSpec

-----------------------------------------------------------------------------

\* A segment that a call of the owner has left in segments_out: one that takes up
\* new sequence numbers, the oldest outstanding one, or one that takes up none.
Emitted(s, t) ==
  \A i \in 1 .. Len(t.segments_out) :
    \/ \E p \in s.next_seqno .. t.next_seqno : Carries(t, t.segments_out[i], p)
    \/ s.outstanding_segments # <<>> /\ t.segments_out[i] = Head(s.outstanding_segments)
    \/ t.segments_out[i].seqno = wrap(s.next_seqno, s.isn)

\* What a call does to the sender.
Step(s, t) ==
  /\ SenderOK(t)
  /\ t.isn = s.isn
  /\ s.confirmed_seqno <= t.confirmed_seqno
  /\ t.confirmed_seqno <= s.next_seqno
  /\ s.next_seqno < t.next_seqno => t.next_seqno <= t.confirmed_seqno + logical_window(t)
  /\ Emitted(s, t)

\* The owner has emptied segments_out.
LEMMA DrainedKeeps ==
  ASSUME SenderOK(sender)
  PROVE  SenderOK(Drained) /\ SameQueue(sender, Drained) /\ Drained.stream = sender.stream
         /\ Drained.segments_out = <<>>
<1>1. <<>> \in Seq(SegmentRecord)
  OBVIOUS
<1> QED BY <1>1, DrainedIs, Zenon DEF Drained

\* The numbers of a sender.
LEMMA Numbers ==
  ASSUME NEW s, SenderOK(s)
  PROVE  /\ s \in SenderRecord /\ s.isn \in SeqNo /\ s.next_seqno \in Nat /\ s.confirmed_seqno \in Nat
         /\ s.confirmed_seqno <= s.next_seqno /\ s.next_seqno <= s.confirmed_seqno + Quarter
<1>1. /\ s \in SenderRecord /\ s.confirmed_seqno <= s.next_seqno
      /\ s.next_seqno <= s.confirmed_seqno + Quarter
  BY Zenon DEF SenderOK, SenderInv, QueueInv
<1> QED BY <1>1 DEF SenderRecord

\* A handler that starts without segments leaves only new ones.
LEMMA EmittedNew ==
  ASSUME NEW s, NEW u, NEW t, SameQueue(s, u), u.segments_out = <<>>, NewSegments(u, t)
  PROVE  Emitted(s, t)
<1>1. \A i \in 1 .. Len(u.segments_out) : FALSE
  <2>1. Len(<<>>) = 0
    OBVIOUS
  <2> QED BY <2>1
<1> QED BY <1>1, Zenon DEF NewSegments, Emitted, SameQueue

\* So does a call that moves the sender on.
LEMMA StepMoved ==
  ASSUME NEW s, NEW u, NEW t, SameQueue(s, u), u.segments_out = <<>>, Moved(u, t), SenderOK(t)
  PROVE  Step(s, t)
<1>1. Emitted(s, t)
  BY EmittedNew, Zenon DEF Moved
<1> QED BY <1>1, Zenon DEF Step, Moved, SameQueue

\* A call that changes neither the queue nor the numbers, and leaves at most one
\* segment.
LEMMA StepSame ==
  ASSUME NEW s, NEW u, NEW t, SenderOK(s), SenderOK(t), SameQueue(s, u), SameQueue(u, t),
         u.segments_out = <<>>, NEW x \in SegmentRecord,
         t.segments_out = <<>> \/ t.segments_out = Append(<<>>, x),
         \/ t.segments_out = <<>>
         \/ s.outstanding_segments # <<>> /\ x = Head(s.outstanding_segments)
         \/ x.seqno = wrap(s.next_seqno, s.isn)
  PROVE  Step(s, t)
<1>1. Emitted(s, t)
  <2>1. CASE t.segments_out = <<>>
    <3>1. \A i \in 1 .. Len(t.segments_out) : FALSE
      BY <2>1
    <3> QED BY <3>1, Zenon DEF Emitted
  <2>2. CASE t.segments_out = Append(<<>>, x)
    <3>1. \A i \in 1 .. Len(t.segments_out) : t.segments_out[i] = x
      BY <2>2
    <3>2. t.segments_out # <<>>
      <4>1. <<>> \in Seq(SegmentRecord)
        OBVIOUS
      <4> QED BY <2>2, <4>1, AppendNonEmpty, Zenon
    <3> QED BY <3>1, <3>2, Zenon DEF Emitted
  <2> QED BY <2>1, <2>2
<1>2. t.next_seqno = s.next_seqno /\ t.confirmed_seqno = s.confirmed_seqno /\ t.isn = s.isn
  BY Zenon DEF SameQueue
<1>3. /\ s.confirmed_seqno <= t.confirmed_seqno /\ t.confirmed_seqno <= s.next_seqno
      /\ ~ (s.next_seqno < t.next_seqno)
  BY <1>2, Numbers
<1> QED BY <1>1, <1>2, <1>3, Zenon DEF Step

\* The window is filled, whatever the owner did to the stream before.
LEMMA StepFill ==
  ASSUME NEW s, NEW u, NEW v, SenderOK(s), SameQueue(s, u), SameQueue(u, v), v.segments_out = <<>>,
         SenderInv(v), TimerInv(v)
  PROVE  Step(s, fill_window(v))
<1> USE Zenon
<1> DEFINE t == fill_window(v)
<1>1. SenderInv(t) /\ Sent(v, t) /\ MovingInv(t)
  BY FillWindowKeeps
<1> HIDE DEF t
<1>2. SenderOK(t) /\ Moved(v, t)
  BY <1>1, SentMoved DEF SenderOK, Sent
<1>3. SameQueue(s, v)
  BY DEF SameQueue
<1> QED BY <1>2, <1>3, StepMoved DEF t

\* Every call of the owner keeps the invariant.
LEMMA NextSteps ==
  ASSUME SenderOK(sender), Next
  PROVE  Step(sender, sender')
<1> USE Zenon
<1> DEFINE d == Drained
<1>1. SenderOK(d) /\ SameQueue(sender, d) /\ d.stream = sender.stream /\ d.segments_out = <<>>
  BY DrainedKeeps
<1>2. d \in SenderRecord /\ d.stream \in StreamRecord /\ StreamInv(d.stream)
      /\ SenderInv(d) /\ TimerInv(d)
  BY <1>1 DEF SenderOK, SenderInv, QueueInv, NumberedInv, StreamInv
<1>3. SameQueue(d, d)
  BY DEF SameQueue
<1>4. CASE FillWindow
  BY <1>1, <1>2, <1>3, <1>4, StepFill DEF FillWindow
<1>5. ASSUME NEW n \in 1 .. MaxBytes, Write(n) PROVE Step(sender, sender')
  <2> DEFINE bs == write(d.stream, Bytes(d.stream.bytes_written + 1, d.stream.bytes_written + n))
             v == [d EXCEPT !.stream = bs]
  <2>1. n \in Nat
    BY MachineAssumption, SMT
  <2>2. StreamInv(bs) /\ bs.bytes_read = d.stream.bytes_read
    BY <1>2, <2>1, StreamWrite
  <2>3. sender' = fill_window(v)
    <3>1. sender' = fill_window([Drained EXCEPT !.stream = write(@,
                       Bytes(sender.stream.bytes_written + 1, sender.stream.bytes_written + n))])
      BY <1>5 DEF Write
    <3> HIDE DEF bs
    <3>2. v = [d EXCEPT !.stream = write(@,
                       Bytes(sender.stream.bytes_written + 1, sender.stream.bytes_written + n))]
      BY <1>1, <1>2 DEF bs
    <3> QED BY <3>1, <3>2
  <2>4. ~ d.fin_sent
    <3>1. ~ d.stream.input_ended
      BY <1>1, <1>5 DEF Write
    <3> QED BY <1>2, <3>1 DEF SenderInv, NumberedInv, eof
  <2> HIDE DEF bs
  <2>5. SenderInv(v) /\ TimerInv(v) /\ SameQueue(d, v) /\ v.segments_out = <<>>
    BY <1>1, <2>2, <2>4, SenderStream
  <2> QED BY <1>1, <2>3, <2>5, StepFill
<1>6. CASE EndInput
  <2> DEFINE bs == end_input(d.stream)
             v == [d EXCEPT !.stream = bs]
  <2>1. StreamInv(bs) /\ bs.bytes_read = d.stream.bytes_read
    BY <1>2, StreamEnd
  <2>2. sender' = fill_window(v)
    BY <1>6 DEF EndInput
  <2>3. d.fin_sent => eof(bs) /\ bs.bytes_written = d.stream.bytes_written
    <3>1. d.fin_sent => buffer_empty(d.stream)
      BY <1>2 DEF SenderInv, NumberedInv, eof
    <3>2. /\ bs.stream = d.stream.stream /\ bs.bytes_written = d.stream.bytes_written
          /\ bs.input_ended = TRUE
      BY <1>2, SMT DEF end_input, StreamRecord
    <3> QED BY <3>1, <3>2 DEF eof, buffer_empty
  <2> HIDE DEF bs
  <2>4. SenderInv(v) /\ TimerInv(v) /\ SameQueue(d, v) /\ v.segments_out = <<>>
    BY <1>1, <2>1, <2>3, SenderStream
  <2> QED BY <1>1, <2>2, <2>4, StepFill
<1>7. ASSUME NEW number \in SeqNo, NEW w \in Windows, AckReceived(number, w)
      PROVE  Step(sender, sender')
  <2>1. w \in 0 .. Quarter
    BY MachineAssumption DEF Quarter
  <2>2. SenderOK(ack_received(d, number, w)) /\ Moved(d, ack_received(d, number, w))
    BY <1>1, <2>1, AckReceivedKeeps
  <2>3. sender' = ack_received(d, number, w)
    BY <1>7 DEF AckReceived
  <2> QED BY <1>1, <2>2, <2>3, StepMoved
<1>8. ASSUME NEW ms \in TickSizes, Tick(ms) PROVE Step(sender, sender')
  <2> DEFINE t == sender_tick(d, ms)
  <2>1. ms \in Nat
    BY MachineAssumption, SMT
  <2>2. sender' = t
    BY <1>8 DEF Tick
  <2>3. /\ SenderOK(t) /\ SameQueue(d, t)
        /\ \/ t.segments_out = <<>>
           \/ /\ d.outstanding_segments # <<>>
              /\ t.segments_out = Append(<<>>, Head(d.outstanding_segments))
    BY <1>1, <2>1, SenderTick
  <2> HIDE DEF t
  <2>4. d.outstanding_segments = sender.outstanding_segments
    BY <1>1 DEF SameQueue
  <2>5. CASE t.segments_out = <<>>
    BY <1>1, <2>2, <2>3, <2>5, BlankSegmentIs, StepSame
  <2>6. CASE d.outstanding_segments # <<>>
             /\ t.segments_out = Append(<<>>, Head(d.outstanding_segments))
    <3>1. d.outstanding_segments \in Seq(SegmentRecord)
      BY <1>2, SMT DEF SenderRecord
    <3>2. Head(d.outstanding_segments) \in SegmentRecord
      BY <2>6, <3>1, HeadTailIs
    <3> QED BY <1>1, <2>2, <2>3, <2>4, <2>6, <3>2, StepSame
  <2> QED BY <2>3, <2>5, <2>6
<1>9. CASE SendEmptySegment
  <2> DEFINE t == send_empty_segment(d)
             x == [BlankSegment EXCEPT !.seqno = wrap(d.next_seqno, d.isn)]
  <2>1. sender' = t
    BY <1>9 DEF SendEmptySegment
  <2>2. /\ SenderOK(t) /\ SameQueue(d, t) /\ t.segments_out = Append(<<>>, x)
        /\ x \in SegmentRecord /\ x.seqno = wrap(d.next_seqno, d.isn)
    BY <1>1, SendEmpty
  <2> HIDE DEF t, x
  <2>3. x.seqno = wrap(sender.next_seqno, sender.isn)
    BY <1>1, <2>2 DEF SameQueue
  <2> QED BY <1>1, <2>1, <2>2, <2>3, StepSame
<1> QED BY <1>4, <1>5, <1>6, <1>7, <1>8, <1>9 DEF Next

\* The invariant holds whatever the application, the peer and the clock do.
THEOREM SenderSafe == Spec => []SenderOK(sender)
<1>1. Init => SenderOK(sender)
  <2>1. send_capacity \in Nat /\ Isn \in SeqNo
    BY MachineAssumption
  <2> QED BY <2>1, NewSender, Zenon DEF Init
<1>2. SenderOK(sender) /\ [Next]_sender => SenderOK(sender)'
  <2>1. ASSUME SenderOK(sender), Next PROVE SenderOK(sender)'
    BY <2>1, NextSteps, Zenon DEF Step
  <2> QED BY <2>1, Zenon
<1> QED BY <1>1, <1>2, PTL DEF Spec

-----------------------------------------------------------------------------

\* The chain of the outstanding segments, in the terms of the properties.
LEMMA Queue ==
  ASSUME SenderOK(sender)
  PROVE  \E pos : /\ IsChain(sender, pos)
                  /\ Len(Outstanding) \in Nat /\ Outstanding \in Seq(SegmentRecord)
                  /\ \A i \in 1 .. Len(Outstanding) + 1 : pos[i] \in Nat /\ pos[i] <= sender.next_seqno
                  /\ \A i \in 1 .. Len(Outstanding) :
                       Start(Outstanding[i]) = pos[i] /\ End(Outstanding[i]) = pos[i + 1]
                  /\ sequence_space(Outstanding, Len(Outstanding))
                       = pos[Len(Outstanding) + 1] - pos[1]
<1> USE Zenon
<1>1. QueueInv(sender)
  BY DEF SenderOK, SenderInv
<1>2. PICK pos : IsChain(sender, pos)
  BY <1>1 DEF QueueInv, IsChain
<1> DEFINE q == sender.outstanding_segments
<1>3. /\ Len(q) \in Nat /\ q \in Seq(SegmentRecord)
      /\ \A i \in 1 .. Len(q) + 1 : pos[i] \in Nat /\ pos[i] <= sender.next_seqno
      /\ \A i \in 1 .. Len(q) :
           /\ unwrap(q[i].seqno, sender.isn, sender.next_seqno) = pos[i]
           /\ outstanding_ackno(sender, q[i]) = pos[i + 1]
      /\ \A k \in 0 .. Len(q) : sequence_space(q, k) = pos[k + 1] - pos[1]
  BY <1>1, <1>2, ChainIs
<1>4. Len(q) \in 0 .. Len(q)
  BY <1>3, SMT
<1>5. sequence_space(q, Len(q)) = pos[Len(q) + 1] - pos[1]
  BY <1>3, <1>4
<1>6. \A i \in 1 .. Len(q) : Start(q[i]) = pos[i] /\ End(q[i]) = pos[i + 1]
  BY <1>3 DEF Start, End, outstanding_ackno
<1> HIDE DEF q
<1> QED BY <1>2, <1>3, <1>5, <1>6 DEF Outstanding, q

\* UnackedIsOutstanding: the queue holds what has not been acknowledged, without a
\* gap or an overlap, whatever send_tcp_segment() and ack_received() did to it.
THEOREM UnackedIsOutstandingHolds == Spec => []UnackedIsOutstanding
<1>1. ASSUME SenderOK(sender) PROVE UnackedIsOutstanding
  <2> DEFINE q == Outstanding
             l == Len(q)
  <2>1. PICK pos : /\ IsChain(sender, pos) /\ l \in Nat /\ q \in Seq(SegmentRecord)
                   /\ \A i \in 1 .. l + 1 : pos[i] \in Nat /\ pos[i] <= sender.next_seqno
                   /\ \A i \in 1 .. l : Start(q[i]) = pos[i] /\ End(q[i]) = pos[i + 1]
    BY <1>1, Queue, Zenon
  <2>2. /\ \A i \in 1 .. l : Carries(sender, q[i], pos[i])
        /\ \A i, j \in 1 .. l + 1 : i < j => pos[i] < pos[j]
        /\ pos[l + 1] = sender.next_seqno
        /\ pos[1] <= sender.confirmed_seqno
        /\ l > 0 => sender.confirmed_seqno < pos[2]
    BY <2>1, Zenon DEF IsChain, Chain, Outstanding
  <2>3. l = 0 <=> q = <<>>
    BY <2>1, EmptyIsShort, Zenon
  <2>4. /\ sender.next_seqno \in Nat /\ sender.confirmed_seqno \in Nat
        /\ sender.confirmed_seqno <= sender.next_seqno
    BY <1>1, Numbers
  <2> HIDE DEF q, l
  <2>5. CASE l = 0
    <3>1. pos[1] = sender.next_seqno
      BY <2>2, <2>5
    <3>2. sender.confirmed_seqno = sender.next_seqno
      BY <2>2, <2>4, <3>1
    <3> QED BY <2>3, <2>5, <3>2, Zenon DEF UnackedIsOutstanding, q
  <2>6. CASE l # 0
    <3>1. l > 0 /\ 1 \in 1 .. l /\ l \in 1 .. l /\ 1 + 1 = 2
      BY <2>1, <2>6
    <3>2. Start(q[1]) <= sender.confirmed_seqno /\ sender.confirmed_seqno < End(q[1])
          /\ End(q[l]) = sender.next_seqno
      BY <2>1, <2>2, <3>1, Zenon
    <3>3. ASSUME NEW i \in 1 .. l - 1 PROVE End(q[i]) = Start(q[i + 1])
      <4>1. i \in 1 .. l /\ i + 1 \in 1 .. l
        BY <2>1
      <4> QED BY <2>1, <4>1, Zenon
    <3>4. ASSUME NEW i \in 1 .. l
          PROVE  /\ q[i].payload = Bytes(Start(q[i]), Start(q[i]) + Len(q[i].payload) - 1)
                 /\ q[i].syn <=> Start(q[i]) = 0
                 /\ q[i].fin => i = l
      <4>1. Carries(sender, q[i], pos[i]) /\ Start(q[i]) = pos[i] /\ End(q[i]) = pos[i + 1]
        BY <2>1, <2>2, Zenon
      <4>2. q[i].fin => pos[i + 1] = sender.next_seqno
        BY <4>1, Zenon DEF Carries, End
      <4>3. ASSUME pos[i + 1] = sender.next_seqno PROVE i = l
        <5>1. i + 1 \in 1 .. l + 1 /\ l + 1 \in 1 .. l + 1 /\ (i # l => i + 1 < l + 1)
          BY <2>1
        <5>2. i # l => pos[i + 1] < pos[l + 1]
          BY <2>2, <5>1, Zenon
        <5>3. pos[i + 1] = pos[l + 1] /\ pos[l + 1] \in Nat
          BY <2>2, <2>4, <4>3
        <5> QED BY <5>2, <5>3
      <4> QED BY <4>1, <4>2, <4>3, Zenon DEF Carries
    <3> QED BY <2>3, <2>6, <3>2, <3>3, <3>4, Zenon DEF UnackedIsOutstanding, q, l
  <2> QED BY <2>5, <2>6
<1> QED BY <1>1, SenderSafe, PTL

\* InFlightIsOutstanding: bytes_in_flight() is what the queue takes up, although
\* send_tcp_segment() and ack_received() count it separately.
THEOREM InFlightIsOutstandingHolds == Spec => []InFlightIsOutstanding
<1>1. ASSUME SenderOK(sender) PROVE InFlightIsOutstanding
  <2>1. PICK pos : /\ IsChain(sender, pos)
                   /\ sequence_space(Outstanding, Len(Outstanding))
                        = pos[Len(Outstanding) + 1] - pos[1]
    BY <1>1, Queue, Zenon
  <2> QED BY <2>1, Zenon DEF IsChain, Chain, Outstanding, InFlightIsOutstanding
<1> QED BY <1>1, SenderSafe, PTL

\* TimerRunsIffOutstanding: no segment is outstanding without the timer that sends it
\* again.
THEOREM TimerRunsIffOutstandingHolds == Spec => []TimerRunsIffOutstanding
<1>1. ASSUME SenderOK(sender) PROVE TimerRunsIffOutstanding
  BY <1>1, Zenon DEF SenderOK, TimerInv, TimerRunsIffOutstanding, Outstanding
<1> QED BY <1>1, SenderSafe, PTL

\* NothingStranded: although ack_received() fills the window only when the queue has
\* become empty, nothing written waits with nothing outstanding.
THEOREM NothingStrandedHolds == Spec => []NothingStranded
<1>1. ASSUME SenderOK(sender) PROVE NothingStranded
  BY <1>1, Zenon DEF SenderOK, MovingInv, NothingStranded, Outstanding
<1> QED BY <1>1, SenderSafe, PTL

\* FinFollowsLastByte: both places of fill_window() that send FIN number it after the
\* last byte of the stream.
THEOREM FinFollowsLastByteHolds == Spec => []FinFollowsLastByte
<1>1. ASSUME SenderOK(sender) PROVE FinFollowsLastByte
  BY <1>1, Zenon DEF SenderOK, SenderInv, NumberedInv, FinFollowsLastByte
<1> QED BY <1>1, SenderSafe, PTL

\* WithinWindow: no call sends for the first time what the receiver has no room for.
THEOREM WithinWindowHolds == Spec => WithinWindow
<1>1. ASSUME SenderOK(sender), [Next]_sender
      PROVE  [sender'.next_seqno > sender.next_seqno =>
                sender'.next_seqno <= sender'.confirmed_seqno + logical_window(sender')]_sender
  <2>1. CASE Next
    <3>1. Step(sender, sender')
      BY <1>1, <2>1, NextSteps, Zenon
    <3>2. sender.next_seqno \in Nat /\ sender'.next_seqno \in Nat
      BY <1>1, <3>1, Numbers DEF Step
    <3>3. sender'.next_seqno > sender.next_seqno => sender.next_seqno < sender'.next_seqno
      BY <3>2
    <3> QED BY <3>1, <3>3, Zenon DEF Step
  <2>2. CASE sender' = sender
    BY <2>2
  <2> QED BY <1>1, <2>1, <2>2
<1> QED BY <1>1, SenderSafe, PTL DEF Spec, WithinWindow

\* ResendsOldest: what a call sends again covers the oldest number that has not been
\* acknowledged.
THEOREM ResendsOldestHolds == Spec => ResendsOldest
<1> USE Zenon
<1>1. ASSUME SenderOK(sender), Next, NEW i \in 1 .. Len(sender'.segments_out),
             Start(sender'.segments_out[i]) < sender.next_seqno
      PROVE  LET seg == sender'.segments_out[i]
             IN  Start(seg) <= sender.confirmed_seqno /\ sender.confirmed_seqno < End(seg)
  <2> DEFINE seg == sender'.segments_out[i]
             n == sender.next_seqno
             next == sender'.next_seqno
  <2>1. Step(sender, sender')
    BY <1>1, NextSteps
  <2>2. /\ n \in Nat /\ sender.isn \in SeqNo /\ next \in Nat /\ sender'.confirmed_seqno \in Nat
        /\ next <= sender'.confirmed_seqno + Quarter
    BY <1>1, <2>1, Numbers, SMT DEF Step
  <2>3. sender'.confirmed_seqno <= n
    BY <2>1 DEF Step
  <2>4. Quarter \in Nat /\ 2 * Quarter <= Half /\ Half \in Nat \ {0}
    BY QuarterIs, HalfIsHalf, SMT
  <2>5. sender'.isn = sender.isn
    BY <2>1 DEF Step
  <2>6. \/ \E p \in n .. next : Carries(sender', seg, p)
        \/ Outstanding # <<>> /\ seg = Head(Outstanding)
        \/ seg.seqno = wrap(n, sender.isn)
    BY <1>1, <2>1 DEF Step, Emitted, Outstanding
  <2>7. Start(seg) < n
    BY <1>1
  <2> HIDE DEF seg, n, next
  <2>8. ASSUME NEW p \in Nat, n <= p, p <= n + Quarter, seg.seqno = wrap(p, sender.isn) PROVE FALSE
    <3>1. p - n < Half /\ n - p < Half
      BY <2>2, <2>4, <2>8, SMT
    <3>2. unwrap(wrap(p, sender.isn), sender.isn, n) = p
      BY <2>2, <3>1, UnwrapOfWrap
    <3>3. Start(seg) = p
      BY <2>8, <3>2 DEF Start, n
    <3>4. p < n
      BY <2>7, <3>3
    <3> QED BY <2>2, <2>8, <3>4, SMT
  <2>9. ~ (seg.seqno = wrap(n, sender.isn))
    <3>1. n <= n /\ n <= n + Quarter
      BY <2>2, <2>4, SMT
    <3> QED BY <2>2, <2>8, <3>1
  <2>10. ~ (\E p \in n .. next : Carries(sender', seg, p))
    <3> SUFFICES ASSUME NEW p \in n .. next, Carries(sender', seg, p) PROVE FALSE
      BY SMT
    <3>1. p \in Nat /\ n <= p /\ p <= n + Quarter
      BY <2>2, <2>3, <2>4, SMT
    <3>2. seg.seqno = wrap(p, sender.isn)
      BY <2>5 DEF Carries
    <3> QED BY <2>8, <3>1, <3>2
  <2>11. Outstanding # <<>> /\ seg = Head(Outstanding)
    BY <2>6, <2>9, <2>10
  <2>12. PICK pos : /\ IsChain(sender, pos) /\ Len(Outstanding) \in Nat
                    /\ Outstanding \in Seq(SegmentRecord)
                    /\ \A j \in 1 .. Len(Outstanding) :
                         Start(Outstanding[j]) = pos[j] /\ End(Outstanding[j]) = pos[j + 1]
    BY <1>1, Queue
  <2>13. Len(Outstanding) > 0 /\ 1 \in 1 .. Len(Outstanding) /\ 1 + 1 = 2
    <3>1. Len(Outstanding) # 0
      BY <2>11, <2>12, EmptyIsShort
    <3> QED BY <2>12, <3>1, SMT
  <2>14. seg = Outstanding[1]
    BY <2>11, <2>12, SMT
  <2>15. pos[1] <= sender.confirmed_seqno /\ sender.confirmed_seqno < pos[2]
    BY <2>12, <2>13 DEF IsChain, Chain, Outstanding
  <2>16. Start(seg) <= sender.confirmed_seqno /\ sender.confirmed_seqno < End(seg)
    BY <2>12, <2>13, <2>14, <2>15
  <2> QED BY <2>16, SMT DEF seg
<1>2. ASSUME SenderOK(sender), [Next]_sender
      PROVE  [\A i \in 1 .. Len(sender'.segments_out) :
                LET seg == sender'.segments_out[i]
                IN  Start(seg) < sender.next_seqno =>
                      Start(seg) <= sender.confirmed_seqno /\ sender.confirmed_seqno < End(seg)]_sender
  BY <1>1, <1>2
<1> QED BY <1>2, SenderSafe, PTL DEF Spec, ResendsOldest
=============================================================================
