----------------------------- MODULE StreamLemmas ------------------------------
(***************************************************************************)
(* Facts that the proofs about the components share: induction over the    *)
(* natural numbers, division with remainder and the sequence numbers built *)
(* on it, sequences, the consecutive bytes that stand for a part of a      *)
(* stream, byte streams and segments.  Then what a StreamReassembler and a *)
(* TCPReceiver that are given parts of one stream of L bytes hold, at      *)
(* first and after the application has read from the output.               *)
(***************************************************************************)
EXTENDS StreamInvariants, WellFoundedInduction, TLAPS

\* A nonempty set of natural numbers has a least element.
LEMMA LeastElement ==
  ASSUME NEW T, T \subseteq Nat, T # {}
  PROVE  \E x \in T : \A y \in T : x <= y
<1> DEFINE R == OpToRel(<, Nat)
<1>1. IsWellFoundedOn(R, Nat)
  BY NatLessThanWellFounded, Zenon
<1>2. \A i, j \in Nat : i < j => <<i, j>> \in R
  BY DEF OpToRel
<1> HIDE DEF R
<1>3. PICK x \in T : \A y \in T : ~ (<<y, x>> \in R)
  BY <1>1, WFMin, Zenon
<1>4. ASSUME NEW y \in T PROVE x <= y
  <2>1. x \in Nat /\ y \in Nat /\ ~ (<<y, x>> \in R)
    BY <1>3
  <2>2. ~ (y < x)
    BY <1>2, <2>1
  <2> QED BY <2>1, <2>2
<1> QED BY <1>4

\* Induction: a set that holds 0 and the successor of each natural number in it
\* holds all of them.  A predicate is proved by induction through the set of the
\* numbers that satisfy it.
LEMMA SetInduction ==
  ASSUME NEW S, 0 \in S, \A n \in Nat : n \in S => n + 1 \in S
  PROVE  \A n \in Nat : n \in S
<1> DEFINE T == Nat \ S
<1>1. SUFFICES ASSUME T # {} PROVE FALSE
  OBVIOUS
<1>2. PICK x \in T : \A y \in T : x <= y
  BY <1>1, LeastElement, Zenon
<1>3. x # 0 /\ x \in Nat /\ x - 1 \in Nat
  BY <1>2
<1>4. x - 1 \notin T
  BY <1>2, <1>3
<1>5. (x - 1) + 1 \in S
  BY <1>3, <1>4
<1> QED BY <1>2, <1>3, <1>5

-----------------------------------------------------------------------------

\* Division with remainder.
LEMMA ModDivides ==
  ASSUME NEW a \in Int, NEW m \in Nat \ {0}
  PROVE  a = m * (a \div m) + (a % m) /\ a \div m \in Int /\ a % m \in 0 .. m - 1
  OBVIOUS

\* The remainder of a division is unique.
LEMMA ModUnique ==
  ASSUME NEW q \in Int, NEW m \in Nat \ {0}, NEW r \in 0 .. m - 1
  PROVE  (m * q + r) % m = r
  OBVIOUS

\* Numbers a multiple apart have the same remainder ...
LEMMA ModShift ==
  ASSUME NEW a \in Int, NEW b \in Int, NEW m \in Nat \ {0}, \E k \in Int : b = a + m * k
  PROVE  b % m = a % m
<1>0. PICK k \in Int : b = a + m * k
  OBVIOUS
<1> DEFINE q == (a \div m) + k
           r == a % m
<1>1. a = m * (a \div m) + r /\ a \div m \in Int /\ r \in 0 .. m - 1
  BY ModDivides
<1>2. q \in Int /\ b = m * q + r
  <2>1. m * q = m * (a \div m) + m * k
    BY <1>1
  <2> QED BY <1>0, <1>1, <2>1
<1> HIDE DEF q, r
<1>3. (m * q + r) % m = r
  BY <1>1, <1>2, ModUnique, Zenon
<1> QED BY <1>2, <1>3 DEF r

\* ... and numbers with the same remainder are a multiple apart.
LEMMA ModEqual ==
  ASSUME NEW a \in Int, NEW b \in Int, NEW m \in Nat \ {0}, a % m = b % m
  PROVE  \E k \in Int : b = a + m * k
<1>1. /\ a = m * (a \div m) + (a % m) /\ a \div m \in Int
      /\ b = m * (b \div m) + (b % m) /\ b \div m \in Int
      /\ a % m \in Int
  BY ModDivides
<1> WITNESS (b \div m) - (a \div m) \in Int
<1>2. m * ((b \div m) - (a \div m)) = m * (b \div m) - m * (a \div m)
  BY <1>1
<1> QED BY <1>1, <1>2

\* A remainder is a multiple away from the number.
LEMMA ModIs ==
  ASSUME NEW a \in Int, NEW m \in Nat \ {0}
  PROVE  a % m \in 0 .. m - 1 /\ \E k \in Int : a % m = a + m * k
<1> DEFINE q == a \div m
           r == a % m
<1>1. a = m * q + r /\ q \in Int /\ r \in 0 .. m - 1
  BY ModDivides
<1> HIDE DEF q, r
<1>2. m * (-q) = -(m * q) /\ m * q \in Int /\ -q \in Int
  BY <1>1
<1>3. r = a + m * (-q)
  BY <1>1, <1>2
<1> QED BY <1>1, <1>2, <1>3, Zenon DEF r

\* A nonzero multiple of m is at least m away from zero.
LEMMA Multiple ==
  ASSUME NEW m \in Nat \ {0}, NEW k \in Int
  PROVE  /\ m * k \in Int
         /\ k >= 1 => m * k >= m
         /\ k <= -1 => m * k <= -m
         /\ k = 0 => m * k = 0
<1>1. k >= 1 => m * (k - 1) >= 0
  OBVIOUS
<1>2. k <= -1 => m * (-1 - k) >= 0
  OBVIOUS
<1>3. m * (k - 1) = m * k - m /\ m * (-1 - k) = -m - m * k
  OBVIOUS
<1> QED BY <1>1, <1>2, <1>3

\* The sequence space has an even size.
LEMMA HalfIsHalf == SeqSize \in Nat \ {0} /\ Half \in Nat \ {0} /\ SeqSize = 2 * Half
  BY SeqSizeAssumption DEF Half

\* The signed distance of two 32-bit numbers is, up to a multiple of the size, that
\* of the absolute numbers they stand for, and at most half the size.
LEMMA DistanceCongruent ==
  ASSUME NEW n \in Nat, NEW c \in Nat, NEW i \in SeqNo
  PROVE  LET d == distance(wrap(n, i), wrap(c, i))
         IN  /\ d \in -Half .. Half - 1
             /\ \E k \in Int : d = n - c + SeqSize * k
<1> USE HalfIsHalf
<1> DEFINE wn == wrap(n, i)
           wc == wrap(c, i)
           e  == (wn - wc) % SeqSize
           d  == distance(wn, wc)
<1>0. i \in Int /\ i + n \in Int /\ i + c \in Int
  BY DEF SeqNo
<1>1. wn \in Int /\ wc \in Int
  BY <1>0, ModDivides DEF wrap
<1>2. PICK k1 \in Int : wn = i + n + SeqSize * k1
  BY <1>0, ModIs, Zenon DEF wrap
<1>3. PICK k2 \in Int : wc = i + c + SeqSize * k2
  BY <1>0, ModIs, Zenon DEF wrap
<1> HIDE DEF wn, wc
<1>4. wn - wc \in Int /\ e \in 0 .. SeqSize - 1
  BY <1>1, ModIs
<1>5. PICK k3 \in Int : e = wn - wc + SeqSize * k3
  BY <1>4, ModIs, Zenon
<1>6. d = IF e >= Half THEN e - SeqSize ELSE e
  BY DEF distance
<1> HIDE DEF d, e
<1>7. d \in -Half .. Half - 1
  BY <1>4, <1>6
<1>8. SeqSize * (k1 - k2 + k3) = SeqSize * k1 - SeqSize * k2 + SeqSize * k3
  OBVIOUS
<1>9. SeqSize * (k1 - k2 + k3 - 1) = SeqSize * k1 - SeqSize * k2 + SeqSize * k3 - SeqSize
  OBVIOUS
<1>10. /\ SeqSize * k1 \in Int /\ SeqSize * k2 \in Int /\ SeqSize * k3 \in Int
  OBVIOUS
<1>11. \/ d = n - c + SeqSize * (k1 - k2 + k3)
       \/ d = n - c + SeqSize * (k1 - k2 + k3 - 1)
  BY <1>0, <1>2, <1>3, <1>4, <1>5, <1>6, <1>8, <1>9, <1>10
<1>12. \E k \in Int : d = n - c + SeqSize * k
  <2> DEFINE ka == k1 - k2 + k3
             kb == k1 - k2 + k3 - 1
  <2>1. ka \in Int /\ kb \in Int /\ (d = n - c + SeqSize * ka \/ d = n - c + SeqSize * kb)
    BY <1>11
  <2> HIDE DEF ka, kb
  <2> QED BY <2>1, SMTT(60)
<1> QED BY <1>7, <1>12 DEF d, wn, wc

\* unwrap() undoes wrap() within half the size of the checkpoint.
LEMMA UnwrapOfWrap ==
  ASSUME NEW n \in Nat, NEW c \in Nat, NEW i \in SeqNo, n - c < Half, c - n < Half
  PROVE  unwrap(wrap(n, i), i, c) = n
<1> DEFINE d == distance(wrap(n, i), wrap(c, i))
<1>1. d \in -Half .. Half - 1 /\ \E k \in Int : d = n - c + SeqSize * k
  BY DistanceCongruent
<1> HIDE DEF d
<1>2. PICK k \in Int : d = n - c + SeqSize * k
  BY <1>1
<1>3. /\ SeqSize * k \in Int
      /\ k >= 1 => SeqSize * k >= SeqSize
      /\ k <= -1 => SeqSize * k <= -SeqSize
      /\ k = 0 => SeqSize * k = 0
  BY HalfIsHalf, Multiple
<1>4. k = 0
  BY HalfIsHalf, <1>1, <1>2, <1>3
<1>5. d = n - c
  BY <1>2, <1>3, <1>4
<1>6. c + d = n
  BY <1>5
<1> QED BY <1>6 DEF unwrap, d

\* A number on the wire is a 32-bit one.
LEMMA WrapType ==
  ASSUME NEW n \in Nat, NEW i \in SeqNo
  PROVE  wrap(n, i) \in SeqNo
<1>1. i + n \in Int
  BY DEF SeqNo
<1> QED BY <1>1, HalfIsHalf, ModDivides DEF wrap, SeqNo

\* unwrap() never comes out below zero, whatever it is given.
LEMMA UnwrapType ==
  ASSUME NEW w \in SeqNo, NEW c \in Nat, NEW i \in SeqNo
  PROVE  unwrap(w, i, c) \in Nat
<1> DEFINE e == (w - wrap(c, i)) % SeqSize
           d == distance(w, wrap(c, i))
<1>1. w \in Int /\ wrap(c, i) \in Int
  BY WrapType DEF SeqNo
<1>2. e \in 0 .. SeqSize - 1
  <2> DEFINE x == w - wrap(c, i)
  <2>1. x \in Int
    BY <1>1
  <2> HIDE DEF x
  <2>2. x % SeqSize \in 0 .. SeqSize - 1
    BY <2>1, HalfIsHalf, ModDivides
  <2> QED BY <2>2 DEF x
<1>3. d = IF e >= Half THEN e - SeqSize ELSE e
  BY DEF distance
<1> HIDE DEF e
<1>4. d \in -Half .. Half - 1
  BY <1>2, <1>3, HalfIsHalf
<1> HIDE DEF d
<1>5. unwrap(w, i, c) = IF c + d >= 0 THEN c + d ELSE c + d + SeqSize
  BY DEF unwrap, d
<1> QED BY <1>4, <1>5, HalfIsHalf

-----------------------------------------------------------------------------

\* The elements of a sequence.
LEMMA ElementOf ==
  ASSUME NEW S, NEW q \in Seq(S), NEW n \in 1 .. Len(q)
  PROVE  q[n] \in S
  OBVIOUS

\* A sequence with one more element.
LEMMA AppendIs ==
  ASSUME NEW S, NEW q \in Seq(S), NEW x \in S
  PROVE  /\ Append(q, x) \in Seq(S)
         /\ Len(Append(q, x)) = Len(q) + 1
         /\ \A i \in 1 .. Len(q) : Append(q, x)[i] = q[i]
         /\ Append(q, x)[Len(q) + 1] = x
  OBVIOUS

\* It is not empty.
LEMMA AppendNonEmpty ==
  ASSUME NEW S, NEW q \in Seq(S), NEW x \in S
  PROVE  Append(q, x) # <<>>
<1>1. Len(Append(q, x)) = Len(q) + 1 /\ Len(q) \in Nat /\ Len(<<>>) = 0
  OBVIOUS
<1>2. Len(Append(q, x)) # Len(<<>>)
  BY <1>1
<1> QED BY <1>2, Zenon

\* Two sequences, one after the other.
LEMMA ConcatIs ==
  ASSUME NEW S, NEW q \in Seq(S), NEW r \in Seq(S)
  PROVE  /\ q \o r \in Seq(S)
         /\ Len(q \o r) = Len(q) + Len(r)
         /\ \A i \in 1 .. Len(q) : (q \o r)[i] = q[i]
         /\ \A i \in Len(q) + 1 .. Len(q) + Len(r) : (q \o r)[i] = r[i - Len(q)]
  OBVIOUS

\* A part of a sequence.
LEMMA SubSeqIs ==
  ASSUME NEW S, NEW q \in Seq(S), NEW m \in 1 .. Len(q) + 1, NEW n \in 0 .. Len(q), m <= n + 1
  PROVE  /\ SubSeq(q, m, n) \in Seq(S)
         /\ Len(SubSeq(q, m, n)) = n - m + 1
         /\ \A i \in 1 .. n - m + 1 : SubSeq(q, m, n)[i] = q[m + i - 1]
  OBVIOUS

\* The first element of a sequence and the others.
LEMMA HeadTailIs ==
  ASSUME NEW S, NEW q \in Seq(S), q # <<>>
  PROVE  /\ Head(q) \in S
         /\ Tail(q) \in Seq(S)
         /\ Len(Tail(q)) = Len(q) - 1
         /\ \A i \in 1 .. Len(q) - 1 : Tail(q)[i] = q[i + 1]
  OBVIOUS

\* Sequences are equal if their elements are.
LEMMA SeqsEqual ==
  ASSUME NEW S, NEW q \in Seq(S), NEW r \in Seq(S), Len(q) = Len(r),
         \A i \in 1 .. Len(q) : q[i] = r[i]
  PROVE  q = r
  OBVIOUS

\* The empty sequence is the one of length 0.
LEMMA EmptyIsShort ==
  ASSUME NEW S, NEW q \in Seq(S)
  PROVE  Len(q) \in Nat /\ (q = <<>> <=> Len(q) = 0)
  OBVIOUS

\* A sequence without its first k elements.
LEMMA DropFirst ==
  ASSUME NEW S, NEW q \in Seq(S), NEW k \in Nat, k <= Len(q)
  PROVE  /\ SubSeq(q, k + 1, Len(q)) \in Seq(S)
         /\ Len(SubSeq(q, k + 1, Len(q))) = Len(q) - k
         /\ \A i \in 1 .. Len(q) - k : SubSeq(q, k + 1, Len(q))[i] = q[i + k]
  OBVIOUS

\* The list after an erasure.
LEMMA EraseIs ==
  ASSUME NEW S, NEW q \in Seq(S), NEW i \in 1 .. Len(q)
  PROVE  /\ erase(q, i) \in Seq(S)
         /\ Len(erase(q, i)) = Len(q) - 1
         /\ \A j \in 1 .. Len(q) - 1 : erase(q, i)[j] = q[IF j < i THEN j ELSE j + 1]
<1> DEFINE a == SubSeq(q, 1, i - 1)
           b == SubSeq(q, i + 1, Len(q))
<1>1. Len(q) \in Nat /\ i \in Nat /\ i <= Len(q)
  OBVIOUS
<1>2. /\ a \in Seq(S) /\ Len(a) = i - 1 /\ \A j \in 1 .. i - 1 : a[j] = q[j]
  <2>1. /\ 1 \in 1 .. Len(q) + 1 /\ i - 1 \in 0 .. Len(q) /\ 1 <= (i - 1) + 1
    BY <1>1
  <2>2. /\ a \in Seq(S) /\ Len(a) = (i - 1) - 1 + 1
        /\ \A j \in 1 .. (i - 1) - 1 + 1 : a[j] = q[1 + j - 1]
    BY <2>1, SubSeqIs, Zenon
  <2> HIDE DEF a
  <2> QED BY <1>1, <2>2
<1>3. /\ b \in Seq(S) /\ Len(b) = Len(q) - i /\ \A j \in 1 .. Len(q) - i : b[j] = q[j + i]
  BY <1>1, DropFirst, Zenon
<1>4. erase(q, i) = a \o b
  BY Zenon DEF erase
<1> HIDE DEF a, b
<1>5. /\ a \o b \in Seq(S) /\ Len(a \o b) = Len(a) + Len(b)
      /\ \A j \in 1 .. Len(a) : (a \o b)[j] = a[j]
      /\ \A j \in Len(a) + 1 .. Len(a) + Len(b) : (a \o b)[j] = b[j - Len(a)]
  BY <1>2, <1>3, ConcatIs, Zenon
<1> DEFINE e == a \o b
<1>6. e \in Seq(S) /\ Len(e) = Len(q) - 1
  BY <1>1, <1>2, <1>3, <1>5
<1>7. ASSUME NEW j \in 1 .. Len(q) - 1 PROVE e[j] = q[IF j < i THEN j ELSE j + 1]
  <2>1. CASE j < i
    <3>1. j \in 1 .. Len(a) /\ j \in 1 .. i - 1
      BY <1>1, <1>2, <2>1
    <3>2. e[j] = a[j] /\ a[j] = q[j]
      BY <1>2, <1>5, <3>1, Zenon
    <3> QED BY <2>1, <3>2
  <2>2. CASE ~ (j < i)
    <3>1. j \in Len(a) + 1 .. Len(a) + Len(b) /\ j - Len(a) = j - i + 1 /\ j - i + 1 \in 1 .. Len(q) - i
          /\ (j - i + 1) + i = j + 1
      BY <1>1, <1>2, <1>3, <2>2
    <3>2. e[j] = b[j - i + 1]
      BY <1>5, <3>1, SMTT(30)
    <3>3. b[j - i + 1] = q[j + 1]
      BY <1>3, <3>1
    <3> QED BY <2>2, <3>2, <3>3
  <2> QED BY <2>1, <2>2, Zenon
<1> HIDE DEF e
<1> QED BY <1>4, <1>6, <1>7, Zenon DEF e

\* The bytes of a part of a stream, one by one.
LEMMA BytesType ==
  ASSUME NEW a \in Nat, NEW b \in Int, a <= b + 1
  PROVE  /\ Bytes(a, b) \in Seq(Nat)
         /\ Len(Bytes(a, b)) = b - a + 1
         /\ \A i \in 1 .. b - a + 1 : Bytes(a, b)[i] = a + i - 1
<1> DEFINE n == b - a + 1
<1>1. n \in Nat
  OBVIOUS
<1>2. Bytes(a, b) = [i \in 1 .. n |-> a + i - 1]
  BY DEF Bytes
<1> HIDE DEF n
<1>3. \A i \in 1 .. n : a + i - 1 \in Nat
  BY <1>1
<1> QED BY <1>1, <1>2, <1>3 DEF n

\* A sequence is the bytes of a part of a stream if each of its elements is.
LEMMA BytesEqual ==
  ASSUME NEW a \in Nat, NEW b \in Int, a <= b + 1, NEW q \in Seq(Nat),
         Len(q) = b - a + 1, \A i \in 1 .. Len(q) : q[i] = a + i - 1
  PROVE  q = Bytes(a, b)
<1>1. Bytes(a, b) \in Seq(Nat) /\ Len(Bytes(a, b)) = Len(q)
  BY BytesType, Zenon
<1>2. \A i \in 1 .. Len(q) : q[i] = Bytes(a, b)[i]
  BY BytesType
<1> HIDE DEF Bytes
<1> QED BY <1>1, <1>2, SeqsEqual, Zenon

\* A stretch without a byte is empty.
LEMMA BytesEmpty ==
  ASSUME NEW a \in Nat
  PROVE  Bytes(a, a - 1) = <<>>
<1>1. Bytes(a, a - 1) \in Seq(Nat) /\ Len(Bytes(a, a - 1)) = 0
  BY BytesType
<1> QED BY <1>1

\* Two adjacent stretches make one.
LEMMA BytesConcat ==
  ASSUME NEW a \in Nat, NEW b \in Int, NEW c \in Int, a <= b + 1, b <= c
  PROVE  Bytes(a, b) \o Bytes(b + 1, c) = Bytes(a, c)
<1> DEFINE A == Bytes(a, b)  B == Bytes(b + 1, c)  q == A \o B
<1>1. /\ A \in Seq(Nat) /\ Len(A) = b - a + 1
      /\ \A i \in 1 .. b - a + 1 : A[i] = a + i - 1
  BY BytesType, Zenon
<1>2. /\ B \in Seq(Nat) /\ Len(B) = c - b
      /\ \A i \in 1 .. c - b : B[i] = b + i
  <2>1. b + 1 \in Nat /\ b + 1 <= c + 1 /\ c - (b + 1) + 1 = c - b
    OBVIOUS
  <2>2. /\ B \in Seq(Nat) /\ Len(B) = c - (b + 1) + 1
        /\ \A i \in 1 .. c - (b + 1) + 1 : B[i] = (b + 1) + i - 1
    BY <2>1, BytesType, Zenon
  <2> HIDE DEF B
  <2> QED BY <2>1, <2>2
<1> HIDE DEF A, B
<1>3. /\ q \in Seq(Nat) /\ Len(q) = c - a + 1
      /\ \A i \in 1 .. Len(A) : q[i] = A[i]
      /\ \A i \in Len(A) + 1 .. Len(A) + Len(B) : q[i] = B[i - Len(A)]
  <2>1. /\ q \in Seq(Nat) /\ Len(q) = Len(A) + Len(B)
        /\ \A i \in 1 .. Len(A) : q[i] = A[i]
        /\ \A i \in Len(A) + 1 .. Len(A) + Len(B) : q[i] = B[i - Len(A)]
    BY <1>1, <1>2, ConcatIs, ZenonT(40)
  <2> HIDE DEF q
  <2>2. Len(q) = c - a + 1
    BY <1>1, <1>2, <2>1
  <2> QED BY <2>1, <2>2
<1> HIDE DEF q
<1>4. ASSUME NEW i \in 1 .. Len(q) PROVE q[i] = a + i - 1
  <2>0. i \in 1 .. c - a + 1
    BY <1>3, Zenon
  <2>1. CASE i <= b - a + 1
    <3>1. i \in 1 .. b - a + 1
      BY <2>0, <2>1
    <3> QED BY <1>1, <1>3, <3>1, Zenon
  <2>2. CASE i > b - a + 1
    <3>1. /\ i - (b - a + 1) \in 1 .. c - b
          /\ i \in (b - a + 1) + 1 .. (b - a + 1) + (c - b)
          /\ b + (i - (b - a + 1)) = a + i - 1
      BY <2>0, <2>2
    <3>2. q[i] = B[i - (b - a + 1)]
      BY <1>1, <1>2, <1>3, <3>1, Zenon
    <3>3. B[i - (b - a + 1)] = b + (i - (b - a + 1))
      BY <1>2, <3>1, Zenon
    <3> QED BY <3>1, <3>2, <3>3, Zenon
  <2> QED BY <2>0, <2>1, <2>2
<1>5. q = Bytes(a, c)
  BY <1>3, <1>4, BytesEqual
<1> QED BY <1>5, Zenon DEF q, A, B

\* A part of a stretch is a stretch.
LEMMA BytesSubSeq ==
  ASSUME NEW a \in Nat, NEW b \in Int, a <= b + 1,
         NEW i \in Nat \ {0}, NEW j \in Nat, i <= j + 1, j <= b - a + 1
  PROVE  SubSeq(Bytes(a, b), i, j) = Bytes(a + i - 1, a + j - 1)
<1> DEFINE q == SubSeq(Bytes(a, b), i, j)
           a1 == a + i - 1
           b1 == a + j - 1
<1>1. /\ Bytes(a, b) \in Seq(Nat) /\ Len(Bytes(a, b)) = b - a + 1
      /\ \A k \in 1 .. b - a + 1 : Bytes(a, b)[k] = a + k - 1
  BY BytesType
<1>2. /\ a1 \in Nat /\ b1 \in Int /\ a1 <= b1 + 1
      /\ b1 - a1 + 1 = j - i + 1
  OBVIOUS
<1>3. q \in Seq(Nat) /\ Len(q) = j - i + 1
  BY <1>1
<1>4. ASSUME NEW k \in 1 .. Len(q) PROVE q[k] = a1 + k - 1
  <2>1. q[k] = Bytes(a, b)[i + k - 1] /\ i + k - 1 \in 1 .. b - a + 1
    BY <1>1, <1>3
  <2> QED BY <1>1, <1>3, <2>1
<1> HIDE DEF q
<1>5. Len(q) = b1 - a1 + 1
  BY <1>2, <1>3
<1>6. q = Bytes(a1, b1)
  <2> HIDE DEF a1, b1
  <2> QED BY <1>2, <1>3, <1>4, <1>5, BytesEqual
<1> QED BY <1>6 DEF q

\* The first n bytes of a stretch, and the rest of it.
LEMMA BytesSplit ==
  ASSUME NEW a \in Nat, NEW b \in Int, a <= b + 1, NEW n \in Nat, n <= b - a + 1
  PROVE  /\ SubSeq(Bytes(a, b), 1, n) = Bytes(a, a + n - 1)
         /\ SubSeq(Bytes(a, b), n + 1, Len(Bytes(a, b))) = Bytes(a + n, b)
<1> DEFINE q == Bytes(a, b)
<1>1. Len(q) = b - a + 1
  BY BytesType
<1>2. SubSeq(q, 1, n) = Bytes(a + 1 - 1, a + n - 1)
  <2>1. 1 \in Nat \ {0} /\ 1 <= n + 1
    OBVIOUS
  <2> QED BY <2>1, BytesSubSeq, Zenon
<1> DEFINE i == n + 1
           j == b - a + 1
<1>3. i \in Nat \ {0} /\ j \in Nat /\ i <= j + 1 /\ j <= b - a + 1
  OBVIOUS
<1>4. SubSeq(q, i, j) = Bytes(a + i - 1, a + j - 1)
  <2> HIDE DEF i, j
  <2> QED BY <1>3, BytesSubSeq, Zenon
<1>5. a + 1 - 1 = a /\ a + i - 1 = a + n /\ a + j - 1 = b
  OBVIOUS
<1> QED BY <1>1, <1>2, <1>4, <1>5

-----------------------------------------------------------------------------

\* The size of the buffer.
LEMMA StreamSize ==
  ASSUME NEW bs, StreamInv(bs)
  PROVE  /\ bs \in StreamRecord
         /\ bs.stream \in Seq(Nat)
         /\ Len(bs.stream) = bs.bytes_written - bs.bytes_read
         /\ buffer_size(bs) = bs.bytes_written - bs.bytes_read
         /\ buffer_empty(bs) <=> bs.bytes_read = bs.bytes_written
         /\ remaining_capacity(bs) = bs.capacity - (bs.bytes_written - bs.bytes_read)
         /\ remaining_capacity(bs) \in Nat
<1> DEFINE a == bs.bytes_read + 1
           b == bs.bytes_written
<1>1. bs \in StreamRecord /\ a \in Nat /\ b \in Int /\ a <= b + 1 /\ bs.stream = Bytes(a, b)
  BY DEF StreamInv, StreamRecord
<1>2. bs.stream \in Seq(Nat) /\ Len(bs.stream) = b - a + 1
  <2> HIDE DEF a, b
  <2> QED BY <1>1, BytesType
<1>3. b - a + 1 = bs.bytes_written - bs.bytes_read
  BY <1>1 DEF StreamRecord
<1>4. bs.stream = <<>> <=> Len(bs.stream) = 0
  BY <1>2
<1>5. /\ buffer_size(bs) = Len(bs.stream) /\ (buffer_empty(bs) <=> bs.stream = <<>>)
      /\ remaining_capacity(bs) = bs.capacity - Len(bs.stream)
  BY Zenon DEF buffer_size, buffer_empty, remaining_capacity
<1>6. /\ bs.bytes_written \in Nat /\ bs.bytes_read \in Nat /\ bs.capacity \in Nat
      /\ bs.bytes_written <= bs.bytes_read + bs.capacity
  BY <1>1 DEF StreamRecord, StreamInv
<1> HIDE DEF a, b
<1>7. remaining_capacity(bs) = bs.capacity - (bs.bytes_written - bs.bytes_read)
  BY <1>2, <1>3, <1>5
<1>8. bs.capacity - (bs.bytes_written - bs.bytes_read) \in Nat
  BY <1>6
<1>9. buffer_empty(bs) <=> bs.bytes_read = bs.bytes_written
  <2>1. Len(bs.stream) = bs.bytes_written - bs.bytes_read
    BY <1>2, <1>3
  <2> QED BY <1>4, <1>5, <1>6, <2>1
<1> QED BY <1>1, <1>2, <1>3, <1>5, <1>7, <1>8, <1>9, Zenon

\* Reading the first n of the buffered bytes.
LEMMA StreamPop ==
  ASSUME NEW bs, StreamInv(bs), NEW n \in Nat, n <= buffer_size(bs)
  PROVE  /\ peek_output(bs, n) = Bytes(bs.bytes_read + 1, bs.bytes_read + n)
         /\ StreamInv(pop_output(bs, n))
         /\ pop_output(bs, n).bytes_read = bs.bytes_read + n
         /\ pop_output(bs, n).bytes_written = bs.bytes_written
         /\ pop_output(bs, n).capacity = bs.capacity
         /\ pop_output(bs, n).input_ended = bs.input_ended
         /\ pop_output(bs, n) = [bs EXCEPT !.stream = pop_output(bs, n).stream,
                                           !.bytes_read = bs.bytes_read + n]
<1> DEFINE a == bs.bytes_read + 1
           b == bs.bytes_written
           q == Bytes(a, b)
           rest == Bytes(a + n, b)
<1>1. /\ bs \in StreamRecord /\ bs.stream \in Seq(Nat) /\ Len(bs.stream) = b - a + 1
      /\ n <= Len(bs.stream) /\ bs.stream = q /\ a \in Nat /\ b \in Int /\ a <= b + 1
  <2>1. /\ bs \in StreamRecord /\ bs.stream \in Seq(Nat)
        /\ Len(bs.stream) = bs.bytes_written - bs.bytes_read
    BY StreamSize, Zenon
  <2>2. bs.bytes_read \in Nat /\ bs.bytes_written \in Nat /\ bs.stream = q
    BY <2>1 DEF StreamInv, StreamRecord
  <2>3. n <= Len(bs.stream) /\ Len(bs.stream) \in Nat
    BY <2>1 DEF buffer_size
  <2>4. a \in Nat /\ b \in Int /\ Len(bs.stream) = b - a + 1 /\ a <= b + 1
    <3> HIDE DEF q
    <3> QED BY <2>1, <2>2, <2>3
  <2> QED BY <2>1, <2>2, <2>3, <2>4, Zenon
<1>2. Smaller(n, buffer_size(bs)) = n
  BY <1>1 DEF Smaller, buffer_size
<1>3. SubSeq(q, 1, n) = Bytes(a, a + n - 1)
  <2> HIDE DEF a, b
  <2>1. n <= b - a + 1
    BY <1>1
  <2> QED BY <1>1, <2>1, BytesSplit, Zenon
<1>4. SubSeq(q, n + 1, Len(q)) = rest
  <2> HIDE DEF a, b
  <2>1. n <= b - a + 1
    BY <1>1
  <2> QED BY <1>1, <2>1, BytesSplit, Zenon
<1>5. a + n - 1 = bs.bytes_read + n
  BY <1>1 DEF StreamRecord
<1>6. peek_output(bs, n) = Bytes(bs.bytes_read + 1, bs.bytes_read + n)
  BY <1>1, <1>2, <1>3, <1>5 DEF peek_output
<1>7. pop_output(bs, n) = [bs EXCEPT !.stream = rest, !.bytes_read = bs.bytes_read + n]
  BY <1>1, <1>2, <1>4, Zenon DEF pop_output, StreamRecord
<1>8. rest \in Seq(Nat)
  <2> HIDE DEF a, b
  <2>1. a + n \in Nat /\ b \in Int /\ a + n <= b + 1
    BY <1>1
  <2> QED BY <2>1, BytesType
<1> HIDE DEF rest, q, a, b
<1>9. /\ pop_output(bs, n) \in StreamRecord
      /\ pop_output(bs, n).stream = rest
      /\ pop_output(bs, n).bytes_read = bs.bytes_read + n
      /\ pop_output(bs, n).bytes_written = bs.bytes_written
      /\ pop_output(bs, n).capacity = bs.capacity
      /\ pop_output(bs, n).input_ended = bs.input_ended
  <2>1. bs \in StreamRecord /\ rest \in Seq(Nat) /\ bs.bytes_read + n \in Nat
    BY <1>1, <1>8, SMTT(30) DEF StreamRecord
  <2> QED BY <1>7, <2>1, Zenon DEF StreamRecord
<1>10. rest = Bytes((bs.bytes_read + n) + 1, bs.bytes_written)
  <2>1. a + n = (bs.bytes_read + n) + 1
    BY <1>1 DEF StreamRecord, a
  <2> QED BY <2>1 DEF rest, a, b
<1>11. StreamInv(pop_output(bs, n))
  <2>1. bs.bytes_read + n <= bs.bytes_written /\ bs.bytes_written <= (bs.bytes_read + n) + bs.capacity
    BY <1>1, SMTT(30) DEF StreamRecord, StreamInv, a, b
  <2> QED BY <1>9, <1>10, <2>1 DEF StreamInv
<1> QED BY <1>6, <1>7, <1>9, <1>11

\* The application's next n bytes, as far as they fit.
LEMMA StreamWrite ==
  ASSUME NEW bs, StreamInv(bs), NEW n \in Nat
  PROVE  LET t == write(bs, Bytes(bs.bytes_written + 1, bs.bytes_written + n))
         IN  /\ StreamInv(t)
             /\ t.bytes_read = bs.bytes_read /\ t.capacity = bs.capacity
             /\ t.input_ended = bs.input_ended
             /\ bs.bytes_written <= t.bytes_written
             /\ t.bytes_written <= bs.bytes_written + n
             /\ t.bytes_written = bs.bytes_written + Smaller(n, remaining_capacity(bs))
<1> DEFINE rd == bs.bytes_read
           wr == bs.bytes_written
           data == Bytes(wr + 1, wr + n)
           m == Smaller(Len(data), remaining_capacity(bs))
           q == bs.stream \o SubSeq(data, 1, m)
           t == write(bs, data)
<1>1. bs \in StreamRecord /\ bs.stream \in Seq(Nat) /\ Len(bs.stream) = wr - rd
  BY StreamSize, Zenon
<1>2. rd \in Nat /\ wr \in Nat /\ bs.capacity \in Nat /\ rd <= wr /\ wr <= rd + bs.capacity
      /\ bs.stream = Bytes(rd + 1, wr)
  BY <1>1 DEF StreamInv, StreamRecord
<1> HIDE DEF rd, wr
<1>3. Len(data) = n
  <2>1. wr + 1 \in Nat /\ wr + n \in Int /\ wr + 1 <= (wr + n) + 1 /\ (wr + n) - (wr + 1) + 1 = n
    BY <1>2
  <2> QED BY <2>1, BytesType, Zenon
<1>4. remaining_capacity(bs) = bs.capacity - (wr - rd)
  BY <1>1, Zenon DEF remaining_capacity
<1>5. m \in Nat /\ m <= n /\ wr + m <= rd + bs.capacity
  <2>1. m = Smaller(n, bs.capacity - (wr - rd))
    BY <1>3, <1>4, Zenon
  <2> HIDE DEF m
  <2> QED BY <1>2, <2>1 DEF Smaller
<1>6. t = [bs EXCEPT !.stream = q, !.bytes_written = wr + m]
  BY <1>1, Zenon DEF write, wr
<1> HIDE DEF m
<1>7. SubSeq(data, 1, m) = Bytes(wr + 1, wr + m)
  <2>1. wr + 1 \in Nat /\ wr + n \in Int /\ wr + 1 <= (wr + n) + 1 /\ m <= (wr + n) - (wr + 1) + 1
        /\ (wr + 1) + m - 1 = wr + m
    BY <1>2, <1>5
  <2>2. SubSeq(data, 1, m) = Bytes(wr + 1, (wr + 1) + m - 1)
    BY <1>5, <2>1, BytesSplit, ZenonT(40)
  <2> QED BY <2>1, <2>2
<1>8. q = Bytes(rd + 1, wr + m)
  <2>1. rd + 1 \in Nat /\ wr \in Int /\ wr + m \in Int /\ rd + 1 <= wr + 1 /\ wr <= wr + m
    BY <1>2, <1>5
  <2>2. Bytes(rd + 1, wr) \o Bytes(wr + 1, wr + m) = Bytes(rd + 1, wr + m)
    BY <2>1, BytesConcat, Zenon
  <2> QED BY <1>2, <1>7, <2>2, Zenon
<1>9. q \in Seq(Nat)
  <2>1. rd + 1 \in Nat /\ wr + m \in Int /\ rd + 1 <= (wr + m) + 1
    BY <1>2, <1>5
  <2> QED BY <1>8, <2>1, BytesType, Zenon
<1> HIDE DEF q, t, data
<1>10. wr + m \in Nat
  BY <1>2, <1>5
<1>11. /\ t \in StreamRecord /\ t.stream = q /\ t.bytes_written = wr + m /\ t.bytes_read = bs.bytes_read
       /\ t.capacity = bs.capacity /\ t.input_ended = bs.input_ended
  BY <1>1, <1>6, <1>9, <1>10, Zenon DEF StreamRecord
<1>12. rd <= wr + m /\ wr + m <= rd + bs.capacity /\ wr <= wr + m /\ wr + m <= wr + n
  BY <1>2, <1>5
<1>13. StreamInv(t)
  BY <1>8, <1>11, <1>12, Zenon DEF StreamInv, rd
<1>14. m = Smaller(n, remaining_capacity(bs))
  BY <1>3, Zenon DEF m, data
<1> QED BY <1>11, <1>12, <1>13, <1>14, Zenon DEF t, data, wr

\* The input ends.
LEMMA StreamEnd ==
  ASSUME NEW bs, StreamInv(bs)
  PROVE  /\ StreamInv(end_input(bs))
         /\ end_input(bs).bytes_read = bs.bytes_read
         /\ end_input(bs).bytes_written = bs.bytes_written
         /\ end_input(bs).input_ended = TRUE
         /\ end_input(bs).capacity = bs.capacity
<1>1. bs \in StreamRecord
  BY DEF StreamInv
<1>2. /\ end_input(bs) \in StreamRecord /\ end_input(bs).stream = bs.stream
      /\ end_input(bs).bytes_read = bs.bytes_read
      /\ end_input(bs).bytes_written = bs.bytes_written
      /\ end_input(bs).input_ended = TRUE
      /\ end_input(bs).capacity = bs.capacity
  BY <1>1, Zenon DEF end_input, StreamRecord
<1> QED BY <1>2, Zenon DEF StreamInv

\* The sequence numbers that a segment takes up.
LEMMA SegmentLength ==
  ASSUME NEW seg \in SegmentRecord
  PROVE  /\ length_in_sequence_space(seg) \in Nat
         /\ Len(seg.payload) \in Nat
         /\ length_in_sequence_space(seg)
              = Len(seg.payload) + (IF seg.syn THEN 1 ELSE 0) + (IF seg.fin THEN 1 ELSE 0)
<1>1. seg.payload \in Seq(Nat) /\ seg.syn \in BOOLEAN /\ seg.fin \in BOOLEAN
  BY DEF SegmentRecord
<1>2. Len(seg.payload) \in Nat
  BY <1>1
<1> DEFINE l == Len(seg.payload)
<1> HIDE DEF l
<1>3. l \in Nat
  BY <1>2 DEF l
<1>4. l + (IF seg.syn THEN 1 ELSE 0) + (IF seg.fin THEN 1 ELSE 0) \in Nat
  BY <1>3
<1> QED BY <1>2, <1>4, Zenon DEF length_in_sequence_space, l

\* The segment without content.
LEMMA BlankSegmentIs ==
  /\ BlankSegment \in SegmentRecord
  /\ BlankSegment.syn = FALSE /\ BlankSegment.fin = FALSE /\ BlankSegment.payload = <<>>
<1>1. 0 \in SeqNo
  BY HalfIsHalf DEF SeqNo
<1>2. <<>> \in Seq(Nat)
  OBVIOUS
<1> QED BY <1>1, <1>2 DEF SegmentRecord, BlankSegment

\* A new byte stream is empty.
LEMMA NewStream ==
  ASSUME NEW cap \in Nat
  PROVE  /\ StreamInv(ByteStream(cap))
         /\ ByteStream(cap).bytes_read = 0 /\ ByteStream(cap).bytes_written = 0
         /\ ByteStream(cap).capacity = cap /\ ByteStream(cap).input_ended = FALSE
<1> DEFINE bs == ByteStream(cap)
<1>1. /\ bs \in StreamRecord /\ bs.stream = <<>> /\ bs.bytes_read = 0 /\ bs.bytes_written = 0
      /\ bs.capacity = cap /\ bs.input_ended = FALSE
  <2>1. <<>> \in Seq(Nat)
    OBVIOUS
  <2> QED BY <2>1 DEF ByteStream, StreamRecord
<1>2. Bytes(bs.bytes_read + 1, bs.bytes_written) = <<>>
  <2>1. bs.bytes_read + 1 = 1 /\ bs.bytes_written = 1 - 1
    BY <1>1
  <2>2. Bytes(1, 1 - 1) = <<>>
    BY BytesEmpty
  <2> QED BY <2>1, <2>2, Zenon
<1>3. bs.bytes_read <= bs.bytes_written /\ bs.bytes_written <= bs.bytes_read + bs.capacity
  BY <1>1
<1> HIDE DEF bs
<1> QED BY <1>1, <1>2, <1>3, Zenon DEF StreamInv, bs

-----------------------------------------------------------------------------

\* The numbers of a datagram.
LEMMA PieceIs ==
  ASSUME NEW d, NEW L \in Nat, NEW w \in Nat, Piece(d, L, w)
  PROVE  /\ d \in DatagramRecord
         /\ d.index \in Nat /\ Len(d.data) \in Nat /\ end_of(d) \in Nat
         /\ end_of(d) = d.index + Len(d.data) /\ d.index <= end_of(d)
         /\ d.index < end_of(d) \/ d.eof => end_of(d) <= L /\ end_of(d) <= w
         /\ d.index < end_of(d) \/ d.index = end_of(d)
<1>1. d \in DatagramRecord /\ (d.index < end_of(d) \/ d.eof => end_of(d) <= L /\ end_of(d) <= w)
  BY Zenon DEF Piece
<1>2. d.index \in Nat /\ Len(d.data) \in Nat
  BY <1>1 DEF DatagramRecord
<1>3. end_of(d) = d.index + Len(d.data)
  BY Zenon DEF end_of
<1>4. end_of(d) \in Nat /\ d.index <= end_of(d) /\ (d.index < end_of(d) \/ d.index = end_of(d))
  BY <1>2, <1>3
<1> QED BY <1>1, <1>2, <1>3, <1>4, Zenon

-----------------------------------------------------------------------------

\* The numbers of a reassembler.
LEMMA ReassemblerIs ==
  ASSUME NEW r, NEW L \in Nat, ReassemblerInv(r, L)
  PROVE  /\ r \in ReassemblerRecord /\ r.output \in StreamRecord
         /\ r.capacity \in Nat /\ r.next_assembling_index \in Nat /\ r.unassembled_bytes \in Int
         /\ r.smallest_temporty_index \in Nat
         /\ r.storage \in Seq(DatagramRecord) /\ Len(r.storage) \in Nat
         /\ r.output.bytes_read \in Nat /\ r.output.bytes_written \in Nat
         /\ r.output.capacity \in Nat /\ Limit(r) \in Nat
         /\ Storage(r.storage, L, Limit(r))
<1>1. r \in ReassemblerRecord /\ Storage(r.storage, L, Limit(r))
  BY Zenon DEF ReassemblerInv
<1>2. /\ r.output \in StreamRecord /\ r.capacity \in Nat /\ r.next_assembling_index \in Nat
      /\ r.unassembled_bytes \in Int /\ r.smallest_temporty_index \in Nat
      /\ r.storage \in Seq(DatagramRecord) /\ Len(r.storage) \in Nat
  BY <1>1 DEF ReassemblerRecord
<1>3. r.output.bytes_read \in Nat /\ r.output.bytes_written \in Nat /\ r.output.capacity \in Nat
  BY <1>2, SMTT(30) DEF StreamRecord
<1>4. Limit(r) \in Nat
  BY <1>2, <1>3, SMTT(30) DEF Limit
<1> QED BY <1>1, <1>2, <1>3, <1>4, Zenon

-----------------------------------------------------------------------------

\* A new reassembler holds nothing.
LEMMA NewReassembler ==
  ASSUME NEW L \in Nat, NEW cap \in Nat, NEW r, r = StreamReassembler(cap)
  PROVE  Vacant(r, cap, L)
<1> DEFINE bs == ByteStream(cap)
<1>1. /\ StreamInv(bs) /\ bs.bytes_read = 0 /\ bs.bytes_written = 0
      /\ bs.capacity = cap /\ bs.input_ended = FALSE
  BY NewStream, Zenon
<1>2. bs \in StreamRecord
  BY <1>1, Zenon DEF StreamInv
<1>3. r = [output |-> bs, capacity |-> cap, next_assembling_index |-> 0,
           smallest_temporty_index |-> 0, unassembled_bytes |-> 0, storage |-> <<>>, hung |-> FALSE]
  BY Zenon DEF StreamReassembler
<1> HIDE DEF bs
<1>4. <<>> \in Seq(DatagramRecord) /\ Len(<<>>) = 0 /\ 1 .. 0 = {}
  OBVIOUS
<1>5. /\ r \in ReassemblerRecord
      /\ r.output = bs /\ r.capacity = cap /\ r.storage = <<>> /\ r.next_assembling_index = 0 /\ r.hung = FALSE
  BY <1>2, <1>3, <1>4 DEF ReassemblerRecord
<1>6. Storage(r.storage, L, Limit(r))
  BY <1>4, <1>5 DEF Storage
<1>7. ReassemblerInv(r, L)
  BY <1>1, <1>5, <1>6 DEF ReassemblerInv
<1>8. \A b \in Nat : ~ Known(r, b)
  BY <1>4, <1>5 DEF Known, HoldsAny
<1>9. Settled(r, L)
  BY <1>4, <1>5, Zenon DEF Settled
<1> QED BY <1>1, <1>5, <1>7, <1>8, <1>9, Zenon DEF Vacant

\* What waits fits a limit that has grown.
LEMMA StorageMore ==
  ASSUME NEW q, NEW L \in Nat, NEW v \in Nat, NEW w \in Nat, v <= w, Storage(q, L, v)
  PROVE  Storage(q, L, w)
<1>1. ASSUME NEW i \in 1 .. Len(q) PROVE Piece(q[i], L, w)
  <2>1. Piece(q[i], L, v)
    BY <1>1, Zenon DEF Storage
  <2> DEFINE full == q[i].index < end_of(q[i]) \/ q[i].eof
  <2>2. end_of(q[i]) \in Nat /\ (full => end_of(q[i]) <= v)
    BY <2>1, PieceIs, Zenon
  <2> HIDE DEF full
  <2>3. full => end_of(q[i]) <= w
    BY <2>2
  <2> QED BY <2>1, <2>3, Zenon DEF Piece, full
<1> QED BY <1>1, Zenon DEF Storage

\* pop_output() on the output.
LEMMA ReadKeeps ==
  ASSUME NEW r, NEW L \in Nat, ReassemblerInv(r, L), NEW n \in Nat, n <= buffer_size(r.output),
         NEW t, t = [r EXCEPT !.output = pop_output(r.output, n)]
  PROVE  Taken(t, r, n, L)
<1> DEFINE o == pop_output(r.output, n)
<1>1. r \in ReassemblerRecord /\ StreamInv(r.output) /\ Limit(r) \in Nat
      /\ r.capacity \in Nat /\ r.output.bytes_read \in Nat
  BY ReassemblerIs, Zenon DEF ReassemblerInv
<1>2. /\ StreamInv(o) /\ o.bytes_read = r.output.bytes_read + n
      /\ o.bytes_written = r.output.bytes_written
      /\ o.capacity = r.output.capacity /\ o.input_ended = r.output.input_ended
  BY <1>1, StreamPop, Zenon
<1>3. o \in StreamRecord /\ t = [r EXCEPT !.output = o]
  BY <1>2, Zenon DEF StreamInv
<1> HIDE DEF o
<1>4. /\ t \in ReassemblerRecord /\ t.output = o /\ t.capacity = r.capacity /\ t.storage = r.storage
      /\ t.hung = r.hung /\ t.next_assembling_index = r.next_assembling_index
      /\ t.smallest_temporty_index = r.smallest_temporty_index
  BY <1>1, <1>3, SMTT(30) DEF ReassemblerRecord
<1>5. Limit(t) \in Nat /\ Limit(r) <= Limit(t)
  <2>1. Limit(t) = (r.output.bytes_read + n) + r.capacity /\ Limit(r) = r.output.bytes_read + r.capacity
    BY <1>2, <1>4, Zenon DEF Limit
  <2> DEFINE a == r.output.bytes_read  c == r.capacity  x == Limit(t)  y == Limit(r)
  <2>2. a \in Nat /\ c \in Nat /\ x = (a + n) + c /\ y = a + c
    BY <1>1, <2>1, Zenon
  <2> HIDE DEF a, c, x, y
  <2>3. x \in Nat /\ y <= x
    BY <2>2
  <2> QED BY <2>3 DEF x, y
<1>6. Storage(t.storage, L, Limit(t))
  <2>1. Storage(r.storage, L, Limit(r))
    BY Zenon DEF ReassemblerInv
  <2> QED BY <1>1, <1>4, <1>5, <2>1, StorageMore, Zenon
<1>7. ReassemblerInv(t, L)
  BY <1>2, <1>4, <1>6, Zenon DEF ReassemblerInv
<1>8. \A b : Known(t, b) <=> Known(r, b)
  BY <1>4, Zenon DEF Known
<1>9. Settled(t, L) <=> Settled(r, L)
  BY <1>4, Zenon DEF Settled
<1>10. \A D : ReassemblerCut(t, D, L) <=> ReassemblerCut(r, D, L)
  BY <1>2, <1>4, Zenon DEF ReassemblerCut
<1> QED BY <1>2, <1>4, <1>7, <1>8, <1>9, <1>10, Zenon DEF Taken

-----------------------------------------------------------------------------

\* The numbers of a sound receiver.
LEMMA SoundIs ==
  ASSUME NEW L \in Nat, NEW i, NEW cap \in Nat \ {0}, NEW r, Sound(r, L, i, cap)
  PROVE  /\ r.abs_seqno \in Nat /\ r.first_segment \in BOOLEAN
         /\ r.reassembler.next_assembling_index = stream_out(r).bytes_written
         /\ stream_out(r).bytes_written \in Nat /\ stream_out(r).bytes_written <= L
         /\ stream_out(r).input_ended \in BOOLEAN
         /\ stream_out(r).input_ended => stream_out(r).bytes_written = L
         /\ stream_out(r).bytes_read \in Nat /\ StreamInv(stream_out(r))
         /\ window_size(r) = remaining_capacity(stream_out(r)) /\ window_size(r) \in Nat
         /\ window_size(r) = cap - (stream_out(r).bytes_written - stream_out(r).bytes_read)
         /\ Limit(r.reassembler) = stream_out(r).bytes_written + window_size(r)
<1> DEFINE R == r.reassembler  o == stream_out(r)  wr == o.bytes_written  rd == o.bytes_read
           win == window_size(r)
<1>1. r.abs_seqno \in Nat /\ r.first_segment \in BOOLEAN
  BY DEF Sound, ReceiverRecord
<1>2. /\ o = R.output /\ ReassemblerInv(R, L) /\ R.capacity = cap /\ r.capacity = cap
  BY Zenon DEF Sound, stream_out
<1>3. /\ R.next_assembling_index = wr /\ wr \in Nat /\ wr <= L
      /\ (o.input_ended => wr = L)
      /\ rd \in Nat /\ StreamInv(o) /\ o.capacity = cap
  BY <1>2, ReassemblerIs, Zenon DEF ReassemblerInv
<1>4. o.input_ended \in BOOLEAN
  BY <1>3 DEF StreamInv, StreamRecord
<1>5. win = remaining_capacity(o) /\ win \in Nat /\ win = cap - (wr - rd)
  <2>1. win = remaining_capacity(o)
    BY <1>2, <1>3, Zenon DEF window_size, remaining_capacity, buffer_size
  <2> QED BY <1>3, <2>1, StreamSize, Zenon
<1>6. Limit(R) = rd + cap
  BY <1>2, Zenon DEF Limit
<1>7. Limit(R) = wr + win
  <2> HIDE DEF wr, rd, win
  <2> QED BY <1>3, <1>5, <1>6
<1> QED BY <1>1, <1>3, <1>4, <1>5, <1>7, Zenon

\* So does the application that reads.
LEMMA ReadSound ==
  ASSUME NEW L \in Nat, NEW i, NEW cap, NEW r, Sound(r, L, i, cap),
         NEW n \in Nat, n <= buffer_size(stream_out(r)),
         NEW s, s = [r EXCEPT !.reassembler.output = pop_output(@, n)]
  PROVE  ReadBy(s, r, n, L, i, cap)
<1> DEFINE R == r.reassembler
           t == [R EXCEPT !.output = pop_output(R.output, n)]
<1>1. /\ ReassemblerInv(R, L) /\ r \in ReceiverRecord /\ R \in ReassemblerRecord
      /\ n <= buffer_size(R.output)
  BY Zenon DEF Sound, ReassemblerInv, stream_out
<1>2. Taken(t, R, n, L)
  BY <1>1, ReadKeeps, Zenon
<1>3. s = [r EXCEPT !.reassembler = t]
  OBVIOUS
<1>4. t \in ReassemblerRecord
  BY <1>2, Zenon DEF Taken, ReassemblerInv
<1> HIDE DEF t, R
<1>5. /\ s \in ReceiverRecord /\ s.reassembler = t /\ s.capacity = r.capacity
      /\ s.abs_seqno = r.abs_seqno /\ s.isn = r.isn /\ s.first_segment = r.first_segment
  BY <1>1, <1>3, <1>4 DEF ReceiverRecord
<1>6. /\ ReassemblerInv(t, L) /\ t.capacity = R.capacity
      /\ t.output.bytes_written = R.output.bytes_written
      /\ t.output.input_ended = R.output.input_ended
      /\ t.output.bytes_read = R.output.bytes_read + n
  BY <1>2, Zenon DEF Taken
<1>7. Sound(s, L, i, cap)
  BY <1>5, <1>6, Zenon DEF Sound, stream_out, R
<1> QED BY <1>2, <1>5, <1>6, <1>7, Zenon DEF ReadBy, stream_out, R

\* A new receiver is sound.
LEMMA NewReceiver ==
  ASSUME NEW L \in Nat, NEW i, NEW cap \in Nat, NEW r, r = TCPReceiver(cap)
  PROVE  /\ Sound(r, L, i, cap) /\ r.first_segment = TRUE /\ r.abs_seqno = 0
         /\ Vacant(r.reassembler, cap, L)
<1> DEFINE R == StreamReassembler(cap)
<1>1. Vacant(R, cap, L)
  BY NewReassembler, Zenon
<1>2. /\ ReassemblerInv(R, L) /\ R \in ReassemblerRecord /\ R.capacity = cap
      /\ R.output.bytes_written = 0 /\ R.output.input_ended = FALSE
  BY <1>1, Zenon DEF Vacant, ReassemblerInv
<1> HIDE DEF R
<1>3. 0 \in SeqNo
  BY HalfIsHalf DEF SeqNo
<1>4. /\ r \in ReceiverRecord /\ r.reassembler = R /\ r.capacity = cap
      /\ r.abs_seqno = 0 /\ r.first_segment = TRUE
  BY <1>2, <1>3 DEF TCPReceiver, ReceiverRecord, R
<1>5. 0 <= L + 3 /\ 0 <= 0 + 1
  OBVIOUS
<1> QED BY <1>1, <1>2, <1>4, <1>5, Zenon DEF Sound, stream_out
=============================================================================
