------------------------- MODULE WatchBackendProofs -------------------------
(***************************************************************************)
(* For every capacity, number of watchers, buffer size and transaction     *)
(* size, the ring of a replica stays sealed and what a client received has *)
(* no gap.  Sealed is not inductive by itself: that a window of log        *)
(* survives the next commit needs log to be in revision order, and that in *)
(* turn needs the next revision to be Top + 1.  GapFree needs what is      *)
(* still queued for the client to continue what it has.                    *)
(***************************************************************************)
EXTENDS WatchBackend, TLAPS, SequenceTheorems, NaturalsInduction, WellFoundedInduction

(***************************************************************************)
(* What the operators of WatchHistory compute, for every sequence of       *)
(* changes in revision order and every capacity.                           *)
(***************************************************************************)
\* Changes whose revisions are naturals, and a sequence of them in revision order.
Revisioned(C) == \A c \in C : c.rev \in Nat

InOrder(s) == \A i, j \in 1..Len(s) : i <= j => s[i].rev <= s[j].rev

\* n splits s at rv: the property partition_point computes.
Splits(s, rv, n) == /\ \A i \in 1..n : s[i].rev <= rv
                    /\ \A i \in (n+1)..Len(s) : s[i].rev > rv

(***************************************************************************)
(* A non-empty set of naturals has a least element: what the eviction loop *)
(* of commit and the binary search of split find.                          *)
(***************************************************************************)
LEMMA LeastNatural ==
  ASSUME NEW T \in SUBSET Nat, T # {}
  PROVE  \E n \in T : \A m \in T : n <= m
<1>. DEFINE R == {ss \in Nat \X Nat : ss[1] < ss[2]}
<1>0. IsWellFoundedOn(R, Nat)
  BY NatLessThanWellFounded DEF OpToRel
<1>1. PICK n \in T : \A m \in T : ~(<<m, n>> \in R)
  <2>. HIDE DEF R
  <2>. QED  BY <1>0, WFMin
<1>2. ASSUME NEW m \in T  PROVE n <= m
  <2>1. m \in Nat /\ n \in Nat
    OBVIOUS
  <2>2. <<m, n>> \in Nat \X Nat /\ <<m, n>>[1] = m /\ <<m, n>>[2] = n
    BY <2>1
  <2>3. ~(m < n)
    BY <1>1, <2>2
  <2>. QED  BY <2>1, <2>3
<1>. QED  BY <1>2

(***************************************************************************)
(* partition_point is total on a ring in revision order.                   *)
(***************************************************************************)
LEMMA PartitionPointSplits ==
  ASSUME NEW C, Revisioned(C), NEW s \in Seq(C), InOrder(s), NEW rv \in Nat
  PROVE  /\ PartitionPoint(s, rv) \in 0..Len(s)
         /\ Splits(s, rv, PartitionPoint(s, rv))
<1>. DEFINE T == {n \in 0..Len(s) : \A i \in (n+1)..Len(s) : s[i].rev > rv}
<1>0. Len(s) \in Nat /\ \A i \in 1..Len(s) : s[i].rev \in Nat
  BY DEF Revisioned
<1>1. Len(s) \in T
  BY <1>0
<1>2. PICK n \in T : \A m \in T : n <= m
  <2>1. T \in SUBSET Nat /\ T # {}
    BY <1>0, <1>1
  <2>. HIDE DEF T
  <2>. QED  BY <2>1, LeastNatural
<1>3. \A i \in 1..n : s[i].rev <= rv
  <2>1. CASE n = 0  BY <2>1
  <2>2. CASE n # 0
    <3>1. n - 1 \notin T /\ n - 1 \in 0..Len(s) /\ n \in 1..Len(s)
      <4>1. n \in 0..Len(s)
        BY <1>2
      <4>2. n - 1 \in 0..Len(s) /\ n \in 1..Len(s) /\ ~(n <= n - 1)
        BY <1>0, <2>2, <4>1
      <4>. HIDE DEF T
      <4>3. n - 1 \notin T
        BY <1>2, <4>2
      <4>. QED  BY <4>2, <4>3
    <3>2. PICK i \in n..Len(s) : ~(s[i].rev > rv)
      BY <1>0, <3>1
    <3>3. i = n
      BY <1>2, <3>2, <1>0, <3>1
    <3>4. s[n].rev <= rv
      BY <3>2, <3>3, <1>0, <3>1
    <3>. QED  BY <3>1, <3>4, <1>0 DEF InOrder
  <2>. QED  BY <2>1, <2>2
<1>4. n \in 0..Len(s) /\ Splits(s, rv, n)
  BY <1>2, <1>3 DEF Splits
<1>. QED  BY <1>4 DEF PartitionPoint, Splits

(***************************************************************************)
(* It is the only split: any n that splits the ring at rv is the partition *)
(* point.                                                                  *)
(***************************************************************************)
LEMMA PartitionPointUnique ==
  ASSUME NEW C, Revisioned(C), NEW s \in Seq(C), InOrder(s), NEW rv \in Nat,
         NEW n \in 0..Len(s), Splits(s, rv, n)
  PROVE  PartitionPoint(s, rv) = n
<1>. DEFINE p == PartitionPoint(s, rv)
<1>1. p \in 0..Len(s) /\ Splits(s, rv, p)
  BY PartitionPointSplits
<1>2. Len(s) \in Nat /\ \A i \in 1..Len(s) : s[i].rev \in Nat
  BY DEF Revisioned
<1>. HIDE DEF p
<1>3. ASSUME p < n  PROVE FALSE
  <2>1. p + 1 \in 1..n /\ p + 1 \in (p+1)..Len(s)
    BY <1>1, <1>2, <1>3
  <2>. QED  BY <2>1, <1>1, <1>2 DEF Splits
<1>4. ASSUME n < p  PROVE FALSE
  <2>1. n + 1 \in 1..p /\ n + 1 \in (n+1)..Len(s)
    BY <1>1, <1>2, <1>4
  <2>. QED  BY <2>1, <1>1, <1>2 DEF Splits
<1>5. p = n
  BY <1>1, <1>2, <1>3, <1>4
<1>. QED  BY <1>5 DEF p

(***************************************************************************)
(* A later revision splits no earlier.                                     *)
(***************************************************************************)
LEMMA PartitionPointMonotone ==
  ASSUME NEW C, Revisioned(C), NEW s \in Seq(C), InOrder(s),
         NEW lo \in Nat, NEW hi \in Nat, lo <= hi
  PROVE  PartitionPoint(s, lo) <= PartitionPoint(s, hi)
<1>. DEFINE p == PartitionPoint(s, lo)  q == PartitionPoint(s, hi)
<1>1. /\ p \in 0..Len(s) /\ Splits(s, lo, p)
      /\ q \in 0..Len(s) /\ Splits(s, hi, q)
  BY PartitionPointSplits
<1>2. Len(s) \in Nat /\ \A i \in 1..Len(s) : s[i].rev \in Nat
  BY DEF Revisioned
<1>. HIDE DEF p, q
<1>3. ASSUME q < p  PROVE FALSE
  <2>1. q + 1 \in 1..p /\ q + 1 \in (q+1)..Len(s)
    BY <1>1, <1>2, <1>3
  <2>2. s[q+1].rev <= lo /\ s[q+1].rev > hi /\ s[q+1].rev \in Nat
    BY <2>1, <1>1, <1>2 DEF Splits
  <2>. QED  BY <2>2
<1>4. p <= q
  BY <1>1, <1>2, <1>3
<1>. QED  BY <1>4 DEF p, q

(***************************************************************************)
(* The eviction loop of commit ends: dropping every revision is a boundary *)
(* that leaves nothing, so a first one within capacity exists.             *)
(***************************************************************************)
LEMMA EvictPointExists ==
  ASSUME NEW C, NEW s \in Seq(C)
  PROVE  /\ EvictPoint(s) \in 0..Len(s)
         /\ Boundary(s, EvictPoint(s))
         /\ Len(s) - EvictPoint(s) <= Capacity
<1>. DEFINE T == {n \in 0..Len(s) : Boundary(s, n) /\ Len(s) - n <= Capacity}
<1>0. Len(s) \in Nat /\ Capacity \in Nat
  BY CapacityAssumption
<1>1. Len(s) \in T
  BY <1>0 DEF Boundary
<1>2. PICK n \in T : \A m \in T : n <= m
  <2>1. T \in SUBSET Nat /\ T # {}
    BY <1>0, <1>1
  <2>. HIDE DEF T
  <2>. QED  BY <2>1, LeastNatural
<1>3. \A m \in 0..(n-1) : Boundary(s, m) => Len(s) - m > Capacity
  <2>. SUFFICES ASSUME NEW m \in 0..(n-1), Boundary(s, m), ~(Len(s) - m > Capacity)
                PROVE  FALSE
    OBVIOUS
  <2>1. m \in T
    BY <1>0, <1>2
  <2>. QED  BY <2>1, <1>2, <1>0
<1>. QED  BY <1>2, <1>3 DEF EvictPoint

-----------------------------------------------------------------------------
(***************************************************************************)
(* Draining a window of s leaves the rest of the same window.              *)
(***************************************************************************)
LEMMA DrainWindow ==
  ASSUME NEW C, NEW s \in Seq(C), NEW a \in 0..Len(s), NEW b \in a..Len(s),
         NEW n \in 0..(b - a)
  PROVE  /\ SubSeq(s, a + 1, b) \in Seq(C)
         /\ Len(SubSeq(s, a + 1, b)) = b - a
         /\ \A i \in 1..(b - a) : SubSeq(s, a + 1, b)[i] = s[a + i]
         /\ Drain(SubSeq(s, a + 1, b), n) = SubSeq(s, a + n + 1, b)
<1>. DEFINE w == SubSeq(s, a + 1, b)
            d == SubSeq(w, n + 1, b - a)
            e == SubSeq(s, a + n + 1, b)
<1>0. Len(s) \in Nat /\ a \in Nat /\ b \in Nat /\ n \in Nat /\ a <= b /\ b <= Len(s) /\ n <= b - a
  OBVIOUS
<1>1. \A i \in (a+1)..b : s[i] \in C
  BY <1>0, ElementOfSeq
<1>2. w \in Seq(C) /\ Len(w) = b - a /\ \A i \in 1..(b - a) : w[i] = s[a + i]
  BY <1>0, <1>1, SubSeqProperties
<1>3. /\ e \in Seq(C) /\ Len(e) = b - a - n
      /\ \A i \in 1..(b - a - n) : e[i] = s[a + n + i]
  <2>1. \A i \in (a+n+1)..b : s[i] \in C
    BY <1>0, <1>1
  <2>. QED  BY <1>0, <2>1, SubSeqProperties
<1>. HIDE DEF w, e
<1>4. /\ d \in Seq(C) /\ Len(d) = b - a - n
      /\ \A i \in 1..(b - a - n) : d[i] = w[n + i]
  <2>1. \A i \in (n+1)..(b-a) : w[i] \in C
    BY <1>0, <1>2, ElementOfSeq
  <2>. QED  BY <1>0, <2>1, SubSeqProperties
<1>. HIDE DEF d
<1>5. \A i \in 1..Len(d) : d[i] = e[i]
  BY <1>0, <1>2, <1>3, <1>4
<1>6. d = e
  BY <1>3, <1>4, <1>5, SeqEqual
<1>. QED  BY <1>2, <1>6 DEF d, e, w, Drain

(***************************************************************************)
(* Two adjacent windows are one: what commit appends to the ring.          *)
(***************************************************************************)
LEMMA BetweenConcat ==
  ASSUME NEW C, Revisioned(C), NEW s \in Seq(C), InOrder(s),
         NEW lo \in Nat, NEW mid \in Nat, NEW hi \in Nat, lo <= mid, mid <= hi
  PROVE  Between(s, lo, mid) \o Between(s, mid, hi) = Between(s, lo, hi)
<1>. DEFINE a == PartitionPoint(s, lo)
            b == PartitionPoint(s, mid)
            c == PartitionPoint(s, hi)
<1>1. a \in 0..Len(s) /\ b \in 0..Len(s) /\ c \in 0..Len(s)
  BY PartitionPointSplits
<1>2. a <= b /\ b <= c
  BY PartitionPointMonotone
<1>. HIDE DEF a, b, c
<1>3. Len(s) \in Nat
  OBVIOUS
<1>. DEFINE m == a + 1
<1>4. m \in 1..(Len(s) + 1) /\ b \in (m - 1)..Len(s) /\ c \in b..Len(s)
  BY <1>1, <1>2, <1>3
<1>5. SubSeq(s, m, b) \o SubSeq(s, b + 1, c) = SubSeq(s, m, c)
  <2>. HIDE DEF m
  <2>. QED  BY <1>4, ConcatAdjacentSubSeq
<1>. QED  BY <1>5 DEF Between, a, b, c

(***************************************************************************)
(* commit keeps the ring the window above its floor: the revision goes in  *)
(* whole, and what is evicted is whole revisions up to the new floor.      *)
(***************************************************************************)
LEMMA CommitKeepsWindow ==
  ASSUME NEW C, Revisioned(C), NEW s \in Seq(C), InOrder(s),
         NEW floor \in Nat, NEW head \in Nat, floor <= head, NEW ring,
         ring = Between(s, floor, head)
  PROVE  LET h == Evict(ring \o Between(s, head, head + 1), floor, head + 1)
         IN  /\ h = [ring |-> h.ring, floor |-> h.floor, head |-> head + 1]
             /\ h.ring \in Seq(C) /\ h.floor \in Nat
             /\ floor <= h.floor /\ h.floor <= head + 1
             /\ h.ring = Between(s, h.floor, head + 1)
             /\ Len(h.ring) <= Capacity
<1>. DEFINE w == Between(s, floor, head + 1)
            n == EvictPoint(w)
            a == PartitionPoint(s, floor)
            b == PartitionPoint(s, head + 1)
            f == IF n = 0 THEN floor ELSE w[n].rev
<1>0. head + 1 \in Nat /\ Len(s) \in Nat
      /\ \A i \in 1..Len(s) : s[i].rev \in Nat
  BY DEF Revisioned
<1>1. ring \o Between(s, head, head + 1) = w
  <2>1. head <= head + 1
    OBVIOUS
  <2>. QED  BY <1>0, <2>1, BetweenConcat
<1>2. /\ a \in 0..Len(s) /\ Splits(s, floor, a)
      /\ b \in 0..Len(s) /\ Splits(s, head + 1, b)
      /\ a <= b
  <2>1. a \in 0..Len(s) /\ Splits(s, floor, a)
    BY PartitionPointSplits
  <2>2. b \in 0..Len(s) /\ Splits(s, head + 1, b)
    BY <1>0, PartitionPointSplits
  <2>3. floor <= head + 1
    OBVIOUS
  <2>4. a <= b
    BY <1>0, <2>3, PartitionPointMonotone
  <2>. QED  BY <2>1, <2>2, <2>4
<1>3. w = SubSeq(s, a + 1, b)
  BY DEF Between
<1>. HIDE DEF a, b, w
<1>4. w \in Seq(C) /\ Len(w) = b - a /\ \A i \in 1..(b - a) : w[i] = s[a + i]
  BY <1>0, <1>2, <1>3, DrainWindow, SMTT(30)
<1>5. n \in 0..(b - a) /\ Boundary(w, n) /\ Len(w) - n <= Capacity
  BY <1>4, EvictPointExists
<1>. HIDE DEF n
<1>6. Drain(w, n) = SubSeq(s, a + n + 1, b)
  BY <1>0, <1>2, <1>3, <1>5, DrainWindow
<1>7. f \in Nat /\ floor <= f /\ f <= head + 1 /\ a + n \in 0..Len(s)
      /\ Splits(s, f, a + n)
  <2>1. CASE n = 0  BY <2>1, <1>0, <1>2
  <2>2. CASE n # 0
    <3>1. /\ n \in 1..(b - a) /\ a + n \in 1..Len(s) /\ a + n \in (a+1)..Len(s)
          /\ a + n \in 1..b /\ f = s[a + n].rev
      BY <2>2, <1>0, <1>2, <1>4, <1>5, SMTT(30)
    <3>2. f \in Nat /\ floor <= f /\ f <= head + 1
      BY <3>1, <1>0, <1>2 DEF Splits
    <3>3. ASSUME NEW i \in 1..(a + n)  PROVE s[i].rev <= f
      <4>1. i \in 1..Len(s) /\ i <= a + n
        BY <3>1, <1>0
      <4>2. s[i].rev <= s[a + n].rev
        BY <3>1, <4>1 DEF InOrder
      <4>. QED  BY <3>1, <4>2
    <3>4. ASSUME NEW i \in (a + n + 1)..Len(s)  PROVE s[i].rev > f
      <4>1. CASE n = b - a
        <5>1. i \in (b + 1)..Len(s)
          BY <4>1, <1>0, <1>2
        <5>. QED  BY <5>1, <3>2, <1>0, <1>2 DEF Splits
      <4>2. CASE n # b - a
        <5>1. n + 1 \in 1..(b - a) /\ w[n + 1] = s[a + n + 1] /\ w[n] = s[a + n]
          <6>1. n + 1 \in 1..(b - a) /\ n \in 1..(b - a) /\ a + (n + 1) = a + n + 1
            BY <4>2, <3>1, <1>0, <1>2, SMTT(30)
          <6>. QED  BY <6>1, <1>4
        <5>2. s[a + n + 1].rev # f
          BY <5>1, <1>5, <1>4, <2>2, <3>1, <4>2 DEF Boundary
        <5>3. a + n + 1 \in 1..Len(s) /\ s[a + n].rev <= s[a + n + 1].rev
          BY <5>1, <3>1, <1>0, <1>2 DEF InOrder
        <5>4. s[a + n + 1].rev <= s[i].rev
          BY <5>3, <1>0, <1>2, <3>1, SMTT(30) DEF InOrder
        <5>5. i \in 1..Len(s) /\ s[i].rev \in Nat /\ s[a + n + 1].rev \in Nat
          BY <5>3, <1>0, <3>1
        <5>. QED  BY <5>2, <5>3, <5>4, <5>5, <3>1, <3>2
      <4>. QED  BY <4>1, <4>2
    <3>. QED  BY <3>1, <3>2, <3>3, <3>4, <1>0 DEF Splits
  <2>. QED  BY <2>1, <2>2
<1>. HIDE DEF f
<1>8. PartitionPoint(s, f) = a + n
  BY <1>7, PartitionPointUnique
<1>9. Drain(w, n) = Between(s, f, head + 1)
  BY <1>6, <1>8 DEF Between, b
<1>10. Drain(w, n) \in Seq(C) /\ Len(Drain(w, n)) <= Capacity
  <2>1. a + n \in 0..Len(s) /\ b \in (a + n)..Len(s) /\ 0 \in 0..(b - (a + n))
    BY <1>0, <1>2, <1>5, <1>7
  <2>2. /\ SubSeq(s, a + n + 1, b) \in Seq(C)
        /\ Len(SubSeq(s, a + n + 1, b)) = b - (a + n)
    BY <2>1, DrainWindow
  <2>. QED  BY <2>2, <1>6, <1>4, <1>5, <1>0, <1>2, SMTT(30)
<1>11. Evict(w, floor, head + 1) = [ring |-> Drain(w, n), floor |-> f, head |-> head + 1]
  BY DEF Evict, n, f
<1>. DEFINE h == Evict(ring \o Between(s, head, head + 1), floor, head + 1)
<1>12. h = [ring |-> Drain(w, n), floor |-> f, head |-> head + 1]
  BY <1>1, <1>11
<1>13. h.ring = Drain(w, n) /\ h.floor = f
  BY <1>12
<1>. HIDE DEF h
<1>14. /\ h = [ring |-> h.ring, floor |-> h.floor, head |-> head + 1]
       /\ h.ring \in Seq(C) /\ h.floor \in Nat
       /\ floor <= h.floor /\ h.floor <= head + 1
       /\ h.ring = Between(s, h.floor, head + 1)
       /\ Len(h.ring) <= Capacity
  BY <1>7, <1>9, <1>10, <1>12, <1>13
<1>. QED  BY <1>14 DEF h

(***************************************************************************)
(* Draining the ring to a revision inside it leaves the window above that  *)
(* revision: what compact and split do.                                    *)
(***************************************************************************)
LEMMA DrainToRevision ==
  ASSUME NEW C, Revisioned(C), NEW s \in Seq(C), InOrder(s),
         NEW lo \in Nat, NEW t \in Nat, NEW hi \in Nat, lo <= t, t <= hi
  PROVE  LET w == Between(s, lo, hi)
         IN  /\ w \in Seq(C)
             /\ Drain(w, PartitionPoint(w, t)) = Between(s, t, hi)
             /\ Len(Between(s, t, hi)) <= Len(w)
<1>. DEFINE w == Between(s, lo, hi)
            a == PartitionPoint(s, lo)
            k == PartitionPoint(s, t)
            b == PartitionPoint(s, hi)
<1>0. Len(s) \in Nat /\ \A i \in 1..Len(s) : s[i].rev \in Nat
  BY DEF Revisioned
<1>1. /\ a \in 0..Len(s) /\ b \in 0..Len(s) /\ k \in 0..Len(s) /\ Splits(s, t, k)
      /\ a <= k /\ k <= b
  BY PartitionPointSplits, PartitionPointMonotone
<1>2. w = SubSeq(s, a + 1, b)
  BY DEF Between
<1>. HIDE DEF a, b, k, w
<1>3. b \in a..Len(s) /\ k - a \in 0..(b - a) /\ a + (k - a) + 1 = k + 1
      /\ b \in k..Len(s) /\ 0 \in 0..(b - k)
  BY <1>0, <1>1
<1>4. /\ w \in Seq(C) /\ Len(w) = b - a /\ \A i \in 1..(b - a) : w[i] = s[a + i]
      /\ Drain(w, k - a) = SubSeq(s, k + 1, b)
  BY <1>0, <1>1, <1>2, <1>3, DrainWindow
<1>5. InOrder(w)
  <2>. SUFFICES ASSUME NEW i \in 1..Len(w), NEW j \in 1..Len(w), i <= j
                PROVE  w[i].rev <= w[j].rev
    BY DEF InOrder
  <2>1. /\ i \in 1..(b - a) /\ j \in 1..(b - a)
        /\ a + i \in 1..Len(s) /\ a + j \in 1..Len(s) /\ a + i <= a + j
    BY <1>0, <1>1, <1>4
  <2>2. s[a + i].rev <= s[a + j].rev
    BY <2>1 DEF InOrder
  <2>. QED  BY <2>1, <2>2, <1>4
<1>6. Splits(w, t, k - a)
  <2>1. ASSUME NEW i \in 1..(k - a)  PROVE w[i].rev <= t
    <3>1. i \in 1..(b - a) /\ a + i \in 1..k
      BY <1>0, <1>1
    <3>. QED  BY <3>1, <1>4, <1>1 DEF Splits
  <2>2. ASSUME NEW i \in (k - a + 1)..Len(w)  PROVE w[i].rev > t
    <3>1. i \in 1..(b - a) /\ a + i \in (k + 1)..Len(s)
      BY <1>0, <1>1, <1>4
    <3>. QED  BY <3>1, <1>4, <1>1 DEF Splits
  <2>. QED  BY <2>1, <2>2 DEF Splits
<1>7. PartitionPoint(w, t) = k - a
  BY <1>3, <1>4, <1>5, <1>6, PartitionPointUnique
<1>8. Between(s, t, hi) = SubSeq(s, k + 1, b)
  BY DEF Between, k, b
<1>9. Len(SubSeq(s, k + 1, b)) = b - k
  BY <1>0, <1>1, <1>3, DrainWindow
<1>10. /\ w \in Seq(C)
       /\ Drain(w, PartitionPoint(w, t)) = Between(s, t, hi)
       /\ Len(Between(s, t, hi)) <= Len(w)
  BY <1>0, <1>1, <1>4, <1>7, <1>8, <1>9, SMTT(30)
<1>. QED  BY <1>10 DEF w

\* The two parts of a concatenation, by index.
LEMMA ConcatParts ==
  ASSUME NEW C, NEW s \in Seq(C), NEW t \in Seq(C)
  PROVE  /\ s \o t \in Seq(C) /\ Len(s \o t) = Len(s) + Len(t)
         /\ \A i \in 1..Len(s) : (s \o t)[i] = s[i]
         /\ \A i \in (Len(s)+1)..(Len(s) + Len(t)) : (s \o t)[i] = t[i - Len(s)]
<1>1. Len(s) \in Nat /\ Len(t) \in Nat
  OBVIOUS
<1>. QED  BY <1>1, ConcatProperties

(***************************************************************************)
(* What is committed later changes no earlier window.                      *)
(***************************************************************************)
LEMMA ExtendKeepsWindow ==
  ASSUME NEW C, Revisioned(C), NEW s \in Seq(C), NEW t \in Seq(C), InOrder(s), InOrder(s \o t),
         NEW lo \in Nat, NEW hi \in Nat, \A i \in 1..Len(t) : t[i].rev > hi, lo <= hi
  PROVE  Between(s \o t, lo, hi) = Between(s, lo, hi)
<1>. DEFINE u == s \o t
            a == PartitionPoint(s, lo)
            b == PartitionPoint(s, hi)
<1>0. Len(s) \in Nat /\ Len(t) \in Nat /\ \A i \in 1..Len(t) : t[i].rev \in Nat
  BY DEF Revisioned
<1>1. /\ u \in Seq(C) /\ Len(u) = Len(s) + Len(t)
      /\ \A i \in 1..Len(s) : u[i] = s[i]
      /\ \A i \in (Len(s)+1)..(Len(s) + Len(t)) : u[i] = t[i - Len(s)]
  BY ConcatParts
<1>2. /\ a \in 0..Len(s) /\ Splits(s, lo, a)
      /\ b \in 0..Len(s) /\ Splits(s, hi, b)
      /\ a <= b
  BY PartitionPointSplits, PartitionPointMonotone
<1>3. InOrder(u)
  OBVIOUS
<1>. HIDE DEF u, a, b
<1>4. ASSUME NEW r \in {lo, hi}, NEW p \in 0..Len(s), Splits(s, r, p)
      PROVE  PartitionPoint(u, r) = p
  <2>1. p \in 0..Len(u)
    BY <1>0, <1>1
  <2>2. ASSUME NEW i \in 1..p  PROVE u[i].rev <= r
    <3>1. i \in 1..Len(s)
      BY <1>0
    <3>. QED  BY <3>1, <1>1, <1>4 DEF Splits
  <2>3. ASSUME NEW i \in (p+1)..Len(u)  PROVE u[i].rev > r
    <3>1. CASE i <= Len(s)
      BY <3>1, <1>0, <1>1, <1>4 DEF Splits
    <3>2. CASE i > Len(s)
      <4>0. i \in (Len(s)+1)..(Len(s) + Len(t)) /\ i - Len(s) \in 1..Len(t)
        <5>1. Len(u) = Len(s) + Len(t)
          BY <1>1
        <5>. QED  BY <3>2, <5>1, <1>0
      <4>1. i - Len(s) \in 1..Len(t) /\ u[i] = t[i - Len(s)]
        BY <4>0, <1>1
      <4>2. t[i - Len(s)].rev > hi /\ t[i - Len(s)].rev \in Nat
        BY <4>1, <1>0
      <4>. QED  BY <4>1, <4>2
    <3>. QED  BY <3>1, <3>2, <1>0, <1>1
  <2>4. Splits(u, r, p)
    BY <2>2, <2>3 DEF Splits
  <2>5. r \in Nat
    OBVIOUS
  <2>. QED  BY <2>1, <2>4, <2>5, <1>1, <1>3, PartitionPointUnique
<1>5. PartitionPoint(u, lo) = a /\ PartitionPoint(u, hi) = b
  BY <1>2, <1>4
<1>6. SubSeq(u, a + 1, b) = SubSeq(s, a + 1, b)
  <2>1. /\ b \in a..Len(s) /\ a \in 0..Len(u) /\ b \in a..Len(u) /\ 0 \in 0..(b - a)
    BY <1>0, <1>1, <1>2
  <2>. DEFINE x == SubSeq(u, a + 1, b)  y == SubSeq(s, a + 1, b)
  <2>2. x \in Seq(C) /\ Len(x) = b - a /\ \A i \in 1..(b - a) : x[i] = u[a + i]
    BY <2>1, <1>1, DrainWindow
  <2>3. y \in Seq(C) /\ Len(y) = b - a /\ \A i \in 1..(b - a) : y[i] = s[a + i]
    BY <2>1, <1>2, DrainWindow
  <2>4. ASSUME NEW i \in 1..Len(x)  PROVE x[i] = y[i]
    <3>1. i \in 1..(b - a) /\ a + i \in 1..Len(s)
      BY <2>2, <1>0, <1>2, SMTT(30)
    <3>. QED  BY <3>1, <2>2, <2>3, <1>1
  <2>. QED  BY <2>2, <2>3, <2>4, SeqEqual
<1>. QED  BY <1>5, <1>6 DEF Between, u, a, b

(***************************************************************************)
(* Nothing lies between a revision and itself: what a loaded history holds.*)
(***************************************************************************)
LEMMA EmptyWindow ==
  ASSUME NEW C, Revisioned(C), NEW s \in Seq(C), InOrder(s), NEW r \in Nat
  PROVE  Between(s, r, r) = <<>>
<1>1. PartitionPoint(s, r) \in Int
  BY PartitionPointSplits
<1>. QED  BY <1>1, SubSeqEmpty DEF Between

-----------------------------------------------------------------------------
(***************************************************************************)
(* The replica: its ring, its watchers, its log.                           *)
(***************************************************************************)

LogInv == log \in Seq(Change) /\ InOrder(log)

HistoryInv == /\ history \in [ring: Seq(Change), floor: Nat, head: Nat]
              /\ Sealed

IInv == LogInv /\ HistoryInv

\* Changes carry natural revisions (revision.rs: Revision is a u64).
LEMMA ChangeRevisioned == Revisioned(Change)
BY DEF Revisioned, Change

\* The newest committed revision is natural and bounds every committed one.
LEMMA TopBounds ==
  ASSUME LogInv
  PROVE  Top \in Nat /\ \A i \in 1..Len(log) : log[i].rev \in Nat /\ log[i].rev <= Top
<1>1. Len(log) \in Nat /\ \A i \in 1..Len(log) : log[i].rev \in Nat
  BY ChangeRevisioned DEF LogInv, Revisioned
<1>2. CASE log = <<>>
  BY <1>2 DEF Top
<1>3. CASE log # <<>>
  <2>1. Len(log) \in 1..Len(log) /\ Top = log[Len(log)].rev
    BY <1>1, <1>3, EmptySeq DEF LogInv, Top
  <2>2. ASSUME NEW i \in 1..Len(log)  PROVE log[i].rev <= Top
    <3>1. i <= Len(log)
      BY <1>1
    <3>. QED  BY <2>1, <3>1 DEF LogInv, InOrder
  <2>. QED  BY <1>1, <2>1, <2>2
<1>. QED  BY <1>2, <1>3

\* A decided transaction keeps the log in revision order and moves its end up by one.
LEMMA DecideKeepsLog ==
  ASSUME LogInv, NEW n \in Nat \ {0}, log' = log \o Batch(Top + 1, n)
  PROVE  /\ LogInv' /\ Top' = Top + 1
         /\ Batch(Top + 1, n) \in Seq(Change)
         /\ \A i \in 1..Len(Batch(Top + 1, n)) : Batch(Top + 1, n)[i].rev = Top + 1
<1>. DEFINE b == Batch(Top + 1, n)
<1>0. Top \in Nat /\ \A i \in 1..Len(log) : log[i].rev \in Nat /\ log[i].rev <= Top
  BY TopBounds
<1>1. b \in Seq(Change) /\ Len(b) = n /\ \A i \in 1..n : b[i].rev = Top + 1
  <2>1. ASSUME NEW i \in 1..n  PROVE [rev |-> Top + 1, pos |-> i] \in Change
    BY <1>0 DEF Change
  <2>2. b \in [1..n -> Change] /\ \A i \in 1..n : b[i] = [rev |-> Top + 1, pos |-> i]
    BY <2>1 DEF Batch
  <2>. HIDE DEF b
  <2>3. b \in Seq(Change)
    BY <2>2, IsASeq
  <2>4. Len(b) = n
    BY <2>2, <2>3, LenProperties
  <2>. QED  BY <2>2, <2>3, <2>4
<1>. HIDE DEF b
<1>2. log' = log \o b
  BY DEF b
<1>3. /\ log' \in Seq(Change) /\ Len(log') = Len(log) + n
      /\ \A i \in 1..Len(log) : log'[i] = log[i]
      /\ \A i \in (Len(log)+1)..(Len(log)+n) : log'[i] = b[i - Len(log)]
  <2>. DEFINE u == log \o b
  <2>1. /\ u \in Seq(Change) /\ Len(u) = Len(log) + Len(b)
        /\ \A i \in 1..Len(log) : u[i] = log[i]
        /\ \A i \in (Len(log)+1)..(Len(log)+Len(b)) : u[i] = b[i - Len(log)]
    BY <1>1, ConcatParts DEF LogInv
  <2>. HIDE DEF u
  <2>2. log' = u
    BY <1>2 DEF u
  <2>. QED  BY <1>1, <2>1, <2>2
<1>4. Len(log) \in Nat
  BY DEF LogInv
<1>5. ASSUME NEW i \in (Len(log)+1)..(Len(log)+n)  PROVE log'[i].rev = Top + 1
  <2>1. i - Len(log) \in 1..n
    BY <1>4
  <2>. QED  BY <2>1, <1>1, <1>3
<1>6. InOrder(log')
  <2>. SUFFICES ASSUME NEW i \in 1..Len(log'), NEW j \in 1..Len(log'), i <= j
                PROVE  log'[i].rev <= log'[j].rev
    BY DEF InOrder
  <2>1. CASE j <= Len(log)
    <3>1. i \in 1..Len(log) /\ j \in 1..Len(log)
      BY <1>3, <1>4, <2>1
    <3>. QED  BY <3>1, <1>3 DEF LogInv, InOrder
  <2>2. CASE j > Len(log)
    <3>1. log'[j].rev = Top + 1
      BY <1>3, <1>4, <1>5, <2>2
    <3>2. CASE i <= Len(log)
      BY <1>0, <1>3, <1>4, <3>1, <3>2
    <3>3. CASE i > Len(log)
      <4>1. log'[i].rev = Top + 1
        BY <1>3, <1>4, <1>5, <3>3
      <4>. QED  BY <1>0, <3>1, <4>1
    <3>. QED  BY <1>4, <3>2, <3>3
  <2>. QED  BY <1>3, <1>4, <2>1, <2>2
<1>7. Top' = Top + 1
  <2>1. log' # <<>> /\ Len(log') \in (Len(log)+1)..(Len(log)+n)
    BY <1>3, <1>4
  <2>2. Top' = log'[Len(log')].rev
    BY <2>1 DEF Top
  <2>. QED  BY <2>1, <2>2, <1>5
<1>8. LogInv'
  BY <1>3, <1>6 DEF LogInv
<1>. QED  BY <1>1, <1>7, <1>8 DEF b

-----------------------------------------------------------------------------
\* An empty history at a committed revision is sealed: a fresh boot or a snapshot.
LEMMA LoadedSealed ==
  ASSUME LogInv, LogInv', log' = log, NEW r \in Nat, r <= Top, history' = LoadedAt(r)
  PROVE  HistoryInv'
<1>1. /\ history'.ring = <<>> /\ history'.floor = r /\ history'.head = r
      /\ history' \in [ring: Seq(Change), floor: Nat, head: Nat]
  BY DEF LoadedAt
<1>2. Between(log, r, r) = <<>>
  BY ChangeRevisioned, EmptyWindow DEF LogInv
<1>3. Top' = Top /\ Top \in Nat
  BY TopBounds DEF Top
<1>4. history'.ring = Window(history.floor, history.head)'
  BY <1>1, <1>2 DEF Window
<1>5. Len(history'.ring) <= Capacity
  BY <1>1, CapacityAssumption
<1>. QED  BY <1>1, <1>3, <1>4, <1>5 DEF HistoryInv, Sealed

\* A fresh replica is sealed: nothing is decided and its ring is empty.
LEMMA SealedInit == Init => IInv
<1>. SUFFICES ASSUME Init  PROVE IInv
  OBVIOUS
<1>1. log = <<>> /\ history = LoadedAt(0)
  BY DEF Init, NewHistory, LoadedAt
<1>2. LogInv
  BY <1>1 DEF LogInv, InOrder
<1>3. Between(log, 0, 0) = <<>>
  BY <1>2, ChangeRevisioned, EmptyWindow DEF LogInv
<1>4. Top = 0
  BY <1>1 DEF Top
<1>. QED  BY <1>1, <1>2, <1>3, <1>4, CapacityAssumption
          DEF IInv, HistoryInv, Sealed, Window, LoadedAt

\* Every step keeps the log in order and the ring its window (commit, compact, load, install).
LEMMA SealedStep == IInv /\ [Next]_vars => IInv'
<1>. SUFFICES ASSUME IInv, [Next]_vars  PROVE IInv'
  OBVIOUS
<1>. USE ChangeRevisioned
<1>0. /\ Top \in Nat
      /\ history \in [ring: Seq(Change), floor: Nat, head: Nat]
      /\ history.floor \in Nat /\ history.head \in Nat
      /\ history.floor <= history.head /\ history.head <= Top
      /\ history.ring = Between(log, history.floor, history.head)
      /\ Len(history.ring) <= Capacity
      /\ log \in Seq(Change) /\ InOrder(log)
  BY TopBounds DEF IInv, LogInv, HistoryInv, Sealed, Window
<1>same. ASSUME log' = log  PROVE LogInv' /\ Top' = Top
  BY <1>same DEF IInv, LogInv, Top
<1>idle. ASSUME UNCHANGED <<history, log>>  PROVE IInv'
  BY <1>idle DEF IInv, LogInv, HistoryInv, Sealed, Top, Window
<1>1. ASSUME NEW n \in 1..MaxTxn, Decide(n)  PROVE IInv'
  <2>. DEFINE b == Batch(Top + 1, n)
  <2>1. n \in Nat \ {0} /\ log' = log \o b /\ history' = history
    BY <1>1, BackendAssumption DEF Decide
  <2>2. /\ LogInv' /\ Top' = Top + 1 /\ b \in Seq(Change)
        /\ \A i \in 1..Len(b) : b[i].rev = Top + 1
    BY <2>1, DecideKeepsLog DEF IInv
  <2>. HIDE DEF b
  <2>3. \A i \in 1..Len(b) : b[i].rev > history.head
    BY <1>0, <2>2
  <2>4. InOrder(log \o b)
    BY <2>1, <2>2 DEF LogInv
  <2>5. Between(log', history.floor, history.head) = history.ring
    <3>1. Between(log \o b, history.floor, history.head)
             = Between(log, history.floor, history.head)
      BY <1>0, <2>2, <2>3, <2>4, ExtendKeepsWindow
    <3>. QED  BY <1>0, <2>1, <3>1
  <2>6. history'.ring = Window(history.floor, history.head)'
    BY <2>1, <2>5 DEF Window
  <2>7. history'.head <= Top'
    BY <1>0, <2>1, <2>2
  <2>. QED  BY <1>0, <2>1, <2>2, <2>6, <2>7 DEF IInv, HistoryInv, Sealed
<1>2. ASSUME Apply  PROVE IInv'
  <2>. DEFINE h == Evict(history.ring \o Between(log, history.head, history.head + 1),
                         history.floor, history.head + 1)
  <2>1. history.head < Top /\ history' = h /\ log' = log
    BY <1>2 DEF Apply, Commit, Window
  <2>2. /\ h = [ring |-> h.ring, floor |-> h.floor, head |-> history.head + 1]
        /\ h.ring \in Seq(Change) /\ h.floor \in Nat
        /\ h.floor <= history.head + 1
        /\ h.ring = Between(log, h.floor, history.head + 1)
        /\ Len(h.ring) <= Capacity
    BY <1>0, CommitKeepsWindow
  <2>. HIDE DEF h
  <2>3. h.head = history.head + 1 /\ h \in [ring: Seq(Change), floor: Nat, head: Nat]
    BY <1>0, <2>2
  <2>4. history'.ring = Window(history.floor, history.head)'
    BY <2>1, <2>2, <2>3 DEF Window
  <2>5. LogInv' /\ Top' = Top
    BY <1>same, <2>1
  <2>6. history'.floor <= history'.head /\ history'.head <= Top'
    BY <1>0, <2>1, <2>2, <2>3, <2>5
  <2>. QED  BY <2>1, <2>2, <2>3, <2>4, <2>5, <2>6 DEF IInv, HistoryInv, Sealed
<1>3. ASSUME NEW r \in 1..Top, CompactTo(r)  PROVE IInv'
  <2>. DEFINE t == IF r < history.head THEN r ELSE history.head
  <2>1. /\ history' = Compact(history, r) /\ history' # history /\ log' = log
    BY <1>3 DEF CompactTo
  <2>2. t \in Nat /\ t <= history.head
    BY <1>0
  <2>3. /\ t > history.floor
        /\ history' = [history EXCEPT !.ring = Drain(@, PartitionPoint(@, t)), !.floor = t]
    BY <2>1 DEF Compact
  <2>. HIDE DEF t
  <2>4. /\ history'.ring = Drain(history.ring, PartitionPoint(history.ring, t))
        /\ history'.floor = t /\ history'.head = history.head
        /\ history' = [ring |-> history'.ring, floor |-> t, head |-> history.head]
    BY <1>0, <2>3
  <2>5. history.floor <= t
    BY <1>0, <2>2, <2>3
  <2>6. /\ history'.ring = Between(log, t, history.head)
        /\ Len(history'.ring) <= Len(history.ring)
    BY <1>0, <2>2, <2>4, <2>5, DrainToRevision
  <2>7. Between(log, t, history.head) \in Seq(Change)
    BY <1>0, <2>2, DrainToRevision
  <2>8. Len(history'.ring) <= Capacity
    <3>1. Len(history'.ring) \in Nat /\ Len(history.ring) \in Nat
      BY <1>0, <2>6, <2>7
    <3>. QED  BY <3>1, <1>0, <2>6, CapacityAssumption
  <2>9. LogInv' /\ Top' = Top
    BY <1>same, <2>1
  <2>10. history'.ring = Window(history.floor, history.head)'
    BY <2>1, <2>4, <2>6 DEF Window
  <2>11. history' \in [ring: Seq(Change), floor: Nat, head: Nat]
    BY <1>0, <2>2, <2>4, <2>6, <2>7
  <2>. QED  BY <1>0, <2>2, <2>4, <2>8, <2>9, <2>10, <2>11 DEF IInv, HistoryInv, Sealed
<1>4. ASSUME NEW r \in 1..Top, InstallSnapshot(r)  PROVE IInv'
  <2>1. r \in Nat /\ r <= Top /\ history' = LoadedAt(r) /\ log' = log
    BY <1>0, <1>4 DEF InstallSnapshot
  <2>. QED  BY <2>1, <1>same, LoadedSealed DEF IInv
<1>5. ASSUME NEW r \in 0..history.head, Restart(r)  PROVE IInv'
  <2>1. r \in Nat /\ r <= Top /\ history' = LoadedAt(r) /\ log' = log
    BY <1>0, <1>5 DEF Restart
  <2>. QED  BY <2>1, <1>same, LoadedSealed DEF IInv
<1>6. ASSUME NEW due \in SUBSET Watchers, Tick(due)  PROVE IInv'
  BY <1>6, <1>idle DEF Tick
<1>7. ASSUME NEW w \in Watchers,
             \/ Relist(w) \/ WatchRefused(w) \/ Subscribe(w)
             \/ \E b \in BOOLEAN : WatchFrom(w, b)
             \/ Receive(w) \/ ReceiveGone(w) \/ DropStream(w)
      PROVE  IInv'
  BY <1>7, <1>idle
     DEF Relist, WatchRefused, Subscribe, WatchFrom, Receive, ReceiveGone, DropStream
<1>8. ASSUME UNCHANGED vars  PROVE IInv'
  BY <1>8, <1>idle DEF vars
<1>. QED  BY <1>1, <1>2, <1>3, <1>4, <1>5, <1>6, <1>7, <1>8 DEF Next

-----------------------------------------------------------------------------
(***************************************************************************)
(* Types.  A handle is well kept when it has its type and its channel is   *)
(* within the buffer; feeding, fanning and ticking a handle keep it so.    *)
(***************************************************************************)
Kept(h) == h \in Handle /\ Len(h.chan) <= Buffer

\* try_enqueue never overfills the channel (watch_backend.rs: WatcherHandle::try_enqueue).
LEMMA FeedKept ==
  ASSUME NEW h, Kept(h), NEW cs \in Seq(Change)
  PROVE  Kept(Feed(h, cs))
<1>. DEFINE room == Buffer - Len(h.chan)
            sent == IF room < Len(cs) THEN room ELSE Len(cs)
            seen == IF sent = 0 THEN h.lastSeen ELSE Later(h.lastSeen, cs[sent].rev)
            more == SubSeq(cs, 1, sent)
            all  == h.chan \o more
<1>1. /\ h.chan \in Seq(Signal) /\ Len(h.chan) \in Nat /\ Len(h.chan) <= Buffer
      /\ h.lastSeen \in Nat /\ Len(cs) \in Nat /\ Buffer \in Nat
  BY BackendAssumption DEF Kept, Handle
<1>2. sent \in 0..Len(cs) /\ sent <= room /\ room \in Nat /\ Len(h.chan) + room = Buffer
  <2>1. room \in Nat /\ Len(h.chan) + room = Buffer
    BY <1>1
  <2>. HIDE DEF room
  <2>. QED  BY <1>1, <2>1
<1>. HIDE DEF room, sent
<1>3. seen \in Nat
  <2>1. CASE sent = 0
    BY <1>1, <2>1
  <2>2. CASE sent # 0
    <3>1. sent \in 1..Len(cs)
      BY <1>1, <1>2, <2>2
    <3>2. cs[sent] \in Change
      BY <3>1
    <3>3. cs[sent].rev \in Nat
      BY <3>2 DEF Change
    <3>. QED  BY <1>1, <2>2, <3>3 DEF Later
  <2>. QED  BY <2>1, <2>2
<1>. HIDE DEF seen
<1>4. more \in Seq(Change) /\ Len(more) = sent
  BY <1>1, <1>2, SubSeqProperties
<1>5. more \in Seq(Signal)
  BY <1>4 DEF Signal
<1>. HIDE DEF more
<1>6. all \in Seq(Signal) /\ Len(all) <= Buffer
  <2>1. all \in Seq(Signal) /\ Len(all) = Len(h.chan) + Len(more)
    BY <1>1, <1>5, ConcatParts
  <2>. QED  BY <2>1, <1>1, <1>2, <1>4
<1>. HIDE DEF all
<1>7. CASE h.overflowed
  BY <1>7 DEF Feed
<1>8. CASE ~h.overflowed
  <2>. DEFINE over == sent < Len(cs)
              gone == IF over THEN seen ELSE None
              f == [h EXCEPT !.chan = all, !.lastSeen = seen,
                             !.gone = gone, !.overflowed = over]
  <2>1. Feed(h, cs) = f
    BY <1>8 DEF Feed, all, more, seen, sent, room
  <2>2. h \in Handle
    BY DEF Kept
  <2>3. over \in BOOLEAN /\ gone \in Nat \cup {None}
    BY <1>3
  <2>. HIDE DEF over, gone
  <2>4. f \in Handle /\ f.chan = all
    BY <1>3, <1>6, <2>2, <2>3 DEF Handle
  <2>. QED  BY <1>6, <2>1, <2>4 DEF Kept
<1>. QED  BY <1>7, <1>8

\* fan_shared feeds a handle or reaps it.
LEMMA FanKept ==
  ASSUME NEW h, Kept(h), NEW cs \in Seq(Change)
  PROVE  Kept(Fan(h, cs))
<1>. DEFINE f == Feed(h, cs)
<1>1. Kept(f)
  BY FeedKept
<1>. HIDE DEF f
<1>2. Kept([h EXCEPT !.reg = FALSE]) /\ Kept([f EXCEPT !.reg = ~f.overflowed])
  BY <1>1 DEF Kept, Handle
<1>3. \/ Fan(h, cs) = h
      \/ Fan(h, cs) = [h EXCEPT !.reg = FALSE]
      \/ Fan(h, cs) = [f EXCEPT !.reg = ~f.overflowed]
  BY DEF Fan, f
<1>. QED  BY <1>2, <1>3

\* tick_bookmarks queues a bookmark only where there is room for it.
LEMMA TickKept ==
  ASSUME NEW h, Kept(h), NEW r \in Nat
  PROVE  Kept(TickOne(h, r))
<1>. DEFINE c == Append(h.chan, Bookmark(r))
            b == [h EXCEPT !.chan = c, !.lastSeen = Later(h.lastSeen, r), !.bookmarked = r]
<1>1. h \in Handle /\ Len(h.chan) \in Nat /\ h.chan \in Seq(Signal) /\ Buffer \in Nat
  BY BackendAssumption DEF Kept, Handle
<1>2. Bookmark(r) \in Signal
  BY DEF Bookmark, Signal
<1>3. c \in Seq(Signal) /\ Len(c) = Len(h.chan) + 1
  BY <1>1, <1>2
<1>. HIDE DEF c
<1>4. Later(h.lastSeen, r) \in Nat
  BY <1>1 DEF Later, Handle
<1>5. b \in Handle /\ b.chan = c
  BY <1>1, <1>3, <1>4 DEF Handle
<1>6. Kept([h EXCEPT !.reg = FALSE])
  BY DEF Kept, Handle
<1>7. \/ TickOne(h, r) = h
      \/ TickOne(h, r) = [h EXCEPT !.reg = FALSE]
      \/ TickOne(h, r) = b /\ ~(Len(h.chan) >= Buffer)
  BY DEF TickOne, c
<1>8. ASSUME TickOne(h, r) = b, ~(Len(h.chan) >= Buffer)  PROVE Kept(b)
  BY <1>1, <1>3, <1>5, <1>8 DEF Kept
<1>. QED  BY <1>6, <1>7, <1>8

\* Replacing a handle's channel by a short enough one keeps the handle.
LEMMA RechannelKept ==
  ASSUME NEW h, Kept(h), NEW c \in Seq(Signal), Len(c) <= Buffer
  PROVE  /\ Kept([h EXCEPT !.chan = c])
         /\ Kept([h EXCEPT !.open = FALSE, !.chan = c, !.gone = None])
<1>. DEFINE a == [h EXCEPT !.chan = c]
            b == [h EXCEPT !.open = FALSE, !.chan = c, !.gone = None]
<1>1. a \in Handle /\ a.chan = c /\ b \in Handle /\ b.chan = c
  BY DEF Kept, Handle
<1>. HIDE DEF a, b
<1>2. Kept(a) /\ Kept(b)
  BY <1>1 DEF Kept
<1>. QED  BY <1>2 DEF a, b

\* A replay is a run of committed changes.
LEMMA SinceTyped ==
  ASSUME IInv, NEW from \in Nat, ~Refuses(history, from), from <= history.head
  PROVE  Since(history, from) = Between(log, from, history.head)
      /\ Since(history, from) \in Seq(Change)
<1>1. /\ history.floor \in Nat /\ history.head \in Nat /\ history.floor <= from
      /\ history.ring = Between(log, history.floor, history.head)
      /\ log \in Seq(Change) /\ InOrder(log)
  BY DEF IInv, LogInv, HistoryInv, Sealed, Window, Refuses
<1>2. Since(history, from) = Drain(history.ring, PartitionPoint(history.ring, from))
  BY DEF Since
<1>. QED  BY <1>1, <1>2, ChangeRevisioned, DrainToRevision

\* register_shared starts a handle on an empty channel and feeds it the replay.
LEMMA RegisterKept ==
  ASSUME HistoryInv, NEW replay \in Seq(Change), NEW from \in Nat, NEW b \in BOOLEAN
  PROVE  Kept(Register(replay, from, b)) /\ Kept(Closed)
<1>. DEFINE h == [reg |-> TRUE, open |-> TRUE, chan |-> <<>>, gone |-> None,
                  boundary |-> history.head, lastSeen |-> from, overflowed |-> FALSE,
                  bookmarks |-> b, bookmarked |-> None]
<1>1. Kept(h) /\ Kept(Closed)
  BY BackendAssumption DEF Kept, Handle, HistoryInv, Closed
<1>2. Register(replay, from, b) = Feed(h, replay)
  BY DEF Register
<1>. HIDE DEF h
<1>. QED  BY <1>1, <1>2, FeedKept

(***************************************************************************)
(* Whatever a replica commits, evicts, compacts, reloads or installs, its  *)
(* ring is exactly the committed changes above its floor (watch_history.rs *)
(* commit, compact, loaded_at).                                            *)
(***************************************************************************)
THEOREM SealedAlways == Spec => []Sealed
<1>1. IInv => Sealed
  BY DEF IInv, HistoryInv
<1>. QED  BY <1>1, SealedInit, SealedStep, PTL DEF Spec

-----------------------------------------------------------------------------
\* What the clients are sent off their channels keeps their views well typed.
LEMMA TypeStep == IInv /\ TypeOK /\ [Next]_vars => TypeOK'
<1>. SUFFICES ASSUME IInv, TypeOK, [Next]_vars  PROVE TypeOK'
  OBVIOUS
<1>. DEFINE WatchOK == watch \in [Watchers -> Handle] /\ \A w \in Watchers : Kept(watch[w])
            ClientOK == client \in [Watchers -> Client]
            CountOK == restarts \in Nat /\ installs \in Nat /\ drops \in Nat
<1>0. /\ history.head \in Nat /\ log \in Seq(Change) /\ InOrder(log)
      /\ HistoryInv /\ WatchOK /\ ClientOK /\ CountOK
  <2>1. \A w \in Watchers : Kept(watch[w])
    BY DEF TypeOK, Kept
  <2>. QED  BY <2>1 DEF IInv, LogInv, HistoryInv, TypeOK
<1>. HIDE DEF WatchOK, ClientOK, CountOK
<1>fold. ASSUME WatchOK', ClientOK', CountOK'  PROVE TypeOK'
  <2>1. IInv'
    BY SealedStep
  <2>2. /\ history' \in [ring: Seq(Change), floor: Nat, head: Nat]
        /\ log' \in Seq(Change)
    BY <2>1 DEF IInv, LogInv, HistoryInv
  <2>. QED  BY <1>fold, <2>2 DEF TypeOK, WatchOK, ClientOK, CountOK, Kept
<1>sameW. ASSUME watch' = watch  PROVE WatchOK'
  BY <1>0, <1>sameW DEF WatchOK
<1>setW. ASSUME NEW w \in Watchers, NEW h, Kept(h), watch' = [watch EXCEPT ![w] = h]
         PROVE  WatchOK'
  BY <1>0, <1>setW DEF WatchOK, Kept
<1>sameC. ASSUME client' = client  PROVE ClientOK'
  BY <1>0, <1>sameC DEF ClientOK
<1>setC. ASSUME NEW w \in Watchers, NEW c \in Client, client' = [client EXCEPT ![w] = c]
         PROVE  ClientOK'
  BY <1>0, <1>setC DEF ClientOK
<1>sameN. ASSUME UNCHANGED <<restarts, installs, drops>>  PROVE CountOK'
  BY <1>0, <1>sameN DEF CountOK
<1>fresh. [base |-> history.head, got |-> <<>>, resume |-> history.head, relist |-> FALSE] \in Client
  BY <1>0 DEF Client
<1>1. ASSUME NEW n \in 1..MaxTxn, Decide(n)  PROVE TypeOK'
  BY <1>1, <1>sameW, <1>sameC, <1>sameN, <1>fold DEF Decide
<1>2. ASSUME Apply  PROVE TypeOK'
  <2>. DEFINE cs == Between(log, history.head, history.head + 1)
  <2>1. cs \in Seq(Change)
    BY <1>0, ChangeRevisioned, DrainToRevision
  <2>2. /\ watch' = [w \in Watchers |-> Fan(watch[w], cs)]
        /\ client' = client /\ UNCHANGED <<restarts, installs, drops>>
    BY <1>2 DEF Apply, Window
  <2>. HIDE DEF cs
  <2>3. \A w \in Watchers : Kept(Fan(watch[w], cs))
    BY <1>0, <2>1, FanKept DEF WatchOK
  <2>4. WatchOK'
    BY <2>2, <2>3 DEF WatchOK, Kept
  <2>. QED  BY <2>2, <2>4, <1>sameC, <1>sameN, <1>fold
<1>3. ASSUME NEW r \in 1..Top, CompactTo(r)  PROVE TypeOK'
  BY <1>3, <1>sameW, <1>sameC, <1>sameN, <1>fold DEF CompactTo
<1>4. ASSUME NEW r \in 1..Top, InstallSnapshot(r)  PROVE TypeOK'
  <2>1. CountOK'
    BY <1>0, <1>4 DEF InstallSnapshot, CountOK
  <2>. QED  BY <1>4, <2>1, <1>sameW, <1>sameC, <1>fold DEF InstallSnapshot
<1>5. ASSUME NEW r \in 0..history.head, Restart(r)  PROVE TypeOK'
  <2>1. CountOK'
    BY <1>0, <1>5 DEF Restart, CountOK
  <2>2. Kept(Closed)
    <3>1. <<>> \in Seq(Change)
      OBVIOUS
    <3>. QED  BY <1>0, <3>1, RegisterKept
  <2>3. WatchOK'
    BY <1>5, <2>2 DEF Restart, WatchOK, Kept
  <2>. QED  BY <1>5, <2>1, <2>3, <1>sameC, <1>fold DEF Restart
<1>6. ASSUME NEW due \in SUBSET Watchers, Tick(due)  PROVE TypeOK'
  <2>1. \A w \in Watchers : Kept(TickOne(watch[w], history.head)) /\ Kept(watch[w])
    BY <1>0, TickKept DEF WatchOK
  <2>2. WatchOK'
    BY <1>6, <2>1 DEF Tick, WatchOK, Kept
  <2>. QED  BY <1>6, <2>2, <1>sameC, <1>sameN, <1>fold DEF Tick
<1>7. ASSUME NEW w \in Watchers, Relist(w)  PROVE TypeOK'
  <2>1. ClientOK'
    BY <1>7, <1>fresh, <1>setC DEF Relist
  <2>. QED  BY <1>7, <2>1, <1>sameW, <1>sameN, <1>fold DEF Relist
<1>8. ASSUME NEW w \in Watchers, WatchRefused(w)  PROVE TypeOK'
  <2>1. ClientOK'
    BY <1>0, <1>8 DEF WatchRefused, ClientOK, Client
  <2>. QED  BY <1>8, <2>1, <1>sameW, <1>sameN, <1>fold DEF WatchRefused
<1>9. ASSUME NEW w \in Watchers, Subscribe(w)  PROVE TypeOK'
  <2>. DEFINE h == Register(<<>>, history.head, FALSE)
  <2>1. Kept(h)
    <3>1. <<>> \in Seq(Change)
      OBVIOUS
    <3>. QED  BY <1>0, <3>1, RegisterKept
  <2>. HIDE DEF h
  <2>2. watch' = [watch EXCEPT ![w] = h]
    BY <1>9 DEF Subscribe, h
  <2>3. WatchOK'
    BY <2>1, <2>2, <1>setW
  <2>4. ClientOK'
    BY <1>9, <1>fresh, <1>setC DEF Subscribe
  <2>. QED  BY <1>9, <2>3, <2>4, <1>sameN, <1>fold DEF Subscribe
<1>10. ASSUME NEW w \in Watchers, NEW b \in BOOLEAN, WatchFrom(w, b)  PROVE TypeOK'
  <2>. DEFINE from == client[w].resume
              replay == Since(history, from)
              h == Register(replay, from, b)
  <2>1. from \in Nat
    BY <1>0 DEF ClientOK, Client
  <2>2. watch' = [watch EXCEPT ![w] = h] /\ ~Refuses(history, from) /\ from <= history.head
    BY <1>10 DEF WatchFrom
  <2>3. replay \in Seq(Change)
    BY <1>0, <2>1, <2>2, SinceTyped
  <2>. HIDE DEF from, replay
  <2>4. Kept(h)
    BY <1>0, <2>1, <2>3, RegisterKept
  <2>. HIDE DEF h
  <2>5. WatchOK'
    BY <2>2, <2>4, <1>setW
  <2>. QED  BY <1>10, <2>5, <1>sameC, <1>sameN, <1>fold DEF WatchFrom
<1>11. ASSUME NEW w \in Watchers, Receive(w)  PROVE TypeOK'
  <2>. DEFINE h == watch[w]
              sig == Head(h.chan)
              c == client[w]
  <2>1. /\ h \in Handle /\ Len(h.chan) <= Buffer /\ h.chan # <<>>
        /\ c \in Client
    BY <1>0, <1>11 DEF WatchOK, ClientOK, Kept, Receive
  <2>2. /\ watch' = [watch EXCEPT ![w] = [h EXCEPT !.chan = Tail(@)]]
        /\ client' = [client EXCEPT ![w] =
                        [c EXCEPT !.got = IF sig.pos = 0 THEN @ ELSE Append(@, sig),
                                  !.resume = Later(@, sig.rev)]]
        /\ UNCHANGED <<restarts, installs, drops>>
    BY <1>0, <1>11 DEF Receive, WatchOK, ClientOK
  <2>. HIDE DEF h, c
  <2>3. /\ h.chan \in Seq(Signal) /\ Len(h.chan) \in Nat /\ Buffer \in Nat
        /\ c.got \in Seq(Change) /\ c.resume \in Nat
    BY <2>1, BackendAssumption DEF Handle, Client
  <2>4. sig \in Signal /\ Tail(h.chan) \in Seq(Signal) /\ Len(Tail(h.chan)) = Len(h.chan) - 1
    BY <2>1, <2>3, HeadTailProperties
  <2>5. sig.rev \in Nat /\ (sig.pos # 0 => sig \in Change)
    BY <2>4 DEF Signal, Change
  <2>. HIDE DEF sig
  <2>6. Kept([h EXCEPT !.chan = Tail(@)])
    <3>1. Kept(h)
      BY <2>1 DEF Kept
    <3>2. Len(Tail(h.chan)) <= Buffer
      BY <2>1, <2>3, <2>4
    <3>. QED  BY <2>4, <3>1, <3>2, RechannelKept
  <2>7. [c EXCEPT !.got = IF sig.pos = 0 THEN @ ELSE Append(@, sig),
                  !.resume = Later(@, sig.rev)] \in Client
    <3>1. (IF sig.pos = 0 THEN c.got ELSE Append(c.got, sig)) \in Seq(Change)
      BY <2>3, <2>5
    <3>2. Later(c.resume, sig.rev) \in Nat
      BY <2>3, <2>5 DEF Later
    <3>. QED  BY <2>1, <3>1, <3>2 DEF Client
  <2>8. WatchOK'
    BY <2>2, <2>6, <1>setW
  <2>9. ClientOK'
    BY <2>2, <2>7, <1>setC
  <2>. QED  BY <2>2, <2>8, <2>9, <1>sameN, <1>fold
<1>12. ASSUME NEW w \in Watchers, ReceiveGone(w)  PROVE TypeOK'
  <2>1. Kept(watch[w]) /\ client[w] \in Client
    BY <1>0 DEF WatchOK, ClientOK
  <2>2. Kept([watch[w] EXCEPT !.open = FALSE, !.gone = None])
    BY <2>1 DEF Kept, Handle
  <2>3. watch' = [watch EXCEPT ![w] = [watch[w] EXCEPT !.open = FALSE, !.gone = None]]
    BY <1>0, <1>12 DEF ReceiveGone, WatchOK
  <2>4. WatchOK'
    BY <2>2, <2>3, <1>setW
  <2>5. ClientOK'
    BY <1>0, <1>12, <2>1 DEF ReceiveGone, ClientOK, Client, Kept, Handle
  <2>. QED  BY <1>12, <2>4, <2>5, <1>sameN, <1>fold DEF ReceiveGone
<1>13. ASSUME NEW w \in Watchers, DropStream(w)  PROVE TypeOK'
  <2>1. Kept(watch[w])
    BY <1>0 DEF WatchOK
  <2>2. Kept([watch[w] EXCEPT !.open = FALSE, !.chan = <<>>, !.gone = None])
    <3>1. <<>> \in Seq(Signal) /\ Len(<<>>) <= Buffer
      BY BackendAssumption
    <3>. QED  BY <2>1, <3>1, RechannelKept
  <2>3. watch' = [watch EXCEPT ![w] = [watch[w] EXCEPT !.open = FALSE, !.chan = <<>>, !.gone = None]]
    BY <1>0, <1>13 DEF DropStream, WatchOK
  <2>4. WatchOK'
    BY <2>2, <2>3, <1>setW
  <2>5. CountOK'
    BY <1>0, <1>13 DEF DropStream, CountOK
  <2>. QED  BY <1>13, <2>4, <2>5, <1>sameC, <1>fold DEF DropStream
<1>14. ASSUME UNCHANGED vars  PROVE TypeOK'
  BY <1>14, <1>sameW, <1>sameC, <1>sameN, <1>fold DEF vars
<1>. QED  BY <1>1, <1>2, <1>3, <1>4, <1>5, <1>6, <1>7, <1>8, <1>9, <1>10, <1>11,
             <1>12, <1>13, <1>14 DEF Next

(***************************************************************************)
(* Every handle, channel and client view keeps its type and no channel     *)
(* ever exceeds its buffer (watch_backend.rs: try_enqueue, register_shared *)
(* and tick_bookmarks are the only senders).                               *)
(***************************************************************************)
THEOREM TypeOKAlways == Spec => []TypeOK
<1>1. Init => TypeOK
  BY BackendAssumption
     DEF Init, TypeOK, NewHistory, Closed, Handle, Client
<1>. QED  BY <1>1, SealedInit, SealedStep, TypeStep, PTL DEF Spec

-----------------------------------------------------------------------------
(***************************************************************************)
(* Gap freedom.  Two invariants per client, each over what it was sent and *)
(* what is queued for it.  NeverBack holds always: what is queued comes    *)
(* after what was sent, and nothing past lastSeen is queued, so a change   *)
(* above lastSeen may be queued next.  Dense holds where nothing skips:    *)
(* the queue counts up from resume by one per change, and a handle that    *)
(* has not overflowed is registered and has seen everything up to the      *)
(* head, so the next revision continues it.                                *)
(***************************************************************************)
Lex(a, b) == a.rev < b.rev \/ (a.rev = b.rev /\ a.pos < b.pos)

Ordered(s) == \A i, j \in 1..Len(s) : i < j /\ s[i].pos # 0 /\ s[j].pos # 0 => Lex(s[i], s[j])

Streams(c, h, head) ==
    /\ Ordered(h.chan)
    /\ \A i \in 1..Len(c.got), j \in 1..Len(h.chan) : h.chan[j].pos # 0 => Lex(c.got[i], h.chan[j])
    /\ \A i \in 1..Len(c.got) : c.got[i].rev <= h.lastSeen
    /\ \A j \in 1..Len(h.chan) : h.chan[j].rev <= h.lastSeen
    /\ h.lastSeen <= head
    /\ h.gone = None \/ (h.overflowed /\ h.gone = h.lastSeen)

NeverBack(c, h, head) ==
    /\ Ordered(c.got)
    /\ \A i \in 1..Len(c.got) : c.got[i].rev <= c.resume
    /\ h.open => Streams(c, h, head)

\* The revision a client is at once it has read the first j queued signals.
Cursor(c, h, j) == IF j = 0 THEN c.resume ELSE h.chan[j].rev

\* The j-th queued signal repeats the cursor (a bookmark) or is the change after it.
Continues(c, h, l, j) ==
    \/ h.chan[j].pos = 0 /\ h.chan[j].rev = Cursor(c, h, j - 1)
    \/ h.chan[j].rev = Cursor(c, h, j - 1) + 1 /\ h.chan[j] = l[h.chan[j].rev]

Follows(c, h, head, l) ==
    /\ \A j \in 1..Len(h.chan) : Continues(c, h, l, j)
    /\ h.lastSeen = Cursor(c, h, Len(h.chan))
    /\ ~h.overflowed => h.lastSeen = head
    /\ ~h.overflowed => h.reg

Dense(c, h, head, l) ==
    /\ c.resume = c.base + Len(c.got) /\ c.resume <= Len(l)
    /\ \A i \in 1..Len(c.got) : c.got[i] = l[c.base + i]
    /\ h.open => Follows(c, h, head, l) /\ h.boundary <= head

DenseLog == \A i \in 1..Len(log) : log[i].rev = i

GapInv ==
    /\ Ordered(log)
    /\ NothingSkips => DenseLog
    /\ \A w \in Watchers : NeverBack(client[w], watch[w], history.head)
    /\ NothingSkips => \A w \in Watchers : Dense(client[w], watch[w], history.head, log)

\* cs is in order and within (lo, hi]; it has one change of l for each of those revisions.
RunOf(cs, lo, hi) ==
    /\ cs \in Seq(Change) /\ Ordered(cs) /\ InOrder(cs)
    /\ \A i \in 1..Len(cs) : lo < cs[i].rev /\ cs[i].rev <= hi

DenseRun(cs, lo, hi, l) ==
    /\ Len(cs) = hi - lo
    /\ \A i \in 1..Len(cs) : cs[i] = l[lo + i] /\ cs[i].rev = lo + i

\* f is h with the first n changes of cs queued; n is all of them unless it overflowed.
FedBy(h, cs, f, n) ==
    /\ f.chan \in Seq(Signal) /\ Len(f.chan) = Len(h.chan) + n
    /\ \A i \in 1..Len(h.chan) : f.chan[i] = h.chan[i]
    /\ \A i \in 1..n : f.chan[Len(h.chan) + i] = cs[i]
    /\ f.lastSeen = IF n = 0 THEN h.lastSeen ELSE Later(h.lastSeen, cs[n].rev)
    /\ f.gone = None \/ (f.overflowed /\ f.gone = f.lastSeen)
    /\ ~f.overflowed => n = Len(cs)
    /\ f.boundary = h.boundary

\* try_enqueue over a run queues a prefix of the run behind what was queued.
LEMMA FeedFeeds ==
  ASSUME NEW h, Kept(h), ~h.overflowed, NEW cs \in Seq(Change), NEW g, g = Feed(h, cs)
  PROVE  /\ g \in Handle /\ g.open = h.open /\ g.reg = h.reg
         /\ \E n \in 0..Len(cs) : FedBy(h, cs, g, n)
<1>. DEFINE room == Buffer - Len(h.chan)
            sent == IF room < Len(cs) THEN room ELSE Len(cs)
            seen == IF sent = 0 THEN h.lastSeen ELSE Later(h.lastSeen, cs[sent].rev)
            more == SubSeq(cs, 1, sent)
            all  == h.chan \o more
            over == sent < Len(cs)
            gone == IF over THEN seen ELSE None
            f == [h EXCEPT !.chan = all, !.lastSeen = seen,
                           !.gone = gone, !.overflowed = over]
<1>1. g = f
  BY DEF Feed
<1>2. /\ h.chan \in Seq(Signal) /\ Len(h.chan) \in Nat /\ Len(h.chan) <= Buffer
      /\ Len(cs) \in Nat /\ Buffer \in Nat /\ h \in Handle
  BY BackendAssumption DEF Kept, Handle
<1>3. sent \in 0..Len(cs)
  <2>1. room \in Nat
    BY <1>2
  <2>. HIDE DEF room
  <2>. QED  BY <1>2, <2>1
<1>. HIDE DEF room, sent
<1>4. /\ more \in Seq(Signal) /\ Len(more) = sent
      /\ \A i \in 1..sent : more[i] = cs[i]
  <2>1. more \in Seq(Change) /\ Len(more) = sent
    BY <1>2, <1>3, SubSeqProperties
  <2>2. \A i \in 1..sent : more[i] = cs[i]
    BY <1>2, <1>3, SubSeqProperties
  <2>. HIDE DEF more
  <2>3. more \in Seq(Signal)
    BY <2>1 DEF Signal
  <2>. QED  BY <2>1, <2>2, <2>3
<1>. HIDE DEF more
<1>5. /\ all \in Seq(Signal) /\ Len(all) = Len(h.chan) + sent
      /\ \A i \in 1..Len(h.chan) : all[i] = h.chan[i]
      /\ \A i \in (Len(h.chan)+1)..(Len(h.chan) + sent) : all[i] = more[i - Len(h.chan)]
  <2>1. /\ all \in Seq(Signal) /\ Len(all) = Len(h.chan) + Len(more)
        /\ \A i \in 1..Len(h.chan) : all[i] = h.chan[i]
        /\ \A i \in (Len(h.chan)+1)..(Len(h.chan) + Len(more)) : all[i] = more[i - Len(h.chan)]
    BY <1>2, <1>4, ConcatParts, ZenonT(30)
  <2>. HIDE DEF all
  <2>. QED  BY <1>4, <2>1
<1>. HIDE DEF all
<1>6. \A i \in 1..sent : all[Len(h.chan) + i] = cs[i]
  <2>. SUFFICES ASSUME NEW i \in 1..sent  PROVE all[Len(h.chan) + i] = cs[i]
    OBVIOUS
  <2>1. Len(h.chan) + i \in (Len(h.chan)+1)..(Len(h.chan) + sent) /\ (Len(h.chan) + i) - Len(h.chan) = i
    BY <1>2, <1>3
  <2>. QED  BY <2>1, <1>4, <1>5
<1>7. f \in Handle
  <2>1. Kept(g)
    BY FeedKept
  <2>. QED  BY <1>1, <2>1 DEF Kept
<1>. HIDE DEF seen, over, gone
<1>8. /\ f.chan = all /\ f.lastSeen = seen /\ f.gone = gone /\ f.overflowed = over
      /\ f.open = h.open /\ f.reg = h.reg /\ f.boundary = h.boundary
  BY <1>2 DEF Handle
<1>9. gone = None \/ (over /\ gone = seen)
  BY DEF gone
<1>10. ~over => sent = Len(cs)
  BY <1>2, <1>3 DEF over
<1>11. FedBy(h, cs, f, sent)
  <2>. HIDE DEF f
  <2>1. f.chan \in Seq(Signal) /\ Len(f.chan) = Len(h.chan) + sent
    BY <1>5, <1>8
  <2>2. \A i \in 1..Len(h.chan) : f.chan[i] = h.chan[i]
    BY <1>5, <1>8
  <2>3. \A i \in 1..sent : f.chan[Len(h.chan) + i] = cs[i]
    BY <1>6, <1>8
  <2>4. f.lastSeen = IF sent = 0 THEN h.lastSeen ELSE Later(h.lastSeen, cs[sent].rev)
    BY <1>8 DEF seen
  <2>5. ~f.overflowed => sent = Len(cs)
    BY <1>8, <1>10
  <2>. QED  BY <1>8, <1>9, <2>1, <2>2, <2>3, <2>4, <2>5 DEF FedBy
<1>. HIDE DEF f
<1>. QED  BY <1>1, <1>3, <1>7, <1>8, <1>11

\* Queueing later changes behind a stream keeps it a stream.
LEMMA FedStreams ==
  ASSUME NEW c \in Client, NEW h \in Handle, NEW f \in Handle,
         NEW head \in Nat, NEW head2 \in Nat, head <= head2, Streams(c, h, head),
         NEW cs, RunOf(cs, h.lastSeen, head2), NEW n \in 0..Len(cs), FedBy(h, cs, f, n)
  PROVE  Streams(c, f, head2)
<1>. DEFINE m == Len(h.chan)
<1>0. /\ cs \in Seq(Change) /\ Ordered(cs) /\ InOrder(cs)
      /\ \A i \in 1..Len(cs) : h.lastSeen < cs[i].rev /\ cs[i].rev <= head2
  BY DEF RunOf
<1>1. /\ m \in Nat /\ n \in Nat /\ Len(cs) \in Nat /\ n <= Len(cs)
      /\ h.chan \in Seq(Signal) /\ h.lastSeen \in Nat /\ f.lastSeen \in Nat
      /\ c.got \in Seq(Change) /\ Len(c.got) \in Nat
  BY <1>0 DEF Handle, Client
<1>2. /\ f.chan \in Seq(Signal) /\ Len(f.chan) = m + n
      /\ \A i \in 1..m : f.chan[i] = h.chan[i]
      /\ \A i \in 1..n : f.chan[m + i] = cs[i]
      /\ f.lastSeen = IF n = 0 THEN h.lastSeen ELSE Later(h.lastSeen, cs[n].rev)
      /\ f.gone = None \/ (f.overflowed /\ f.gone = f.lastSeen)
  BY DEF FedBy
<1>3. /\ \A i \in 1..Len(cs) : cs[i].rev \in Nat /\ cs[i].pos \in Nat /\ cs[i].pos # 0
      /\ \A i \in 1..m : h.chan[i].rev \in Nat /\ h.chan[i].pos \in Nat
      /\ \A i \in 1..Len(c.got) : c.got[i].rev \in Nat /\ c.got[i].pos \in Nat
  <2>1. ASSUME NEW i \in 1..Len(cs)  PROVE cs[i].rev \in Nat /\ cs[i].pos \in Nat /\ cs[i].pos # 0
    <3>1. cs[i] \in Change
      BY <1>0, <1>1
    <3>. QED  BY <3>1 DEF Change
  <2>2. ASSUME NEW i \in 1..m  PROVE h.chan[i].rev \in Nat /\ h.chan[i].pos \in Nat
    <3>1. h.chan[i] \in Signal
      BY <1>1
    <3>. QED  BY <3>1 DEF Signal, Change
  <2>3. ASSUME NEW i \in 1..Len(c.got)  PROVE c.got[i].rev \in Nat /\ c.got[i].pos \in Nat
    <3>1. c.got[i] \in Change
      BY <1>1
    <3>. QED  BY <3>1 DEF Change
  <2>. QED  BY <2>1, <2>2, <2>3
<1>. HIDE DEF m
<1>4. h.lastSeen <= f.lastSeen /\ \A i \in 1..n : cs[i].rev <= f.lastSeen
  <2>1. CASE n = 0
    BY <1>1, <1>2, <2>1
  <2>2. CASE n # 0
    <3>1. n \in 1..Len(cs)
      BY <1>1, <2>2
    <3>2. f.lastSeen = cs[n].rev
      BY <1>0, <1>1, <1>2, <1>3, <2>2, <3>1 DEF Later
    <3>3. ASSUME NEW i \in 1..n  PROVE cs[i].rev <= cs[n].rev
      BY <1>0, <1>1, <3>1 DEF InOrder
    <3>4. h.lastSeen < cs[n].rev /\ cs[n].rev \in Nat
      BY <1>0, <1>3, <3>1
    <3>. QED  BY <1>1, <3>2, <3>3, <3>4
  <2>. QED  BY <2>1, <2>2
<1>5. f.lastSeen <= head2
  <2>1. CASE n = 0
    BY <1>1, <1>2, <2>1 DEF Streams
  <2>2. CASE n # 0
    <3>1. n \in 1..Len(cs)
      BY <1>1, <2>2
    <3>2. f.lastSeen = cs[n].rev
      BY <1>0, <1>1, <1>2, <1>3, <2>2, <3>1 DEF Later
    <3>. QED  BY <1>0, <3>1, <3>2
  <2>. QED  BY <2>1, <2>2
<1>6. ASSUME NEW j \in 1..Len(f.chan)
      PROVE  \/ j \in 1..m /\ f.chan[j] = h.chan[j]
             \/ j - m \in 1..n /\ f.chan[j] = cs[j - m] /\ j > m
  <2>1. CASE j <= m
    BY <1>1, <1>2, <2>1 DEF m
  <2>2. CASE j > m
    <3>0. \A x, y, z \in Nat : z \in 1..(x + y) /\ z > x => z - x \in 1..y /\ x + (z - x) = z
      OBVIOUS
    <3>1. j - m \in 1..n /\ m + (j - m) = j
      <4>1. Len(f.chan) = m + n /\ j \in Nat
        BY <1>1, <1>2
      <4>. QED  BY <1>1, <2>2, <3>0, <4>1
    <3>. QED  BY <1>2, <2>2, <3>1
  <2>. QED  BY <1>1, <2>1, <2>2 DEF m
<1>7. Ordered(f.chan)
  <2>. SUFFICES ASSUME NEW i \in 1..Len(f.chan), NEW j \in 1..Len(f.chan), i < j,
                       f.chan[i].pos # 0, f.chan[j].pos # 0
                PROVE  Lex(f.chan[i], f.chan[j])
    BY DEF Ordered
  <2>1. CASE j \in 1..m /\ f.chan[j] = h.chan[j]
    <3>1. i \in 1..m
      BY <1>1, <2>1 DEF m
    <3>2. f.chan[i] = h.chan[i]
      BY <3>1, <1>2
    <3>3. i \in 1..Len(h.chan) /\ j \in 1..Len(h.chan)
      BY <3>1, <2>1 DEF m
    <3>. QED  BY <2>1, <3>2, <3>3 DEF Streams, Ordered
  <2>2. CASE j - m \in 1..n /\ f.chan[j] = cs[j - m] /\ j > m
    <3>1. j - m \in 1..Len(cs)
      BY <1>1, <2>2
    <3>2. CASE i \in 1..m /\ f.chan[i] = h.chan[i]
      <4>1. h.chan[i].rev <= h.lastSeen
        BY <3>2 DEF Streams, m
      <4>2. h.lastSeen < cs[j - m].rev /\ cs[j - m].rev \in Nat
        BY <1>0, <1>3, <3>1
      <4>3. h.chan[i].rev \in Nat
        BY <1>3, <3>2
      <4>4. h.chan[i].rev < cs[j - m].rev
        <5>1. \A x, y, z \in Nat : x <= y /\ y < z => x < z
          OBVIOUS
        <5>. QED  BY <1>1, <4>1, <4>2, <4>3, <5>1
      <4>. QED  BY <2>2, <3>2, <4>4 DEF Lex
    <3>3. CASE i - m \in 1..n /\ f.chan[i] = cs[i - m] /\ i > m
      <4>1. i - m \in 1..Len(cs) /\ i - m < j - m
        BY <1>1, <3>3, SMTT(30) DEF m
      <4>2. cs[i - m].pos # 0 /\ cs[j - m].pos # 0
        BY <3>1, <4>1, <1>3
      <4>3. Lex(cs[i - m], cs[j - m])
        BY <1>0, <3>1, <4>1, <4>2 DEF Ordered
      <4>. QED  BY <2>2, <3>3, <4>3
    <3>. QED  BY <1>6, <3>2, <3>3
  <2>. QED  BY <1>6, <2>1, <2>2
<1>8. ASSUME NEW i \in 1..Len(c.got), NEW j \in 1..Len(f.chan), f.chan[j].pos # 0
      PROVE  Lex(c.got[i], f.chan[j])
  <2>1. CASE j \in 1..m /\ f.chan[j] = h.chan[j]
    BY <1>8, <2>1 DEF Streams, m
  <2>2. CASE j - m \in 1..n /\ f.chan[j] = cs[j - m] /\ j > m
    <3>1. j - m \in 1..Len(cs)
      BY <1>1, <2>2
    <3>2. c.got[i].rev <= h.lastSeen
      BY DEF Streams
    <3>3. h.lastSeen < cs[j - m].rev /\ cs[j - m].rev \in Nat
      BY <1>0, <1>3, <3>1
    <3>4. c.got[i].rev < cs[j - m].rev
      BY <1>1, <1>3, <3>2, <3>3, SMTT(30)
    <3>. QED  BY <2>2, <3>4 DEF Lex
  <2>. QED  BY <1>6, <2>1, <2>2
<1>9. ASSUME NEW i \in 1..Len(c.got)  PROVE c.got[i].rev <= f.lastSeen
  <2>1. c.got[i].rev <= h.lastSeen
    BY DEF Streams
  <2>. QED  BY <1>1, <1>3, <1>4, <2>1
<1>10. ASSUME NEW j \in 1..Len(f.chan)  PROVE f.chan[j].rev <= f.lastSeen
  <2>1. CASE j \in 1..m /\ f.chan[j] = h.chan[j]
    <3>1. h.chan[j].rev <= h.lastSeen
      BY <2>1 DEF Streams, m
    <3>. QED  BY <1>1, <1>3, <1>4, <2>1, <3>1
  <2>2. CASE j - m \in 1..n /\ f.chan[j] = cs[j - m] /\ j > m
    BY <1>4, <2>2
  <2>. QED  BY <1>6, <2>1, <2>2
<1>. QED  BY <1>2, <1>5, <1>7, <1>8, <1>9, <1>10 DEF Streams

\* The changes fed continue a gap-free stream by one revision each.
LEMMA FedFollows ==
  ASSUME NEW c \in Client, NEW h \in Handle, NEW f \in Handle, NEW l,
         NEW head \in Nat, NEW head2 \in Nat, head <= head2,
         Follows(c, h, head, l), ~h.overflowed,
         NEW cs \in Seq(Change), DenseRun(cs, head, head2, l),
         NEW n \in 0..Len(cs), FedBy(h, cs, f, n), ~f.overflowed => f.reg
  PROVE  Follows(c, f, head2, l)
<1>. DEFINE m == Len(h.chan)
<1>0. /\ Len(cs) = head2 - head
      /\ \A i \in 1..Len(cs) : cs[i] = l[head + i] /\ cs[i].rev = head + i
  BY DEF DenseRun
<1>1. /\ m \in Nat /\ n \in Nat /\ Len(cs) \in Nat /\ n <= Len(cs)
      /\ h.chan \in Seq(Signal) /\ h.lastSeen \in Nat /\ c.resume \in Nat
  BY DEF Handle, Client
<1>2. /\ Len(f.chan) = m + n
      /\ \A i \in 1..m : f.chan[i] = h.chan[i]
      /\ \A i \in 1..n : f.chan[m + i] = cs[i]
      /\ f.lastSeen = IF n = 0 THEN h.lastSeen ELSE Later(h.lastSeen, cs[n].rev)
      /\ ~f.overflowed => n = Len(cs)
  BY DEF FedBy
<1>3. /\ h.lastSeen = head /\ head = Cursor(c, h, m)
      /\ \A j \in 1..m : Continues(c, h, l, j)
  BY DEF Follows
<1>. HIDE DEF m
<1>4. ASSUME NEW j \in 0..m  PROVE Cursor(c, f, j) = Cursor(c, h, j)
  BY <1>1, <1>2 DEF Cursor
<1>5. ASSUME NEW i \in 0..n  PROVE Cursor(c, f, m + i) = head + i
  <2>1. CASE i = 0
    <3>1. m + i = m /\ m \in 0..m /\ head + i = head
      BY <1>1, <2>1
    <3>. QED  BY <1>3, <1>4, <3>1
  <2>2. CASE i # 0
    <3>1. i \in 1..n /\ i \in 1..Len(cs) /\ m + i # 0
      BY <1>1, <2>2
    <3>2. f.chan[m + i] = cs[i] /\ cs[i].rev = head + i
      BY <1>0, <1>2, <3>1
    <3>. QED  BY <3>1, <3>2 DEF Cursor
  <2>. QED  BY <2>1, <2>2
<1>6. ASSUME NEW j \in 1..Len(f.chan)  PROVE Continues(c, f, l, j)
  <2>1. CASE j <= m
    <3>1. j \in 1..m /\ j - 1 \in 0..m
      BY <1>1, <2>1
    <3>2. f.chan[j] = h.chan[j] /\ Cursor(c, f, j - 1) = Cursor(c, h, j - 1) /\ Continues(c, h, l, j)
      BY <1>2, <1>3, <1>4, <3>1
    <3>. QED  BY <3>2 DEF Continues
  <2>2. CASE j > m
    <3>. DEFINE i == j - m
    <3>1. i \in 1..n /\ i \in 1..Len(cs) /\ m + i = j /\ i - 1 \in 0..n /\ m + (i - 1) = j - 1
      BY <1>1, <1>2, <2>2
    <3>. HIDE DEF i
    <3>2. f.chan[j] = cs[i] /\ cs[i] = l[head + i] /\ cs[i].rev = head + i
      BY <1>0, <1>2, <3>1
    <3>3. Cursor(c, f, j - 1) = head + (i - 1)
      BY <1>5, <3>1
    <3>4. head + i = (head + (i - 1)) + 1
      BY <3>1
    <3>. QED  BY <3>2, <3>3, <3>4 DEF Continues
  <2>. QED  BY <1>1, <2>1, <2>2
<1>7. f.lastSeen = head + n
  <2>1. CASE n = 0
    BY <1>1, <1>2, <1>3, <2>1
  <2>2. CASE n # 0
    <3>1. n \in 1..Len(cs)
      BY <1>1, <2>2
    <3>2. cs[n].rev = head + n
      BY <1>0, <3>1
    <3>3. f.lastSeen = Later(head, head + n)
      BY <1>2, <1>3, <2>2, <3>2
    <3>. QED  BY <3>3, <1>1 DEF Later
  <2>. QED  BY <2>1, <2>2
<1>8. f.lastSeen = Cursor(c, f, Len(f.chan))
  <2>1. n \in 0..n
    BY <1>1
  <2>. QED  BY <1>2, <1>5, <1>7, <2>1
<1>9. ASSUME ~f.overflowed  PROVE f.lastSeen = head2
  <2>1. n = head2 - head
    BY <1>0, <1>2, <1>9
  <2>. QED  BY <1>7, <2>1
<1>. QED  BY <1>6, <1>8, <1>9 DEF Follows

\* A run of the log is in order, and where nothing skips it is one change per revision.
LEMMA RunFacts ==
  ASSUME LogInv, Ordered(log), NEW lo \in Nat, NEW hi \in Nat, lo <= hi,
         NEW cs, cs = Between(log, lo, hi)
  PROVE  /\ RunOf(cs, lo, hi)
         /\ DenseLog /\ hi <= Len(log) => DenseRun(cs, lo, hi, log)
<1>. DEFINE a == PartitionPoint(log, lo)
            b == PartitionPoint(log, hi)
<1>0. log \in Seq(Change) /\ InOrder(log) /\ Len(log) \in Nat
  BY DEF LogInv
<1>1. /\ a \in 0..Len(log) /\ Splits(log, lo, a)
      /\ b \in 0..Len(log) /\ Splits(log, hi, b)
  BY <1>0, ChangeRevisioned, PartitionPointSplits
<1>2. a <= b
  BY <1>0, ChangeRevisioned, PartitionPointMonotone
<1>3. cs = SubSeq(log, a + 1, b)
  BY DEF Between
<1>4. ASSUME DenseLog, hi <= Len(log)  PROVE a = lo /\ b = hi
  <2>1. lo \in 0..Len(log) /\ hi \in 0..Len(log)
    BY <1>0, <1>4
  <2>2. \A i \in 1..Len(log) : log[i].rev = i
    BY <1>4 DEF DenseLog
  <2>3. Splits(log, lo, lo) /\ Splits(log, hi, hi)
    BY <1>0, <2>1, <2>2 DEF Splits
  <2>. QED  BY <1>0, <2>1, <2>3, ChangeRevisioned, PartitionPointUnique
<1>. HIDE DEF a, b
<1>5. a \in Nat /\ b \in Nat /\ b <= Len(log)
  BY <1>0, <1>1
<1>6. /\ cs \in Seq(Change) /\ Len(cs) = b - a
      /\ \A i \in 1..(b - a) : cs[i] = log[a + i]
  <2>1. b \in a..Len(log) /\ 0 \in 0..(b - a)
    BY <1>2, <1>5
  <2>. QED  BY <1>0, <1>1, <1>3, <2>1, DrainWindow
<1>7. ASSUME NEW i \in 1..Len(cs)  PROVE a + i \in 1..b /\ a + i \in (a+1)..Len(log) /\ a + i \in 1..Len(log)
                                         /\ cs[i] = log[a + i]
  BY <1>0, <1>2, <1>5, <1>6
<1>8. ASSUME NEW i \in 1..Len(cs)  PROVE lo < cs[i].rev /\ cs[i].rev <= hi
  <2>1. log[a + i].rev > lo /\ log[a + i].rev <= hi
    BY <1>1, <1>7 DEF Splits
  <2>2. log[a + i] \in Change
    BY <1>0, <1>7
  <2>3. log[a + i].rev \in Nat
    BY <2>2 DEF Change
  <2>. QED  BY <1>7, <2>1, <2>3
<1>9. ASSUME NEW i \in 1..Len(cs), NEW j \in 1..Len(cs)
      PROVE  /\ i <= j => cs[i].rev <= cs[j].rev
             /\ i < j /\ cs[i].pos # 0 /\ cs[j].pos # 0 => Lex(cs[i], cs[j])
  <2>1. i \in Nat /\ j \in Nat /\ (i <= j => a + i <= a + j) /\ (i < j => a + i < a + j)
    BY <1>5, <1>6
  <2>2. i <= j => cs[i].rev <= cs[j].rev
    BY <1>0, <1>7, <2>1 DEF InOrder
  <2>3. i < j /\ cs[i].pos # 0 /\ cs[j].pos # 0 => Lex(cs[i], cs[j])
    BY <1>7, <2>1 DEF Ordered
  <2>. QED  BY <2>2, <2>3
<1>10. InOrder(cs) /\ Ordered(cs)
  BY <1>9 DEF InOrder, Ordered
<1>11. ASSUME DenseLog, hi <= Len(log)
       PROVE  Len(cs) = hi - lo /\ \A i \in 1..Len(cs) : cs[i] = log[lo + i] /\ cs[i].rev = lo + i
  <2>1. a = lo /\ b = hi
    BY <1>4, <1>11
  <2>2. \A i \in 1..Len(log) : log[i].rev = i
    BY <1>11 DEF DenseLog
  <2>3. ASSUME NEW i \in 1..Len(cs)  PROVE cs[i] = log[lo + i] /\ cs[i].rev = lo + i
    BY <1>7, <2>1, <2>2
  <2>4. Len(cs) = hi - lo
    BY <1>6, <2>1
  <2>. QED  BY <2>3, <2>4
<1>. QED  BY <1>6, <1>8, <1>10, <1>11 DEF RunOf, DenseRun

-----------------------------------------------------------------------------
\* TickOne leaves a handle's queue alone or appends one bookmark to it.
LEMMA TickCases ==
  ASSUME NEW h, Kept(h), NEW r \in Nat, NEW t, t = TickOne(h, r)
  PROVE  /\ t \in Handle
         /\ t.open = h.open /\ t.gone = h.gone /\ t.boundary = h.boundary
         /\ t.overflowed = h.overflowed
         /\ \/ /\ t.chan = h.chan /\ t.lastSeen = h.lastSeen
               /\ t.reg = h.reg \/ h.overflowed \/ ~h.open
            \/ /\ ~h.overflowed /\ t.reg = h.reg
               /\ t.chan = Append(h.chan, Bookmark(r)) /\ t.lastSeen = Later(h.lastSeen, r)
<1>. DEFINE q == Append(h.chan, Bookmark(r))
            b == [h EXCEPT !.chan = q, !.lastSeen = Later(h.lastSeen, r), !.bookmarked = r]
            z == [h EXCEPT !.reg = FALSE]
<1>1. h \in Handle
  BY DEF Kept
<1>2. t \in Handle
  BY TickKept DEF Kept
<1>3. \/ t = h
      \/ t = z /\ (h.overflowed \/ ~h.open)
      \/ t = b /\ ~h.overflowed
  BY DEF TickOne
<1>4. CASE t = h
  BY <1>2, <1>4
<1>5. CASE t = z /\ (h.overflowed \/ ~h.open)
  <2>1. /\ z.open = h.open /\ z.gone = h.gone /\ z.boundary = h.boundary
        /\ z.overflowed = h.overflowed /\ z.chan = h.chan /\ z.lastSeen = h.lastSeen
    BY <1>1 DEF Handle
  <2>. HIDE DEF z
  <2>. QED  BY <1>2, <1>5, <2>1
<1>6. CASE t = b /\ ~h.overflowed
  <2>. HIDE DEF q
  <2>1. /\ b.open = h.open /\ b.gone = h.gone /\ b.boundary = h.boundary /\ b.reg = h.reg
        /\ b.overflowed = h.overflowed /\ b.chan = q /\ b.lastSeen = Later(h.lastSeen, r)
    BY <1>1 DEF Handle
  <2>. HIDE DEF b
  <2>. QED  BY <1>2, <1>6, <2>1 DEF q
<1>. QED  BY <1>3, <1>4, <1>5, <1>6

\* What the length and the entries of an extended queue are.
LEMMA AppendParts ==
  ASSUME NEW S, NEW s \in Seq(S), NEW e \in S
  PROVE  /\ Append(s, e) \in Seq(S) /\ Len(Append(s, e)) = Len(s) + 1
         /\ \A i \in 1..Len(s) : Append(s, e)[i] = s[i]
         /\ Append(s, e)[Len(s) + 1] = e
<1>1. Append(s, e) \in Seq(S) /\ Len(Append(s, e)) = Len(s) + 1
  BY AppendProperties
<1>2. \A i \in 1..Len(s) : Append(s, e)[i] = s[i]
  BY AppendProperties
<1>3. Append(s, e)[Len(s) + 1] = e
  BY AppendProperties
<1>. QED  BY <1>1, <1>2, <1>3

\* A bookmark at the head does not disturb a stream.
LEMMA TickStreams ==
  ASSUME NEW c \in Client, NEW h, Kept(h), NEW head \in Nat, Streams(c, h, head),
         NEW t, t = TickOne(h, head)
  PROVE  Streams(c, t, head)
<1>0. /\ h.chan \in Seq(Signal) /\ Len(h.chan) \in Nat /\ h.lastSeen \in Nat
      /\ h.lastSeen <= head
  BY DEF Kept, Handle, Streams
<1>. DEFINE q == Append(h.chan, Bookmark(head))
<1>1. /\ t.gone = h.gone /\ t.overflowed = h.overflowed
      /\ \/ t.chan = h.chan /\ t.lastSeen = h.lastSeen
         \/ ~h.overflowed /\ t.chan = q /\ t.lastSeen = Later(h.lastSeen, head)
  BY TickCases
<1>2. CASE t.chan = h.chan /\ t.lastSeen = h.lastSeen
  BY <1>1, <1>2 DEF Streams
<1>3. CASE ~h.overflowed /\ t.chan = q /\ t.lastSeen = Later(h.lastSeen, head)
  <2>1. t.lastSeen = head
    BY <1>0, <1>3 DEF Later
  <2>2. Bookmark(head) \in Signal /\ Bookmark(head).pos = 0 /\ Bookmark(head).rev = head
    BY DEF Bookmark, Signal
  <2>3. /\ Len(q) = Len(h.chan) + 1
        /\ \A i \in 1..Len(h.chan) : q[i] = h.chan[i]
        /\ q[Len(h.chan) + 1] = Bookmark(head)
    BY <1>0, <2>2, AppendParts
  <2>. HIDE DEF q
  <2>4. ASSUME NEW j \in 1..Len(q)
        PROVE  \/ j \in 1..Len(h.chan) /\ q[j] = h.chan[j]
               \/ q[j].pos = 0 /\ q[j].rev = head
    BY <1>0, <2>2, <2>3
  <2>5. Ordered(q)
    BY <2>4 DEF Streams, Ordered
  <2>6. \A i \in 1..Len(c.got), j \in 1..Len(q) : q[j].pos # 0 => Lex(c.got[i], q[j])
    BY <2>4 DEF Streams
  <2>7. ASSUME NEW i \in 1..Len(c.got)  PROVE c.got[i].rev <= head
    <3>1. c.got[i].rev <= h.lastSeen
      BY DEF Streams
    <3>2. c.got[i] \in Change
      BY DEF Client
    <3>3. c.got[i].rev \in Nat
      BY <3>2 DEF Change
    <3>. QED  BY <1>0, <3>1, <3>3
  <2>8. ASSUME NEW j \in 1..Len(q)  PROVE q[j].rev <= head
    <3>1. CASE j \in 1..Len(h.chan) /\ q[j] = h.chan[j]
      <4>1. h.chan[j].rev <= h.lastSeen
        BY <3>1 DEF Streams
      <4>2. h.chan[j] \in Signal
        BY <1>0, <3>1
      <4>3. h.chan[j].rev \in Nat
        BY <4>2 DEF Signal, Change
      <4>. QED  BY <1>0, <3>1, <4>1, <4>3
    <3>. QED  BY <2>4, <3>1
  <2>9. h.gone = None
    BY <1>3 DEF Streams
  <2>. QED  BY <1>1, <1>3, <2>1, <2>5, <2>6, <2>7, <2>8, <2>9 DEF Streams
<1>. QED  BY <1>1, <1>2, <1>3

\* A bookmark repeats the revision a gap-free queue ends at.
LEMMA TickFollows ==
  ASSUME NEW c \in Client, NEW h, Kept(h), NEW head \in Nat, NEW l, h.open,
         Follows(c, h, head, l), NEW t, t = TickOne(h, head)
  PROVE  Follows(c, t, head, l)
<1>0. /\ h.chan \in Seq(Signal) /\ Len(h.chan) \in Nat /\ h.lastSeen \in Nat
  BY DEF Kept, Handle
<1>. DEFINE q == Append(h.chan, Bookmark(head))
<1>1. /\ t.overflowed = h.overflowed
      /\ \/ /\ t.chan = h.chan /\ t.lastSeen = h.lastSeen
            /\ t.reg = h.reg \/ h.overflowed
         \/ ~h.overflowed /\ t.chan = q /\ t.lastSeen = Later(h.lastSeen, head) /\ t.reg = h.reg
  BY TickCases
<1>2. CASE t.chan = h.chan /\ t.lastSeen = h.lastSeen /\ (t.reg = h.reg \/ h.overflowed)
  BY <1>1, <1>2 DEF Follows, Continues, Cursor
<1>3. CASE ~h.overflowed /\ t.chan = q /\ t.lastSeen = Later(h.lastSeen, head) /\ t.reg = h.reg
  <2>0. h.lastSeen = head /\ h.reg /\ head = Cursor(c, h, Len(h.chan))
    BY <1>3 DEF Follows
  <2>1. t.lastSeen = head
    BY <1>3, <2>0 DEF Later
  <2>2. Bookmark(head) \in Signal /\ Bookmark(head).pos = 0 /\ Bookmark(head).rev = head
    BY DEF Bookmark, Signal
  <2>3. /\ Len(q) = Len(h.chan) + 1
        /\ \A i \in 1..Len(h.chan) : q[i] = h.chan[i]
        /\ q[Len(h.chan) + 1] = Bookmark(head)
    BY <1>0, <2>2, AppendParts
  <2>. HIDE DEF q
  <2>4. ASSUME NEW j \in 0..Len(h.chan)  PROVE Cursor(c, t, j) = Cursor(c, h, j)
    BY <1>0, <1>3, <2>3 DEF Cursor
  <2>5. ASSUME NEW j \in 1..Len(t.chan)  PROVE Continues(c, t, l, j)
    <3>1. CASE j <= Len(h.chan)
      <4>1. j \in 1..Len(h.chan) /\ j - 1 \in 0..Len(h.chan)
        BY <1>0, <3>1
      <4>2. t.chan[j] = h.chan[j] /\ Cursor(c, t, j - 1) = Cursor(c, h, j - 1)
        BY <1>3, <2>3, <2>4, <4>1
      <4>3. Continues(c, h, l, j)
        BY <4>1 DEF Follows
      <4>. QED  BY <4>2, <4>3 DEF Continues
    <3>2. CASE j > Len(h.chan)
      <4>1. j = Len(h.chan) + 1 /\ j - 1 = Len(h.chan) /\ j - 1 \in 0..Len(h.chan)
        BY <1>0, <1>3, <2>3, <3>2
      <4>2. Cursor(c, t, j - 1) = head
        BY <2>0, <2>4, <4>1
      <4>3. t.chan[j].pos = 0 /\ t.chan[j].rev = head
        BY <1>3, <2>2, <2>3, <4>1
      <4>. QED  BY <4>2, <4>3 DEF Continues
    <3>. QED  BY <1>0, <3>1, <3>2
  <2>6. t.lastSeen = Cursor(c, t, Len(t.chan))
    BY <1>0, <1>3, <2>1, <2>2, <2>3 DEF Cursor
  <2>. QED  BY <1>1, <1>3, <2>0, <2>1, <2>5, <2>6 DEF Follows
<1>. QED  BY <1>1, <1>2, <1>3

-----------------------------------------------------------------------------
\* next_change hands the client the first queued signal and accounts for it.
Received(c, h, c2, h2) ==
    LET sig == h.chan[1]
    IN  /\ c2.base = c.base
        /\ c2.got = IF sig.pos = 0 THEN c.got ELSE Append(c.got, sig)
        /\ c2.resume = Later(c.resume, sig.rev)
        /\ h2.chan = Tail(h.chan)
        /\ h2.open = h.open /\ h2.reg = h.reg /\ h2.gone = h.gone
        /\ h2.boundary = h.boundary /\ h2.lastSeen = h.lastSeen /\ h2.overflowed = h.overflowed

\* The queue behind the first signal.
LEMMA TailParts ==
  ASSUME NEW S, NEW s \in Seq(S), s # <<>>
  PROVE  /\ Len(s) \in Nat \ {0} /\ s[1] \in S /\ Head(s) = s[1]
         /\ Len(Tail(s)) = Len(s) - 1
         /\ \A i \in 1..(Len(s) - 1) : Tail(s)[i] = s[i + 1]
<1>1. Len(s) \in Nat \ {0}
  BY EmptySeq
<1>2. s[1] \in S
  BY <1>1, ElementOfSeq
<1>3. Head(s) = s[1]
  OBVIOUS
<1>4. Len(Tail(s)) = Len(s) - 1
  BY HeadTailProperties
<1>5. \A i \in 1..(Len(s) - 1) : Tail(s)[i] = s[i + 1]
  BY <1>1, <1>4, HeadTailProperties
<1>. QED  BY <1>1, <1>2, <1>3, <1>4, <1>5

\* What a client reads comes after everything it has.
LEMMA ReceiveBack ==
  ASSUME NEW c \in Client, NEW h \in Handle, NEW head \in Nat, NeverBack(c, h, head),
         h.open, h.chan # <<>>, NEW c2, NEW h2, Received(c, h, c2, h2)
  PROVE  NeverBack(c2, h2, head)
<1>. DEFINE sig == h.chan[1]
            n == Len(h.chan)
            k == Len(c.got)
<1>1. /\ h.chan \in Seq(Signal) /\ c.got \in Seq(Change) /\ k \in Nat
      /\ h.lastSeen \in Nat /\ c.resume \in Nat
  BY DEF Handle, Client
<1>2. /\ n \in Nat \ {0} /\ sig \in Signal /\ Len(Tail(h.chan)) = n - 1
      /\ \A i \in 1..(n - 1) : Tail(h.chan)[i] = h.chan[i + 1]
  BY <1>1, TailParts
<1>3. sig.rev \in Nat /\ (sig.pos # 0 => sig \in Change)
  BY <1>2 DEF Signal, Change
<1>4. /\ c2.got = IF sig.pos = 0 THEN c.got ELSE Append(c.got, sig)
      /\ c2.resume = Later(c.resume, sig.rev)
      /\ h2.chan = Tail(h.chan) /\ h2.gone = h.gone /\ h2.lastSeen = h.lastSeen
      /\ h2.overflowed = h.overflowed
  BY DEF Received
<1>5. /\ Streams(c, h, head) /\ Ordered(c.got) /\ Ordered(h.chan)
      /\ \A i \in 1..k : c.got[i].rev <= c.resume /\ c.got[i].rev <= h.lastSeen
      /\ \A i \in 1..k, j \in 1..n : h.chan[j].pos # 0 => Lex(c.got[i], h.chan[j])
      /\ \A j \in 1..n : h.chan[j].rev <= h.lastSeen
  BY DEF NeverBack, Streams
<1>6. \A i \in 1..k : c.got[i].rev \in Nat
  <2>1. ASSUME NEW i \in 1..k  PROVE c.got[i].rev \in Nat
    <3>1. c.got[i] \in Change
      BY <1>1
    <3>. QED  BY <3>1 DEF Change
  <2>. QED  BY <2>1
<1>7. c2.resume \in Nat /\ c.resume <= c2.resume /\ sig.rev <= c2.resume
  BY <1>1, <1>3, <1>4 DEF Later
<1>8. sig.rev <= h.lastSeen
  BY <1>2, <1>5
<1>. HIDE DEF n, k
<1>got. ASSUME NEW i \in 1..Len(c2.got)
        PROVE  \/ i \in 1..k /\ c2.got[i] = c.got[i]
               \/ i = k + 1 /\ c2.got[i] = sig /\ sig.pos # 0
  <2>1. CASE sig.pos = 0
    BY <1>4, <2>1 DEF k
  <2>2. CASE sig.pos # 0
    <3>1. c2.got = Append(c.got, sig) /\ sig \in Change
      BY <1>3, <1>4, <2>2
    <3>. HIDE DEF sig
    <3>2. /\ Len(c2.got) = k + 1
          /\ \A m \in 1..k : c2.got[m] = c.got[m]
          /\ c2.got[k + 1] = sig
      BY <1>1, <3>1, AppendParts DEF k
    <3>. QED  BY <1>1, <2>2, <3>2 DEF k
  <2>. QED  BY <2>1, <2>2
<1>chan. ASSUME NEW j \in 1..Len(h2.chan)
         PROVE  j \in Nat /\ j + 1 \in 1..n /\ j + 1 # 1 /\ h2.chan[j] = h.chan[j + 1]
  BY <1>2, <1>4 DEF n
<1>first. 1 \in 1..n /\ 1 \in 1..Len(h.chan)
  BY <1>2 DEF n
<1>. HIDE DEF sig
<1>9. Ordered(c2.got)
  <2>. SUFFICES ASSUME NEW i \in 1..Len(c2.got), NEW j \in 1..Len(c2.got), i < j,
                       c2.got[i].pos # 0, c2.got[j].pos # 0
                PROVE  Lex(c2.got[i], c2.got[j])
    BY DEF Ordered
  <2>1. CASE j \in 1..k /\ c2.got[j] = c.got[j]
    <3>1. i \in 1..k /\ c2.got[i] = c.got[i]
      BY <1>got, <1>1, <2>1, SMTT(30) DEF k
    <3>. QED  BY <1>5, <2>1, <3>1 DEF Ordered, k
  <2>2. CASE j = k + 1 /\ c2.got[j] = sig /\ sig.pos # 0
    <3>1. i \in 1..k /\ c2.got[i] = c.got[i]
      BY <1>got, <1>1, <2>2 DEF k
    <3>2. Lex(c.got[i], sig)
      BY <1>5, <1>first, <2>2, <3>1 DEF sig
    <3>. QED  BY <2>2, <3>1, <3>2
  <2>. QED  BY <1>got, <2>1, <2>2
<1>10. ASSUME NEW i \in 1..Len(c2.got)
       PROVE  c2.got[i].rev <= c2.resume /\ c2.got[i].rev <= h2.lastSeen
  <2>1. CASE i \in 1..k /\ c2.got[i] = c.got[i]
    <3>1. c.got[i].rev \in Nat /\ c.got[i].rev <= c.resume /\ c.got[i].rev <= h.lastSeen
      BY <1>5, <1>6, <2>1
    <3>2. c.got[i].rev <= c2.resume
      BY <1>1, <1>7, <3>1
    <3>. QED  BY <1>4, <2>1, <3>1, <3>2
  <2>2. CASE i = k + 1 /\ c2.got[i] = sig /\ sig.pos # 0
    BY <1>4, <1>7, <1>8, <2>2
  <2>. QED  BY <1>got, <2>1, <2>2
<1>11. Ordered(h2.chan)
  <2>. SUFFICES ASSUME NEW i \in 1..Len(h2.chan), NEW j \in 1..Len(h2.chan), i < j,
                       h2.chan[i].pos # 0, h2.chan[j].pos # 0
                PROVE  Lex(h2.chan[i], h2.chan[j])
    BY DEF Ordered
  <2>1. /\ i + 1 \in 1..n /\ h2.chan[i] = h.chan[i + 1]
        /\ j + 1 \in 1..n /\ h2.chan[j] = h.chan[j + 1] /\ i + 1 < j + 1
    BY <1>chan
  <2>. QED  BY <1>5, <2>1 DEF Ordered, n
<1>12. ASSUME NEW i \in 1..Len(c2.got), NEW j \in 1..Len(h2.chan), h2.chan[j].pos # 0
       PROVE  Lex(c2.got[i], h2.chan[j])
  <2>0. j + 1 \in 1..n /\ 1 < j + 1 /\ h2.chan[j] = h.chan[j + 1]
    BY <1>chan
  <2>1. CASE i \in 1..k /\ c2.got[i] = c.got[i]
    BY <1>5, <1>12, <2>0, <2>1
  <2>2. CASE i = k + 1 /\ c2.got[i] = sig /\ sig.pos # 0
    <3>1. Lex(h.chan[1], h.chan[j + 1])
      BY <1>5, <1>12, <1>first, <2>0, <2>2 DEF Ordered, n, sig
    <3>. QED  BY <2>0, <2>2, <3>1 DEF sig
  <2>. QED  BY <1>got, <2>1, <2>2
<1>13. ASSUME NEW j \in 1..Len(h2.chan)  PROVE h2.chan[j].rev <= h2.lastSeen
  BY <1>4, <1>5, <1>chan
<1>14. h2.lastSeen <= head /\ (h2.gone = None \/ (h2.overflowed /\ h2.gone = h2.lastSeen))
  BY <1>4, <1>5 DEF Streams
<1>15. Streams(c2, h2, head)
  BY <1>10, <1>11, <1>12, <1>13, <1>14 DEF Streams
<1>. QED  BY <1>9, <1>10, <1>15 DEF NeverBack

\* Reading moves the cursor along a gap-free queue.
LEMMA ReceiveDense ==
  ASSUME NEW c \in Client, NEW h \in Handle, NEW head \in Nat, NEW l \in Seq(Change),
         Dense(c, h, head, l), h.open, h.chan # <<>>,
         \A j \in 1..Len(h.chan) : h.chan[j].rev <= Len(l),
         NEW c2, NEW h2, Received(c, h, c2, h2)
  PROVE  Dense(c2, h2, head, l)
<1>. DEFINE sig == h.chan[1]
            n == Len(h.chan)
            k == Len(c.got)
<1>1. /\ h.chan \in Seq(Signal) /\ c.got \in Seq(Change) /\ k \in Nat
      /\ c.resume \in Nat /\ c.base \in Nat /\ Len(l) \in Nat
  BY DEF Handle, Client
<1>2. /\ n \in Nat \ {0} /\ sig \in Signal /\ Len(Tail(h.chan)) = n - 1
      /\ \A i \in 1..(n - 1) : Tail(h.chan)[i] = h.chan[i + 1]
  BY <1>1, TailParts
<1>3. sig.rev \in Nat /\ sig.rev <= Len(l) /\ (sig.pos # 0 => sig \in Change)
  BY <1>2 DEF Signal, Change
<1>4. /\ c2.base = c.base
      /\ c2.got = IF sig.pos = 0 THEN c.got ELSE Append(c.got, sig)
      /\ c2.resume = Later(c.resume, sig.rev)
      /\ h2.chan = Tail(h.chan) /\ h2.lastSeen = h.lastSeen /\ h2.boundary = h.boundary
      /\ h2.overflowed = h.overflowed /\ h2.reg = h.reg
  BY DEF Received
<1>5. /\ c.resume = c.base + k /\ c.resume <= Len(l)
      /\ \A i \in 1..k : c.got[i] = l[c.base + i]
      /\ Follows(c, h, head, l) /\ h.boundary <= head
  BY DEF Dense
<1>6. \/ sig.pos = 0 /\ sig.rev = c.resume
      \/ sig.pos # 0 /\ sig.rev = c.resume + 1 /\ sig = l[c.resume + 1]
  <2>1. Continues(c, h, l, 1)
    BY <1>2, <1>5 DEF Follows
  <2>2. Cursor(c, h, 1 - 1) = c.resume
    BY DEF Cursor
  <2>3. \/ sig.pos = 0 /\ sig.rev = c.resume
        \/ sig.rev = c.resume + 1 /\ sig = l[sig.rev]
    BY <2>1, <2>2 DEF Continues
  <2>4. ASSUME sig.rev = c.resume + 1, sig = l[sig.rev]  PROVE sig.pos # 0
    <3>1. sig.rev \in 1..Len(l)
      BY <1>1, <1>3, <2>4
    <3>2. l[sig.rev] \in Change
      BY <3>1
    <3>. QED  BY <2>4, <3>2 DEF Change
  <2>. QED  BY <2>3, <2>4
<1>7. c2.resume = sig.rev
  BY <1>1, <1>3, <1>4, <1>6 DEF Later
<1>8. /\ c2.resume = c2.base + Len(c2.got)
      /\ \A i \in 1..Len(c2.got) : c2.got[i] = l[c2.base + i]
  <2>1. CASE sig.pos = 0
    BY <1>4, <1>5, <1>6, <1>7, <2>1
  <2>2. CASE sig.pos # 0
    <3>1. c2.got = Append(c.got, sig) /\ sig \in Change /\ sig = l[c.resume + 1] /\ sig.rev = c.resume + 1
      BY <1>3, <1>4, <1>6, <2>2
    <3>. HIDE DEF sig
    <3>2. /\ Len(c2.got) = k + 1
          /\ \A m \in 1..k : c2.got[m] = c.got[m]
          /\ c2.got[k + 1] = sig
      BY <1>1, <3>1, AppendParts
    <3>0. c.resume = c.base + k /\ k \in Nat /\ c.base \in Nat
      BY <1>1, <1>5
    <3>. HIDE DEF k
    <3>3. c2.resume = c2.base + Len(c2.got)
      <4>1. c2.resume = c.resume + 1 /\ c2.base = c.base /\ Len(c2.got) = k + 1
        BY <1>4, <1>7, <3>1, <3>2
      <4>. QED  BY <3>0, <4>1
    <3>4. ASSUME NEW i \in 1..Len(c2.got)  PROVE c2.got[i] = l[c2.base + i]
      <4>1. CASE i \in 1..k
        BY <1>4, <1>5, <3>2, <4>1
      <4>2. CASE i = k + 1
        <5>1. c.base + i = c.resume + 1
          <6>1. \A x, y \in Nat : x + (y + 1) = (x + y) + 1
            OBVIOUS
          <6>. QED  BY <3>0, <4>2, <6>1, ZenonT(30)
        <5>. QED  BY <1>4, <3>1, <3>2, <4>2, <5>1
      <4>3. i \in 1..k \/ i = k + 1
        BY <3>0, <3>2
      <4>. QED  BY <4>1, <4>2, <4>3
    <3>. QED  BY <3>3, <3>4
  <2>. QED  BY <2>1, <2>2
<1>9. ASSUME NEW j \in 0..(n - 1)  PROVE Cursor(c2, h2, j) = Cursor(c, h, j + 1)
  <2>1. CASE j = 0
    BY <1>7, <2>1 DEF Cursor
  <2>2. CASE j # 0
    <3>1. j \in 1..(n - 1) /\ j + 1 # 0
      BY <1>2, <2>2
    <3>2. h2.chan[j] = h.chan[j + 1]
      BY <1>2, <1>4, <3>1
    <3>. QED  BY <2>2, <3>1, <3>2 DEF Cursor
  <2>. QED  BY <2>1, <2>2
<1>10. ASSUME NEW j \in 1..Len(h2.chan)  PROVE Continues(c2, h2, l, j)
  <2>1. j \in 1..(n - 1) /\ j + 1 \in 1..n /\ j - 1 \in 0..(n - 1) /\ (j - 1) + 1 = j /\ (j + 1) - 1 = j
    BY <1>2, <1>4
  <2>2. h2.chan[j] = h.chan[j + 1] /\ Cursor(c2, h2, j - 1) = Cursor(c, h, j)
    BY <1>2, <1>4, <1>9, <2>1
  <2>3. Continues(c, h, l, j + 1)
    BY <1>5, <2>1 DEF Follows
  <2>. QED  BY <2>1, <2>2, <2>3 DEF Continues
<1>11. h2.lastSeen = Cursor(c2, h2, Len(h2.chan))
  <2>1. Len(h2.chan) = n - 1 /\ n - 1 \in 0..(n - 1) /\ (n - 1) + 1 = n
    BY <1>2, <1>4
  <2>2. Cursor(c2, h2, n - 1) = Cursor(c, h, n)
    BY <1>9, <2>1
  <2>. QED  BY <1>4, <1>5, <2>1, <2>2 DEF Follows
<1>12. Follows(c2, h2, head, l)
  BY <1>4, <1>5, <1>10, <1>11 DEF Follows
<1>13. c2.resume <= Len(l)
  BY <1>3, <1>7
<1>. QED  BY <1>4, <1>5, <1>8, <1>12, <1>13 DEF Dense

-----------------------------------------------------------------------------
\* Where nothing skips the newest revision counts the changes.
LEMMA DenseTop ==
  ASSUME LogInv, DenseLog
  PROVE  Top = Len(log)
<1>1. log \in Seq(Change) /\ Len(log) \in Nat
  BY DEF LogInv
<1>2. CASE log = <<>>
  BY <1>2 DEF Top
<1>3. CASE log # <<>>
  <2>1. Len(log) \in 1..Len(log)
    BY <1>1, <1>3, EmptySeq
  <2>. QED  BY <1>3, <2>1 DEF Top, DenseLog
<1>. QED  BY <1>2, <1>3

\* A decided transaction extends the order of the log, and its density if nothing skips.
LEMMA DecideOrders ==
  ASSUME LogInv, Ordered(log), NothingSkips => DenseLog, NEW n \in Nat \ {0},
         log' = log \o Batch(Top + 1, n), installs' = installs
  PROVE  /\ Ordered(log') /\ Len(log) <= Len(log')
         /\ \A i \in 1..Len(log) : log'[i] = log[i]
         /\ NothingSkips' => NothingSkips /\ DenseLog'
<1>. DEFINE b == Batch(Top + 1, n)
            m == Len(log)
<1>0. /\ Top \in Nat /\ \A i \in 1..m : log[i].rev \in Nat /\ log[i].rev <= Top
      /\ log \in Seq(Change) /\ m \in Nat
  BY TopBounds DEF LogInv
<1>1. b \in Seq(Change) /\ LogInv'
  BY DecideKeepsLog
<1>2. Len(b) = n /\ \A i \in 1..n : b[i].rev = Top + 1 /\ b[i].pos = i
  <2>1. b = [i \in 1..n |-> [rev |-> Top + 1, pos |-> i]]
    BY DEF Batch
  <2>2. DOMAIN b = 1..n
    BY <2>1
  <2>3. \A i \in 1..n : b[i].rev = Top + 1 /\ b[i].pos = i
    BY <2>1
  <2>. HIDE DEF b
  <2>4. Len(b) = n
    BY <1>1, <2>2, LenProperties
  <2>. QED  BY <2>3, <2>4
<1>. HIDE DEF b
<1>3. /\ Len(log') = m + n
      /\ \A i \in 1..m : log'[i] = log[i]
      /\ \A i \in (m+1)..(m+n) : log'[i] = b[i - m]
  <2>. DEFINE u == log \o b
  <2>1. /\ Len(u) = Len(log) + Len(b)
        /\ \A i \in 1..Len(log) : u[i] = log[i]
        /\ \A i \in (Len(log)+1)..(Len(log)+Len(b)) : u[i] = b[i - Len(log)]
    BY <1>0, <1>1, ConcatParts
  <2>. HIDE DEF u
  <2>2. log' = u
    BY DEF u, b
  <2>. QED  BY <1>2, <2>1, <2>2
<1>. HIDE DEF m
<1>4. ASSUME NEW i \in 1..Len(log')
      PROVE  \/ i \in 1..m /\ log'[i] = log[i]
             \/ i > m /\ i - m \in 1..n /\ log'[i].rev = Top + 1 /\ log'[i].pos = i - m
  <2>1. CASE i <= m
    BY <1>0, <1>3, <2>1
  <2>2. CASE i > m
    <3>1. i \in (m+1)..(m+n) /\ i - m \in 1..n
      BY <1>0, <1>3, <2>2
    <3>. QED  BY <1>2, <1>3, <2>2, <3>1
  <2>. QED  BY <1>0, <2>1, <2>2
<1>5. Ordered(log')
  <2>. SUFFICES ASSUME NEW i \in 1..Len(log'), NEW j \in 1..Len(log'), i < j,
                       log'[i].pos # 0, log'[j].pos # 0
                PROVE  Lex(log'[i], log'[j])
    BY DEF Ordered
  <2>0. i \in Nat /\ j \in Nat
    BY <1>0, <1>3
  <2>1. CASE j \in 1..m /\ log'[j] = log[j]
    <3>1. i \in 1..m /\ log'[i] = log[i]
      BY <1>0, <1>4, <2>0, <2>1
    <3>. QED  BY <2>1, <3>1 DEF Ordered, m
  <2>2. CASE j > m /\ j - m \in 1..n /\ log'[j].rev = Top + 1 /\ log'[j].pos = j - m
    <3>1. CASE i \in 1..m /\ log'[i] = log[i]
      <4>1. log'[i].rev < Top + 1
        BY <1>0, <3>1
      <4>. QED  BY <2>2, <4>1 DEF Lex
    <3>2. CASE i > m /\ i - m \in 1..n /\ log'[i].rev = Top + 1 /\ log'[i].pos = i - m
      <4>1. i - m < j - m
        BY <1>0, <2>0
      <4>. QED  BY <2>2, <3>2, <4>1 DEF Lex
    <3>. QED  BY <1>4, <3>1, <3>2
  <2>. QED  BY <1>4, <2>1, <2>2
<1>6. ASSUME NothingSkips'  PROVE NothingSkips /\ DenseLog'
  <2>1. installs = 0 /\ \A i, j \in 1..Len(log') : i < j => log'[i].rev < log'[j].rev
    BY <1>6 DEF NothingSkips
  <2>2. ASSUME NEW i \in 1..m, NEW j \in 1..m, i < j  PROVE log[i].rev < log[j].rev
    <3>1. i \in 1..Len(log') /\ j \in 1..Len(log')
      BY <1>0, <1>3
    <3>. QED  BY <1>3, <2>1, <2>2, <3>1
  <2>3. NothingSkips
    BY <2>1, <2>2 DEF NothingSkips, m
  <2>4. DenseLog /\ Top = m
    BY <2>3, DenseTop DEF m
  <2>5. n = 1
    <3>. SUFFICES ASSUME n # 1  PROVE FALSE
      OBVIOUS
    <3>. DEFINE i == m + 1
                j == m + 2
    <3>1. i \in 1..Len(log') /\ j \in 1..Len(log') /\ i < j /\ ~(i \in 1..m) /\ ~(j \in 1..m)
      BY <1>0, <1>3
    <3>. HIDE DEF i, j
    <3>2. log'[i].rev = Top + 1
      BY <1>4, <3>1
    <3>3. log'[j].rev = Top + 1
      BY <1>4, <3>1
    <3>4. log'[i].rev < log'[j].rev
      BY <2>1, <3>1
    <3>5. Top + 1 < Top + 1
      BY <3>2, <3>3, <3>4
    <3>. QED  BY <1>0, <3>5
  <2>6. ASSUME NEW i \in 1..Len(log')  PROVE log'[i].rev = i
    <3>1. CASE i \in 1..m /\ log'[i] = log[i]
      BY <2>4, <3>1 DEF DenseLog, m
    <3>2. CASE i > m /\ i - m \in 1..n /\ log'[i].rev = Top + 1 /\ log'[i].pos = i - m
      BY <1>0, <1>3, <2>4, <2>5, <3>2
    <3>. QED  BY <1>4, <3>1, <3>2
  <2>. QED  BY <2>3, <2>6 DEF DenseLog
<1>7. Len(log) <= Len(log')
  BY <1>0, <1>3 DEF m
<1>. QED  BY <1>3, <1>5, <1>6, <1>7 DEF m

\* What a client has and is queued stays what it was when the log grows.
LEMMA DenseExtends ==
  ASSUME NEW c \in Client, NEW h \in Handle, NEW head \in Nat,
         NEW l \in Seq(Change), NEW l2 \in Seq(Change), Len(l) <= Len(l2),
         \A i \in 1..Len(l) : l2[i] = l[i], Dense(c, h, head, l),
         h.open => \A j \in 1..Len(h.chan) : h.chan[j].rev <= Len(l)
  PROVE  Dense(c, h, head, l2)
<1>1. /\ Len(l) \in Nat /\ Len(l2) \in Nat /\ Len(c.got) \in Nat /\ c.base \in Nat /\ c.resume \in Nat
      /\ h.chan \in Seq(Signal)
  BY DEF Client, Handle
<1>2. /\ c.resume = c.base + Len(c.got) /\ c.resume <= Len(l)
      /\ \A i \in 1..Len(c.got) : c.got[i] = l[c.base + i]
      /\ h.open => Follows(c, h, head, l) /\ h.boundary <= head
  BY DEF Dense
<1>3. ASSUME NEW i \in 1..Len(c.got)  PROVE c.got[i] = l2[c.base + i]
  <2>1. c.base + i \in 1..Len(l)
    <3>1. \A a, k, n, m \in Nat : i \in 1..k /\ n = a + k /\ n <= m => a + i \in 1..m
      OBVIOUS
    <3>. QED  BY <1>1, <1>2, <3>1
  <2>2. l2[c.base + i] = l[c.base + i]
    BY <2>1
  <2>. QED  BY <1>2, <2>2
<1>4. ASSUME h.open  PROVE Follows(c, h, head, l2)
  <2>1. ASSUME NEW j \in 1..Len(h.chan)  PROVE Continues(c, h, l2, j)
    <3>1. Continues(c, h, l, j) /\ h.chan[j].rev <= Len(l)
      BY <1>2, <1>4 DEF Follows
    <3>2. CASE h.chan[j].rev = Cursor(c, h, j - 1) + 1 /\ h.chan[j] = l[h.chan[j].rev]
      <4>1. Cursor(c, h, j - 1) \in Nat
        <5>1. CASE j - 1 = 0
          BY <1>1, <5>1 DEF Cursor
        <5>2. CASE j - 1 # 0
          <6>1. j - 1 \in 1..Len(h.chan)
            BY <1>1, <5>2
          <6>2. h.chan[j - 1] \in Signal
            BY <1>1, <6>1
          <6>3. h.chan[j - 1].rev \in Nat
            BY <6>2 DEF Signal, Change
          <6>. QED  BY <5>2, <6>3 DEF Cursor
        <5>. QED  BY <5>1, <5>2
      <4>2. h.chan[j].rev \in 1..Len(l)
        BY <1>1, <3>1, <3>2, <4>1
      <4>. QED  BY <3>2, <4>2 DEF Continues
    <3>. QED  BY <3>1, <3>2 DEF Continues
  <2>. QED  BY <1>2, <1>4, <2>1 DEF Follows
<1>5. c.resume <= Len(l2)
  BY <1>1, <1>2
<1>. QED  BY <1>2, <1>3, <1>4, <1>5 DEF Dense

-----------------------------------------------------------------------------
\* fan_shared leaves a handle's queue alone or feeds it the revision.
LEMMA FanCases ==
  ASSUME NEW h, Kept(h), NEW cs \in Seq(Change), NEW g, g = Fan(h, cs)
  PROVE  /\ g \in Handle /\ g.open = h.open /\ g.boundary = h.boundary
         /\ \/ /\ g.chan = h.chan /\ g.lastSeen = h.lastSeen /\ g.gone = h.gone
               /\ g.overflowed = h.overflowed
               /\ h.overflowed \/ ~h.open \/ ~h.reg \/ h.boundary >= cs[1].rev
            \/ /\ h.open /\ ~h.overflowed
               /\ ~g.overflowed => g.reg
               /\ \E n \in 0..Len(cs) : FedBy(h, cs, g, n)
<1>. DEFINE f == Feed(h, cs)
            z == [h EXCEPT !.reg = FALSE]
            y == [f EXCEPT !.reg = ~f.overflowed]
<1>0. h \in Handle /\ g \in Handle
  BY FanKept DEF Kept
<1>1. \/ g = h /\ (~h.reg \/ h.boundary >= cs[1].rev)
      \/ g = z /\ ~h.open
      \/ g = y /\ h.open
  BY DEF Fan
<1>2. CASE g = h /\ (~h.reg \/ h.boundary >= cs[1].rev)
  BY <1>0, <1>2
<1>3. CASE g = z /\ ~h.open
  <2>1. /\ z.open = h.open /\ z.gone = h.gone /\ z.boundary = h.boundary
        /\ z.overflowed = h.overflowed /\ z.chan = h.chan /\ z.lastSeen = h.lastSeen
    BY <1>0 DEF Handle
  <2>. HIDE DEF z
  <2>. QED  BY <1>0, <1>3, <2>1
<1>4. CASE g = y /\ h.open
  <2>0. f \in Handle
    BY FeedKept DEF Kept
  <2>f. f = Feed(h, cs)
    OBVIOUS
  <2>. HIDE DEF f
  <2>1. /\ y.open = f.open /\ y.gone = f.gone /\ y.boundary = f.boundary /\ y.reg = ~f.overflowed
        /\ y.overflowed = f.overflowed /\ y.chan = f.chan /\ y.lastSeen = f.lastSeen
    BY <2>0 DEF Handle
  <2>. HIDE DEF y
  <2>2. CASE h.overflowed
    <3>1. f = h
      BY <2>f, <2>2 DEF Feed
    <3>. QED  BY <1>0, <1>4, <2>1, <2>2, <3>1
  <2>3. CASE ~h.overflowed
    <3>0. f.open = h.open /\ \E n \in 0..Len(cs) : FedBy(h, cs, f, n)
      BY <2>f, <2>3, FeedFeeds
    <3>1. PICK n \in 0..Len(cs) : FedBy(h, cs, f, n) /\ f.open = h.open
      BY <3>0
    <3>2. FedBy(h, cs, g, n)
      BY <1>4, <2>1, <3>1 DEF FedBy
    <3>3. g.open = h.open /\ g.boundary = h.boundary /\ (~g.overflowed => g.reg)
      BY <1>4, <2>1, <3>1 DEF FedBy
    <3>. QED  BY <1>0, <1>4, <2>3, <3>2, <3>3
  <2>. QED  BY <2>2, <2>3
<1>. QED  BY <1>1, <1>2, <1>3, <1>4

\* Fanning the next revision out moves every stream on, and leaves no gap in a dense one.
LEMMA FanGap ==
  ASSUME LogInv, Ordered(log), NEW c \in Client, NEW h, Kept(h), NEW head \in Nat,
         NEW cs, cs = Between(log, head, head + 1), NeverBack(c, h, head),
         NEW g, g = Fan(h, cs)
  PROVE  /\ NeverBack(c, g, head + 1)
         /\ DenseLog /\ head + 1 <= Len(log) /\ Dense(c, h, head, log)
              => Dense(c, g, head + 1, log)
<1>0. head + 1 \in Nat /\ head <= head + 1
  OBVIOUS
<1>1. /\ RunOf(cs, head, head + 1)
      /\ DenseLog /\ head + 1 <= Len(log) => DenseRun(cs, head, head + 1, log)
  BY <1>0, RunFacts
<1>c. cs \in Seq(Change)
  BY <1>1 DEF RunOf
<1>2. /\ g \in Handle /\ g.open = h.open /\ g.boundary = h.boundary
      /\ \/ /\ g.chan = h.chan /\ g.lastSeen = h.lastSeen /\ g.gone = h.gone
            /\ g.overflowed = h.overflowed
            /\ h.overflowed \/ ~h.open \/ ~h.reg \/ h.boundary >= cs[1].rev
         \/ /\ h.open /\ ~h.overflowed
            /\ ~g.overflowed => g.reg
            /\ \E n \in 0..Len(cs) : FedBy(h, cs, g, n)
  BY <1>c, FanCases
<1>3. h \in Handle /\ h.lastSeen \in Nat /\ h.boundary \in Nat
  BY DEF Kept, Handle
<1>4. NeverBack(c, g, head + 1)
  <2>. SUFFICES ASSUME h.open  PROVE Streams(c, g, head + 1)
    BY <1>2 DEF NeverBack
  <2>1. Streams(c, h, head) /\ h.lastSeen <= head
    BY DEF NeverBack, Streams
  <2>2. CASE g.chan = h.chan /\ g.lastSeen = h.lastSeen /\ g.gone = h.gone
             /\ g.overflowed = h.overflowed
    <3>1. g.lastSeen <= head + 1
      BY <1>3, <2>1, <2>2
    <3>. QED  BY <2>1, <2>2, <3>1 DEF Streams
  <2>3. CASE \E n \in 0..Len(cs) : FedBy(h, cs, g, n)
    <3>1. PICK n \in 0..Len(cs) : FedBy(h, cs, g, n)
      BY <2>3
    <3>2. ASSUME NEW i \in 1..Len(cs)  PROVE h.lastSeen < cs[i].rev /\ cs[i].rev <= head + 1
      <4>1. head < cs[i].rev /\ cs[i].rev <= head + 1
        BY <1>1 DEF RunOf
      <4>2. cs[i] \in Change
        BY <1>c
      <4>3. cs[i].rev \in Nat
        BY <4>2 DEF Change
      <4>. QED  BY <1>3, <2>1, <4>1, <4>3
    <3>3. RunOf(cs, h.lastSeen, head + 1)
      BY <1>1, <3>2 DEF RunOf
    <3>. QED  BY <1>0, <1>2, <1>3, <2>1, <3>1, <3>3, FedStreams
  <2>. QED  BY <1>2, <2>2, <2>3
<1>5. ASSUME DenseLog, head + 1 <= Len(log), Dense(c, h, head, log)
      PROVE  Dense(c, g, head + 1, log)
  <2>. SUFFICES ASSUME h.open  PROVE Follows(c, g, head + 1, log) /\ g.boundary <= head + 1
    BY <1>2, <1>5 DEF Dense
  <2>0. Follows(c, h, head, log) /\ h.boundary <= head
    BY <1>5 DEF Dense
  <2>1. DenseRun(cs, head, head + 1, log)
    BY <1>1, <1>5
  <2>2. g.boundary <= head + 1
    BY <1>2, <1>3, <2>0
  <2>3. CASE h.overflowed
    <3>1. g.chan = h.chan /\ g.lastSeen = h.lastSeen /\ g.overflowed
      BY <1>2, <2>3
    <3>. QED  BY <2>0, <2>2, <3>1 DEF Follows, Continues, Cursor
  <2>4. CASE ~h.overflowed
    <3>1. h.reg
      BY <2>0, <2>4 DEF Follows
    <3>2. ~(h.boundary >= cs[1].rev)
      <4>1. Len(cs) = 1
        <5>1. Len(cs) = (head + 1) - head
          BY <2>1 DEF DenseRun
        <5>. QED  BY <5>1
      <4>2. cs[1].rev = head + 1
        BY <2>1, <4>1 DEF DenseRun
      <4>. QED  BY <1>3, <2>0, <4>2
    <3>3. PICK n \in 0..Len(cs) : FedBy(h, cs, g, n)
      BY <1>2, <2>4, <3>1, <3>2
    <3>4. ~g.overflowed => g.reg
      BY <1>2, <2>4, <3>1, <3>2
    <3>6. Follows(c, g, head + 1, log)
      BY <1>0, <1>c, <1>2, <1>3, <2>0, <2>1, <2>4, <3>3, <3>4, FedFollows
    <3>. QED  BY <2>2, <3>6
  <2>. QED  BY <2>3, <2>4
<1>. QED  BY <1>4, <1>5

\* A stream opened at a client's revision starts behind what it has, and at it if dense.
LEMMA RegisterGap ==
  ASSUME LogInv, HistoryInv, Ordered(log), NEW c \in Client, c.resume <= history.head,
         Ordered(c.got), \A i \in 1..Len(c.got) : c.got[i].rev <= c.resume,
         NEW replay, replay = Between(log, c.resume, history.head), NEW b \in BOOLEAN,
         NEW g, g = Register(replay, c.resume, b)
  PROVE  /\ NeverBack(c, g, history.head)
         /\ /\ DenseLog /\ history.head <= Len(log)
            /\ c.resume = c.base + Len(c.got)
            /\ \A i \in 1..Len(c.got) : c.got[i] = log[c.base + i]
            => Dense(c, g, history.head, log)
<1>. DEFINE from == c.resume
            head == history.head
            h == [reg |-> TRUE, open |-> TRUE, chan |-> <<>>, gone |-> None,
                  boundary |-> history.head, lastSeen |-> from, overflowed |-> FALSE,
                  bookmarks |-> b, bookmarked |-> None]
<1>0. from \in Nat /\ head \in Nat /\ c.got \in Seq(Change) /\ from <= head
  BY DEF Client, HistoryInv
<1>1. /\ RunOf(replay, from, head)
      /\ DenseLog /\ head <= Len(log) => DenseRun(replay, from, head, log)
  BY <1>0, RunFacts
<1>c. replay \in Seq(Change)
  BY <1>1 DEF RunOf
<1>2. Kept(h) /\ h \in Handle
  BY <1>0, BackendAssumption DEF Kept, Handle
<1>3. g = Feed(h, replay)
  BY DEF Register
<1>4. /\ h.chan = <<>> /\ h.lastSeen = from /\ h.gone = None /\ ~h.overflowed /\ h.open /\ h.reg
      /\ h.boundary = head
  OBVIOUS
<1>. HIDE DEF h
<1>f. g \in Handle /\ g.open = h.open /\ g.reg = h.reg /\ \E n \in 0..Len(replay) : FedBy(h, replay, g, n)
  <2>1. ~h.overflowed
    BY <1>4
  <2>. QED  BY <1>c, <1>2, <1>3, <2>1, FeedFeeds
<1>5. PICK n \in 0..Len(replay) : FedBy(h, replay, g, n)
  BY <1>f
<1>6. Len(h.chan) = 0
  BY <1>4
<1>7. Streams(c, h, from)
  <2>1. Ordered(h.chan)
    BY <1>6 DEF Ordered
  <2>. QED  BY <1>0, <1>4, <1>6, <2>1 DEF Streams
<1>8. Streams(c, g, head)
  <2>1. RunOf(replay, h.lastSeen, head)
    BY <1>1, <1>4
  <2>. HIDE DEF from, head
  <2>. QED  BY <1>0, <1>2, <1>f, <1>5, <1>7, <2>1, FedStreams
<1>9. ASSUME DenseLog, head <= Len(log), c.resume = c.base + Len(c.got),
             \A i \in 1..Len(c.got) : c.got[i] = log[c.base + i]
      PROVE  Dense(c, g, head, log)
  <2>1. Follows(c, h, from, log)
    BY <1>4, <1>6 DEF Follows, Cursor
  <2>2. DenseRun(replay, from, head, log)
    BY <1>1, <1>9
  <2>3. ~g.overflowed => g.reg
    BY <1>4, <1>f
  <2>4. Follows(c, g, head, log)
    <3>. HIDE DEF from, head
    <3>. QED  BY <1>0, <1>c, <1>2, <1>4, <1>f, <1>5, <2>1, <2>2, <2>3, FedFollows
  <2>5. g.boundary <= head
    BY <1>0, <1>4, <1>5 DEF FedBy
  <2>6. c.resume <= Len(log)
    <3>1. Len(log) \in Nat
      BY DEF LogInv
    <3>. QED  BY <1>0, <1>9, <3>1
  <2>. QED  BY <1>9, <2>4, <2>5, <2>6 DEF Dense
<1>. QED  BY <1>8, <1>9 DEF NeverBack

-----------------------------------------------------------------------------
\* A fresh replica has sent nothing and queued nothing.
LEMMA GapInit == Init => GapInv
<1>. SUFFICES ASSUME Init  PROVE GapInv
  OBVIOUS
<1>1. log = <<>> /\ Len(log) = 0 /\ history.head = 0
  BY DEF Init, NewHistory
<1>2. Ordered(log) /\ DenseLog
  BY <1>1 DEF Ordered, DenseLog
<1>3. ASSUME NEW w \in Watchers
      PROVE  /\ ~watch[w].open /\ client[w].got = <<>> /\ client[w].resume = 0 /\ client[w].base = 0
             /\ Len(client[w].got) = 0
  BY DEF Init, Closed
<1>4. ASSUME NEW w \in Watchers
      PROVE  NeverBack(client[w], watch[w], history.head) /\ Dense(client[w], watch[w], history.head, log)
  BY <1>1, <1>3 DEF NeverBack, Dense, Ordered
<1>. QED  BY <1>2, <1>4 DEF GapInv

\* Every step keeps what each client was sent and is queued in order, and dense.
LEMMA GapStep == IInv /\ TypeOK /\ GapInv /\ [Next]_vars => GapInv'
<1>. SUFFICES ASSUME IInv, TypeOK, GapInv, [Next]_vars  PROVE GapInv'
  OBVIOUS
<1>. DEFINE head == history.head
<1>0. /\ LogInv /\ HistoryInv /\ Ordered(log) /\ head \in Nat /\ head <= Top /\ Top \in Nat
      /\ log \in Seq(Change) /\ Len(log) \in Nat /\ installs \in Nat
  BY TopBounds DEF IInv, LogInv, HistoryInv, Sealed, GapInv, TypeOK
<1>1. ASSUME NEW w \in Watchers
      PROVE  /\ Kept(watch[w]) /\ watch[w] \in Handle /\ client[w] \in Client
             /\ NeverBack(client[w], watch[w], head)
  BY DEF TypeOK, Kept, GapInv
<1>2. ASSUME NothingSkips
      PROVE  /\ DenseLog /\ Top = Len(log) /\ head <= Len(log)
             /\ \A w \in Watchers : Dense(client[w], watch[w], head, log)
  <2>1. DenseLog /\ \A w \in Watchers : Dense(client[w], watch[w], head, log)
    BY <1>2 DEF GapInv
  <2>2. Top = Len(log)
    BY <1>0, <2>1, DenseTop
  <2>. QED  BY <1>0, <2>1, <2>2
<1>3. /\ DOMAIN watch = Watchers /\ DOMAIN client = Watchers
      /\ watch \in [Watchers -> Handle] /\ client \in [Watchers -> Client]
  BY DEF TypeOK
<1>queued. ASSUME NothingSkips, NEW w \in Watchers, watch[w].open, NEW j \in 1..Len(watch[w].chan)
           PROVE  watch[w].chan[j].rev <= Len(log)
  <2>1. watch[w].chan[j].rev <= watch[w].lastSeen /\ watch[w].lastSeen <= head
    BY <1>1, <1>queued DEF NeverBack, Streams
  <2>2. watch[w].chan \in Seq(Signal) /\ watch[w].lastSeen \in Nat
    BY <1>1 DEF Handle
  <2>3. watch[w].chan[j] \in Signal
    BY <2>2
  <2>4. watch[w].chan[j].rev \in Nat
    BY <2>3 DEF Signal, Change
  <2>5. head <= Len(log)
    BY <1>2, <1>queued
  <2>6. \A a, b, c, d \in Nat : a <= b /\ b <= c /\ c <= d => a <= d
    OBVIOUS
  <2>. QED  BY <1>0, <2>1, <2>2, <2>4, <2>5, <2>6
<1>still. ASSUME log' = log, installs' = installs,
                 \A w \in Watchers : NeverBack(client'[w], watch'[w], history'.head),
                 NothingSkips => \A w \in Watchers : Dense(client'[w], watch'[w], history'.head, log)
          PROVE  GapInv'
  <2>1. Ordered(log') /\ (NothingSkips' => NothingSkips)
    BY <1>0, <1>still DEF NothingSkips
  <2>2. NothingSkips' => DenseLog'
    BY <1>2, <1>still, <2>1 DEF DenseLog
  <2>3. NothingSkips' => \A w \in Watchers : Dense(client'[w], watch'[w], history'.head, log')
    BY <1>still, <2>1
  <2>. QED  BY <1>still, <2>1, <2>2, <2>3 DEF GapInv
<1>one. ASSUME NEW w \in Watchers, NEW c, NEW h, UNCHANGED <<history, log, installs>>,
               client' = [client EXCEPT ![w] = c], watch' = [watch EXCEPT ![w] = h],
               NeverBack(c, h, head), NothingSkips => Dense(c, h, head, log)
        PROVE  GapInv'
  <2>1. ASSUME NEW v \in Watchers
        PROVE  \/ client'[v] = c /\ watch'[v] = h
               \/ client'[v] = client[v] /\ watch'[v] = watch[v]
    BY <1>3, <1>one
  <2>2. history'.head = head
    BY <1>one
  <2>3. \A v \in Watchers : NeverBack(client'[v], watch'[v], history'.head)
    BY <1>1, <1>one, <2>1, <2>2
  <2>4. NothingSkips => \A v \in Watchers : Dense(client'[v], watch'[v], history'.head, log)
    BY <1>2, <1>one, <2>1, <2>2
  <2>. QED  BY <1>still, <1>one, <2>3, <2>4
<1>4. ASSUME NEW n \in 1..MaxTxn, Decide(n)  PROVE GapInv'
  <2>1. /\ n \in Nat \ {0} /\ log' = log \o Batch(Top + 1, n) /\ installs' = installs
        /\ history' = history /\ watch' = watch /\ client' = client
    BY <1>4, BackendAssumption DEF Decide
  <2>2. NothingSkips => DenseLog
    BY <1>2
  <2>3. /\ Ordered(log') /\ Len(log) <= Len(log')
        /\ \A i \in 1..Len(log) : log'[i] = log[i]
        /\ NothingSkips' => NothingSkips /\ DenseLog'
    BY <1>0, <2>1, <2>2, DecideOrders
  <2>4. log' \in Seq(Change)
    BY <1>0, <2>1, DecideKeepsLog DEF LogInv
  <2>5. \A w \in Watchers : NeverBack(client[w], watch[w], history.head)'
    BY <1>1, <2>1
  <2>6. ASSUME NothingSkips', NEW w \in Watchers  PROVE Dense(client[w], watch[w], history.head, log)'
    <3>1. NothingSkips /\ Dense(client[w], watch[w], head, log)
      BY <1>2, <2>3, <2>6
    <3>2. watch[w].open => \A j \in 1..Len(watch[w].chan) : watch[w].chan[j].rev <= Len(log)
      BY <1>queued, <3>1
    <3>3. Dense(client[w], watch[w], head, log')
      <4>. HIDE DEF head
      <4>. QED  BY <1>0, <1>1, <2>3, <2>4, <3>1, <3>2, DenseExtends
    <3>. QED  BY <2>1, <3>3
  <2>. QED  BY <2>3, <2>5, <2>6 DEF GapInv
<1>5. ASSUME Apply  PROVE GapInv'
  <2>. DEFINE cs == Between(log, head, head + 1)
  <2>1. /\ head < Top /\ log' = log /\ installs' = installs /\ client' = client
        /\ watch' = [w \in Watchers |-> Fan(watch[w], cs)]
        /\ history' = Evict(history.ring \o cs, history.floor, head + 1)
    BY <1>5 DEF Apply, Commit, Window
  <2>2. history'.head = head + 1
    BY <2>1 DEF Evict
  <2>3. cs = Between(log, head, head + 1)
    OBVIOUS
  <2>. HIDE DEF cs
  <2>4. ASSUME NEW w \in Watchers
        PROVE  /\ NeverBack(client[w], watch'[w], head + 1)
               /\ DenseLog /\ head + 1 <= Len(log) /\ Dense(client[w], watch[w], head, log)
                    => Dense(client[w], watch'[w], head + 1, log)
    <3>1. watch'[w] = Fan(watch[w], cs)
      BY <2>1
    <3>. HIDE DEF head
    <3>. QED  BY <1>0, <1>1, <2>3, <3>1, FanGap
  <2>5. \A w \in Watchers : NeverBack(client'[w], watch'[w], history'.head)
    BY <2>1, <2>2, <2>4
  <2>6. ASSUME NothingSkips, NEW w \in Watchers
        PROVE  Dense(client'[w], watch'[w], history'.head, log)
    <3>1. DenseLog /\ head + 1 <= Len(log) /\ Dense(client[w], watch[w], head, log)
      <4>1. DenseLog /\ Top = Len(log) /\ Dense(client[w], watch[w], head, log)
        BY <1>2, <2>6
      <4>2. head + 1 <= Top
        BY <1>0, <2>1
      <4>. QED  BY <4>1, <4>2
    <3>. QED  BY <2>1, <2>2, <2>4, <3>1
  <2>. QED  BY <1>still, <2>1, <2>5, <2>6
<1>6. ASSUME NEW r \in 1..Top, CompactTo(r)  PROVE GapInv'
  <2>1. /\ history' = Compact(history, r) /\ UNCHANGED <<log, watch, client, installs>>
    BY <1>6 DEF CompactTo
  <2>2. history'.head = head
    BY <2>1 DEF Compact, HistoryInv, IInv
  <2>. QED  BY <1>still, <1>1, <1>2, <2>1, <2>2
<1>7. ASSUME NEW r \in 1..Top, InstallSnapshot(r)  PROVE GapInv'
  <2>1. /\ r > head /\ history'.head = r /\ installs' = installs + 1
        /\ UNCHANGED <<log, watch, client>>
    BY <1>7 DEF InstallSnapshot, LoadedAt
  <2>2. ~NothingSkips'
    BY <1>0, <2>1 DEF NothingSkips
  <2>3. ASSUME NEW w \in Watchers  PROVE NeverBack(client[w], watch[w], r)
    <3>. SUFFICES ASSUME watch[w].open  PROVE Streams(client[w], watch[w], r)
      BY <1>1 DEF NeverBack
    <3>1. Streams(client[w], watch[w], head) /\ watch[w].lastSeen <= head
      BY <1>1 DEF NeverBack, Streams
    <3>2. watch[w].lastSeen \in Nat
      BY <1>1 DEF Handle
    <3>3. watch[w].lastSeen <= r
      BY <1>0, <2>1, <3>1, <3>2
    <3>. QED  BY <3>1, <3>3 DEF Streams
  <2>4. Ordered(log')
    BY <1>0, <2>1
  <2>5. \A w \in Watchers : NeverBack(client'[w], watch'[w], history'.head)
    BY <2>1, <2>3
  <2>. QED  BY <2>2, <2>4, <2>5 DEF GapInv
<1>8. ASSUME NEW r \in 0..history.head, Restart(r)  PROVE GapInv'
  <2>1. UNCHANGED <<log, client, installs>>
    BY <1>8 DEF Restart
  <2>2. \A w \in Watchers : ~watch'[w].open
    BY <1>8 DEF Restart, Closed
  <2>3. \A w \in Watchers : NeverBack(client'[w], watch'[w], history'.head)
    BY <1>1, <2>1, <2>2 DEF NeverBack
  <2>4. NothingSkips => \A w \in Watchers : Dense(client'[w], watch'[w], history'.head, log)
    BY <1>2, <2>1, <2>2 DEF Dense
  <2>. QED  BY <1>still, <2>1, <2>3, <2>4
<1>9. ASSUME NEW due \in SUBSET Watchers, Tick(due)  PROVE GapInv'
  <2>1. UNCHANGED <<history, log, client, installs>>
    BY <1>9 DEF Tick
  <2>2. ASSUME NEW w \in Watchers
        PROVE  watch'[w] = watch[w] \/ watch'[w] = TickOne(watch[w], head)
    BY <1>9 DEF Tick
  <2>3. ASSUME NEW w \in Watchers
        PROVE  /\ NeverBack(client[w], watch'[w], head)
               /\ NothingSkips => Dense(client[w], watch'[w], head, log)
    <3>1. CASE watch'[w] = watch[w]
      BY <1>1, <1>2, <3>1
    <3>2. CASE watch'[w] = TickOne(watch[w], head)
      <4>. DEFINE t == watch'[w]
      <4>0. t = TickOne(watch[w], head)
        BY <3>2
      <4>. HIDE DEF t, head
      <4>1. t.open = watch[w].open /\ t.boundary = watch[w].boundary
        BY <1>0, <1>1, <4>0, TickCases
      <4>2. ASSUME watch[w].open  PROVE Streams(client[w], t, head)
        <5>1. Streams(client[w], watch[w], head)
          BY <1>1, <4>2 DEF NeverBack
        <5>. QED  BY <1>0, <1>1, <4>0, <5>1, TickStreams
      <4>3. NeverBack(client[w], t, head)
        BY <1>1, <4>1, <4>2 DEF NeverBack
      <4>4. ASSUME NothingSkips  PROVE Dense(client[w], t, head, log)
        <5>1. Dense(client[w], watch[w], head, log)
          BY <1>2, <4>4
        <5>2. ASSUME watch[w].open  PROVE Follows(client[w], t, head, log)
          <6>1. Follows(client[w], watch[w], head, log)
            BY <5>1, <5>2 DEF Dense
          <6>. QED  BY <1>0, <1>1, <4>0, <5>2, <6>1, TickFollows
        <5>. QED  BY <4>1, <5>1, <5>2 DEF Dense
      <4>. QED  BY <4>3, <4>4 DEF t
    <3>. QED  BY <2>2, <3>1, <3>2
  <2>. QED  BY <1>still, <2>1, <2>3
<1>fresh. ASSUME NEW c, c = [base |-> head, got |-> <<>>, resume |-> head, relist |-> FALSE]
          PROVE  /\ c \in Client /\ c.resume = head /\ c.base = head /\ c.got = <<>>
                 /\ Len(c.got) = 0 /\ c.resume = c.base + Len(c.got) /\ Ordered(c.got)
  <2>1. c \in Client /\ c.resume = head /\ c.base = head /\ c.got = <<>> /\ Len(c.got) = 0
    BY <1>0, <1>fresh DEF Client
  <2>2. c.resume = c.base + Len(c.got)
    BY <1>0, <2>1
  <2>. QED  BY <2>1, <2>2 DEF Ordered
<1>10. ASSUME NEW w \in Watchers, Relist(w)  PROVE GapInv'
  <2>. DEFINE c == [base |-> head, got |-> <<>>, resume |-> head, relist |-> FALSE]
  <2>1. /\ UNCHANGED <<history, log, watch, installs>> /\ ~watch[w].open
        /\ client' = [client EXCEPT ![w] = c]
    BY <1>10 DEF Relist
  <2>2. /\ c.resume = head /\ Len(c.got) = 0 /\ c.resume = c.base + Len(c.got) /\ Ordered(c.got)
    BY <1>fresh
  <2>. HIDE DEF c
  <2>3. NeverBack(c, watch[w], head)
    BY <2>1, <2>2 DEF NeverBack
  <2>4. NothingSkips => Dense(c, watch[w], head, log)
    BY <1>2, <2>1, <2>2 DEF Dense
  <2>5. watch' = [watch EXCEPT ![w] = watch[w]]
    BY <1>3, <2>1
  <2>. QED  BY <1>one, <2>1, <2>3, <2>4, <2>5
<1>11. ASSUME NEW w \in Watchers, WatchRefused(w)  PROVE GapInv'
  <2>. DEFINE c == [client[w] EXCEPT !.relist = TRUE]
  <2>1. /\ UNCHANGED <<history, log, watch, installs>> /\ ~watch[w].open
        /\ client' = [client EXCEPT ![w] = c]
    BY <1>11, <1>3 DEF WatchRefused
  <2>2. c.resume = client[w].resume /\ c.got = client[w].got /\ c.base = client[w].base
    BY <1>1 DEF Client
  <2>. HIDE DEF c
  <2>3. NeverBack(c, watch[w], head)
    BY <1>1, <2>1, <2>2 DEF NeverBack
  <2>4. NothingSkips => Dense(c, watch[w], head, log)
    BY <1>2, <2>1, <2>2 DEF Dense
  <2>5. watch' = [watch EXCEPT ![w] = watch[w]]
    BY <1>3, <2>1
  <2>. QED  BY <1>one, <2>1, <2>3, <2>4, <2>5
<1>12. ASSUME NEW w \in Watchers, Subscribe(w)  PROVE GapInv'
  <2>. DEFINE c == [base |-> head, got |-> <<>>, resume |-> head, relist |-> FALSE]
              h == Register(<<>>, head, FALSE)
  <2>1. /\ UNCHANGED <<history, log, installs>>
        /\ client' = [client EXCEPT ![w] = c] /\ watch' = [watch EXCEPT ![w] = h]
    BY <1>12 DEF Subscribe
  <2>2. /\ c \in Client /\ c.resume = head /\ Len(c.got) = 0
        /\ c.resume = c.base + Len(c.got) /\ Ordered(c.got)
    BY <1>fresh
  <2>3. Between(log, head, head) = <<>>
    BY <1>0, ChangeRevisioned, EmptyWindow DEF LogInv
  <2>. HIDE DEF c
  <2>4. h = Register(<<>>, c.resume, FALSE)
    BY <2>2
  <2>. HIDE DEF h
  <2>5. /\ NeverBack(c, h, head)
        /\ /\ DenseLog /\ head <= Len(log)
           /\ c.resume = c.base + Len(c.got)
           /\ \A i \in 1..Len(c.got) : c.got[i] = log[c.base + i]
           => Dense(c, h, head, log)
    <3>1. <<>> = Between(log, c.resume, history.head) /\ c.resume <= history.head /\ FALSE \in BOOLEAN
      BY <1>0, <2>2, <2>3
    <3>2. \A i \in 1..Len(c.got) : c.got[i].rev <= c.resume
      BY <2>2
    <3>. QED  BY <1>0, <2>2, <2>4, <3>1, <3>2, RegisterGap
  <2>6. NothingSkips => Dense(c, h, head, log)
    BY <1>2, <2>2, <2>5
  <2>. QED  BY <1>one, <2>1, <2>5, <2>6
<1>13. ASSUME NEW w \in Watchers, NEW b \in BOOLEAN, WatchFrom(w, b)  PROVE GapInv'
  <2>. DEFINE c == client[w]
              replay == Since(history, c.resume)
              h == Register(replay, c.resume, b)
  <2>1. /\ UNCHANGED <<history, log, installs, client>> /\ watch' = [watch EXCEPT ![w] = h]
        /\ c.resume <= history.head /\ ~Refuses(history, c.resume)
    BY <1>13 DEF WatchFrom
  <2>2. c.resume \in Nat
    BY <1>1 DEF Client
  <2>3. replay = Between(log, c.resume, history.head)
    BY <2>1, <2>2, SinceTyped
  <2>4. h = Register(replay, c.resume, b)
    OBVIOUS
  <2>5. client' = [client EXCEPT ![w] = c]
    BY <1>3, <2>1
  <2>6. c \in Client /\ Ordered(c.got) /\ \A i \in 1..Len(c.got) : c.got[i].rev <= c.resume
    BY <1>1 DEF NeverBack
  <2>7. NothingSkips => Dense(c, watch[w], head, log)
    BY <1>2
  <2>. HIDE DEF c, replay, h
  <2>8. /\ NeverBack(c, h, head)
        /\ /\ DenseLog /\ head <= Len(log)
           /\ c.resume = c.base + Len(c.got)
           /\ \A i \in 1..Len(c.got) : c.got[i] = log[c.base + i]
           => Dense(c, h, head, log)
    BY <1>0, <2>1, <2>3, <2>4, <2>6, RegisterGap
  <2>9. NothingSkips => Dense(c, h, head, log)
    BY <1>2, <2>7, <2>8 DEF Dense
  <2>. QED  BY <1>one, <2>1, <2>5, <2>8, <2>9
<1>14. ASSUME NEW w \in Watchers, Receive(w)  PROVE GapInv'
  <2>. DEFINE h == watch[w]
              c == client[w]
              sig == Head(h.chan)
              h2 == [h EXCEPT !.chan = Tail(@)]
              c2 == [c EXCEPT !.got = IF sig.pos = 0 THEN @ ELSE Append(@, sig),
                              !.resume = Later(@, sig.rev)]
  <2>1. /\ h.open /\ h.chan # <<>> /\ UNCHANGED <<history, log, installs>>
        /\ watch' = [watch EXCEPT ![w] = h2] /\ client' = [client EXCEPT ![w] = c2]
    BY <1>14, <1>3 DEF Receive
  <2>2. /\ h \in Handle /\ c \in Client /\ NeverBack(c, h, head)
        /\ NothingSkips => Dense(c, h, head, log)
        /\ NothingSkips => \A j \in 1..Len(h.chan) : h.chan[j].rev <= Len(log)
    BY <1>1, <1>2, <1>queued, <2>1
  <2>. HIDE DEF h, c
  <2>3. h.chan[1] = sig
    <3>1. h.chan \in Seq(Signal)
      BY <2>2 DEF Handle
    <3>. QED  BY <2>1, <3>1, TailParts
  <2>. HIDE DEF sig
  <2>4. Received(c, h, c2, h2)
    <3>1. /\ c2.base = c.base /\ c2.got = (IF sig.pos = 0 THEN c.got ELSE Append(c.got, sig))
          /\ c2.resume = Later(c.resume, sig.rev)
      BY <2>2 DEF Client
    <3>2. /\ h2.chan = Tail(h.chan)
          /\ h2.open = h.open /\ h2.reg = h.reg /\ h2.gone = h.gone
          /\ h2.boundary = h.boundary /\ h2.lastSeen = h.lastSeen /\ h2.overflowed = h.overflowed
      BY <2>2 DEF Handle
    <3>. HIDE DEF c2, h2
    <3>. QED  BY <2>3, <3>1, <3>2 DEF Received
  <2>. HIDE DEF c2, h2
  <2>5. NeverBack(c2, h2, head)
    <3>. HIDE DEF head
    <3>. QED  BY <1>0, <2>1, <2>2, <2>4, ReceiveBack
  <2>6. ASSUME NothingSkips  PROVE Dense(c2, h2, head, log)
    <3>1. Dense(c, h, head, log) /\ \A j \in 1..Len(h.chan) : h.chan[j].rev <= Len(log)
      BY <2>2, <2>6
    <3>. HIDE DEF head
    <3>. QED  BY <1>0, <2>1, <2>2, <2>4, <3>1, ReceiveDense
  <2>. QED  BY <1>one, <2>1, <2>5, <2>6
<1>15. ASSUME NEW w \in Watchers, ReceiveGone(w)  PROVE GapInv'
  <2>. DEFINE h == watch[w]
              c == client[w]
              h2 == [h EXCEPT !.open = FALSE, !.gone = None]
              c2 == [c EXCEPT !.resume = h.gone]
  <2>1. /\ h.open /\ h.chan = <<>> /\ h.gone # None /\ UNCHANGED <<history, log, installs>>
        /\ watch' = [watch EXCEPT ![w] = h2] /\ client' = [client EXCEPT ![w] = c2]
    BY <1>15, <1>3 DEF ReceiveGone
  <2>2. /\ h \in Handle /\ c \in Client /\ NeverBack(c, h, head)
        /\ NothingSkips => Dense(c, h, head, log)
    BY <1>1, <1>2
  <2>. HIDE DEF h, c
  <2>3. ~h2.open /\ c2.got = c.got /\ c2.base = c.base /\ c2.resume = h.gone
    BY <2>2 DEF Handle, Client
  <2>. HIDE DEF h2, c2
  <2>4. /\ h.gone = h.lastSeen /\ Ordered(c.got)
        /\ \A i \in 1..Len(c.got) : c.got[i].rev <= h.lastSeen
    BY <2>1, <2>2 DEF NeverBack, Streams
  <2>5. NeverBack(c2, h2, head)
    BY <2>3, <2>4 DEF NeverBack
  <2>6. ASSUME NothingSkips  PROVE Dense(c2, h2, head, log)
    <3>1. Dense(c, h, head, log) /\ Follows(c, h, head, log)
      BY <2>1, <2>2, <2>6 DEF Dense
    <3>2. h.lastSeen = c.resume
      <4>1. Len(h.chan) = 0
        BY <2>1
      <4>. QED  BY <3>1, <4>1 DEF Follows, Cursor
    <3>. QED  BY <2>3, <2>4, <3>1, <3>2 DEF Dense
  <2>. QED  BY <1>one, <2>1, <2>5, <2>6
<1>16. ASSUME NEW w \in Watchers, DropStream(w)  PROVE GapInv'
  <2>. DEFINE h2 == [watch[w] EXCEPT !.open = FALSE, !.chan = <<>>, !.gone = None]
  <2>1. /\ UNCHANGED <<history, log, installs, client>> /\ watch' = [watch EXCEPT ![w] = h2]
    BY <1>16, <1>3 DEF DropStream
  <2>2. ~h2.open
    BY <1>1 DEF Handle
  <2>. HIDE DEF h2
  <2>3. client' = [client EXCEPT ![w] = client[w]]
    BY <1>3, <2>1
  <2>4. NeverBack(client[w], h2, head)
    BY <1>1, <2>2 DEF NeverBack
  <2>5. NothingSkips => Dense(client[w], h2, head, log)
    BY <1>2, <2>2 DEF Dense
  <2>. QED  BY <1>one, <2>1, <2>3, <2>4, <2>5
<1>17. ASSUME UNCHANGED vars  PROVE GapInv'
  BY <1>17, <1>1, <1>2, <1>still DEF vars
<1>. QED  BY <1>4, <1>5, <1>6, <1>7, <1>8, <1>9, <1>10, <1>11, <1>12, <1>13, <1>14,
             <1>15, <1>16, <1>17 DEF Next

(***************************************************************************)
(* A client never receives a change at or before one it already has, and   *)
(* where nothing skips what it holds is the run of committed changes right *)
(* after its list (watch_backend.rs: register_shared feeds the replay and  *)
(* registers under one guard, try_enqueue stops at the first change that   *)
(* does not fit and the Gone signal carries the last revision queued).     *)
(***************************************************************************)
THEOREM GapFreeAlways == Spec => []GapFree
<1>1. ASSUME IInv, TypeOK, GapInv  PROVE GapFree
  <2>. SUFFICES ASSUME NEW w \in Watchers
                PROVE  /\ \A i, j \in 1..Len(client[w].got) :
                            i < j => Lex(client[w].got[i], client[w].got[j])
                       /\ NothingSkips =>
                            /\ Position(w) + Len(client[w].got) <= Len(log)
                            /\ client[w].got = SubSeq(log, Position(w) + 1,
                                                      Position(w) + Len(client[w].got))
    BY DEF GapFree, Lex
  <2>. DEFINE c == client[w]
              k == Len(c.got)
  <2>1. /\ c \in Client /\ c.got \in Seq(Change) /\ k \in Nat /\ c.base \in Nat
        /\ log \in Seq(Change) /\ InOrder(log) /\ Len(log) \in Nat
    BY <1>1 DEF TypeOK, Client, IInv, LogInv
  <2>2. Ordered(c.got)
    BY <1>1 DEF GapInv, NeverBack
  <2>3. ASSUME NEW i \in 1..k, NEW j \in 1..k, i < j  PROVE Lex(c.got[i], c.got[j])
    <3>1. c.got[i] \in Change /\ c.got[j] \in Change
      BY <2>1
    <3>2. c.got[i].pos # 0 /\ c.got[j].pos # 0
      BY <3>1 DEF Change
    <3>. QED  BY <2>2, <2>3, <3>2 DEF Ordered
  <2>4. ASSUME NothingSkips
        PROVE  /\ Position(w) + k <= Len(log)
               /\ c.got = SubSeq(log, Position(w) + 1, Position(w) + k)
    <3>1. /\ c.resume = c.base + k /\ c.resume <= Len(log)
          /\ \A i \in 1..k : c.got[i] = log[c.base + i]
          /\ DenseLog
      BY <1>1, <2>4 DEF GapInv, Dense
    <3>. HIDE DEF c, k
    <3>2. c.base + k <= Len(log) /\ c.base \in 0..Len(log) /\ c.base + k \in c.base..Len(log)
          /\ (c.base + k) - c.base = k
      BY <2>1, <3>1
    <3>3. Position(w) = c.base
      <4>0. \A i \in 1..Len(log) : log[i].rev = i
        BY <3>1 DEF DenseLog
      <4>1. Splits(log, c.base, c.base)
        <5>1. ASSUME NEW i \in 1..c.base  PROVE log[i].rev <= c.base
          <6>1. i \in 1..Len(log) /\ i <= c.base
            BY <2>1, <3>2
          <6>. QED  BY <4>0, <6>1
        <5>2. ASSUME NEW i \in (c.base + 1)..Len(log)  PROVE log[i].rev > c.base
          <6>1. i \in 1..Len(log) /\ i > c.base
            BY <2>1, <3>2
          <6>. QED  BY <4>0, <6>1
        <5>. QED  BY <5>1, <5>2 DEF Splits
      <4>2. PartitionPoint(log, c.base) = c.base
        BY <2>1, <3>2, <4>1, ChangeRevisioned, PartitionPointUnique
      <4>. QED  BY <4>2 DEF Position, c
    <3>. DEFINE b == c.base + k
                s == SubSeq(log, c.base + 1, b)
    <3>4. s \in Seq(Change) /\ Len(s) = b - c.base
      <4>1. 0 \in 0..(b - c.base) /\ b \in c.base..Len(log)
        BY <2>1, <3>2
      <4>. HIDE DEF b
      <4>. QED  BY <2>1, <3>2, <4>1, DrainWindow, ZenonT(30)
    <3>5. \A i \in 1..(b - c.base) : s[i] = log[c.base + i]
      <4>1. 0 \in 0..(b - c.base) /\ b \in c.base..Len(log)
        BY <2>1, <3>2
      <4>. HIDE DEF b
      <4>. QED  BY <2>1, <3>2, <4>1, DrainWindow
    <3>6. b - c.base = k
      BY <3>2
    <3>. HIDE DEF s
    <3>7. Len(s) = k /\ \A i \in 1..k : s[i] = c.got[i]
      <4>. HIDE DEF b
      <4>. QED  BY <3>1, <3>4, <3>5, <3>6
    <3>8. c.got = s
      BY <2>1, <3>4, <3>7, SeqEqual DEF k
    <3>. QED  BY <3>2, <3>3, <3>8 DEF s
  <2>. QED  BY <2>3, <2>4
<1>2. Init => TypeOK
  BY BackendAssumption
     DEF Init, TypeOK, NewHistory, Closed, Handle, Client
<1>. QED  BY <1>1, <1>2, SealedInit, SealedStep, TypeStep, GapInit, GapStep, PTL DEF Spec

=============================================================================
