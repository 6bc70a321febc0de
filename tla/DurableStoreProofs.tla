------------------------ MODULE DurableStoreProofs ------------------------
(***************************************************************************)
(* For every bound on indexes, batches, votes and crashes and for every    *)
(* disk a boot may find: each chosen command is applied once and in order, *)
(* nothing shown is lost and no promise is broken by a crash.              *)
(***************************************************************************)
EXTENDS DurableStore, SequenceTheorems, NaturalsInduction, WellFoundedInduction, TLAPS

\* How far a boot from d has the entries applied.
Covered(d) == IF d.snap.at > d.at THEN d.snap.at ELSE d.at

\* An image and a snapshot that belong to the chosen entries, no further on
\* than the replica's memory.
ImagesExact(d, ch, applied) ==
    /\ Exact(d.at, d.content, ch) /\ Exact(d.snap.at, d.snap.content, ch)
    /\ Covered(d) <= applied

\* What was shown, or applied in memory, up to n is in the image or in the log.
ShownKept(d, ch, n) ==
    \A i \in (Covered(d) + 1)..n : i \in DOMAIN d.log /\ i <= Len(ch) /\ ch[i] = d.log[i]

\* What was promised is there.
PromiseKept(d, p) ==
    /\ d.vote >= p.vote
    /\ \A i \in DOMAIN p.log : i <= Covered(d) \/ (i \in DOMAIN d.log /\ d.log[i] = p.log[i])

DiskOK(d, ch, applied, n, p) ==
    /\ d \in Keyspace /\ ImagesExact(d, ch, applied) /\ PromiseKept(d, p)
    /\ ShownKept(d, ch, n) /\ ShownKept(d, ch, applied)

RamFields == {"up", "applied", "content", "dirty", "purged", "vote"}

RamOK ==
    /\ DOMAIN ram = RamFields
    /\ ram.applied \in Nat /\ ram.content \in Seq(Nat) /\ ram.purged \in 0..MaxIndex
    /\ Exact(ram.applied, ram.content, chosen)
    /\ ram.vote \in promised.vote..MaxVote

\* What the running operation has written is in the keyspace, and between
\* operations everything is synced.
JobOK ==
    /\ job.kind \in {"none", "append", "truncate", "purge", "vote"}
    /\ job.kind = "none" => job = NoJob /\ torn = {disk}
    /\ job.kind = "append" => \A i \in DOMAIN job.log : i \in DOMAIN disk.log /\ disk.log[i] = job.log[i]
    /\ job.kind = "append" => DOMAIN job.log \subseteq 1..MaxIndex
    /\ job.kind = "purge" => job.to \in 0..MaxIndex
    /\ job.kind = "vote" => job.vote = disk.vote

\* The entries that are not those of a running append are in every keyspace.
Settled ==
    \A d \in torn : \A i \in DOMAIN disk.log :
        (i \in DOMAIN d.log /\ d.log[i] = disk.log[i])
        \/ (job.kind = "append" /\ i \in DOMAIN job.log)

Promised == [vote: Nat, log: UNION {[D -> Entry] : D \in SUBSET (1..MaxIndex)}]

IInv ==
    /\ chosen \in Seq(Entry) /\ seen \in 0..Len(chosen) /\ promised \in Promised
    /\ disk \in torn
    /\ \A d \in torn : DiskOK(d, chosen, ram.applied, seen, promised)
    /\ RamOK /\ JobOK /\ Settled

-----------------------------------------------------------------------------
(* Logs and keyspaces. *)

Logs == UNION {[D -> Entry] : D \in SUBSET (1..MaxIndex)}

Snaps == [at: Nat, content: Seq(Nat)]

\* A log is a function from some of the indexes to entries.
LEMMA LogFacts ==
  ASSUME NEW l \in Logs
  PROVE  /\ DOMAIN l \subseteq 1..MaxIndex /\ l = [i \in DOMAIN l |-> l[i]]
         /\ \A i \in DOMAIN l : l[i] \in Entry /\ i \in Nat /\ i >= 1
<1>1. PICK D \in SUBSET (1..MaxIndex) : l \in [D -> Entry]
  BY DEF Logs
<1>. QED  BY <1>1, StoreAssumption

\* And such a function is a log.
LEMMA IsLog ==
  ASSUME NEW D \in SUBSET (1..MaxIndex), NEW l \in [D -> Entry]
  PROVE  l \in Logs
  BY DEF Logs

\* The fields of a keyspace.
LEMMA KeyspaceFacts ==
  ASSUME NEW d \in Keyspace
  PROVE  /\ d.log \in Logs /\ d.purged \in 0..MaxIndex /\ d.vote \in 0..MaxVote
         /\ d.at \in Nat /\ d.content \in Seq(Nat)
         /\ d.snap \in Snaps /\ d.snap.at \in Nat /\ d.snap.content \in Seq(Nat)
         /\ Covered(d) \in Nat /\ Covered(d) >= d.at /\ Covered(d) >= d.snap.at
         /\ Covered(d) \in {d.at, d.snap.at}
  BY DEF Keyspace, Logs, Snaps, Covered

\* A boot has applied what its image or its snapshot covers.
LEMMA OpenedFacts ==
  ASSUME NEW d \in Keyspace
  PROVE  /\ DOMAIN Opened(d) = RamFields
         /\ Opened(d).applied = Covered(d)
         /\ Opened(d).content = IF d.snap.at > d.at THEN d.snap.content ELSE d.content
         /\ Opened(d).purged = d.purged /\ Opened(d).vote = d.vote
  BY DEF Opened, Covered, RamFields

\* Replacing the log of a keyspace leaves the rest.
LEMMA WithLog ==
  ASSUME NEW d \in Keyspace, NEW l \in Logs
  PROVE  /\ [d EXCEPT !.log = l] \in Keyspace
         /\ [d EXCEPT !.log = l].log = l
         /\ [d EXCEPT !.log = l].vote = d.vote
         /\ [d EXCEPT !.log = l].at = d.at /\ [d EXCEPT !.log = l].content = d.content
         /\ [d EXCEPT !.log = l].snap = d.snap
         /\ [d EXCEPT !.log = l].purged = d.purged
  BY DEF Keyspace, Logs

\* Inserting entries after the end of the log.
LEMMA PutFacts ==
  ASSUME NEW d \in Keyspace, NEW at \in Nat, NEW n \in Nat, at + n <= MaxIndex,
         NEW es, \A k \in 1..n : es[k] \in Entry,
         \A i \in DOMAIN d.log : i <= at
  PROVE  /\ Put(d, at, es, n) \in Keyspace
         /\ DOMAIN Put(d, at, es, n).log = DOMAIN d.log \cup (at + 1)..(at + n)
         /\ \A i \in DOMAIN d.log : Put(d, at, es, n).log[i] = d.log[i]
         /\ \A i \in (at + 1)..(at + n) : Put(d, at, es, n).log[i] = es[i - at]
         /\ Put(d, at, es, n).vote = d.vote /\ Put(d, at, es, n).purged = d.purged
         /\ Put(d, at, es, n).at = d.at /\ Put(d, at, es, n).content = d.content
         /\ Put(d, at, es, n).snap = d.snap
<1>. DEFINE D == DOMAIN d.log \cup (at + 1)..(at + n)
            l == [i \in D |-> IF i > at THEN es[i - at] ELSE d.log[i]]
<1>1. d.log \in Logs
  BY KeyspaceFacts
<1>2. /\ DOMAIN d.log \subseteq 1..MaxIndex
      /\ \A i \in DOMAIN d.log : d.log[i] \in Entry /\ i \in Nat /\ i >= 1
  BY <1>1, LogFacts
<1>3. D \in SUBSET (1..MaxIndex)
  BY <1>2, StoreAssumption
<1>4. ASSUME NEW i \in D  PROVE l[i] \in Entry
  <2>1. CASE i > at
    <3>1. i \in (at + 1)..(at + n)
      BY <2>1, <1>2
    <3>2. i - at \in 1..n /\ l[i] = es[i - at]
      BY <3>1
    <3>. QED  BY <3>2
  <2>2. CASE ~(i > at)
    <3>1. i \in DOMAIN d.log /\ l[i] = d.log[i]
      BY <2>2, <1>2
    <3>. QED  BY <3>1, <1>2
  <2>. QED  BY <2>1, <2>2
<1>5. l \in [D -> Entry]
  BY <1>4
<1>6. l \in Logs
  BY <1>3, <1>5, IsLog
<1>7. Put(d, at, es, n) = [d EXCEPT !.log = l]
  BY DEF Put
<1>8. DOMAIN l = D /\ \A i \in DOMAIN d.log : l[i] = d.log[i]
  BY <1>2
<1>9. \A i \in (at + 1)..(at + n) : l[i] = es[i - at]
  OBVIOUS
<1>. HIDE DEF l
<1>. QED  BY <1>6, <1>7, <1>8, <1>9, WithLog

\* Removing entries.
LEMMA RemovedFacts ==
  ASSUME NEW d \in Keyspace, NEW S
  PROVE  /\ Removed(d, S) \in Keyspace
         /\ DOMAIN Removed(d, S).log = DOMAIN d.log \ S
         /\ \A i \in DOMAIN d.log \ S : Removed(d, S).log[i] = d.log[i]
         /\ Removed(d, S).vote = d.vote /\ Removed(d, S).purged = d.purged
         /\ Removed(d, S).at = d.at /\ Removed(d, S).content = d.content
         /\ Removed(d, S).snap = d.snap
<1>. DEFINE l == [i \in DOMAIN d.log \ S |-> d.log[i]]
<1>1. d.log \in Logs
  BY KeyspaceFacts
<1>2. l \in [DOMAIN d.log \ S -> Entry] /\ DOMAIN d.log \ S \in SUBSET (1..MaxIndex)
  BY <1>1, LogFacts
<1>3. l \in Logs
  BY <1>2, IsLog
<1>4. Removed(d, S) = [d EXCEPT !.log = l]
  BY DEF Removed
<1>5. DOMAIN l = DOMAIN d.log \ S /\ \A i \in DOMAIN d.log \ S : l[i] = d.log[i]
  OBVIOUS
<1>. HIDE DEF l
<1>. QED  BY <1>3, <1>4, <1>5, WithLog

\* Writing an image, with or without a snapshot.
LEMMA WrittenFacts ==
  ASSUME NEW d \in Keyspace, NEW at \in Nat, NEW content \in Seq(Nat), NEW snap \in Snaps
  PROVE  /\ Written(d, at, content, snap) \in Keyspace
         /\ Written(d, at, content, snap).log = d.log
         /\ Written(d, at, content, snap).vote = d.vote
         /\ Written(d, at, content, snap).at = at
         /\ Written(d, at, content, snap).content = content
         /\ snap = NoSnap => Written(d, at, content, snap).snap = d.snap
         /\ snap # NoSnap => Written(d, at, content, snap).snap = snap
  BY DEF Written, Keyspace, Snaps

-----------------------------------------------------------------------------
(* Applying entries. *)

\* The last command of an exact catalog is within its reach.
LEMMA ReachFacts ==
  ASSUME NEW at \in Nat, NEW c \in Seq(Nat)
  PROVE  /\ LastCommand(c) \in Nat /\ Reach(at, c) \in Nat
         /\ Reach(at, c) >= at /\ Reach(at, c) >= LastCommand(c)
         /\ LastCommand(c) <= at => Reach(at, c) = at
         /\ LastCommand(c) > at => Reach(at, c) = LastCommand(c)
<1>1. Len(c) \in Nat /\ (c # <<>> => Len(c) \in 1..Len(c))
  BY EmptySeq
<1>2. LastCommand(c) \in Nat
  BY <1>1 DEF LastCommand
<1>. QED  BY <1>2 DEF Reach

\* In a strictly increasing catalog the last command bounds the others.
LEMMA LastBounds ==
  ASSUME NEW c \in Seq(Nat), NEW n \in Nat, NEW log, InOrderOnce(c, n, log)
  PROVE  /\ \A i \in 1..Len(c) : c[i] \in Nat /\ c[i] <= LastCommand(c) /\ c[i] \in 1..n
         /\ LastCommand(c) <= n
<1>1. Len(c) \in Nat /\ \A i \in 1..Len(c) : c[i] \in Nat
  OBVIOUS
<1>2. CASE c = <<>>
  BY <1>2 DEF LastCommand
<1>3. CASE c # <<>>
  <2>1. Len(c) \in 1..Len(c) /\ LastCommand(c) = c[Len(c)]
    BY <1>1, <1>3, EmptySeq DEF LastCommand
  <2>2. ASSUME NEW i \in 1..Len(c)  PROVE c[i] <= LastCommand(c) /\ c[i] \in 1..n
    <3>1. c[i] \in 1..n
      BY DEF InOrderOnce
    <3>2. CASE i = Len(c)
      BY <3>1, <3>2, <2>1
    <3>3. CASE i # Len(c)
      <4>1. i < Len(c)
        BY <3>3, <1>1
      <4>. QED  BY <4>1, <2>1, <1>1, <3>1 DEF InOrderOnce
    <3>. QED  BY <3>2, <3>3
  <2>3. LastCommand(c) <= n
    BY <2>1, <2>2
  <2>. QED  BY <2>2, <2>3, <1>1
<1>. QED  BY <1>2, <1>3

\* A command appended to a catalog that has all the ones before it.
LEMMA InOrderAppend ==
  ASSUME NEW c \in Seq(Nat), NEW n \in Nat, NEW log, InOrderOnce(c, n, log),
         log[n + 1].kind = "cmd"
  PROVE  InOrderOnce(Append(c, n + 1), n + 1, log) /\ LastCommand(Append(c, n + 1)) = n + 1
<1>. DEFINE e == Append(c, n + 1)
<1>1. /\ Len(c) \in Nat /\ e \in Seq(Nat) /\ Len(e) = Len(c) + 1
      /\ e[Len(c) + 1] = n + 1 /\ \A i \in 1..Len(c) : e[i] = c[i]
  OBVIOUS
<1>2. \A i \in 1..Len(c) : c[i] \in Nat /\ c[i] < n + 1
  BY LastBounds
<1>. HIDE DEF e
<1>3. ASSUME NEW i \in 1..Len(e), NEW j \in 1..Len(e), i < j  PROVE e[i] < e[j]
  <2>1. i \in 1..Len(c) /\ e[i] = c[i]
    BY <1>1, <1>3
  <2>2. CASE j = Len(c) + 1
    BY <2>1, <2>2, <1>1, <1>2
  <2>3. CASE j # Len(c) + 1
    <3>0. j \in 1..Len(c)
      <4>1. j \in 1..(Len(c) + 1) /\ Len(c) \in Nat
        BY <1>1
      <4>. QED  BY <4>1, <2>3
    <3>1. j \in 1..Len(c) /\ e[j] = c[j]
      BY <3>0, <1>1
    <3>. QED  BY <2>1, <3>1, <1>3 DEF InOrderOnce
  <2>. QED  BY <2>2, <2>3
<1>4. {e[i] : i \in 1..Len(e)} = {c[i] : i \in 1..Len(c)} \cup {n + 1}
  <2>1. 1..Len(e) = 1..Len(c) \cup {Len(c) + 1}
    BY <1>1
  <2>. QED  BY <2>1, <1>1
<1>5. {i \in 1..(n + 1) : log[i].kind = "cmd"} = {i \in 1..n : log[i].kind = "cmd"} \cup {n + 1}
  <2>1. 1..(n + 1) = 1..n \cup {n + 1}
    OBVIOUS
  <2>. QED  BY <2>1
<1>6. InOrderOnce(e, n + 1, log)
  BY <1>3, <1>4, <1>5 DEF InOrderOnce
<1>7. e # <<>>
  BY <1>1
<1>8. LastCommand(e) = n + 1
  BY <1>1, <1>7 DEF LastCommand
<1>. QED  BY <1>6, <1>8 DEF e

\* A membership change or a blank leaves the catalog as it is.
LEMMA InOrderSkip ==
  ASSUME NEW c, NEW n \in Nat, NEW log, InOrderOnce(c, n, log), log[n + 1].kind # "cmd"
  PROVE  InOrderOnce(c, n + 1, log)
<1>1. 1..(n + 1) = 1..n \cup {n + 1}
  OBVIOUS
<1>. QED  BY <1>1 DEF InOrderOnce

\* Applying the next entry: no command twice, none skipped.
LEMMA ApplyEntryExact ==
  ASSUME NEW r, DOMAIN r = RamFields, r.applied \in Nat, r.content \in Seq(Nat),
         NEW i \in Nat, i = r.applied + 1, i <= Len(chosen), Len(chosen) \in Nat,
         Exact(r.applied, r.content, chosen)
  PROVE  /\ DOMAIN ApplyEntry(r, i) = RamFields
         /\ ApplyEntry(r, i).applied = i /\ ApplyEntry(r, i).content \in Seq(Nat)
         /\ Exact(ApplyEntry(r, i).applied, ApplyEntry(r, i).content, chosen)
         /\ ApplyEntry(r, i).purged = r.purged /\ ApplyEntry(r, i).vote = r.vote
<1>. DEFINE k == chosen[i].kind
            c == r.content
            o == ApplyEntry(r, i)
<1>1. /\ LastCommand(c) \in Nat /\ Reach(r.applied, c) \in Nat
      /\ Reach(r.applied, c) >= r.applied /\ Reach(r.applied, c) >= LastCommand(c)
      /\ LastCommand(c) <= r.applied => Reach(r.applied, c) = r.applied
      /\ LastCommand(c) > r.applied => Reach(r.applied, c) = LastCommand(c)
  BY ReachFacts
<1>2. Reach(r.applied, c) <= Len(chosen) /\ InOrderOnce(c, Reach(r.applied, c), chosen)
  BY DEF Exact
<1>3. CASE LastCommand(c) >= i
  <2>1. Reach(r.applied, c) = LastCommand(c) /\ Reach(i, c) = LastCommand(c)
    BY <1>1, <1>3 DEF Reach
  <2>2. CASE k = "cmd"
    <3>1. Holds(r, i, k)
      BY <1>1, <1>3, <2>2 DEF Holds
    <3>2. o = [r EXCEPT !.applied = i]
      BY <3>1 DEF ApplyEntry
    <3>3. DOMAIN o = RamFields /\ o.applied = i /\ o.content = c /\ o.purged = r.purged /\ o.vote = r.vote
      BY <3>2 DEF RamFields
    <3>. QED  BY <3>3, <2>1, <1>2 DEF Exact
  <2>3. CASE k # "cmd"
    <3>1. ~Holds(r, i, k)
      BY <2>3 DEF Holds
    <3>2. o = [r EXCEPT !.applied = i, !.content = r.content]
      BY <3>1, <2>3 DEF ApplyEntry
    <3>3. DOMAIN o = RamFields /\ o.applied = i /\ o.content = c /\ o.purged = r.purged /\ o.vote = r.vote
      BY <3>2 DEF RamFields
    <3>. QED  BY <3>3, <2>1, <1>2 DEF Exact
  <2>. QED  BY <2>2, <2>3
<1>4. CASE ~(LastCommand(c) >= i)
  <2>1. LastCommand(c) <= r.applied /\ Reach(r.applied, c) = r.applied /\ Reach(i, c) = i
    BY <1>1, <1>4 DEF Reach
  <2>2. ~Holds(r, i, k)
    BY <1>1, <2>1 DEF Holds
  <2>3. CASE k = "cmd"
    <3>1. o = [r EXCEPT !.applied = i, !.content = Append(c, i)]
      BY <2>2, <2>3 DEF ApplyEntry
    <3>2. DOMAIN o = RamFields /\ o.applied = i /\ o.content = Append(c, i) /\ o.purged = r.purged /\ o.vote = r.vote
      BY <3>1 DEF RamFields
    <3>3. InOrderOnce(Append(c, i), i, chosen) /\ LastCommand(Append(c, i)) = i
      BY <1>2, <2>1, <2>3, InOrderAppend
    <3>4. Append(c, i) \in Seq(Nat) /\ Reach(i, Append(c, i)) = i
      BY <3>3 DEF Reach
    <3>. QED  BY <3>2, <3>3, <3>4 DEF Exact
  <2>4. CASE k # "cmd"
    <3>1. o = [r EXCEPT !.applied = i, !.content = r.content]
      BY <2>2, <2>4 DEF ApplyEntry
    <3>2. DOMAIN o = RamFields /\ o.applied = i /\ o.content = c /\ o.purged = r.purged /\ o.vote = r.vote
      BY <3>1 DEF RamFields
    <3>3. InOrderOnce(c, i, chosen)
      BY <1>2, <2>1, <2>4, InOrderSkip
    <3>. QED  BY <3>2, <3>3, <2>1 DEF Exact
  <2>. QED  BY <2>3, <2>4
<1>. QED  BY <1>3, <1>4

\* A non-empty set of naturals has a least element.
LEMMA LeastNatural ==
  ASSUME NEW T \in SUBSET Nat, T # {}
  PROVE  \E n \in T : \A m \in T : n <= m
<1>. DEFINE R == OpToRel(<, Nat)
<1>1. PICK n \in T : \A m \in T : ~(<<m, n>> \in R)
  <2>1. IsWellFoundedOn(R, Nat)
    BY NatLessThanWellFounded
  <2>. HIDE DEF R
  <2>. QED  BY <2>1, WFMin
<1>2. ASSUME NEW m \in T, m < n  PROVE FALSE
  <2>1. <<m, n>> \in Nat \X Nat /\ <<m, n>>[1] < <<m, n>>[2]
    BY <1>2
  <2>2. <<m, n>> \in R
    BY <2>1 DEF OpToRel
  <2>. QED  BY <2>2, <1>1
<1>. QED  BY <1>2

\* The run of apply's loop over the next n entries.
Runs(g, r, n) == g = [k \in 0..n |-> IF k = 0 THEN r ELSE ApplyEntry(g[k - 1], r.applied + k)]

\* A run is extended by one entry.
LEMMA RunExtends ==
  ASSUME NEW r, NEW n \in Nat, n > 0, NEW g, Runs(g, r, n - 1)
  PROVE  \E h : Runs(h, r, n)
<1>. DEFINE h == [k \in 0..n |-> IF k = n THEN ApplyEntry(g[n - 1], r.applied + n) ELSE g[k]]
<1>1. \A k \in 0..(n - 1) : g[k] = IF k = 0 THEN r ELSE ApplyEntry(g[k - 1], r.applied + k)
  BY Zenon DEF Runs
<1>2. ASSUME NEW k \in 0..n
      PROVE  h[k] = IF k = 0 THEN r ELSE ApplyEntry(h[k - 1], r.applied + k)
  <2>1. CASE k = n
    <3>1. n - 1 \in 0..n /\ n - 1 # n /\ k # 0
      BY <2>1
    <3>2. h[k - 1] = g[n - 1]
      BY <2>1, <3>1
    <3>. QED  BY <2>1, <3>1, <3>2
  <2>2. CASE k # n
    <3>1. k \in 0..(n - 1) /\ h[k] = g[k]
      BY <2>2
    <3>2. CASE k = 0
      BY <3>1, <3>2, <1>1
    <3>3. CASE k # 0
      <4>1. k - 1 \in 0..n /\ k - 1 # n
        BY <3>1, <3>3
      <4>2. h[k - 1] = g[k - 1]
        BY <4>1
      <4>. QED  BY <3>1, <3>3, <4>2, <1>1
    <3>. QED  BY <3>2, <3>3
  <2>. QED  BY <2>1, <2>2
<1>3. h = [k \in 0..n |-> h[k]]
  OBVIOUS
<1>. HIDE DEF h
<1>4. h = [k \in 0..n |-> IF k = 0 THEN r ELSE ApplyEntry(h[k - 1], r.applied + k)]
  BY <1>2, <1>3, Zenon
<1>. QED  BY <1>4 DEF Runs

\* The loop has a run of every length.
LEMMA RunExists ==
  ASSUME NEW r, NEW n \in Nat
  PROVE  \E g : Runs(g, r, n)
<1>. DEFINE T == {m \in Nat : ~\E g : Runs(g, r, m)}
<1>1. SUFFICES ASSUME T # {}  PROVE FALSE
  OBVIOUS
<1>2. PICK m \in T : \A x \in T : m <= x
  <2>. T \in SUBSET Nat
    OBVIOUS
  <2>. HIDE DEF T
  <2>. QED  BY <1>1, LeastNatural
<1>3. CASE m = 0
  <2>. DEFINE g == [k \in 0..0 |-> r]
  <2>1. g = [k \in 0..0 |-> IF k = 0 THEN r ELSE ApplyEntry(g[k - 1], r.applied + k)]
    OBVIOUS
  <2>2. Runs(g, r, 0)
    BY <2>1 DEF Runs
  <2>. QED  BY <2>2, <1>3
<1>4. CASE m # 0
  <2>1. m \in Nat /\ m > 0 /\ m - 1 \in Nat /\ m - 1 \notin T
    BY <1>2, <1>4
  <2>2. PICK g : Runs(g, r, m - 1)
    BY <2>1
  <2>3. \E h : Runs(h, r, m)
    BY <2>1, <2>2, RunExtends
  <2>. QED  BY <2>3
<1>. QED  BY <1>3, <1>4

\* Replayed is the end of such a run.
LEMMA ReplayedRuns ==
  ASSUME NEW r, NEW n \in Nat
  PROVE  \E g : /\ g[0] = r
                /\ \A k \in 1..n : g[k] = ApplyEntry(g[k - 1], r.applied + k)
                /\ Replayed(r, n) = g[n]
<1>. DEFINE g == CHOOSE f : Runs(f, r, n)
<1>1. Runs(g, r, n)
  BY RunExists
<1>2. Replayed(r, n) = g[n]
  BY DEF Replayed, Runs
<1>3. \A k \in 0..n : g[k] = IF k = 0 THEN r ELSE ApplyEntry(g[k - 1], r.applied + k)
  <2>. HIDE DEF g
  <2>. QED  BY <1>1, Zenon DEF Runs
<1>4. 0 \in 0..n /\ \A k \in 1..n : k \in 0..n /\ k # 0
  OBVIOUS
<1>. HIDE DEF g
<1>. QED  BY <1>2, <1>3, <1>4

\* Applying the next n committed entries: no command twice, none skipped.
LEMMA ReplayedExact ==
  ASSUME NEW r, DOMAIN r = RamFields, r.applied \in Nat, r.content \in Seq(Nat),
         NEW n \in Nat, r.applied + n <= Len(chosen), Len(chosen) \in Nat,
         Exact(r.applied, r.content, chosen)
  PROVE  /\ DOMAIN Replayed(r, n) = RamFields
         /\ Replayed(r, n).applied = r.applied + n /\ Replayed(r, n).content \in Seq(Nat)
         /\ Exact(Replayed(r, n).applied, Replayed(r, n).content, chosen)
         /\ Replayed(r, n).purged = r.purged /\ Replayed(r, n).vote = r.vote
<1>. DEFINE Good(x, k) == /\ DOMAIN x = RamFields
                          /\ x.applied = r.applied + k /\ x.content \in Seq(Nat)
                          /\ Exact(x.applied, x.content, chosen)
                          /\ x.purged = r.purged /\ x.vote = r.vote
<1>1. PICK g : /\ g[0] = r
               /\ \A k \in 1..n : g[k] = ApplyEntry(g[k - 1], r.applied + k)
               /\ Replayed(r, n) = g[n]
  BY ReplayedRuns
<1>. DEFINE T == {k \in 0..n : ~Good(g[k], k)}
<1>2. Good(g[0], 0)
  BY <1>1
<1>3. ASSUME NEW k \in 1..n, Good(g[k - 1], k - 1)  PROVE Good(g[k], k)
  <2>. DEFINE x == g[k - 1]
              i == r.applied + k
  <2>1. /\ DOMAIN x = RamFields /\ x.applied \in Nat /\ x.content \in Seq(Nat)
        /\ i \in Nat /\ i = x.applied + 1 /\ i <= Len(chosen)
        /\ Exact(x.applied, x.content, chosen)
    BY <1>3
  <2>2. g[k] = ApplyEntry(x, i)
    BY <1>1
  <2>. HIDE DEF x, i
  <2>3. /\ DOMAIN ApplyEntry(x, i) = RamFields
        /\ ApplyEntry(x, i).applied = i /\ ApplyEntry(x, i).content \in Seq(Nat)
        /\ Exact(ApplyEntry(x, i).applied, ApplyEntry(x, i).content, chosen)
        /\ ApplyEntry(x, i).purged = x.purged /\ ApplyEntry(x, i).vote = x.vote
    BY <2>1, ApplyEntryExact
  <2>4. x.purged = r.purged /\ x.vote = r.vote
    BY <1>3 DEF x
  <2>5. i = r.applied + k
    BY DEF i
  <2>. QED  BY <2>2, <2>3, <2>4, <2>5
<1>. HIDE DEF Good
<1>4. T = {}
  <2>1. SUFFICES ASSUME T # {}  PROVE FALSE
    OBVIOUS
  <2>2. PICK m \in T : \A x \in T : m <= x
    <3>. T \in SUBSET Nat
      OBVIOUS
    <3>. HIDE DEF T
    <3>. QED  BY <2>1, LeastNatural
  <2>3. m \in 0..n /\ ~Good(g[m], m)
    OBVIOUS
  <2>4. m # 0
    BY <2>3, <1>2
  <2>5. m \in 1..n /\ m - 1 \in 0..n /\ m - 1 \notin T
    BY <2>2, <2>3, <2>4
  <2>6. Good(g[m - 1], m - 1)
    BY <2>5
  <2>. QED  BY <2>3, <2>5, <2>6, <1>3
<1>5. Good(g[n], n)
  BY <1>4
<1>. QED  BY <1>1, <1>5 DEF Good

-----------------------------------------------------------------------------
(* What a step does to one keyspace. *)

\* Writing an image ahead of what the keyspace covers keeps it sound.
LEMMA ImageDiskOK ==
  ASSUME NEW d, NEW ch \in Seq(Entry), NEW applied \in Nat, NEW n \in Nat, NEW p \in Promised,
         DiskOK(d, ch, applied, n, p),
         NEW at \in Nat, applied <= at, NEW content \in Seq(Nat), Exact(at, content, ch),
         NEW snap \in Snaps, snap # NoSnap => snap.at = at /\ snap.content = content,
         NEW n2 \in Nat, \A i \in Nat : i > at /\ i <= n2 => i <= n
  PROVE  DiskOK(Written(d, at, content, snap), ch, at, n2, p)
<1>. DEFINE w == Written(d, at, content, snap)
<1>1. d \in Keyspace /\ ImagesExact(d, ch, applied) /\ ShownKept(d, ch, n) /\ PromiseKept(d, p)
  BY DEF DiskOK
<1>2. /\ w \in Keyspace /\ w.log = d.log /\ w.vote = d.vote /\ w.at = at /\ w.content = content
      /\ snap = NoSnap => w.snap = d.snap
      /\ snap # NoSnap => w.snap = snap
  BY <1>1, WrittenFacts
<1>3. /\ d.snap.at \in Nat /\ d.at \in Nat /\ Covered(d) \in Nat
      /\ Covered(d) >= d.snap.at /\ d.vote \in Nat
  BY <1>1, KeyspaceFacts, StoreAssumption
<1>. HIDE DEF w
<1>4. Covered(d) <= at /\ Exact(d.snap.at, d.snap.content, ch)
  BY <1>1, <1>3 DEF ImagesExact
<1>5. Exact(w.snap.at, w.snap.content, ch) /\ w.snap.at <= at /\ w.snap.at \in Nat
  BY <1>2, <1>3, <1>4
<1>6. Covered(w) = at
  BY <1>2, <1>5 DEF Covered
<1>7. ImagesExact(w, ch, at)
  BY <1>2, <1>5, <1>6 DEF ImagesExact
<1>8. ShownKept(w, ch, n2)
  <2>. SUFFICES ASSUME NEW i \in (at + 1)..n2
                PROVE  i \in DOMAIN d.log /\ i <= Len(ch) /\ ch[i] = d.log[i]
    BY <1>2, <1>6 DEF ShownKept
  <2>1. i \in (Covered(d) + 1)..n
    BY <1>3, <1>4
  <2>. QED  BY <2>1, <1>1 DEF ShownKept
<1>9. PromiseKept(w, p)
  <2>1. w.vote >= p.vote
    BY <1>1, <1>2 DEF PromiseKept
  <2>2. ASSUME NEW i \in DOMAIN p.log
        PROVE  i <= Covered(w) \/ (i \in DOMAIN w.log /\ w.log[i] = p.log[i])
    <3>1. i <= Covered(d) \/ (i \in DOMAIN d.log /\ d.log[i] = p.log[i])
      BY <1>1 DEF PromiseKept
    <3>2. i \in Nat
      <4>1. p.log \in Logs
        BY DEF Promised, Logs
      <4>. QED  BY <4>1, LogFacts
    <3>. QED  BY <3>1, <3>2, <1>2, <1>3, <1>4, <1>6
  <2>. QED  BY <2>1, <2>2 DEF PromiseKept
<1>10. ShownKept(w, ch, at)
  BY <1>6 DEF ShownKept
<1>. QED  BY <1>2, <1>7, <1>8, <1>9, <1>10 DEF DiskOK, w

\* A log operation keeps a keyspace sound when it leaves the images alone, lowers
\* no vote and keeps the entries that were shown or promised.
LEMMA LoggedDiskOK ==
  ASSUME NEW d, NEW ch, NEW applied, NEW n, NEW p, NEW q,
         DiskOK(d, ch, applied, n, p),
         NEW e \in Keyspace, e.at = d.at, e.content = d.content, e.snap = d.snap,
         e.vote >= q.vote,
         \A i \in (Covered(d) + 1)..n : i \in DOMAIN e.log /\ e.log[i] = d.log[i],
         \A i \in (Covered(d) + 1)..applied : i \in DOMAIN e.log /\ e.log[i] = d.log[i],
         \A i \in DOMAIN q.log : i <= Covered(d) \/ (i \in DOMAIN e.log /\ e.log[i] = q.log[i])
  PROVE  DiskOK(e, ch, applied, n, q)
<1>1. Covered(e) = Covered(d)
  BY DEF Covered
<1>2. ImagesExact(e, ch, applied)
  BY <1>1 DEF DiskOK, ImagesExact
<1>3. ShownKept(e, ch, n) /\ ShownKept(e, ch, applied)
  BY <1>1 DEF DiskOK, ShownKept
<1>4. PromiseKept(e, q)
  BY <1>1 DEF PromiseKept
<1>. QED  BY <1>2, <1>3, <1>4 DEF DiskOK

\* A boot finds the memory its keyspace calls for.
LEMMA BootRam ==
  ASSUME NEW d, NEW ch \in Seq(Entry), NEW applied \in Nat, NEW n \in Nat, NEW p \in Promised,
         DiskOK(d, ch, applied, n, p)
  PROVE  /\ DOMAIN Opened(d) = RamFields
         /\ Opened(d).applied \in Nat /\ Opened(d).applied = Covered(d)
         /\ Opened(d).content \in Seq(Nat) /\ Opened(d).purged \in 0..MaxIndex
         /\ Exact(Opened(d).applied, Opened(d).content, ch)
         /\ Opened(d).vote \in p.vote..MaxVote
<1>1. d \in Keyspace /\ ImagesExact(d, ch, applied) /\ PromiseKept(d, p)
  BY DEF DiskOK
<1>2. /\ DOMAIN Opened(d) = RamFields
      /\ Opened(d).applied = Covered(d)
      /\ Opened(d).content = IF d.snap.at > d.at THEN d.snap.content ELSE d.content
      /\ Opened(d).purged = d.purged /\ Opened(d).vote = d.vote
  BY <1>1, OpenedFacts
<1>3. /\ d.purged \in 0..MaxIndex /\ d.vote \in 0..MaxVote
      /\ d.at \in Nat /\ d.content \in Seq(Nat)
      /\ d.snap.at \in Nat /\ d.snap.content \in Seq(Nat) /\ Covered(d) \in Nat
  BY <1>1, KeyspaceFacts
<1>4. Exact(Opened(d).applied, Opened(d).content, ch)
  BY <1>1, <1>2 DEF ImagesExact, Covered
<1>5. Opened(d).content \in Seq(Nat)
  BY <1>2, <1>3
<1>6. Opened(d).vote \in p.vote..MaxVote
  <2>1. p.vote \in Nat /\ d.vote >= p.vote
    BY <1>1 DEF Promised, PromiseKept
  <2>. QED  BY <2>1, <1>2, <1>3, StoreAssumption
<1>. QED  BY <1>2, <1>3, <1>4, <1>5, <1>6

\* A keyspace a boot starts from is sound for what it then shows and promises.
LEMMA FoundDiskOK ==
  ASSUME NEW d \in Keyspace, NEW ch \in Seq(Entry),
         Exact(d.at, d.content, ch), Exact(d.snap.at, d.snap.content, ch)
  PROVE  DiskOK(d, ch, Covered(d), Covered(d), [vote |-> d.vote, log |-> d.log])
<1>1. Covered(d) \in Nat /\ d.vote \in 0..MaxVote
  BY KeyspaceFacts
<1>2. ImagesExact(d, ch, Covered(d))
  BY <1>1 DEF ImagesExact
<1>3. ShownKept(d, ch, Covered(d))
  BY <1>1 DEF ShownKept
<1>4. PromiseKept(d, [vote |-> d.vote, log |-> d.log])
  BY <1>1, StoreAssumption DEF PromiseKept
<1>. QED  BY <1>2, <1>3, <1>4 DEF DiskOK

\* What an image covers is chosen.
LEMMA ExactWithin ==
  ASSUME NEW at \in Nat, NEW c \in Seq(Nat), NEW ch \in Seq(Entry), Exact(at, c, ch)
  PROVE  at <= Len(ch)
<1>1. Reach(at, c) \in Nat /\ Reach(at, c) >= at
  BY ReachFacts
<1>2. Reach(at, c) <= Len(ch) /\ Len(ch) \in Nat
  BY DEF Exact
<1>. QED  BY <1>1, <1>2

-----------------------------------------------------------------------------
(* The inductive step, one lemma per action. *)

\* A process begins with what it found.
LEMMA InitIInv == Init => IInv
<1>. SUFFICES ASSUME Init  PROVE IInv
  OBVIOUS
<1>1. PICK f \in Found : disk = f.disk /\ chosen = f.chosen
  BY DEF Init
<1>2. /\ chosen \in Seq(Entry) /\ disk \in Keyspace
      /\ Exact(disk.at, disk.content, chosen) /\ Exact(disk.snap.at, disk.snap.content, chosen)
  BY <1>1, StoreAssumption
<1>3. /\ torn = {disk} /\ job = NoJob /\ ram = Opened(disk)
      /\ promised = [vote |-> disk.vote, log |-> disk.log] /\ seen = ram.applied
  BY DEF Init
<1>4. Covered(disk) \in Nat /\ disk.vote \in 0..MaxVote /\ disk.log \in Logs
  BY <1>2, KeyspaceFacts
<1>5. promised \in Promised
  <2>1. disk.vote \in Nat
    BY <1>4, StoreAssumption
  <2>. QED  BY <1>3, <1>4, <2>1 DEF Promised, Logs
<1>6. DiskOK(disk, chosen, Covered(disk), Covered(disk), promised)
  BY <1>2, <1>3, FoundDiskOK
<1>7. /\ DOMAIN ram = RamFields
      /\ ram.applied \in Nat /\ ram.applied = Covered(disk)
      /\ ram.content \in Seq(Nat) /\ ram.purged \in 0..MaxIndex
      /\ Exact(ram.applied, ram.content, chosen)
      /\ ram.vote \in promised.vote..MaxVote
  BY <1>2, <1>3, <1>4, <1>5, <1>6, BootRam
<1>8. seen \in 0..Len(chosen)
  <2>1. ram.applied <= Len(chosen) /\ Len(chosen) \in Nat
    BY <1>2, <1>7, ExactWithin
  <2>. QED  BY <2>1, <1>3, <1>7
<1>9. RamOK
  BY <1>7 DEF RamOK
<1>10. JobOK /\ Settled
  BY <1>3 DEF JobOK, Settled, NoJob
<1>. QED  BY <1>2, <1>3, <1>5, <1>6, <1>7, <1>8, <1>9, <1>10 DEF IInv

\* A batch that writes the image of the replica's new position.
LEMMA BatchStep ==
  ASSUME IInv, NEW at \in Nat, NEW content \in Seq(Nat), NEW snap \in Snaps,
         CommitBatch(at, content, snap),
         ram.applied <= at, Exact(at, content, chosen),
         snap # NoSnap => snap.at = at /\ snap.content = content,
         NEW n2 \in Nat, \A i \in Nat : i > at /\ i <= n2 => i <= seen,
         UNCHANGED job
  PROVE  /\ disk' \in torn'
         /\ \A d \in torn' : DiskOK(d, chosen, at, n2, promised)
         /\ JobOK' /\ Settled'
<1>1. /\ chosen \in Seq(Entry) /\ seen \in Nat /\ promised \in Promised /\ disk \in torn
      /\ ram.applied \in Nat
      /\ \A d \in torn : DiskOK(d, chosen, ram.applied, seen, promised)
  BY DEF IInv, RamOK
<1>2. /\ disk' = Written(disk, at, content, snap)
      /\ torn' = {Written(d, at, content, snap) : d \in torn}
  BY DEF CommitBatch
<1>3. \A d \in torn : DiskOK(Written(d, at, content, snap), chosen, at, n2, promised)
  BY <1>1, ImageDiskOK
<1>4. \A d \in torn : d \in Keyspace
  BY <1>1 DEF DiskOK
<1>5. \A d \in torn : /\ Written(d, at, content, snap).log = d.log
                      /\ Written(d, at, content, snap).vote = d.vote
  BY <1>4, WrittenFacts
<1>6. disk'.log = disk.log /\ disk'.vote = disk.vote
  BY <1>1, <1>2, <1>5
<1>7. JobOK'
  <2>1. JobOK
    BY DEF IInv
  <2>2. job.kind = "none" => job = NoJob /\ torn' = {disk'}
    BY <2>1, <1>2 DEF JobOK
  <2>. QED  BY <2>1, <2>2, <1>6 DEF JobOK
<1>8. Settled'
  <2>. SUFFICES ASSUME NEW e \in torn', NEW i \in DOMAIN disk'.log
                PROVE  \/ (i \in DOMAIN e.log /\ e.log[i] = disk'.log[i])
                       \/ (job'.kind = "append" /\ i \in DOMAIN job'.log)
    BY DEF Settled
  <2>1. PICK d \in torn : e = Written(d, at, content, snap)
    BY <1>2
  <2>. QED  BY <2>1, <1>5, <1>6 DEF IInv, Settled
<1>. QED  BY <1>1, <1>2, <1>3, <1>7, <1>8

\* Flush.
LEMMA FlushIInv == IInv /\ Flush => IInv'
<1>. SUFFICES ASSUME IInv, Flush  PROVE IInv'
  OBVIOUS
<1>1. /\ CommitBatch(ram.applied, ram.content, NoSnap)
      /\ ram' = [ram EXCEPT !.dirty = FALSE]
      /\ UNCHANGED <<job, chosen, promised, seen, crashes>>
  BY DEF Flush
<1>2. /\ DOMAIN ram = RamFields /\ ram.applied \in Nat /\ ram.content \in Seq(Nat)
      /\ Exact(ram.applied, ram.content, chosen) /\ RamOK /\ seen \in Nat
  BY DEF IInv, RamOK
<1>3. NoSnap \in Snaps
  BY DEF NoSnap, Snaps
<1>4. /\ disk' \in torn'
      /\ \A d \in torn' : DiskOK(d, chosen, ram.applied, seen, promised)
      /\ JobOK' /\ Settled'
  BY <1>1, <1>2, <1>3, BatchStep
<1>5. RamOK' /\ ram'.applied = ram.applied
  BY <1>1, <1>2 DEF RamOK, RamFields
<1>. QED  BY <1>1, <1>4, <1>5 DEF IInv

\* build_snapshot.
LEMMA BuildSnapshotIInv == IInv /\ BuildSnapshot => IInv'
<1>. SUFFICES ASSUME IInv, BuildSnapshot  PROVE IInv'
  OBVIOUS
<1>. DEFINE snap == [at |-> ram.applied, content |-> ram.content]
<1>1. /\ CommitBatch(ram.applied, ram.content, snap)
      /\ ram' = [ram EXCEPT !.dirty = FALSE]
      /\ UNCHANGED <<job, chosen, promised, seen, crashes>>
  BY DEF BuildSnapshot, SnapshotBatch
<1>2. /\ DOMAIN ram = RamFields /\ ram.applied \in Nat /\ ram.content \in Seq(Nat)
      /\ Exact(ram.applied, ram.content, chosen) /\ RamOK /\ seen \in Nat
  BY DEF IInv, RamOK
<1>3. snap \in Snaps /\ snap.at = ram.applied /\ snap.content = ram.content
  BY <1>2 DEF Snaps
<1>. HIDE DEF snap
<1>4. /\ disk' \in torn'
      /\ \A d \in torn' : DiskOK(d, chosen, ram.applied, seen, promised)
      /\ JobOK' /\ Settled'
  BY <1>1, <1>2, <1>3, BatchStep
<1>5. RamOK' /\ ram'.applied = ram.applied
  BY <1>1, <1>2 DEF RamOK, RamFields
<1>. QED  BY <1>1, <1>4, <1>5 DEF IInv

\* install_snapshot.
LEMMA InstallSnapshotIInv ==
  ASSUME IInv, NEW s \in Nat, InstallSnapshot(s)
  PROVE  IInv'
<1>1. PICK c \in CatalogsAt(s) : MoveTo(s, c) /\ SnapshotBatch(s, c)
  BY DEF InstallSnapshot
<1>. DEFINE snap == [at |-> s, content |-> c]
<1>2. /\ CommitBatch(s, c, snap)
      /\ ram' = [ram EXCEPT !.applied = s, !.content = c, !.dirty = FALSE]
      /\ seen' = IF seen < s THEN s ELSE seen
      /\ UNCHANGED <<job, chosen, promised, crashes>>
      /\ s > ram.applied /\ s <= Len(chosen)
  BY <1>1 DEF MoveTo, SnapshotBatch, InstallSnapshot, Behind
<1>3. c \in Seq(Nat) /\ InOrderOnce(c, s, chosen)
  <2>1. PICK k \in 0..s : c \in [1..k -> 1..s]
    BY <1>1 DEF CatalogsAt
  <2>2. c \in [1..k -> Nat] /\ k \in Nat
    BY <2>1
  <2>. QED  BY <1>1, <2>2, SeqDef DEF CatalogsAt
<1>4. Exact(s, c, chosen)
  <2>1. LastCommand(c) <= s /\ LastCommand(c) \in Nat
    BY <1>3, LastBounds, ReachFacts
  <2>2. Reach(s, c) = s
    BY <2>1 DEF Reach
  <2>. QED  BY <2>2, <1>2, <1>3 DEF Exact
<1>5. /\ DOMAIN ram = RamFields /\ ram.applied \in Nat /\ RamOK /\ seen \in 0..Len(chosen)
      /\ Len(chosen) \in Nat
  BY DEF IInv, RamOK
<1>6. snap \in Snaps /\ snap.at = s /\ snap.content = c
  BY <1>3 DEF Snaps
<1>7. /\ seen' \in 0..Len(chosen) /\ seen' \in Nat
      /\ \A i \in Nat : i > s /\ i <= seen' => i <= seen
  BY <1>2, <1>5
<1>. HIDE DEF snap
<1>8. /\ disk' \in torn'
      /\ \A d \in torn' : DiskOK(d, chosen, s, seen', promised)
      /\ JobOK' /\ Settled'
  <2>1. ram.applied <= s /\ UNCHANGED job /\ (snap # NoSnap => snap.at = s /\ snap.content = c)
    BY <1>2, <1>5, <1>6
  <2>. QED  BY <1>2, <1>3, <1>4, <1>6, <1>7, <2>1, BatchStep
<1>9. RamOK' /\ ram'.applied = s
  <2>1. /\ DOMAIN ram' = RamFields /\ ram'.applied = s /\ ram'.content = c
        /\ ram'.purged = ram.purged /\ ram'.vote = ram.vote
    BY <1>2, <1>5 DEF RamFields
  <2>. QED  BY <2>1, <1>2, <1>3, <1>4, <1>5 DEF RamOK
<1>. QED  BY <1>2, <1>7, <1>8, <1>9 DEF IInv

\* The entries apply is handed are chosen and in every keyspace.
LEMMA ReadyKept ==
  ASSUME IInv, NEW i, Ready(i), NEW d \in torn
  PROVE  i \in DOMAIN d.log /\ i <= Len(chosen) /\ chosen[i] = d.log[i]
<1>1. i \in DOMAIN disk.log /\ Committed(i, disk.log[i])
  BY DEF Ready
<1>2. ~(job.kind = "append" /\ i \in DOMAIN job.log)
  BY DEF Ready
<1>3. i \in DOMAIN d.log /\ d.log[i] = disk.log[i]
  BY <1>1, <1>2 DEF IInv, Settled
<1>. QED  BY <1>1, <1>3 DEF Committed

\* Applying n entries in memory, whatever is shown of them.
LEMMA ReplayStep ==
  ASSUME IInv, NEW n \in Nat, n > 0,
         \A i \in (ram.applied + 1)..(ram.applied + n) : Ready(i)
  PROVE  /\ ram.applied + n <= Len(chosen)
         /\ DOMAIN Replayed(ram, n) = RamFields
         /\ Replayed(ram, n).applied = ram.applied + n /\ Replayed(ram, n).content \in Seq(Nat)
         /\ Exact(Replayed(ram, n).applied, Replayed(ram, n).content, chosen)
         /\ Replayed(ram, n).purged = ram.purged /\ Replayed(ram, n).vote = ram.vote
<1>1. /\ DOMAIN ram = RamFields /\ ram.applied \in Nat /\ ram.content \in Seq(Nat)
      /\ Exact(ram.applied, ram.content, chosen) /\ Len(chosen) \in Nat
  BY DEF IInv, RamOK
<1>2. Ready(ram.applied + n)
  BY <1>1
<1>3. ram.applied + n <= Len(chosen)
  BY <1>2, ReadyKept DEF IInv
<1>. QED  BY <1>1, <1>3, ReplayedExact

\* A keyspace the replica's memory moves ahead of, by entries it holds.
LEMMA AheadDiskOK ==
  ASSUME IInv, NEW n \in Nat, NEW m \in Nat, NEW d \in torn,
         \A i \in (ram.applied + 1)..(ram.applied + n) : Ready(i),
         \A i \in Nat : i <= m => i <= seen \/ i <= ram.applied + n
  PROVE  DiskOK(d, chosen, ram.applied + n, m, promised)
<1>1. DiskOK(d, chosen, ram.applied, seen, promised) /\ ram.applied \in Nat /\ seen \in Nat
  BY DEF IInv, RamOK
<1>2. d \in Keyspace /\ Covered(d) \in Nat
  BY <1>1, KeyspaceFacts DEF DiskOK
<1>3. ImagesExact(d, chosen, ram.applied + n)
  BY <1>1, <1>2 DEF DiskOK, ImagesExact
<1>4. ASSUME NEW x \in Nat, \A i \in Nat : i <= x => i <= seen \/ i <= ram.applied + n
      PROVE  ShownKept(d, chosen, x)
  <2>. SUFFICES ASSUME NEW i \in (Covered(d) + 1)..x
                PROVE  i \in DOMAIN d.log /\ i <= Len(chosen) /\ chosen[i] = d.log[i]
    BY DEF ShownKept
  <2>1. CASE i <= seen
    <3>1. i \in (Covered(d) + 1)..seen
      BY <2>1, <1>1, <1>2
    <3>. QED  BY <3>1, <1>1 DEF DiskOK, ShownKept
  <2>2. CASE ~(i <= seen) /\ i > ram.applied
    <3>1. i \in (ram.applied + 1)..(ram.applied + n)
      BY <2>2, <1>1, <1>2, <1>4
    <3>2. Ready(i)
      BY <3>1
    <3>. QED  BY <3>2, ReadyKept
  <2>3. CASE ~(i > ram.applied)
    <3>1. i \in (Covered(d) + 1)..ram.applied
      BY <2>3, <1>1, <1>2
    <3>. QED  BY <3>1, <1>1 DEF DiskOK, ShownKept
  <2>. QED  BY <2>1, <2>2, <2>3
<1>5. ShownKept(d, chosen, m) /\ ShownKept(d, chosen, ram.applied + n)
  <2>1. ram.applied + n \in Nat
    BY <1>1
  <2>. QED  BY <2>1, <1>4
<1>. QED  BY <1>1, <1>3, <1>5 DEF DiskOK

\* apply, with or without the image.
LEMMA ApplyIInv ==
  ASSUME IInv, NEW n \in Nat, NEW due \in BOOLEAN, Apply(n, due)
  PROVE  IInv'
<1>. DEFINE to == ram.applied + n
            out == Replayed(ram, n)
<1>1. /\ n > 0 /\ \A i \in (ram.applied + 1)..to : Ready(i)
      /\ due => CommitBatch(out.applied, out.content, NoSnap)
      /\ ~due => UNCHANGED <<disk, torn>>
      /\ ram' = [out EXCEPT !.dirty = ~due]
      /\ seen' = IF seen < to THEN to ELSE seen
      /\ UNCHANGED <<job, chosen, promised, crashes>>
  BY DEF Apply
<1>2. /\ to <= Len(chosen)
      /\ DOMAIN out = RamFields
      /\ out.applied = to /\ out.content \in Seq(Nat)
      /\ Exact(out.applied, out.content, chosen)
      /\ out.purged = ram.purged /\ out.vote = ram.vote
  BY <1>1, ReplayStep
<1>3. ram.applied \in Nat /\ seen \in 0..Len(chosen) /\ RamOK /\ Len(chosen) \in Nat
  BY DEF IInv, RamOK
<1>4. to \in Nat /\ seen' \in 0..Len(chosen) /\ seen' \in Nat
  BY <1>1, <1>2, <1>3
<1>. HIDE DEF out
<1>5. RamOK' /\ ram'.applied = to
  <2>1. /\ DOMAIN ram' = RamFields /\ ram'.applied = to /\ ram'.content = out.content
        /\ ram'.purged = ram.purged /\ ram'.vote = ram.vote
    BY <1>1, <1>2 DEF RamFields
  <2>. QED  BY <2>1, <1>1, <1>2, <1>3, <1>4 DEF RamOK
<1>6. /\ disk' \in torn' /\ JobOK' /\ Settled'
      /\ \A d \in torn' : DiskOK(d, chosen, to, seen', promised)
  <2>1. CASE due
    <3>1. CommitBatch(to, out.content, NoSnap)
      BY <2>1, <1>1, <1>2
    <3>2. NoSnap \in Snaps
      BY DEF NoSnap, Snaps
    <3>3. /\ ram.applied <= to /\ UNCHANGED job
          /\ \A i \in Nat : i > to /\ i <= seen' => i <= seen
      BY <1>1, <1>3, <1>4
    <3>4. out.content \in Seq(Nat) /\ Exact(to, out.content, chosen)
      BY <1>2
    <3>. QED  BY <1>4, <3>1, <3>2, <3>3, <3>4, BatchStep
  <2>2. CASE ~due
    <3>1. UNCHANGED <<disk, torn, job>>
      BY <2>2, <1>1
    <3>2. \A i \in Nat : i <= seen' => i <= seen \/ i <= ram.applied + n
      BY <1>1, <1>3
    <3>3. \A d \in torn : DiskOK(d, chosen, ram.applied + n, seen', promised)
      BY <1>1, <1>4, <3>2, AheadDiskOK
    <3>4. disk \in torn /\ JobOK /\ Settled
      BY DEF IInv
    <3>. QED  BY <3>1, <3>3, <3>4 DEF JobOK, Settled
  <2>. QED  BY <2>1, <2>2
<1>. QED  BY <1>1, <1>4, <1>5, <1>6 DEF IInv

\* apply whose image write fails.
LEMMA ApplyFailsIInv ==
  ASSUME IInv, NEW n \in Nat, ApplyFails(n)
  PROVE  IInv'
<1>. DEFINE to == ram.applied + n
            out == Replayed(ram, n)
<1>1. /\ n > 0 /\ \A i \in (ram.applied + 1)..to : Ready(i)
      /\ ram' = [out EXCEPT !.up = FALSE]
      /\ UNCHANGED <<disk, torn, job, chosen, promised, seen, crashes>>
  BY DEF ApplyFails
<1>2. /\ DOMAIN out = RamFields
      /\ out.applied = to /\ out.content \in Seq(Nat)
      /\ Exact(out.applied, out.content, chosen)
      /\ out.purged = ram.purged /\ out.vote = ram.vote
  BY <1>1, ReplayStep
<1>3. ram.applied \in Nat /\ seen \in Nat /\ RamOK /\ to \in Nat
  BY DEF IInv, RamOK
<1>4. \A i \in Nat : i <= seen => i <= seen \/ i <= ram.applied + n
  OBVIOUS
<1>5. \A d \in torn : DiskOK(d, chosen, to, seen, promised)
  BY <1>1, <1>3, <1>4, AheadDiskOK
<1>. HIDE DEF out
<1>6. RamOK' /\ ram'.applied = to
  <2>1. /\ DOMAIN ram' = RamFields /\ ram'.applied = to /\ ram'.content = out.content
        /\ ram'.purged = ram.purged /\ ram'.vote = ram.vote
    BY <1>1, <1>2 DEF RamFields
  <2>. QED  BY <2>1, <1>1, <1>2, <1>3 DEF RamOK
<1>7. JobOK' /\ Settled'
  BY <1>1 DEF IInv, JobOK, Settled
<1>. QED  BY <1>1, <1>5, <1>6, <1>7 DEF IInv

\* A kill and the boot after it.
LEMMA CrashIInv ==
  ASSUME IInv, NEW d \in torn, CrashAndOpen(d)
  PROVE  IInv'
<1>1. /\ disk' = d /\ torn' = {d} /\ ram' = Opened(d) /\ job' = NoJob
      /\ UNCHANGED <<chosen, promised, seen>>
  BY DEF CrashAndOpen
<1>2. /\ chosen \in Seq(Entry) /\ seen \in 0..Len(chosen) /\ seen \in Nat /\ promised \in Promised
      /\ ram.applied \in Nat /\ DiskOK(d, chosen, ram.applied, seen, promised)
  BY DEF IInv, RamOK
<1>3. /\ DOMAIN Opened(d) = RamFields
      /\ Opened(d).applied \in Nat /\ Opened(d).applied = Covered(d)
      /\ Opened(d).content \in Seq(Nat) /\ Opened(d).purged \in 0..MaxIndex
      /\ Exact(Opened(d).applied, Opened(d).content, chosen)
      /\ Opened(d).vote \in promised.vote..MaxVote
  BY <1>2, BootRam
<1>4. RamOK'
  BY <1>1, <1>3 DEF RamOK
<1>5. DiskOK(d, chosen, Covered(d), seen, promised)
  BY <1>2, <1>3 DEF DiskOK, ImagesExact, ShownKept
<1>6. JobOK' /\ Settled'
  BY <1>1 DEF JobOK, Settled, NoJob
<1>. QED  BY <1>1, <1>2, <1>3, <1>4, <1>5, <1>6 DEF IInv

\* One more chosen entry changes nothing about the ones before it.
LEMMA ExactAppend ==
  ASSUME NEW at \in Nat, NEW c \in Seq(Nat), NEW ch \in Seq(Entry), NEW e \in Entry,
         Exact(at, c, ch)
  PROVE  Exact(at, c, Append(ch, e))
<1>. DEFINE r == Reach(at, c)
            a == Append(ch, e)
<1>1. r \in Nat
  BY ReachFacts
<1>2. /\ Len(ch) \in Nat /\ Len(a) = Len(ch) + 1
      /\ \A i \in 1..Len(ch) : a[i] = ch[i]
  OBVIOUS
<1>3. r <= Len(ch) /\ InOrderOnce(c, r, ch)
  BY DEF Exact
<1>. HIDE DEF r, a
<1>4. \A i \in 1..r : a[i] = ch[i]
  BY <1>1, <1>2, <1>3
<1>5. {i \in 1..r : a[i].kind = "cmd"} = {i \in 1..r : ch[i].kind = "cmd"}
  BY <1>4
<1>6. InOrderOnce(c, r, a)
  BY <1>3, <1>5 DEF InOrderOnce
<1>7. r <= Len(a)
  BY <1>1, <1>2, <1>3
<1>. QED  BY <1>6, <1>7 DEF Exact, r, a

\* The quorum commits one more entry.
LEMMA ChooseIInv ==
  ASSUME IInv, NEW e \in Entries, Choose(e)
  PROVE  IInv'
<1>1. /\ chosen' = Append(chosen, e)
      /\ UNCHANGED <<disk, torn, ram, job, promised, seen, crashes>>
  BY DEF Choose
<1>2. e \in Entry /\ chosen \in Seq(Entry) /\ seen \in 0..Len(chosen) /\ RamOK
  BY StoreAssumption DEF IInv
<1>3. /\ chosen' \in Seq(Entry) /\ Len(chosen) \in Nat /\ Len(chosen') = Len(chosen) + 1
      /\ \A i \in 1..Len(chosen) : chosen'[i] = chosen[i]
  BY <1>1, <1>2
<1>4. seen' \in 0..Len(chosen')
  BY <1>1, <1>2, <1>3
<1>5. RamOK'
  <2>1. Exact(ram.applied, ram.content, chosen')
    BY <1>1, <1>2, ExactAppend DEF RamOK
  <2>. QED  BY <2>1, <1>1, <1>2 DEF RamOK
<1>6. ASSUME NEW d \in torn  PROVE DiskOK(d, chosen', ram.applied, seen, promised)
  <2>1. DiskOK(d, chosen, ram.applied, seen, promised) /\ d \in Keyspace
    BY DEF IInv, DiskOK
  <2>2. /\ d.at \in Nat /\ d.content \in Seq(Nat) /\ d.snap.at \in Nat /\ d.snap.content \in Seq(Nat)
        /\ Covered(d) \in Nat
    BY <2>1, KeyspaceFacts
  <2>3. Exact(d.at, d.content, chosen')
    BY <2>1, <2>2, <1>1, <1>2, ExactAppend DEF DiskOK, ImagesExact
  <2>4. Exact(d.snap.at, d.snap.content, chosen')
    BY <2>1, <2>2, <1>1, <1>2, ExactAppend DEF DiskOK, ImagesExact
  <2>5. ImagesExact(d, chosen', ram.applied)
    BY <2>1, <2>3, <2>4 DEF DiskOK, ImagesExact
  <2>6. ASSUME NEW x \in {seen, ram.applied}  PROVE ShownKept(d, chosen', x)
    <3>. SUFFICES ASSUME NEW i \in (Covered(d) + 1)..x
                  PROVE  i \in DOMAIN d.log /\ i <= Len(chosen') /\ chosen'[i] = d.log[i]
      BY DEF ShownKept
    <3>1. i \in DOMAIN d.log /\ i <= Len(chosen) /\ chosen[i] = d.log[i]
      BY <2>1 DEF DiskOK, ShownKept
    <3>2. i \in 1..Len(chosen)
      <4>1. x \in Nat
        BY <1>2 DEF RamOK
      <4>. QED  BY <3>1, <4>1, <2>2, <1>3
    <3>. QED  BY <3>1, <3>2, <1>3
  <2>. QED  BY <2>1, <2>5, <2>6 DEF DiskOK
<1>7. JobOK' /\ Settled'
  BY <1>1 DEF IInv, JobOK, Settled
<1>8. disk \in torn /\ promised \in Promised
  BY DEF IInv
<1>. QED  BY <1>1, <1>3, <1>4, <1>5, <1>6, <1>7, <1>8 DEF IInv

\* get_log_state: the last index bounds the log.
LEMMA LastIndexFacts ==
  ASSUME IInv
  PROVE  LastIndex \in Nat /\ \A i \in DOMAIN disk.log : i <= LastIndex
<1>. DEFINE D == DOMAIN disk.log
            T == {b \in Nat : \A i \in D : i <= b}
<1>1. disk \in Keyspace /\ ram.purged \in Nat
  BY StoreAssumption DEF IInv, DiskOK, RamOK
<1>2. D \subseteq 1..MaxIndex /\ D \subseteq Nat
  <2>1. disk.log \in Logs
    BY <1>1, KeyspaceFacts
  <2>. QED  BY <2>1, LogFacts
<1>3. CASE D = {}
  BY <1>1, <1>3 DEF LastIndex
<1>4. CASE D # {}
  <2>1. MaxIndex \in T
    BY <1>2, StoreAssumption
  <2>2. PICK b \in T : \A x \in T : b <= x
    <3>1. T \in SUBSET Nat /\ T # {}
      BY <2>1
    <3>. HIDE DEF T
    <3>. QED  BY <3>1, LeastNatural
  <2>3. b \in D
    <3>1. SUFFICES ASSUME b \notin D  PROVE FALSE
      OBVIOUS
    <3>2. b \in Nat /\ \A i \in D : i \in Nat /\ i >= 1 /\ i <= b /\ i # b
      BY <1>2, <2>2, <3>1
    <3>3. PICK i \in D : TRUE
      BY <1>4
    <3>4. b - 1 \in Nat
      BY <3>2, <3>3
    <3>5. \A x \in D : x <= b - 1
      BY <3>2
    <3>6. b - 1 \in T
      BY <3>4, <3>5
    <3>. QED  BY <2>2, <3>2, <3>6
  <2>4. \E i \in D : \A j \in D : j <= i
    BY <2>2, <2>3
  <2>5. LastIndex \in D /\ \A j \in D : j <= LastIndex
    <3>1. LastIndex = CHOOSE i \in D : \A j \in D : j <= i
      BY <1>4 DEF LastIndex
    <3>. HIDE DEF D
    <3>. QED  BY <2>4, <3>1
  <2>. QED  BY <2>5, <1>2
<1>. QED  BY <1>3, <1>4

\* A log operation begins: it is under way with every part of it torn off.
LEMMA StartStep ==
  ASSUME IInv, NEW j, NEW last, NEW images, job = NoJob, StartJob(j, last, images),
         last \in images, promised' \in Promised, promised'.vote = promised.vote,
         \A e \in images \cup {disk} : DiskOK(e, chosen, ram.applied, seen, promised'),
         JobOK', Settled'
  PROVE  IInv'
<1>1. /\ disk' = last /\ torn' = torn \cup images
      /\ UNCHANGED <<ram, chosen, seen, crashes>>
  BY DEF StartJob, Journal
<1>2. torn = {disk}
  BY DEF IInv, JobOK, NoJob
<1>3. RamOK'
  BY <1>1 DEF IInv, RamOK
<1>4. chosen \in Seq(Entry) /\ seen \in 0..Len(chosen)
  BY DEF IInv
<1>. QED  BY <1>1, <1>2, <1>3, <1>4 DEF IInv

\* append.
LEMMA BeginAppendIInv ==
  ASSUME IInv, NEW n \in Nat \ {0}, NEW es \in [1..n -> Entries], BeginAppend(es)
  PROVE  IInv'
<1>. DEFINE L == LastIndex
            image(k) == Put(disk, L, es, k)
            images == {image(k) : k \in 1..n}
            j == [kind |-> "append", log |-> [i \in (L + 1)..(L + n) |-> es[i - L]]]
<1>1. es \in Seq(Entry) /\ Len(es) = n /\ \A k \in 1..n : es[k] \in Entry
  <2>1. es \in [1..n -> Entry] /\ n \in Nat
    BY StoreAssumption
  <2>. QED  BY <2>1, SeqDef, LenProperties
<1>2. /\ job = NoJob /\ L + n <= MaxIndex
      /\ StartJob(j, image(n), images)
      /\ UNCHANGED promised
  BY <1>1 DEF BeginAppend, Idle
<1>3. L \in Nat /\ \A i \in DOMAIN disk.log : i <= L
  BY LastIndexFacts
<1>4. DiskOK(disk, chosen, ram.applied, seen, promised) /\ disk \in Keyspace /\ promised \in Promised
  BY DEF IInv, DiskOK
<1>. HIDE DEF L
<1>5. ASSUME NEW k \in 1..n
      PROVE  /\ image(k) \in Keyspace
             /\ DOMAIN image(k).log = DOMAIN disk.log \cup (L + 1)..(L + k)
             /\ \A i \in DOMAIN disk.log : image(k).log[i] = disk.log[i]
             /\ \A i \in (L + 1)..(L + k) : image(k).log[i] = es[i - L]
             /\ image(k).vote = disk.vote
             /\ image(k).at = disk.at /\ image(k).content = disk.content
             /\ image(k).snap = disk.snap
  <2>1. k \in Nat /\ L + k <= MaxIndex /\ \A x \in 1..k : es[x] \in Entry
    BY <1>1, <1>2, <1>3, StoreAssumption
  <2>. QED  BY <1>3, <1>4, <2>1, PutFacts
<1>. HIDE DEF image
<1>6. ASSUME NEW k \in 1..n  PROVE DiskOK(image(k), chosen, ram.applied, seen, promised)
  <2>1. /\ \A i \in (Covered(disk) + 1)..seen : i \in DOMAIN image(k).log /\ image(k).log[i] = disk.log[i]
        /\ \A i \in (Covered(disk) + 1)..ram.applied : i \in DOMAIN image(k).log /\ image(k).log[i] = disk.log[i]
    BY <1>4, <1>5 DEF DiskOK, ShownKept
  <2>2. \A i \in DOMAIN promised.log :
           i <= Covered(disk) \/ (i \in DOMAIN image(k).log /\ image(k).log[i] = promised.log[i])
    BY <1>4, <1>5 DEF DiskOK, PromiseKept
  <2>3. image(k).vote >= promised.vote
    BY <1>4, <1>5 DEF DiskOK, PromiseKept
  <2>. QED  BY <1>4, <1>5, <2>1, <2>2, <2>3, LoggedDiskOK
<1>7. disk' = image(n) /\ torn' = torn \cup images /\ job' = j /\ torn = {disk}
  BY <1>2 DEF StartJob, Journal, IInv, JobOK, NoJob
<1>8. job'.kind = "append" /\ DOMAIN job'.log = (L + 1)..(L + n)
      /\ \A i \in (L + 1)..(L + n) : job'.log[i] = es[i - L]
  BY <1>7
<1>9. n \in 1..n
  OBVIOUS
<1>10. JobOK'
  <2>1. DOMAIN job'.log \subseteq 1..MaxIndex
    BY <1>2, <1>3, <1>8, StoreAssumption
  <2>2. \A i \in DOMAIN job'.log : i \in DOMAIN disk'.log /\ disk'.log[i] = job'.log[i]
    BY <1>5, <1>7, <1>8, <1>9
  <2>. QED  BY <1>8, <2>1, <2>2 DEF JobOK
<1>11. Settled'
  <2>. SUFFICES ASSUME NEW d \in torn', NEW i \in DOMAIN disk'.log, i \notin DOMAIN job'.log
                PROVE  i \in DOMAIN d.log /\ d.log[i] = disk'.log[i]
    BY <1>8 DEF Settled
  <2>1. i \in DOMAIN disk.log /\ disk'.log[i] = disk.log[i]
    BY <1>5, <1>7, <1>8, <1>9
  <2>2. CASE d = disk
    BY <2>1, <2>2
  <2>3. CASE d # disk
    <3>1. PICK k \in 1..n : d = image(k)
      BY <2>3, <1>7
    <3>. QED  BY <3>1, <2>1, <1>5
  <2>. QED  BY <2>2, <2>3
<1>12. \A e \in images \cup {disk} : DiskOK(e, chosen, ram.applied, seen, promised')
  BY <1>2, <1>4, <1>6
<1>13. image(n) \in images
  BY <1>9
<1>14. promised' \in Promised /\ promised'.vote = promised.vote
  BY <1>2, <1>4
<1>. HIDE DEF j, images
<1>. QED  BY <1>2, <1>10, <1>11, <1>12, <1>13, <1>14, StartStep

\* An operation that removes entries nobody was shown or promised.
LEMMA RemovedDiskOK ==
  ASSUME NEW d, NEW ch, NEW applied, NEW n, NEW p, NEW q,
         DiskOK(d, ch, applied, n, p), NEW S, q.vote = p.vote,
         \A i \in (Covered(d) + 1)..n : i \notin S,
         \A i \in (Covered(d) + 1)..applied : i \notin S,
         \A i \in DOMAIN q.log : i \in DOMAIN p.log /\ q.log[i] = p.log[i],
         \A i \in DOMAIN q.log : i <= Covered(d) \/ i \notin S
  PROVE  DiskOK(Removed(d, S), ch, applied, n, q)
<1>. DEFINE e == Removed(d, S)
<1>1. d \in Keyspace /\ ShownKept(d, ch, n) /\ ShownKept(d, ch, applied) /\ PromiseKept(d, p)
  BY DEF DiskOK
<1>2. /\ e \in Keyspace /\ DOMAIN e.log = DOMAIN d.log \ S
      /\ \A i \in DOMAIN d.log \ S : e.log[i] = d.log[i]
      /\ e.vote = d.vote /\ e.at = d.at /\ e.content = d.content /\ e.snap = d.snap
  BY <1>1, RemovedFacts
<1>. HIDE DEF e
<1>3. \A i \in (Covered(d) + 1)..n : i \in DOMAIN e.log /\ e.log[i] = d.log[i]
  BY <1>1, <1>2 DEF ShownKept
<1>4. \A i \in (Covered(d) + 1)..applied : i \in DOMAIN e.log /\ e.log[i] = d.log[i]
  BY <1>1, <1>2 DEF ShownKept
<1>5. \A i \in DOMAIN q.log : i <= Covered(d) \/ (i \in DOMAIN e.log /\ e.log[i] = q.log[i])
  BY <1>1, <1>2 DEF PromiseKept
<1>6. e.vote >= q.vote
  BY <1>1, <1>2 DEF PromiseKept
<1>7. DiskOK(e, ch, applied, n, q)
  BY <1>2, <1>3, <1>4, <1>5, <1>6, LoggedDiskOK
<1>. QED  BY <1>7 DEF e

\* truncate: nothing committed goes, so nothing that was shown does.
LEMMA BeginTruncateIInv ==
  ASSUME IInv, NEW from \in Nat, BeginTruncate(from)
  PROVE  IInv'
<1>. DEFINE image(k) == Removed(disk, from..k)
            images == {image(k) : k \in from..MaxIndex}
            j == [kind |-> "truncate"]
<1>1. /\ job = NoJob /\ from > ram.applied /\ from \in DOMAIN disk.log
      /\ ~Committed(from, disk.log[from])
      /\ StartJob(j, image(MaxIndex), images)
      /\ promised' = [promised EXCEPT !.log = [i \in {i \in DOMAIN promised.log : i < from} |->
                                                  promised.log[i]]]
  BY DEF BeginTruncate, Idle
<1>2. /\ DiskOK(disk, chosen, ram.applied, seen, promised) /\ disk \in Keyspace
      /\ promised \in Promised /\ ram.applied \in Nat /\ seen \in Nat
  BY DEF IInv, DiskOK, RamOK
<1>3. Covered(disk) \in Nat /\ Covered(disk) <= ram.applied /\ disk.log \in Logs
  BY <1>2, KeyspaceFacts DEF DiskOK, ImagesExact
<1>4. seen < from
  <2>1. SUFFICES ASSUME ~(seen < from)  PROVE FALSE
    OBVIOUS
  <2>2. from \in (Covered(disk) + 1)..seen
    BY <1>1, <1>2, <1>3, <2>1
  <2>3. from <= Len(chosen) /\ chosen[from] = disk.log[from]
    BY <1>2, <2>2 DEF DiskOK, ShownKept
  <2>. QED  BY <1>1, <2>3 DEF Committed
<1>5. from \in 1..MaxIndex /\ MaxIndex \in from..MaxIndex
  <2>1. from \in 1..MaxIndex
    BY <1>1, <1>3, LogFacts
  <2>. QED  BY <2>1, StoreAssumption
<1>6. /\ promised' \in Promised /\ promised'.vote = promised.vote
      /\ \A i \in DOMAIN promised'.log :
           i \in DOMAIN promised.log /\ promised'.log[i] = promised.log[i] /\ i < from
  <2>. DEFINE l == [i \in {i \in DOMAIN promised.log : i < from} |-> promised.log[i]]
  <2>1. promised.log \in Logs /\ promised.vote \in Nat
    BY <1>2 DEF Promised, Logs
  <2>2. /\ {i \in DOMAIN promised.log : i < from} \in SUBSET (1..MaxIndex)
        /\ l \in [{i \in DOMAIN promised.log : i < from} -> Entry]
    BY <2>1, LogFacts
  <2>3. l \in Logs
    BY <2>2, IsLog
  <2>4. \A i \in DOMAIN l : i \in DOMAIN promised.log /\ l[i] = promised.log[i] /\ i < from
    OBVIOUS
  <2>5. promised' = [promised EXCEPT !.log = l]
    BY <1>1
  <2>. HIDE DEF l
  <2>6. promised' \in Promised
    BY <1>2, <2>1, <2>3, <2>5 DEF Promised, Logs
  <2>7. promised'.log = l /\ promised'.vote = promised.vote
    BY <1>2, <2>5 DEF Promised
  <2>. QED  BY <2>4, <2>6, <2>7
<1>7. ASSUME NEW k \in from..MaxIndex
      PROVE  DiskOK(image(k), chosen, ram.applied, seen, promised')
  <2>. DEFINE S == from..k
  <2>1. /\ \A i \in (Covered(disk) + 1)..seen : i \notin S
        /\ \A i \in (Covered(disk) + 1)..ram.applied : i \notin S
    BY <1>1, <1>2, <1>3, <1>4
  <2>2. \A i \in DOMAIN promised'.log : i \notin S
    <3>1. \A i \in DOMAIN promised'.log : i \in Nat
      <4>1. promised'.log \in Logs
        BY <1>6 DEF Promised, Logs
      <4>. QED  BY <4>1, LogFacts
    <3>. QED  BY <3>1, <1>6
  <2>. HIDE DEF S
  <2>3. DiskOK(Removed(disk, S), chosen, ram.applied, seen, promised')
    BY <1>2, <1>6, <2>1, <2>2, RemovedDiskOK
  <2>. QED  BY <2>3 DEF S
<1>8. DiskOK(disk, chosen, ram.applied, seen, promised')
  <2>1. PromiseKept(disk, promised')
    BY <1>2, <1>6 DEF DiskOK, PromiseKept
  <2>. QED  BY <2>1, <1>2 DEF DiskOK
<1>9. /\ disk' = image(MaxIndex) /\ torn' = torn \cup images /\ job' = j /\ torn = {disk}
  BY <1>1 DEF StartJob, Journal, IInv, JobOK, NoJob
<1>10. JobOK'
  BY <1>9 DEF JobOK
<1>11. ASSUME NEW k \in from..MaxIndex
       PROVE  /\ DOMAIN image(k).log = DOMAIN disk.log \ (from..k)
              /\ \A i \in DOMAIN disk.log \ (from..k) : image(k).log[i] = disk.log[i]
  BY <1>2, RemovedFacts
<1>12. Settled'
  <2>. SUFFICES ASSUME NEW d \in torn', NEW i \in DOMAIN disk'.log
                PROVE  i \in DOMAIN d.log /\ d.log[i] = disk'.log[i]
    BY DEF Settled
  <2>1. i \in DOMAIN disk.log \ (from..MaxIndex) /\ disk'.log[i] = disk.log[i]
    BY <1>5, <1>9, <1>11
  <2>2. CASE d = disk
    BY <2>1, <2>2
  <2>3. CASE d # disk
    <3>1. PICK k \in from..MaxIndex : d = image(k)
      BY <2>3, <1>9
    <3>2. i \in Nat
      BY <2>1, <1>3, LogFacts
    <3>3. i \notin from..k
      BY <2>1, <3>2, StoreAssumption
    <3>. QED  BY <3>1, <3>3, <2>1, <1>11
  <2>. QED  BY <2>2, <2>3
<1>13. \A e \in images \cup {disk} : DiskOK(e, chosen, ram.applied, seen, promised')
  BY <1>7, <1>8
<1>14. image(MaxIndex) \in images
  BY <1>5
<1>. HIDE DEF j, image, images
<1>. QED  BY <1>1, <1>6, <1>10, <1>12, <1>13, <1>14, StartStep

\* purge: only what the snapshot covers goes.
LEMMA BeginPurgeIInv ==
  ASSUME IInv, NEW to \in 1..MaxIndex, BeginPurge(to)
  PROVE  IInv'
<1>. DEFINE last == [Removed(disk, 1..to) EXCEPT !.purged = to]
            images == {Removed(disk, 1..k) : k \in 1..to} \cup {last}
            j == [kind |-> "purge", to |-> to]
<1>1. /\ job = NoJob /\ to <= disk.snap.at /\ StartJob(j, last, images) /\ UNCHANGED promised
  BY DEF BeginPurge, Idle
<1>2. /\ DiskOK(disk, chosen, ram.applied, seen, promised) /\ disk \in Keyspace
      /\ promised \in Promised /\ ram.applied \in Nat /\ seen \in Nat /\ to \in Nat
  BY StoreAssumption DEF IInv, DiskOK, RamOK
<1>3. /\ Covered(disk) \in Nat /\ Covered(disk) >= disk.snap.at /\ disk.snap.at \in Nat
      /\ disk.log \in Logs
  BY <1>2, KeyspaceFacts
<1>4. to <= Covered(disk)
  BY <1>1, <1>2, <1>3
<1>5. ASSUME NEW k \in 1..to
      PROVE  DiskOK(Removed(disk, 1..k), chosen, ram.applied, seen, promised)
  <2>. DEFINE S == 1..k
  <2>1. /\ \A i \in (Covered(disk) + 1)..seen : i \notin S
        /\ \A i \in (Covered(disk) + 1)..ram.applied : i \notin S
    BY <1>2, <1>3, <1>4
  <2>2. \A i \in DOMAIN promised.log : i <= Covered(disk) \/ i \notin S
    BY <1>2, <1>3, <1>4
  <2>. HIDE DEF S
  <2>3. DiskOK(Removed(disk, S), chosen, ram.applied, seen, promised)
    BY <1>2, <2>1, <2>2, RemovedDiskOK
  <2>. QED  BY <2>3 DEF S
<1>. DEFINE R == Removed(disk, 1..to)
<1>6. to \in 1..to
  BY <1>2
<1>7. /\ R \in Keyspace /\ DiskOK(R, chosen, ram.applied, seen, promised)
      /\ DOMAIN R.log = DOMAIN disk.log \ (1..to)
      /\ \A i \in DOMAIN disk.log \ (1..to) : R.log[i] = disk.log[i]
  BY <1>2, <1>5, <1>6, RemovedFacts
<1>. HIDE DEF R
<1>8. last = [R EXCEPT !.purged = to]
  BY DEF R
<1>. HIDE DEF last
<1>9. /\ last \in Keyspace /\ last.log = R.log /\ last.vote = R.vote
      /\ last.at = R.at /\ last.content = R.content /\ last.snap = R.snap
  <2>1. to \in 0..MaxIndex
    BY <1>2, StoreAssumption
  <2>. QED  BY <1>7, <1>8, <2>1 DEF Keyspace
<1>10. DiskOK(last, chosen, ram.applied, seen, promised)
  <2>1. Covered(last) = Covered(R)
    BY <1>9 DEF Covered
  <2>. QED  BY <1>7, <1>9, <2>1 DEF DiskOK, ImagesExact, ShownKept, PromiseKept
<1>11. /\ disk' = last /\ torn' = torn \cup images /\ job' = j /\ torn = {disk}
  BY <1>1 DEF StartJob, Journal, IInv, JobOK, NoJob
<1>12. JobOK'
  <2>1. to \in 0..MaxIndex
    BY <1>2, StoreAssumption
  <2>. QED  BY <1>11, <2>1 DEF JobOK
<1>13. ASSUME NEW k \in 1..to
       PROVE  /\ DOMAIN Removed(disk, 1..k).log = DOMAIN disk.log \ (1..k)
              /\ \A i \in DOMAIN disk.log \ (1..k) : Removed(disk, 1..k).log[i] = disk.log[i]
  BY <1>2, RemovedFacts
<1>14. Settled'
  <2>. SUFFICES ASSUME NEW d \in torn', NEW i \in DOMAIN disk'.log
                PROVE  i \in DOMAIN d.log /\ d.log[i] = disk'.log[i]
    BY DEF Settled
  <2>1. i \in DOMAIN disk.log \ (1..to) /\ disk'.log[i] = disk.log[i]
    BY <1>7, <1>9, <1>11
  <2>2. CASE d = disk
    BY <2>1, <2>2
  <2>3. CASE d = last
    BY <2>3, <1>11
  <2>4. CASE d # disk /\ d # last
    <3>1. PICK k \in 1..to : d = Removed(disk, 1..k)
      BY <2>4, <1>11
    <3>2. i \in Nat
      BY <2>1, <1>3, LogFacts
    <3>3. i \notin 1..k
      BY <2>1, <3>2, <1>2
    <3>. QED  BY <3>1, <3>3, <2>1, <1>13
  <2>. QED  BY <2>2, <2>3, <2>4
<1>15. \A e \in images \cup {disk} : DiskOK(e, chosen, ram.applied, seen, promised')
  BY <1>1, <1>2, <1>5, <1>10
<1>16. last \in images
  OBVIOUS
<1>17. promised' \in Promised /\ promised'.vote = promised.vote
  BY <1>1, <1>2
<1>. HIDE DEF j, images
<1>. QED  BY <1>1, <1>12, <1>14, <1>15, <1>16, <1>17, StartStep

\* save_vote.
LEMMA BeginSaveVoteIInv ==
  ASSUME IInv, NEW v \in 1..MaxVote, BeginSaveVote(v)
  PROVE  IInv'
<1>. DEFINE last == [disk EXCEPT !.vote = v]
            j == [kind |-> "vote", vote |-> v]
<1>1. job = NoJob /\ v > ram.vote /\ StartJob(j, last, {last}) /\ UNCHANGED promised
  BY DEF BeginSaveVote, Idle
<1>2. /\ DiskOK(disk, chosen, ram.applied, seen, promised) /\ disk \in Keyspace
      /\ promised \in Promised /\ promised.vote \in Nat /\ ram.vote \in promised.vote..MaxVote
  BY DEF IInv, DiskOK, RamOK, Promised
<1>3. /\ last \in Keyspace /\ last.log = disk.log /\ last.vote = v
      /\ last.at = disk.at /\ last.content = disk.content /\ last.snap = disk.snap
  <2>1. v \in 0..MaxVote
    BY StoreAssumption
  <2>. QED  BY <1>2, <2>1 DEF Keyspace
<1>4. v >= promised.vote
  BY <1>1, <1>2, StoreAssumption
<1>5. /\ disk' = last /\ torn' = torn \cup {last} /\ job' = j /\ torn = {disk}
  BY <1>1 DEF StartJob, Journal, IInv, JobOK, NoJob
<1>. HIDE DEF last
<1>6. DiskOK(last, chosen, ram.applied, seen, promised)
  <2>1. Covered(last) = Covered(disk)
    BY <1>3 DEF Covered
  <2>. QED  BY <1>2, <1>3, <1>4, <2>1 DEF DiskOK, ImagesExact, ShownKept, PromiseKept
<1>7. JobOK'
  BY <1>3, <1>5 DEF JobOK
<1>8. Settled'
  BY <1>3, <1>5 DEF Settled
<1>9. \A e \in {last} \cup {disk} : DiskOK(e, chosen, ram.applied, seen, promised')
  BY <1>1, <1>2, <1>6
<1>10. promised' \in Promised /\ promised'.vote = promised.vote /\ last \in {last}
  BY <1>1, <1>2
<1>. HIDE DEF j
<1>. QED  BY <1>1, <1>7, <1>8, <1>9, <1>10, StartStep

\* The answer of an append: what it acknowledges is in the log.
LEMMA AnswerAppend ==
  ASSUME IInv, job.kind = "append", Answer
  PROVE  /\ promised' \in Promised /\ promised'.vote = promised.vote
         /\ PromiseKept(disk, promised') /\ ram' = ram
<1>. DEFINE D == DOMAIN promised.log \cup DOMAIN job.log
            l == [i \in D |-> IF i \in DOMAIN job.log THEN job.log[i] ELSE promised.log[i]]
<1>1. promised' = [promised EXCEPT !.log = l] /\ ram' = ram
  BY DEF Answer
<1>2. /\ promised \in Promised /\ PromiseKept(disk, promised) /\ disk \in Keyspace
      /\ DOMAIN job.log \subseteq 1..MaxIndex
      /\ \A i \in DOMAIN job.log : i \in DOMAIN disk.log /\ disk.log[i] = job.log[i]
  BY DEF IInv, DiskOK, JobOK
<1>3. promised.log \in Logs /\ promised.vote \in Nat /\ disk.log \in Logs
  BY <1>2, KeyspaceFacts DEF Promised, Logs
<1>4. \A i \in D : l[i] \in Entry
  BY <1>2, <1>3, LogFacts
<1>5. l \in [D -> Entry] /\ D \in SUBSET (1..MaxIndex)
  BY <1>2, <1>3, <1>4, LogFacts
<1>6. l \in Logs
  BY <1>5, IsLog
<1>7. ASSUME NEW i \in DOMAIN l
      PROVE  i <= Covered(disk) \/ (i \in DOMAIN disk.log /\ disk.log[i] = l[i])
  <2>1. CASE i \in DOMAIN job.log
    BY <2>1, <1>2
  <2>2. CASE i \notin DOMAIN job.log
    <3>1. i \in DOMAIN promised.log /\ l[i] = promised.log[i]
      BY <2>2
    <3>. QED  BY <3>1, <1>2 DEF PromiseKept
  <2>. QED  BY <2>1, <2>2
<1>. HIDE DEF l
<1>8. promised' \in Promised
  BY <1>1, <1>2, <1>6 DEF Promised, Logs
<1>9. promised'.log = l /\ promised'.vote = promised.vote
  BY <1>1, <1>2 DEF Promised
<1>10. PromiseKept(disk, promised')
  BY <1>2, <1>7, <1>9 DEF PromiseKept
<1>. QED  BY <1>1, <1>8, <1>9, <1>10

\* The answer of save_vote: the vote is on disk.
LEMMA AnswerVote ==
  ASSUME IInv, job.kind = "vote", Answer
  PROVE  /\ promised' \in Promised /\ PromiseKept(disk, promised')
         /\ ram' = [ram EXCEPT !.vote = disk.vote] /\ promised'.vote = disk.vote
         /\ disk.vote \in 0..MaxVote
<1>1. promised' = [promised EXCEPT !.vote = job.vote] /\ ram' = [ram EXCEPT !.vote = job.vote]
  BY DEF Answer
<1>2. /\ promised \in Promised /\ PromiseKept(disk, promised) /\ disk \in Keyspace
      /\ job.vote = disk.vote
  BY DEF IInv, DiskOK, JobOK
<1>3. disk.vote \in 0..MaxVote /\ disk.vote \in Nat
  BY <1>2, KeyspaceFacts, StoreAssumption
<1>4. /\ promised' \in Promised /\ promised'.vote = disk.vote /\ promised'.log = promised.log
  BY <1>1, <1>2, <1>3 DEF Promised
<1>5. PromiseKept(disk, promised')
  BY <1>2, <1>3, <1>4 DEF PromiseKept
<1>. QED  BY <1>1, <1>2, <1>3, <1>4, <1>5

\* An operation persists and answers.
LEMMA FinishJobIInv == IInv /\ FinishJob => IInv'
<1>. SUFFICES ASSUME IInv, FinishJob  PROVE IInv'
  OBVIOUS
<1>1. /\ job # NoJob /\ torn' = {disk} /\ disk' = disk /\ Answer /\ job' = NoJob
      /\ UNCHANGED <<chosen, seen, crashes>>
  BY DEF FinishJob, Persist
<1>2. /\ DiskOK(disk, chosen, ram.applied, seen, promised) /\ RamOK /\ promised \in Promised
      /\ PromiseKept(disk, promised) /\ DOMAIN ram = RamFields
  BY DEF IInv, DiskOK, RamOK
<1>3. job.kind \in {"append", "truncate", "purge", "vote"}
  BY <1>1 DEF IInv, JobOK
<1>4. /\ promised' \in Promised /\ PromiseKept(disk, promised')
      /\ RamOK' /\ ram'.applied = ram.applied
  <2>1. CASE job.kind = "append"
    <3>1. /\ promised' \in Promised /\ promised'.vote = promised.vote
          /\ PromiseKept(disk, promised') /\ ram' = ram
      BY <1>1, <2>1, AnswerAppend
    <3>. QED  BY <3>1, <1>1, <1>2 DEF RamOK
  <2>2. CASE job.kind = "truncate"
    <3>1. promised' = promised /\ ram' = ram
      BY <1>1, <2>2 DEF Answer
    <3>. QED  BY <3>1, <1>1, <1>2 DEF RamOK
  <2>3. CASE job.kind = "purge"
    <3>1. promised' = promised /\ ram' = [ram EXCEPT !.purged = job.to] /\ job.to \in 0..MaxIndex
      BY <1>1, <2>3 DEF Answer, IInv, JobOK
    <3>2. /\ DOMAIN ram' = RamFields /\ ram'.applied = ram.applied /\ ram'.content = ram.content
          /\ ram'.purged = job.to /\ ram'.vote = ram.vote
      BY <3>1, <1>2 DEF RamFields
    <3>. QED  BY <3>1, <3>2, <1>1, <1>2 DEF RamOK
  <2>4. CASE job.kind = "vote"
    <3>1. /\ promised' \in Promised /\ PromiseKept(disk, promised')
          /\ ram' = [ram EXCEPT !.vote = disk.vote] /\ promised'.vote = disk.vote
          /\ disk.vote \in 0..MaxVote
      BY <1>1, <2>4, AnswerVote
    <3>2. /\ DOMAIN ram' = RamFields /\ ram'.applied = ram.applied /\ ram'.content = ram.content
          /\ ram'.purged = ram.purged /\ ram'.vote = disk.vote
      BY <3>1, <1>2 DEF RamFields
    <3>3. ram'.vote \in promised'.vote..MaxVote
      BY <3>1, <3>2, StoreAssumption
    <3>. QED  BY <3>1, <3>2, <3>3, <1>1, <1>2 DEF RamOK
  <2>. QED  BY <1>3, <2>1, <2>2, <2>3, <2>4
<1>5. DiskOK(disk, chosen, ram.applied, seen, promised')
  BY <1>2, <1>4 DEF DiskOK
<1>6. JobOK' /\ Settled'
  BY <1>1 DEF JobOK, Settled, NoJob
<1>7. chosen \in Seq(Entry) /\ seen \in 0..Len(chosen)
  BY DEF IInv
<1>. QED  BY <1>1, <1>4, <1>5, <1>6, <1>7 DEF IInv

\* The inductive step.
LEMMA NextIInv == IInv /\ [Next]_vars => IInv'
<1>. SUFFICES ASSUME IInv, [Next]_vars  PROVE IInv'
  OBVIOUS
<1>1. ASSUME NEW e \in Entries, Choose(e)  PROVE IInv'
  BY <1>1, ChooseIInv
<1>2. ASSUME NEW n \in 1..MaxBatch, NEW es \in [1..n -> Entries], BeginAppend(es)  PROVE IInv'
  <2>1. n \in Nat \ {0}
    BY StoreAssumption
  <2>. QED  BY <1>2, <2>1, BeginAppendIInv
<1>3. ASSUME NEW i \in 1..MaxIndex,
             \/ BeginTruncate(i) \/ BeginPurge(i) \/ InstallSnapshot(i) \/ ApplyFails(i)
             \/ \E due \in BOOLEAN : Apply(i, due)
      PROVE  IInv'
  <2>1. i \in Nat
    BY StoreAssumption
  <2>2. CASE BeginTruncate(i)
    BY <2>1, <2>2, BeginTruncateIInv
  <2>3. CASE BeginPurge(i)
    BY <2>3, BeginPurgeIInv
  <2>4. CASE InstallSnapshot(i)
    BY <2>1, <2>4, InstallSnapshotIInv
  <2>5. CASE ApplyFails(i)
    BY <2>1, <2>5, ApplyFailsIInv
  <2>6. ASSUME NEW due \in BOOLEAN, Apply(i, due)  PROVE IInv'
    BY <2>1, <2>6, ApplyIInv
  <2>. QED  BY <1>3, <2>2, <2>3, <2>4, <2>5, <2>6
<1>4. ASSUME NEW v \in 1..MaxVote, BeginSaveVote(v)  PROVE IInv'
  BY <1>4, BeginSaveVoteIInv
<1>5. CASE FinishJob \/ Flush \/ BuildSnapshot
  BY <1>5, FinishJobIInv, FlushIInv, BuildSnapshotIInv
<1>6. ASSUME NEW d \in torn, CrashAndOpen(d)  PROVE IInv'
  BY <1>6, CrashIInv
<1>7. CASE UNCHANGED vars
  BY <1>7 DEF vars, IInv, RamOK, JobOK, Settled
<1>. QED  BY <1>1, <1>2, <1>3, <1>4, <1>5, <1>6, <1>7 DEF Next

-----------------------------------------------------------------------------
(***************************************************************************)
(* The inductive invariant holds.                                          *)
(***************************************************************************)
THEOREM Inductive == Spec => []IInv
  BY InitIInv, NextIInv, PTL DEF Spec

(***************************************************************************)
(* Every chosen command is applied once and in order, whatever crashes,    *)
(* torn images, replays and snapshots come (MaterializedState::holds,      *)
(* adopt_newer_snapshot, apply).                                           *)
(***************************************************************************)
THEOREM AppliedExactlyOnceAlways == Spec => []AppliedExactlyOnce
<1>1. IInv => AppliedExactlyOnce
  <2>. SUFFICES ASSUME IInv  PROVE AppliedExactlyOnce
    OBVIOUS
  <2>1. /\ disk \in Keyspace /\ RamOK /\ chosen \in Seq(Entry) /\ seen \in 0..Len(chosen)
    BY DEF IInv, DiskOK
  <2>2. DOMAIN disk.log \subseteq 1..MaxIndex /\ \A i \in DOMAIN disk.log : disk.log[i] \in Entry
    <3>1. disk.log \in Logs
      BY <2>1, KeyspaceFacts
    <3>. QED  BY <3>1, LogFacts
  <2>3. ram.applied \in 0..Len(chosen)
    <3>1. ram.applied \in Nat /\ ram.applied <= Len(chosen) /\ Len(chosen) \in Nat
      BY <2>1, ExactWithin DEF RamOK
    <3>. QED  BY <3>1
  <2>. QED  BY <2>1, <2>2, <2>3 DEF AppliedExactlyOnce, TypeOK, RamOK
<1>. QED  BY <1>1, Inductive, PTL

(***************************************************************************)
(* Whatever a crash leaves of the running operation, the boot finds every  *)
(* entry whose effect was shown in its image or in its log (apply: durable *)
(* before observable).                                                     *)
(***************************************************************************)
THEOREM NothingShownIsLostAlways == Spec => []NothingShownIsLost
<1>1. IInv => NothingShownIsLost
  <2>. SUFFICES ASSUME IInv, NEW d \in torn, NEW i \in (Opened(d).applied + 1)..seen
                PROVE  i \in DOMAIN d.log /\ Committed(i, d.log[i])
    BY DEF NothingShownIsLost
  <2>1. d \in Keyspace /\ ShownKept(d, chosen, seen)
    BY DEF IInv, DiskOK
  <2>2. i \in (Covered(d) + 1)..seen
    BY <2>1, OpenedFacts
  <2>. QED  BY <2>1, <2>2 DEF ShownKept, Committed
<1>. QED  BY <1>1, Inductive, PTL

(***************************************************************************)
(* A vote given and an entry acknowledged survive every crash, until the   *)
(* entry is truncated or covered by the image (append_entries_durable and  *)
(* save_vote persist before they answer).                                  *)
(***************************************************************************)
THEOREM PromisesSurviveAlways == Spec => []PromisesSurvive
<1>1. IInv => PromisesSurvive
  <2>. SUFFICES ASSUME IInv, NEW d \in torn
                PROVE  /\ d.vote >= promised.vote
                       /\ \A i \in DOMAIN promised.log :
                            \/ i <= Opened(d).applied
                            \/ i \in DOMAIN d.log /\ d.log[i] = promised.log[i]
    BY DEF PromisesSurvive
  <2>1. d \in Keyspace /\ PromiseKept(d, promised)
    BY DEF IInv, DiskOK
  <2>. QED  BY <2>1, OpenedFacts DEF PromiseKept
<1>. QED  BY <1>1, Inductive, PTL

=============================================================================
