------------------------- MODULE CatalogStoreProofs -------------------------
(***************************************************************************)
(* For every set of keys, bodies and patches, every capacity of the ring   *)
(* and any number of revisions and reloads: stamps identify what they      *)
(* stamp, the past reads back as it was, and a filtered watch keeps its    *)
(* holder's view exact.                                                    *)
(***************************************************************************)
EXTENDS CatalogStore, TLAPS, SequenceTheorems, NaturalsInduction, WellFoundedInduction

\* Changes whose revisions are naturals, and a sequence of them in revision order.
Revisioned(C) == \A c \in C : c.rev \in Nat

InOrder(s) == \A i, j \in 1..Len(s) : i <= j => s[i].rev <= s[j].rev

\* n splits s at rv: the property partition_point computes.
Splits(s, rv, n) == /\ \A i \in 1..n : s[i].rev <= rv
                    /\ \A i \in (n+1)..Len(s) : s[i].rev > rv

(***************************************************************************)
(* A non-empty set of naturals has a least element: what the eviction loop *)
(* of commit and the binary search of split find.                          *)
(***************************************************************************)
LEMMA LeastNatural ==
  ASSUME NEW T \in SUBSET Nat, T # {}
  PROVE  \E n \in T : \A m \in T : n <= m
<1>. DEFINE R == {ss \in Nat \X Nat : ss[1] < ss[2]}
<1>0. IsWellFoundedOn(R, Nat)
  BY NatLessThanWellFounded DEF OpToRel
<1>1. PICK n \in T : \A m \in T : ~(<<m, n>> \in R)
  <2>. HIDE DEF R
  <2>. QED  BY <1>0, WFMin
<1>2. ASSUME NEW m \in T  PROVE n <= m
  <2>1. m \in Nat /\ n \in Nat
    OBVIOUS
  <2>2. <<m, n>> \in Nat \X Nat /\ <<m, n>>[1] = m /\ <<m, n>>[2] = n
    BY <2>1
  <2>3. ~(m < n)
    BY <1>1, <2>2
  <2>. QED  BY <2>1, <2>3
<1>. QED  BY <1>2

(***************************************************************************)
(* partition_point is total on a ring in revision order.                   *)
(***************************************************************************)
LEMMA PartitionPointSplits ==
  ASSUME NEW C, Revisioned(C), NEW s \in Seq(C), InOrder(s), NEW rv \in Nat
  PROVE  /\ PartitionPoint(s, rv) \in 0..Len(s)
         /\ Splits(s, rv, PartitionPoint(s, rv))
<1>. DEFINE T == {n \in 0..Len(s) : \A i \in (n+1)..Len(s) : s[i].rev > rv}
<1>0. Len(s) \in Nat /\ \A i \in 1..Len(s) : s[i].rev \in Nat
  BY DEF Revisioned
<1>1. Len(s) \in T
  BY <1>0
<1>2. PICK n \in T : \A m \in T : n <= m
  <2>1. T \in SUBSET Nat /\ T # {}
    BY <1>0, <1>1
  <2>. HIDE DEF T
  <2>. QED  BY <2>1, LeastNatural
<1>3. \A i \in 1..n : s[i].rev <= rv
  <2>1. CASE n = 0  BY <2>1
  <2>2. CASE n # 0
    <3>1. n - 1 \notin T /\ n - 1 \in 0..Len(s) /\ n \in 1..Len(s)
      <4>1. n \in 0..Len(s)
        BY <1>2
      <4>2. n - 1 \in 0..Len(s) /\ n \in 1..Len(s) /\ ~(n <= n - 1)
        BY <1>0, <2>2, <4>1
      <4>. HIDE DEF T
      <4>3. n - 1 \notin T
        BY <1>2, <4>2
      <4>. QED  BY <4>2, <4>3
    <3>2. PICK i \in n..Len(s) : ~(s[i].rev > rv)
      BY <1>0, <3>1
    <3>3. i = n
      BY <1>2, <3>2, <1>0, <3>1
    <3>4. s[n].rev <= rv
      BY <3>2, <3>3, <1>0, <3>1
    <3>. QED  BY <3>1, <3>4, <1>0 DEF InOrder
  <2>. QED  BY <2>1, <2>2
<1>4. n \in 0..Len(s) /\ Splits(s, rv, n)
  BY <1>2, <1>3 DEF Splits
<1>. QED  BY <1>4 DEF PartitionPoint, Splits

(***************************************************************************)
(* The eviction loop of commit ends: dropping every revision is a boundary *)
(* that leaves nothing, so a first one within capacity exists.             *)
(***************************************************************************)
LEMMA EvictPointExists ==
  ASSUME NEW C, NEW s \in Seq(C)
  PROVE  /\ EvictPoint(s) \in 0..Len(s)
         /\ Boundary(s, EvictPoint(s))
         /\ Len(s) - EvictPoint(s) <= Capacity
<1>. DEFINE T == {n \in 0..Len(s) : Boundary(s, n) /\ Len(s) - n <= Capacity}
<1>0. Len(s) \in Nat /\ Capacity \in Nat
  BY CapacityAssumption
<1>1. Len(s) \in T
  BY <1>0 DEF Boundary
<1>2. PICK n \in T : \A m \in T : n <= m
  <2>1. T \in SUBSET Nat /\ T # {}
    BY <1>0, <1>1
  <2>. HIDE DEF T
  <2>. QED  BY <2>1, LeastNatural
<1>3. \A m \in 0..(n-1) : Boundary(s, m) => Len(s) - m > Capacity
  <2>. SUFFICES ASSUME NEW m \in 0..(n-1), Boundary(s, m), ~(Len(s) - m > Capacity)
                PROVE  FALSE
    OBVIOUS
  <2>1. m \in T
    BY <1>0, <1>2
  <2>. QED  BY <2>1, <1>2, <1>0
<1>. QED  BY <1>2, <1>3 DEF EvictPoint

\* The two parts of a concatenation, by index.
LEMMA ConcatParts ==
  ASSUME NEW C, NEW s \in Seq(C), NEW t \in Seq(C)
  PROVE  /\ s \o t \in Seq(C) /\ Len(s \o t) = Len(s) + Len(t)
         /\ \A i \in 1..Len(s) : (s \o t)[i] = s[i]
         /\ \A i \in (Len(s)+1)..(Len(s) + Len(t)) : (s \o t)[i] = t[i - Len(s)]
<1>1. Len(s) \in Nat /\ Len(t) \in Nat
  OBVIOUS
<1>. QED  BY <1>1, ConcatProperties

-----------------------------------------------------------------------------
Fields == {"uid", "spec", "label", "status", "fin", "del", "gen", "rv"}

Item == [rev: Nat, key: Keys, kind: {"Put", "Delete"}, value: Value,
         prior: Value \cup {Nil}, meta: Meta]

\* An object as the catalog keeps it at revision r.
StoredBy(o, r) ==
    /\ o.val \in Value /\ o.meta \in Meta /\ o.val.uid # NoUid
    /\ o.val.rv = o.meta.mod /\ o.meta.create <= o.meta.mod /\ o.meta.mod <= r

ObjectsOK(res, r) ==
    /\ DOMAIN res \subseteq Keys
    /\ \A k \in DOMAIN res : StoredBy(res[k], r)

\* Nothing happened to k between p and q.
SameAt(p, q, k) == /\ k \in DOMAIN p <=> k \in DOMAIN q
                   /\ k \in DOMAIN p => p[k] = q[k]

\* A later version of the same incarnation.
Succeeds(o, n) ==
    /\ n.meta.create = o.meta.create /\ n.val.uid = o.val.uid /\ o.val.gen <= n.val.gen
    /\ o.val.gen = n.val.gen => o.val.spec = n.val.spec

\* What revision r made of k: nothing is left, or a version stamped with r.
Stamped(p, q, k, r) ==
    k \in DOMAIN q =>
        /\ StoredBy(q[k], r) /\ q[k].meta.mod = r
        /\ k \in DOMAIN p => Succeeds(p[k], q[k])
        /\ k \notin DOMAIN p => q[k].meta.create = r

\* What the recorded change c says of the step from p to q that it records.
PutTells(p, q, c) ==
    /\ c.key \in DOMAIN q /\ c.value = q[c.key].val /\ c.meta = q[c.key].meta
    /\ c.prior = ImageOf(p, c.key)
    /\ c.key \in DOMAIN p => c.meta.create = p[c.key].meta.create

DeleteTells(p, q, c) ==
    /\ c.key \in DOMAIN p /\ c.key \notin DOMAIN q /\ c.meta = p[c.key].meta
    /\ c.prior = c.value /\ (c.value = p[c.key].val \/ c.value.rv = c.rev)

Tells(p, q, c) == /\ c.kind = "Put" => PutTells(p, q, c)
                  /\ c.kind = "Delete" => DeleteTells(p, q, c)

\* p[r + 1] is what revision r left.  The ring records the steps of p from
\* floor to head, one change for each key that a step touches.
RingTells(ring, floor, head, p) ==
    /\ ring \in Seq(Item) /\ InOrder(ring)
    /\ \A i \in 1..Len(ring) : /\ ring[i].rev \in (floor + 1)..head
                               /\ Tells(p[ring[i].rev], p[ring[i].rev + 1], ring[i])
    /\ \A r \in (floor + 1)..head, k \in Keys :
         (\A i \in 1..Len(ring) : ring[i].rev = r => ring[i].key # k)
             => SameAt(p[r], p[r + 1], k)
    /\ \A i, j \in 1..Len(ring) :
         ring[i].rev = ring[j].rev /\ ring[i].key = ring[j].key => i = j

\* The version now is the only one with its stamp, and the last of its incarnation.
Identified(p, now, head) ==
    \A r \in 0..head : \A k \in DOMAIN now :
        k \in DOMAIN p[r + 1] =>
            /\ p[r + 1][k].val.rv = now[k].val.rv => p[r + 1][k] = now[k]
            /\ p[r + 1][k].meta.create = now[k].meta.create => Succeeds(p[r + 1][k], now[k])

PastOK(p, now, head) ==
    /\ p \in Seq({p[i] : i \in DOMAIN p}) /\ Len(p) = head + 1 /\ p[head + 1] = now
    /\ \A r \in 0..head : ObjectsOK(p[r + 1], r)
    /\ Identified(p, now, head)

IInv ==
    /\ DOMAIN catalog = {"resources", "history"}
    /\ catalog.history \in [ring: Seq(Item), floor: Nat, head: Nat]
    /\ Floor <= Head1
    /\ PastOK(past, catalog.resources, Head1)
    /\ RingTells(catalog.history.ring, Floor, Head1, past)

-----------------------------------------------------------------------------
(* Objects and how they are stamped. *)

\* An object is a record of its fields, and never Nil.
LEMMA ValueFacts ==
  ASSUME NEW v \in Value
  PROVE  /\ DOMAIN v = Fields /\ v # Nil
         /\ v.uid \in Nat /\ v.gen \in Nat /\ v.rv \in Nat
  BY CatalogAssumption DEF Value, Fields

\* A blank object is an object without an identity.
LEMMA BlankFacts == Blank \in Value /\ DOMAIN Blank = Fields /\ Blank.uid = NoUid
  BY DEF Blank, Value, Fields, NoUid

\* An object is one when its fields have their types.
LEMMA IsValue ==
  ASSUME NEW v, v = [f \in Fields |-> v[f]],
         v["uid"] \in Nat, v["spec"] \in Nat, v["label"] \in Nat, v["status"] \in Nat,
         v["fin"] \in BOOLEAN, v["del"] \in BOOLEAN, v["gen"] \in Nat, v["rv"] \in Nat
  PROVE  v \in Value
  BY DEF Value, Fields

\* A patched object is an object, with the identity it had.
LEMMA MergedFacts ==
  ASSUME NEW prior \in Value, NEW p \in Patches
  PROVE  Merged(prior, p) \in Value /\ Merged(prior, p).uid = prior.uid
<1>. DEFINE out == Merged(prior, p)
            base == Merged(Blank, p)
<1>1. DOMAIN prior = Fields /\ DOMAIN Blank = Fields
  BY ValueFacts, BlankFacts
<1>2. out = [f \in Fields |-> IF f \in DOMAIN p THEN p[f] ELSE prior[f]]
  BY <1>1 DEF Merged
<1>3. base = [f \in Fields |-> IF f \in DOMAIN p THEN p[f] ELSE Blank[f]]
  BY <1>1 DEF Merged
<1>4. base \in Value /\ "uid" \notin DOMAIN p
  BY CatalogAssumption
<1>. HIDE DEF out, base
<1>5. \A f \in Fields : out[f] = base[f] \/ out[f] = prior[f]
  BY <1>2, <1>3
<1>6. out \in Value
  BY <1>2, <1>4, <1>5, IsValue DEF Value, Fields
<1>7. out.uid = prior.uid
  BY <1>2, <1>4 DEF Fields
<1>. QED  BY <1>6, <1>7 DEF out

\* stamp_identity keeps an identity once there is one, and mints one otherwise.
LEMMA IdentityFacts ==
  ASSUME NEW body \in Value, NEW prior \in Value \cup {Nil}, NEW rev \in Nat \ {0},
         prior # Nil => prior.uid # NoUid
  PROVE  /\ StampIdentity(body, prior, rev) \in Value
         /\ StampIdentity(body, prior, rev).uid # NoUid
         /\ prior # Nil => StampIdentity(body, prior, rev).uid = prior.uid
<1>. DEFINE u == IF prior # Nil /\ prior.uid # NoUid THEN prior.uid
                 ELSE IF body.uid # NoUid THEN body.uid ELSE rev
<1>1. StampIdentity(body, prior, rev) = [body EXCEPT !.uid = u]
  BY DEF StampIdentity
<1>2. u \in Nat /\ u # NoUid /\ (prior # Nil => u = prior.uid)
  BY DEF Value, NoUid
<1>. HIDE DEF u
<1>. QED  BY <1>1, <1>2 DEF Value

\* The generation never falls, and moves when the spec does.
LEMMA GenerationFacts ==
  ASSUME NEW cand \in Value, NEW prior \in Value \cup {Nil}, NEW g,
         g = ComputeGeneration(prior, cand)
  PROVE  /\ g \in Nat
         /\ prior # Nil => prior.gen <= g /\ (prior.gen = g => prior.spec = cand.spec)
<1>1. CASE prior = Nil
  BY <1>1 DEF ComputeGeneration
<1>2. CASE prior # Nil
  <2>1. prior \in Value /\ prior.gen \in Nat
    BY <1>2, ValueFacts
  <2>. QED  BY <1>2, <2>1 DEF ComputeGeneration
<1>. QED  BY <1>1, <1>2

\* The stored object under a key.
LEMMA ImageFacts ==
  ASSUME NEW res, NEW r, ObjectsOK(res, r), NEW k
  PROVE  /\ ImageOf(res, k) \in Value \cup {Nil}
         /\ ImageOf(res, k) = Nil <=> k \notin DOMAIN res
         /\ k \in DOMAIN res => ImageOf(res, k) = res[k].val
         /\ ImageOf(res, k) # Nil => ImageOf(res, k).uid # NoUid
  BY ValueFacts DEF ImageOf, ObjectsOK, StoredBy

\* VersionMeta of a first and of a later write.
LEMMA MetaFacts ==
  ASSUME NEW rev \in Nat, NEW old \in Meta
  PROVE  /\ CreatedAt(rev) \in Meta /\ CreatedAt(rev).create = rev /\ CreatedAt(rev).mod = rev
         /\ BumpedAt(old, rev) \in Meta /\ BumpedAt(old, rev).mod = rev
         /\ BumpedAt(old, rev).create = old.create
<1>1. CreatedAt(rev) \in Meta /\ CreatedAt(rev).create = rev /\ CreatedAt(rev).mod = rev
  BY DEF CreatedAt, Meta
<1>2. PICK b \in Meta : b = [old EXCEPT !.mod = rev] /\ b.mod = rev /\ b.create = old.create
  <2>1. /\ [old EXCEPT !.mod = rev] \in Meta /\ [old EXCEPT !.mod = rev].mod = rev
        /\ [old EXCEPT !.mod = rev].create = old.create
    BY DEF Meta
  <2>. QED  BY <2>1
<1>3. BumpedAt(old, rev) = [b EXCEPT !.version = @ + 1]
  BY <1>2 DEF BumpedAt, Meta
<1>4. b.version + 1 \in Nat
  BY DEF Meta
<1>. QED  BY <1>1, <1>2, <1>3, <1>4 DEF Meta

-----------------------------------------------------------------------------
(* The commands.  Each leaves everything as it is, or records one change   *)
(* that tells what it did to the one key it is for.                        *)

Quiet(out, res) == out.changes = <<>> /\ out.res = res

\* c is what out did to res at its key, and all of it.
Moved(out, res, c) ==
    /\ Tells(res, out.res, c) /\ Stamped(res, out.res, c.key, c.rev)
    /\ DOMAIN out.res \subseteq Keys
    /\ \A j \in Keys : j # c.key => SameAt(res, out.res, j)

Moves(out, res, k, rev) ==
    \E c \in Item : out.changes = <<c>> /\ c.key = k /\ c.rev = rev /\ Moved(out, res, c)

Did(out, res, k, rev) == Quiet(out, res) \/ Moves(out, res, k, rev)

\* Storing an object that succeeds the one under its key.
LEMMA UpsertMoves ==
  ASSUME NEW rev \in Nat \ {0}, NEW res, ObjectsOK(res, rev), NEW op, NEW k \in Keys,
         NEW v \in Value, v.uid # NoUid, v.rv = rev,
         k \in DOMAIN res => /\ v.uid = res[k].val.uid /\ res[k].val.gen <= v.gen
                             /\ res[k].val.gen = v.gen => res[k].val.spec = v.spec
  PROVE  Moves(Upsert(op, res, k, v, rev), res, k, rev)
<1>. DEFINE meta == IF k \in DOMAIN res THEN BumpedAt(res[k].meta, rev) ELSE CreatedAt(rev)
            new == [j \in DOMAIN res \cup {k} |->
                      IF j = k THEN [val |-> v, meta |-> meta] ELSE res[j]]
            prior == ImageOf(res, k)
            c == Change(rev, k, "Put", v, prior, meta)
            out == Upsert(op, res, k, v, rev)
<1>1. /\ meta \in Meta /\ meta.mod = rev
      /\ k \in DOMAIN res => meta.create = res[k].meta.create
      /\ k \notin DOMAIN res => meta.create = rev
  <2>1. CASE k \in DOMAIN res
    <3>1. res[k].meta \in Meta
      BY <2>1 DEF ObjectsOK, StoredBy
    <3>. QED  BY <2>1, <3>1, MetaFacts
  <2>2. CASE k \notin DOMAIN res
    <3>1. [create |-> 0, mod |-> 0, version |-> 0] \in Meta
      BY DEF Meta
    <3>. QED  BY <2>2, <3>1, MetaFacts
  <2>. QED  BY <2>1, <2>2
<1>2. meta.create <= rev
  <2>1. k \in DOMAIN res => res[k].meta.create <= rev
    BY DEF ObjectsOK, StoredBy, Meta
  <2>. QED  BY <1>1, <2>1
<1>3. out.res = new /\ out.changes = <<c>>
  BY DEF Upsert
<1>. HIDE DEF meta, out
<1>4. /\ DOMAIN new = DOMAIN res \cup {k} /\ new[k].val = v /\ new[k].meta = meta
      /\ \A j \in DOMAIN res : j # k => new[j] = res[j]
  OBVIOUS
<1>. HIDE DEF new
<1>5. prior \in Value \cup {Nil}
  BY ImageFacts
<1>. HIDE DEF prior
<1>6. /\ c \in Item /\ c.key = k /\ c.rev = rev /\ c.kind = "Put" /\ c.value = v
      /\ c.prior = prior /\ c.meta = meta
  BY <1>1, <1>5 DEF Change, Item
<1>. HIDE DEF c
<1>7. Tells(res, new, c)
  BY <1>1, <1>4, <1>6 DEF Tells, PutTells, prior
<1>8. Stamped(res, new, k, rev)
  <2>1. StoredBy(new[k], rev)
    BY <1>1, <1>2, <1>4 DEF StoredBy
  <2>2. k \in DOMAIN res => Succeeds(res[k], new[k])
    BY <1>1, <1>4 DEF Succeeds
  <2>. QED  BY <1>1, <1>4, <2>1, <2>2 DEF Stamped
<1>9. \A j \in Keys : j # k => SameAt(res, new, j)
  BY <1>4 DEF SameAt
<1>10. DOMAIN new \subseteq Keys
  BY <1>4 DEF ObjectsOK
<1>11. Moved(out, res, c)
  BY <1>3, <1>6, <1>7, <1>8, <1>9, <1>10 DEF Moved
<1>. QED  BY <1>3, <1>6, <1>11 DEF Moves, out

\* Removing an object.
LEMMA RemovalMoves ==
  ASSUME NEW rev \in Nat \ {0}, NEW res, ObjectsOK(res, rev), NEW k \in DOMAIN res,
         NEW v \in Value, v = res[k].val \/ v.rv = rev
  PROVE  Moves(Removal(res, k, v, rev), res, k, rev)
<1>. DEFINE new == Without(res, k)
            c == Change(rev, k, "Delete", v, v, res[k].meta)
            out == Removal(res, k, v, rev)
<1>1. out.res = new /\ out.changes = <<c>>
  BY DEF Removal
<1>2. /\ DOMAIN new = DOMAIN res \ {k}
      /\ \A j \in DOMAIN res : j # k => new[j] = res[j]
  BY DEF Without
<1>3. k \in Keys /\ res[k].meta \in Meta
  BY DEF ObjectsOK, StoredBy
<1>. HIDE DEF new, out
<1>4. /\ c \in Item /\ c.key = k /\ c.rev = rev /\ c.kind = "Delete" /\ c.value = v
      /\ c.prior = v /\ c.meta = res[k].meta
  BY <1>3 DEF Change, Item
<1>. HIDE DEF c
<1>5. Tells(res, new, c)
  BY <1>2, <1>4 DEF Tells, DeleteTells
<1>6. Stamped(res, new, k, rev)
  BY <1>2 DEF Stamped
<1>7. \A j \in Keys : j # k => SameAt(res, new, j)
  BY <1>2 DEF SameAt
<1>8. DOMAIN new \subseteq Keys
  BY <1>2 DEF ObjectsOK
<1>9. Moved(out, res, c)
  BY <1>1, <1>4, <1>5, <1>6, <1>7, <1>8 DEF Moved
<1>. QED  BY <1>1, <1>4, <1>9 DEF Moves, out

\* stamp, then release or store.
LEMMA CommitMoves ==
  ASSUME NEW rev \in Nat \ {0}, NEW res, ObjectsOK(res, rev), NEW op, NEW k \in Keys,
         NEW cand \in Value, cand.uid # NoUid, k \in DOMAIN res => cand.uid = res[k].val.uid
  PROVE  Moves(Commit1(op, res, k, cand, rev), res, k, rev)
<1>. DEFINE prior == ImageOf(res, k)
            g == ComputeGeneration(prior, cand)
            new == [cand EXCEPT !.rv = rev, !.gen = g]
<1>1. /\ prior \in Value \cup {Nil} /\ (prior = Nil <=> k \notin DOMAIN res)
      /\ k \in DOMAIN res => prior = res[k].val
  BY ImageFacts
<1>2. Commit1(op, res, k, cand, rev) =
        IF prior # Nil /\ Released(new) THEN Removal(res, k, new, rev)
        ELSE Upsert(op, res, k, new, rev)
  BY DEF Commit1
<1>. HIDE DEF prior
<1>3. /\ g \in Nat
      /\ prior # Nil => prior.gen <= g /\ (prior.gen = g => prior.spec = cand.spec)
  BY <1>1, GenerationFacts
<1>. HIDE DEF g
<1>4. /\ new \in Value /\ new.rv = rev /\ new.gen = g /\ new.uid = cand.uid
      /\ new.spec = cand.spec
  BY <1>3 DEF Value
<1>. HIDE DEF new
<1>5. CASE prior # Nil /\ Released(new)
  BY <1>1, <1>2, <1>4, <1>5, RemovalMoves
<1>6. CASE ~(prior # Nil /\ Released(new))
  <2>1. k \in DOMAIN res => /\ new.uid = res[k].val.uid /\ res[k].val.gen <= new.gen
                            /\ res[k].val.gen = new.gen => res[k].val.spec = new.spec
    BY <1>1, <1>3, <1>4
  <2>2. Moves(Upsert(op, res, k, new, rev), res, k, rev)
    BY <1>4, <2>1, UpsertMoves
  <2>. QED  BY <1>2, <1>6, <2>2
<1>. QED  BY <1>5, <1>6

\* A command that changes nothing.
LEMMA NothingDone ==
  ASSUME NEW op, NEW res, NEW k, NEW rev
  PROVE  Did(NoChange(op, res), res, k, rev)
  BY DEF NoChange, Did, Quiet

\* Put (state.rs apply_put).
LEMMA PutDid ==
  ASSUME NEW rev \in Nat \ {0}, NEW res, ObjectsOK(res, rev), NEW k \in Keys,
         NEW body \in Value, NEW e, NEW s
  PROVE  Did(ApplyPut(res, k, body, e, s, rev), res, k, rev)
<1>. DEFINE prior == ImageOf(res, k)
            cand == StampIdentity(body, prior, rev)
            out == ApplyPut(res, k, body, e, s, rev)
<1>1. /\ prior \in Value \cup {Nil} /\ (prior # Nil => prior.uid # NoUid)
      /\ k \in DOMAIN res => prior # Nil /\ prior = res[k].val
  BY ImageFacts
<1>2. \/ \E op : out = NoChange(op, res)
      \/ \E op : out = Commit1(op, res, k, cand, rev)
  BY DEF ApplyPut
<1>. HIDE DEF prior, out
<1>3. cand \in Value /\ cand.uid # NoUid
  BY <1>1, IdentityFacts
<1>4. prior # Nil => cand.uid = prior.uid
  BY <1>1, IdentityFacts
<1>. HIDE DEF cand
<1>5. ASSUME NEW op, out = Commit1(op, res, k, cand, rev)  PROVE Moves(out, res, k, rev)
  BY <1>1, <1>3, <1>4, <1>5, CommitMoves
<1>. QED  BY <1>2, <1>5, NothingDone DEF Did, out

\* Patch (state.rs apply_patch).
LEMMA PatchDid ==
  ASSUME NEW rev \in Nat \ {0}, NEW res, ObjectsOK(res, rev), NEW k \in Keys,
         NEW p \in Patches \cup {Nil}, NEW e, NEW s
  PROVE  Did(ApplyPatch(res, k, p, e, s, rev), res, k, rev)
<1>. DEFINE prior == ImageOf(res, k)
            cand == Merged(prior, p)
            out == ApplyPatch(res, k, p, e, s, rev)
<1>1. /\ prior \in Value \cup {Nil} /\ (prior # Nil => prior.uid # NoUid)
      /\ k \in DOMAIN res => prior # Nil /\ prior = res[k].val
  BY ImageFacts
<1>2. \/ \E op : out = NoChange(op, res)
      \/ prior # Nil /\ p # Nil /\ \E op : out = Commit1(op, res, k, cand, rev)
  BY DEF ApplyPatch
<1>. HIDE DEF prior, out
<1>3. ASSUME prior # Nil, p # Nil, NEW op, out = Commit1(op, res, k, cand, rev)
      PROVE  Moves(out, res, k, rev)
  <2>1. cand \in Value /\ cand.uid = prior.uid
    BY <1>1, <1>3, MergedFacts
  <2>. HIDE DEF cand
  <2>. QED  BY <1>1, <1>3, <2>1, CommitMoves
<1>. QED  BY <1>2, <1>3, NothingDone DEF Did, out

\* Server-side apply (state.rs apply_ssa_command).
LEMMA SsaDid ==
  ASSUME NEW rev \in Nat \ {0}, NEW res, ObjectsOK(res, rev), NEW k \in Keys,
         NEW p \in Patches, NEW conflict, NEW e, NEW s
  PROVE  Did(ApplySsa(res, k, p, conflict, e, s, rev), res, k, rev)
<1>. DEFINE prior == ImageOf(res, k)
            base == IF prior = Nil THEN Blank ELSE prior
            body == Merged(base, p)
            cand == StampIdentity(body, prior, rev)
            out == ApplySsa(res, k, p, conflict, e, s, rev)
<1>1. /\ prior \in Value \cup {Nil} /\ (prior # Nil => prior.uid # NoUid)
      /\ k \in DOMAIN res => prior # Nil /\ prior = res[k].val
  BY ImageFacts
<1>2. \/ \E op : out = NoChange(op, res)
      \/ \E op : out = Commit1(op, res, k, cand, rev)
  BY DEF ApplySsa
<1>. HIDE DEF prior, out
<1>3. base \in Value
  BY <1>1, BlankFacts
<1>. HIDE DEF base
<1>4. body \in Value
  BY <1>3, MergedFacts
<1>. HIDE DEF body
<1>5. cand \in Value /\ cand.uid # NoUid
  BY <1>1, <1>4, IdentityFacts
<1>6. prior # Nil => cand.uid = prior.uid
  BY <1>1, <1>4, IdentityFacts
<1>. HIDE DEF cand
<1>7. ASSUME NEW op, out = Commit1(op, res, k, cand, rev)  PROVE Moves(out, res, k, rev)
  BY <1>1, <1>5, <1>6, <1>7, CommitMoves
<1>. QED  BY <1>2, <1>7, NothingDone DEF Did, out

\* Delete (state.rs apply_delete): the finalizer gate.
LEMMA DeleteDid ==
  ASSUME NEW rev \in Nat \ {0}, NEW res, ObjectsOK(res, rev), NEW k \in Keys,
         NEW e, NEW clock
  PROVE  Did(ApplyDelete(res, k, e, clock, rev), res, k, rev)
<1>. DEFINE v == [res[k].val EXCEPT !.del = TRUE, !.rv = rev]
            out == ApplyDelete(res, k, e, clock, rev)
<1>1. \/ \E op : out = NoChange(op, res)
      \/ k \in DOMAIN res /\ out = Removal(res, k, res[k].val, rev)
      \/ k \in DOMAIN res /\ out = Upsert("DeletionPending", res, k, v, rev)
  BY DEF ApplyDelete
<1>. HIDE DEF out
<1>2. CASE k \in DOMAIN res /\ out = Removal(res, k, res[k].val, rev)
  <2>1. res[k].val \in Value
    BY <1>2 DEF ObjectsOK, StoredBy
  <2>. QED  BY <1>2, <2>1, RemovalMoves DEF Did, out
<1>3. CASE k \in DOMAIN res /\ out = Upsert("DeletionPending", res, k, v, rev)
  <2>1. res[k].val \in Value /\ res[k].val.uid # NoUid
    BY <1>3 DEF ObjectsOK, StoredBy
  <2>2. /\ v \in Value /\ v.uid = res[k].val.uid /\ v.rv = rev /\ v.gen = res[k].val.gen
        /\ v.spec = res[k].val.spec
    BY <2>1 DEF Value
  <2>3. res[k].val.gen <= v.gen
    BY <2>1, <2>2, ValueFacts
  <2>. HIDE DEF v
  <2>4. Moves(out, res, k, rev)
    BY <1>3, <2>1, <2>2, <2>3, UpsertMoves
  <2>. QED  BY <2>4 DEF Did, out
<1>. QED  BY <1>1, <1>2, <1>3, NothingDone DEF out

\* What a command leaves is a catalog of its revision.
LEMMA MovedObjects ==
  ASSUME NEW rev \in Nat, NEW res, ObjectsOK(res, rev), NEW k \in Keys,
         NEW out, Did(out, res, k, rev)
  PROVE  ObjectsOK(out.res, rev)
<1>1. CASE Quiet(out, res)
  BY <1>1 DEF Quiet
<1>2. CASE Moves(out, res, k, rev)
  <2>1. /\ DOMAIN out.res \subseteq Keys /\ Stamped(res, out.res, k, rev)
        /\ \A j \in Keys : j # k => SameAt(res, out.res, j)
    BY <1>2 DEF Moves, Moved
  <2>2. ASSUME NEW j \in DOMAIN out.res  PROVE StoredBy(out.res[j], rev)
    BY <2>1 DEF Stamped, SameAt, ObjectsOK
  <2>. QED  BY <2>1, <2>2 DEF ObjectsOK
<1>. QED  BY <1>1, <1>2 DEF Did

-----------------------------------------------------------------------------
(* A committed revision: one change for each key it touched. *)

Records(out, res, rev) ==
    /\ out.changes \in Seq(Item) /\ out.changes # <<>> /\ DOMAIN out.res \subseteq Keys
    /\ \A i \in 1..Len(out.changes) :
         /\ out.changes[i].rev = rev /\ Tells(res, out.res, out.changes[i])
         /\ Stamped(res, out.res, out.changes[i].key, rev)
    /\ \A i, j \in 1..Len(out.changes) : out.changes[i].key = out.changes[j].key => i = j
    /\ \A k \in Keys : (\A i \in 1..Len(out.changes) : out.changes[i].key # k)
                          => SameAt(res, out.res, k)

Outcome(out, res, rev) == Quiet(out, res) \/ Records(out, res, rev)

\* A command for one key.
LEMMA OneKey ==
  ASSUME NEW rev, NEW res, NEW k, NEW out, Did(out, res, k, rev)
  PROVE  Outcome(out, res, rev)
<1>1. CASE Moves(out, res, k, rev)
  <2>1. PICK c \in Item : out.changes = <<c>> /\ c.key = k /\ c.rev = rev /\ Moved(out, res, c)
    BY <1>1 DEF Moves
  <2>2. /\ out.changes \in Seq(Item) /\ out.changes # <<>> /\ Len(out.changes) = 1
        /\ out.changes[1] = c
    BY <2>1
  <2>3. \A i \in 1..Len(out.changes) : i = 1
    BY <2>2
  <2>. QED  BY <2>1, <2>2, <2>3 DEF Records, Outcome, Moved
<1>. QED  BY <1>1 DEF Did, Outcome

\* What a change tells of a step depends on its key alone.
LEMMA TellsLocal ==
  ASSUME NEW p, NEW q, NEW p2, NEW q2, NEW c, SameAt(p, p2, c.key), SameAt(q, q2, c.key),
         Tells(p, q, c)
  PROVE  Tells(p2, q2, c)
  BY DEF SameAt, Tells, PutTells, DeleteTells, ImageOf

\* What a revision made of a key depends on that key alone.
LEMMA StampedLocal ==
  ASSUME NEW p, NEW q, NEW p2, NEW q2, NEW k, NEW rev, SameAt(p, p2, k), SameAt(q, q2, k),
         Stamped(p, q, k, rev)
  PROVE  Stamped(p2, q2, k, rev)
  BY DEF SameAt, Stamped

\* Two commands for two keys, under one revision.
LEMMA TwoKeys ==
  ASSUME NEW rev, NEW res, NEW a \in Keys, NEW b \in Keys, a # b,
         NEW one, Did(one, res, a, rev), NEW two, Did(two, one.res, b, rev),
         NEW out, out.res = two.res, out.changes = one.changes \o two.changes
  PROVE  Outcome(out, res, rev)
<1>1. CASE Quiet(one, res)
  <2>1. one.changes = <<>> /\ one.res = res
    BY <1>1 DEF Quiet
  <2>2. two.changes = <<>> \/ \E c \in Item : two.changes = <<c>>
    BY DEF Did, Quiet, Moves
  <2>3. out.changes = two.changes
    BY <2>1, <2>2
  <2>4. Did(out, res, b, rev)
    BY <2>1, <2>3 DEF Did, Quiet, Moves, Moved
  <2>. QED  BY <2>4, OneKey
<1>2. CASE Moves(one, res, a, rev) /\ Quiet(two, one.res)
  <2>1. two.changes = <<>> /\ two.res = one.res
    BY <1>2 DEF Quiet
  <2>2. \E c \in Item : one.changes = <<c>>
    BY <1>2 DEF Moves
  <2>3. out.changes = one.changes
    BY <2>1, <2>2
  <2>4. Did(out, res, a, rev)
    BY <1>2, <2>1, <2>3 DEF Did, Moves, Moved
  <2>. QED  BY <2>4, OneKey
<1>3. CASE Moves(one, res, a, rev) /\ Moves(two, one.res, b, rev)
  <2>1. PICK c \in Item : one.changes = <<c>> /\ c.key = a /\ c.rev = rev /\ Moved(one, res, c)
    BY <1>3 DEF Moves
  <2>2. PICK d \in Item : two.changes = <<d>> /\ d.key = b /\ d.rev = rev /\ Moved(two, one.res, d)
    BY <1>3 DEF Moves
  <2>3. /\ out.changes \in Seq(Item) /\ out.changes # <<>> /\ Len(out.changes) = 2
        /\ out.changes[1] = c /\ out.changes[2] = d
    BY <2>1, <2>2
  <2>4. \A i \in 1..Len(out.changes) : i = 1 \/ i = 2
    BY <2>3
  <2>5. SameAt(one.res, out.res, a) /\ SameAt(res, one.res, b)
    BY <2>1, <2>2 DEF Moved
  <2>6. SameAt(res, res, a) /\ SameAt(out.res, out.res, b) /\ SameAt(one.res, res, b)
    BY <2>5 DEF SameAt
  <2>7. Tells(res, out.res, c) /\ Stamped(res, out.res, a, rev)
    <3>1. Tells(res, one.res, c) /\ Stamped(res, one.res, a, rev)
      BY <2>1 DEF Moved
    <3>2. Tells(res, out.res, c)
      BY <2>1, <2>5, <2>6, <3>1, TellsLocal
    <3>3. Stamped(res, out.res, a, rev)
      BY <2>5, <2>6, <3>1, StampedLocal
    <3>. QED  BY <3>2, <3>3
  <2>8. Tells(res, out.res, d) /\ Stamped(res, out.res, b, rev)
    <3>1. Tells(one.res, out.res, d) /\ Stamped(one.res, out.res, b, rev)
      BY <2>2 DEF Moved
    <3>2. Tells(res, out.res, d)
      BY <2>2, <2>6, <3>1, TellsLocal
    <3>3. Stamped(res, out.res, b, rev)
      BY <2>6, <3>1, StampedLocal
    <3>. QED  BY <3>2, <3>3
  <2>9. ASSUME NEW k \in Keys, k # a, k # b  PROVE SameAt(res, out.res, k)
    <3>1. SameAt(res, one.res, k) /\ SameAt(one.res, out.res, k)
      BY <2>1, <2>2, <2>9 DEF Moved
    <3>. QED  BY <3>1 DEF SameAt
  <2>10. DOMAIN out.res \subseteq Keys
    BY <2>2 DEF Moved
  <2>11. \A i \in 1..Len(out.changes) :
           /\ out.changes[i].rev = rev /\ Tells(res, out.res, out.changes[i])
           /\ Stamped(res, out.res, out.changes[i].key, rev)
    BY <2>1, <2>2, <2>3, <2>4, <2>7, <2>8
  <2>12. \A i, j \in 1..Len(out.changes) : out.changes[i].key = out.changes[j].key => i = j
    BY <2>1, <2>2, <2>3, <2>4
  <2>13. \A k \in Keys : (\A i \in 1..Len(out.changes) : out.changes[i].key # k)
                            => SameAt(res, out.res, k)
    <3>1. 1 \in 1..Len(out.changes) /\ 2 \in 1..Len(out.changes)
      BY <2>3
    <3>. QED  BY <2>1, <2>2, <2>3, <2>9, <3>1
  <2>. QED  BY <2>3, <2>10, <2>11, <2>12, <2>13 DEF Records, Outcome
<1>. QED  BY <1>1, <1>2, <1>3 DEF Did

\* The loop of apply_txn over the ops of a branch.
IsRun(f, zero, branch, rev) ==
    f = [n \in 0..Len(branch) |-> IF n = 0 THEN zero ELSE TxnStep(f[n - 1], branch[n], rev)]

\* Over at most two ops the loop is one run, and this is its result.
LEMMA RunExists ==
  ASSUME NEW zero, NEW branch, NEW rev, Len(branch) \in 0..2
  PROVE  \E f : IsRun(f, zero, branch, rev)
<1>. DEFINE one == TxnStep(zero, branch[1], rev)
            two == TxnStep(one, branch[2], rev)
            g == [n \in 0..Len(branch) |-> IF n = 0 THEN zero ELSE IF n = 1 THEN one ELSE two]
<1>1. ASSUME NEW n \in 0..Len(branch)
      PROVE  g[n] = IF n = 0 THEN zero ELSE TxnStep(g[n - 1], branch[n], rev)
  <2>1. n = 0 \/ n = 1 \/ n = 2
    OBVIOUS
  <2>2. CASE n = 0
    BY <2>2
  <2>3. CASE n = 1
    <3>1. g[0] = zero /\ g[1] = one /\ n - 1 = 0
      BY <2>3
    <3>. QED  BY <2>3, <3>1 DEF one
  <2>4. CASE n = 2
    <3>1. g[1] = one /\ g[2] = two /\ n - 1 = 1
      BY <2>4
    <3>. QED  BY <2>4, <3>1 DEF two
  <2>. QED  BY <2>1, <2>2, <2>3, <2>4
<1>. HIDE DEF one, two
<1>2. g = [n \in 0..Len(branch) |-> g[n]]
  OBVIOUS
<1>. HIDE DEF g
<1>3. g = [n \in 0..Len(branch) |-> IF n = 0 THEN zero ELSE TxnStep(g[n - 1], branch[n], rev)]
  BY <1>1, <1>2, Zenon
<1>. QED  BY <1>3 DEF IsRun

\* What a transaction of at most two ops computes.
LEMMA RunResult ==
  ASSUME NEW zero, NEW branch, NEW rev, Len(branch) \in 0..2, NEW f, IsRun(f, zero, branch, rev)
  PROVE  /\ Len(branch) = 0 => f[Len(branch)] = zero
         /\ Len(branch) = 1 => f[Len(branch)] = TxnStep(zero, branch[1], rev)
         /\ Len(branch) = 2 => f[Len(branch)] =
                                 TxnStep(TxnStep(zero, branch[1], rev), branch[2], rev)
<1>1. \A n \in 0..Len(branch) : f[n] = IF n = 0 THEN zero ELSE TxnStep(f[n - 1], branch[n], rev)
  BY Zenon DEF IsRun
<1>2. f[0] = zero
  BY <1>1
<1>3. Len(branch) > 0 => f[1] = TxnStep(f[0], branch[1], rev)
  <2>1. Len(branch) > 0 => 1 \in 0..Len(branch) /\ 1 # 0 /\ 1 - 1 = 0
    OBVIOUS
  <2>. QED  BY <1>1, <2>1
<1>4. Len(branch) = 2 => f[2] = TxnStep(f[1], branch[2], rev)
  <2>1. Len(branch) = 2 => 2 \in 0..Len(branch) /\ 2 # 0 /\ 2 - 1 = 1
    OBVIOUS
  <2>. QED  BY <1>1, <2>1
<1>. QED  BY <1>2, <1>3, <1>4

\* An op of a transaction is a command for its key.
LEMMA OpDid ==
  ASSUME NEW rev \in Nat \ {0}, NEW acc, ObjectsOK(acc.res, rev), NEW op \in TxnOps
  PROVE  /\ op.key \in Keys
         /\ \E did : /\ Did(did, acc.res, op.key, rev)
                     /\ TxnStep(acc, op, rev).res = did.res
                     /\ TxnStep(acc, op, rev).changes = acc.changes \o did.changes
<1>1. op.key \in Keys
  BY DEF TxnOps
<1>2. CASE op.kind = "Put"
  <2>1. op.body \in Value
    BY <1>2, CatalogAssumption DEF TxnOps
  <2>. DEFINE did == ApplyPut(acc.res, op.key, op.body, None, "Commit", rev)
  <2>2. Did(did, acc.res, op.key, rev)
    BY <1>1, <2>1, PutDid
  <2>3. /\ TxnStep(acc, op, rev).res = did.res
        /\ TxnStep(acc, op, rev).changes = acc.changes \o did.changes
    BY <1>2 DEF TxnStep
  <2>. HIDE DEF did
  <2>. QED  BY <1>1, <2>2, <2>3
<1>3. CASE op.kind # "Put"
  <2>. DEFINE did == ApplyDelete(acc.res, op.key, None, TRUE, rev)
  <2>2. Did(did, acc.res, op.key, rev)
    BY <1>1, DeleteDid
  <2>3. /\ TxnStep(acc, op, rev).res = did.res
        /\ TxnStep(acc, op, rev).changes = acc.changes \o did.changes
    BY <1>3 DEF TxnStep
  <2>. HIDE DEF did
  <2>. QED  BY <1>1, <2>2, <2>3
<1>. QED  BY <1>2, <1>3

\* A transaction of one or two ops on distinct keys is one committed revision.
LEMMA TxnOutcome ==
  ASSUME NEW rev \in Nat \ {0}, NEW res, ObjectsOK(res, rev), NEW cs, NEW success, NEW failure,
         \A br \in {success, failure} :
           /\ Len(br) \in 0..2 /\ \A i \in 1..Len(br) : br[i] \in TxnOps
           /\ Len(br) = 2 => br[1].key # br[2].key
  PROVE  Outcome(ApplyTxn(res, cs, success, failure, rev), res, rev)
<1>. DEFINE br == IF \A c \in cs : EvalCompare(res, c) THEN success ELSE failure
            zero == NoChange("NoOp", res)
            run == CHOOSE f : IsRun(f, zero, br, rev)
            end == run[Len(br)]
            out == ApplyTxn(res, cs, success, failure, rev)
<1>1. out = IF end.changes = <<>> THEN NoChange("NoOp", end.res) ELSE end
  BY DEF ApplyTxn, IsRun
<1>2. /\ Len(br) \in 0..2 /\ \A i \in 1..Len(br) : br[i] \in TxnOps
      /\ Len(br) = 2 => br[1].key # br[2].key
  <2>1. br \in {success, failure}
    OBVIOUS
  <2>. HIDE DEF br
  <2>. QED  BY <2>1, Zenon
<1>. HIDE DEF br, out
<1>3. /\ Len(br) = 0 => end = zero
      /\ Len(br) = 1 => end = TxnStep(zero, br[1], rev)
      /\ Len(br) = 2 => end = TxnStep(TxnStep(zero, br[1], rev), br[2], rev)
  <2>. HIDE DEF zero
  <2>1. IsRun(run, zero, br, rev)
    BY <1>2, RunExists
  <2>. HIDE DEF run
  <2>. QED  BY <1>2, <2>1, RunResult
<1>. HIDE DEF end
<1>4. zero.res = res /\ zero.changes = <<>>
  BY DEF NoChange
<1>. HIDE DEF zero
<1>5. Outcome(end, res, rev)
  <2>1. CASE Len(br) = 0
    BY <1>3, <1>4, <2>1 DEF Outcome, Quiet
  <2>2. CASE Len(br) > 0
    <3>. DEFINE first == TxnStep(zero, br[1], rev)
    <3>1. br[1] \in TxnOps /\ br[1].key \in Keys
      <4>1. 1 \in 1..Len(br)
        BY <1>2, <2>2
      <4>2. br[1] \in TxnOps
        BY <1>2, <4>1
      <4>. QED  BY <4>2 DEF TxnOps
    <3>2. PICK one : /\ Did(one, res, br[1].key, rev) /\ first.res = one.res
                     /\ first.changes = <<>> \o one.changes
      <4>1. ObjectsOK(zero.res, rev)
        BY <1>4
      <4>2. PICK one : /\ Did(one, zero.res, br[1].key, rev) /\ first.res = one.res
                       /\ first.changes = zero.changes \o one.changes
        BY <3>1, <4>1, OpDid
      <4>. QED  BY <1>4, <4>2
    <3>3. first.changes = one.changes
      BY <3>2 DEF Did, Quiet, Moves
    <3>. HIDE DEF first
    <3>4. Did(first, res, br[1].key, rev)
      BY <3>2, <3>3 DEF Did, Quiet, Moves, Moved
    <3>5. CASE Len(br) = 1
      BY <1>3, <3>4, <3>5, OneKey DEF first
    <3>6. CASE Len(br) = 2
      <4>1. br[2] \in TxnOps /\ br[2].key \in Keys /\ br[1].key # br[2].key
        BY <1>2, <3>6 DEF TxnOps
      <4>2. ObjectsOK(first.res, rev)
        BY <3>1, <3>4, MovedObjects
      <4>3. end = TxnStep(first, br[2], rev)
        BY <1>3, <3>6 DEF first
      <4>4. PICK two : /\ Did(two, first.res, br[2].key, rev) /\ end.res = two.res
                       /\ end.changes = first.changes \o two.changes
        BY <4>1, <4>2, <4>3, OpDid
      <4>. QED  BY <3>1, <3>4, <4>1, <4>4, TwoKeys
    <3>. QED  BY <1>2, <2>2, <3>5, <3>6
  <2>. QED  BY <1>2, <2>1, <2>2
<1>6. CASE end.changes = <<>>
  <2>1. end.res = res
    BY <1>5, <1>6 DEF Outcome, Quiet, Records
  <2>. QED  BY <1>1, <1>6, <2>1 DEF NoChange, Outcome, Quiet, out
<1>7. CASE end.changes # <<>>
  BY <1>1, <1>5, <1>7 DEF out
<1>. QED  BY <1>6, <1>7

-----------------------------------------------------------------------------
(* The past grows by what a command leaves. *)

\* A sequence and one more element.
LEMMA Appended ==
  ASSUME NEW p, p \in Seq({p[i] : i \in DOMAIN p}), NEW x, NEW q, q = Append(p, x)
  PROVE  /\ q \in Seq({q[i] : i \in DOMAIN q}) /\ Len(p) \in Nat /\ Len(q) = Len(p) + 1
         /\ q[Len(p) + 1] = x /\ \A i \in 1..Len(p) : q[i] = p[i]
<1>. DEFINE R == {p[i] : i \in DOMAIN p}
            S == R \cup {x}
            T == {q[i] : i \in DOMAIN q}
<1>1. p \in Seq(S)
  <2>1. R \subseteq S
    OBVIOUS
  <2>. HIDE DEF S, R
  <2>. QED  BY <2>1, SeqMonotonic DEF R
<1>2. x \in S
  OBVIOUS
<1>. HIDE DEF S
<1>3. /\ Len(p) \in Nat /\ q \in Seq(S) /\ Len(q) = Len(p) + 1 /\ q[Len(p) + 1] = x
      /\ \A i \in 1..Len(p) : q[i] = p[i]
  BY <1>1, <1>2
<1>4. q \in [1..Len(q) -> S] /\ Len(q) \in Nat /\ DOMAIN q = 1..Len(q)
  BY <1>3, LenProperties, Zenon
<1>5. \A i \in 1..Len(q) : q[i] \in T
  BY <1>4
<1>. HIDE DEF T
<1>6. q \in [1..Len(q) -> T]
  BY <1>4, <1>5
<1>7. q \in UNION {[1..n -> T] : n \in Nat}
  BY <1>4, <1>6
<1>8. q \in Seq(T)
  BY <1>7, SeqDef, Zenon
<1>. QED  BY <1>3, <1>8 DEF T

\* What revision r leaves of a key, whether or not the revision touched it.
LEMMA RecordedKey ==
  ASSUME NEW rev \in Nat \ {0}, NEW res, ObjectsOK(res, rev - 1), NEW out, Records(out, res, rev),
         NEW k \in DOMAIN out.res
  PROVE  /\ k \in Keys /\ StoredBy(out.res[k], rev)
         /\ \/ k \in DOMAIN res /\ out.res[k] = res[k]
            \/ Stamped(res, out.res, k, rev)
<1>1. k \in Keys
  BY DEF Records
<1>2. CASE \A i \in 1..Len(out.changes) : out.changes[i].key # k
  <2>1. k \in DOMAIN res /\ out.res[k] = res[k]
    BY <1>1, <1>2 DEF Records, SameAt
  <2>2. StoredBy(res[k], rev - 1)
    BY <2>1 DEF ObjectsOK
  <2>3. StoredBy(res[k], rev)
    BY <2>2 DEF StoredBy, Meta
  <2>. QED  BY <1>1, <2>1, <2>3
<1>3. CASE \E i \in 1..Len(out.changes) : out.changes[i].key = k
  <2>1. Stamped(res, out.res, k, rev)
    BY <1>3 DEF Records
  <2>. QED  BY <1>1, <2>1 DEF Stamped
<1>. QED  BY <1>2, <1>3

\* The past stays in step with the objects when a command commits.
LEMMA PastGrows ==
  ASSUME NEW head \in Nat, NEW p, NEW now, PastOK(p, now, head), NEW out,
         Records(out, now, head + 1), NEW q, q = Append(p, out.res)
  PROVE  PastOK(q, out.res, head + 1)
<1>0. p \in Seq({p[i] : i \in DOMAIN p}) /\ Len(p) = head + 1
  BY DEF PastOK
<1>1. q \in Seq({q[i] : i \in DOMAIN q})
  BY <1>0, Appended
<1>2. /\ Len(q) = head + 2 /\ q[head + 2] = out.res /\ \A i \in 1..(head + 1) : q[i] = p[i]
  <2>1. Len(q) = Len(p) + 1 /\ q[Len(p) + 1] = out.res /\ \A i \in 1..Len(p) : q[i] = p[i]
    BY <1>0, Appended
  <2>. QED  BY <1>0, <2>1
<1>3. ObjectsOK(now, head) /\ p[head + 1] = now
  BY DEF PastOK
<1>4. \A r \in 0..(head + 1) : ObjectsOK(q[r + 1], r)
  <2>1. ASSUME NEW r \in 0..head  PROVE ObjectsOK(q[r + 1], r)
    BY <1>2, <2>1 DEF PastOK
  <2>2. ObjectsOK(out.res, head + 1)
    <3>1. head + 1 \in Nat \ {0} /\ ObjectsOK(now, (head + 1) - 1)
      BY <1>3
    <3>2. \A k \in DOMAIN out.res : k \in Keys /\ StoredBy(out.res[k], head + 1)
      BY <3>1, RecordedKey
    <3>. QED  BY <3>2 DEF ObjectsOK
  <2>3. \A r \in 0..(head + 1) : r \in 0..head \/ r = head + 1
    OBVIOUS
  <2>. QED  BY <1>2, <2>1, <2>2, <2>3
<1>5. Identified(q, out.res, head + 1)
  <2>. SUFFICES ASSUME NEW r \in 0..(head + 1), NEW k \in DOMAIN out.res, k \in DOMAIN q[r + 1]
                PROVE  LET o == q[r + 1][k]  n == out.res[k]
                       IN  /\ o.val.rv = n.val.rv => o = n
                           /\ o.meta.create = n.meta.create => Succeeds(o, n)
    BY Zenon DEF Identified
  <2>. DEFINE o == q[r + 1][k]  n == out.res[k]
  <2>1. /\ StoredBy(n, head + 1)
        /\ \/ k \in DOMAIN now /\ n = now[k]
           \/ Stamped(now, out.res, k, head + 1)
    <3>1. head + 1 \in Nat \ {0} /\ ObjectsOK(now, (head + 1) - 1)
      BY <1>3
    <3>. QED  BY <3>1, RecordedKey
  <2>2. CASE r = head + 1
    <3>1. o = n
      BY <1>2, <2>2
    <3>2. n.val.gen \in Nat
      BY <2>1 DEF StoredBy, Value
    <3>. HIDE DEF o, n
    <3>3. Succeeds(o, n)
      BY <3>1, <3>2 DEF Succeeds
    <3>. QED  BY <3>1, <3>3 DEF o, n
  <2>3. CASE r \in 0..head
    <3>1. o = p[r + 1][k] /\ k \in DOMAIN p[r + 1]
      BY <1>2, <2>3
    <3>2. StoredBy(o, r)
      BY <2>3, <3>1 DEF PastOK, ObjectsOK
    <3>. HIDE DEF o, n
    <3>3. ASSUME NEW m, k \in DOMAIN now, m = now[k]
          PROVE  /\ o.val.rv = m.val.rv => o = m
                 /\ o.meta.create = m.meta.create => Succeeds(o, m)
      BY <2>3, <3>1, <3>3 DEF PastOK, Identified
    <3>4. CASE k \in DOMAIN now /\ n = now[k]
      BY <3>3, <3>4 DEF o, n
    <3>5. CASE Stamped(now, out.res, k, head + 1)
      <4>1. /\ n.meta.mod = head + 1 /\ n.val.rv = head + 1
            /\ k \in DOMAIN now => Succeeds(now[k], n)
            /\ k \notin DOMAIN now => n.meta.create = head + 1
        BY <3>5 DEF Stamped, StoredBy, n
      <4>2. o.val.rv # n.val.rv /\ o.meta.create # head + 1
        <5>1. o.meta.create \in Nat /\ o.meta.mod \in Nat
          BY <3>2 DEF StoredBy, Meta
        <5>2. o.val.rv = o.meta.mod /\ o.meta.create <= o.meta.mod /\ o.meta.mod <= r
          BY <3>2 DEF StoredBy
        <5>. QED  BY <2>3, <4>1, <5>1, <5>2
      <4>3. ASSUME o.meta.create = n.meta.create  PROVE Succeeds(o, n)
        <5>1. k \in DOMAIN now
          BY <4>1, <4>2, <4>3
        <5>2. PICK m : m = now[k]
          OBVIOUS
        <5>3. Succeeds(m, n) /\ StoredBy(m, head)
          BY <1>3, <4>1, <5>1, <5>2 DEF ObjectsOK
        <5>4. Succeeds(o, m)
          BY <3>3, <4>3, <5>1, <5>2, <5>3 DEF Succeeds
        <5>5. o.val.gen \in Nat /\ m.val.gen \in Nat /\ n.val.gen \in Nat
          BY <2>1, <3>2, <5>3 DEF StoredBy, Value
        <5>. QED  BY <5>3, <5>4, <5>5 DEF Succeeds
      <4>. QED  BY <4>2, <4>3 DEF o, n
    <3>. QED  BY <2>1, <3>4, <3>5
  <2>4. r = head + 1 \/ r \in 0..head
    OBVIOUS
  <2>. QED  BY <2>2, <2>3, <2>4
<1>6. head + 2 = (head + 1) + 1
  OBVIOUS
<1>7. Len(q) = (head + 1) + 1 /\ q[(head + 1) + 1] = out.res
  BY <1>2, <1>6
<1>. QED  BY <1>1, <1>4, <1>5, <1>7, Zenon DEF PastOK

-----------------------------------------------------------------------------
(* The ring tells the steps of the past above its floor. *)

\* Items carry natural revisions.
LEMMA ItemRevisioned == Revisioned(Item)
  BY DEF Revisioned, Item

\* Draining the ring up to a revision.
LEMMA DrainTells ==
  ASSUME NEW floor \in Nat, NEW head \in Nat, NEW p, NEW s, RingTells(s, floor, head, p),
         NEW f \in floor..head, NEW n \in 0..Len(s), Splits(s, f, n)
  PROVE  RingTells(Drain(s, n), f, head, p)
<1>. DEFINE d == Drain(s, n)
<1>1. s \in Seq(Item) /\ Len(s) \in Nat /\ \A i \in 1..Len(s) : s[i].rev \in Nat
  <2>1. s \in Seq(Item)
    BY DEF RingTells
  <2>. QED  BY <2>1, ItemRevisioned DEF Revisioned
<1>2. /\ d \in Seq(Item) /\ Len(d) = Len(s) - n
      /\ \A i \in 1..(Len(s) - n) : d[i] = s[n + i]
  <2>1. n + 1 \in 1..(Len(s) + 1) /\ n + 1 \in Int
    BY <1>1
  <2>2. SubSeq(s, n + 1, Len(s)) \in Seq(Item)
    BY <1>1, <2>1, SubSeqProperties
  <2>3. Len(d) = Len(s) - n
    BY <1>1, <2>1, SubSeqProperties DEF Drain
  <2>4. ASSUME NEW i \in 1..(Len(s) - n)  PROVE d[i] = s[n + i]
    <3>1. SubSeq(s, n + 1, Len(s))[i] = s[(n + 1) + i - 1]
      BY <1>1, <2>1, <2>4, SubSeqProperties
    <3>2. (n + 1) + i - 1 = n + i
      BY <1>1
    <3>. QED  BY <3>1, <3>2 DEF Drain
  <2>. QED  BY <2>2, <2>3, <2>4 DEF Drain
<1>. HIDE DEF d
<1>3. \A i \in 1..Len(d) : n + i \in 1..Len(s) /\ n + i \in (n + 1)..Len(s) /\ d[i] = s[n + i]
  BY <1>1, <1>2
<1>4. InOrder(d)
  <2>1. ASSUME NEW i \in 1..Len(d), NEW j \in 1..Len(d), i <= j  PROVE d[i].rev <= d[j].rev
    <3>1. n + i <= n + j
      BY <1>1, <1>2, <2>1
    <3>. QED  BY <1>3, <3>1 DEF RingTells, InOrder
  <2>. QED  BY <2>1 DEF InOrder
<1>5. \A i \in 1..Len(d) : /\ d[i].rev \in (f + 1)..head
                           /\ Tells(p[d[i].rev], p[d[i].rev + 1], d[i])
  <2>1. ASSUME NEW i \in 1..Len(d)
        PROVE  d[i].rev \in (f + 1)..head /\ Tells(p[d[i].rev], p[d[i].rev + 1], d[i])
    <3>1. s[n + i].rev > f
      BY <1>3 DEF Splits
    <3>2. s[n + i].rev \in (floor + 1)..head
      BY <1>3 DEF RingTells
    <3>3. Tells(p[s[n + i].rev], p[s[n + i].rev + 1], s[n + i])
      BY <1>3 DEF RingTells
    <3>. QED  BY <1>3, <3>1, <3>2, <3>3
  <2>. QED  BY <2>1
<1>6. ASSUME NEW r \in (f + 1)..head, NEW k \in Keys,
             \A i \in 1..Len(d) : d[i].rev = r => d[i].key # k
      PROVE  SameAt(p[r], p[r + 1], k)
  <2>1. ASSUME NEW i \in 1..Len(s), s[i].rev = r  PROVE s[i].key # k
    <3>1. ~(i \in 1..n)
      BY <1>1, <2>1 DEF Splits
    <3>2. i - n \in 1..Len(d) /\ n + (i - n) = i
      BY <1>1, <1>2, <3>1
    <3>3. d[i - n] = s[i]
      BY <1>3, <3>2
    <3>. QED  BY <1>6, <2>1, <3>2, <3>3
  <2>2. r \in (floor + 1)..head
    OBVIOUS
  <2>. QED  BY <2>1, <2>2 DEF RingTells
<1>7. ASSUME NEW i \in 1..Len(d), NEW j \in 1..Len(d),
             d[i].rev = d[j].rev, d[i].key = d[j].key
      PROVE  i = j
  <2>1. n + i = n + j
    <3>1. /\ n + i \in 1..Len(s) /\ n + j \in 1..Len(s)
          /\ s[n + i].rev = s[n + j].rev /\ s[n + i].key = s[n + j].key
      BY <1>3, <1>7
    <3>. QED  BY <3>1 DEF RingTells
  <2>. QED  BY <1>1, <1>2, <2>1
<1>. QED  BY <1>2, <1>4, <1>5, <1>6, <1>7 DEF RingTells, d

\* A committed revision at the end of the ring.
LEMMA CommitTells ==
  ASSUME NEW floor \in Nat, NEW head \in Nat, floor <= head, NEW p, NEW ring,
         RingTells(ring, floor, head, p), NEW out, Records(out, p[head + 1], head + 1),
         NEW q, q[head + 2] = out.res, \A i \in 1..(head + 1) : q[i] = p[i],
         NEW s, s = ring \o out.changes
  PROVE  RingTells(s, floor, head + 1, q)
<1>. DEFINE cs == out.changes
            m == Len(ring)
<1>1. ring \in Seq(Item) /\ cs \in Seq(Item) /\ m \in Nat /\ Len(cs) \in Nat
  BY DEF RingTells, Records
<1>2. /\ s \in Seq(Item) /\ Len(s) = m + Len(cs)
      /\ \A i \in 1..m : s[i] = ring[i]
      /\ \A i \in (m + 1)..(m + Len(cs)) : s[i] = cs[i - m]
  BY <1>1, ConcatParts
<1>3. \A i \in 1..m : ring[i].rev \in (floor + 1)..head
  BY DEF RingTells
<1>4. \A i \in 1..Len(cs) : cs[i].rev = head + 1
  BY DEF Records
<1>5. \A i \in 1..Len(s) : i \in 1..m \/ (i \in (m + 1)..(m + Len(cs)) /\ i - m \in 1..Len(cs))
  BY <1>1, <1>2
<1>. HIDE DEF m
<1>6. InOrder(s)
  <2>1. ASSUME NEW i \in 1..Len(s), NEW j \in 1..Len(s), i <= j  PROVE s[i].rev <= s[j].rev
    <3>1. CASE i \in 1..m /\ j \in 1..m
      BY <1>2, <2>1, <3>1 DEF RingTells, InOrder, m
    <3>2. CASE j \in (m + 1)..(m + Len(cs)) /\ j - m \in 1..Len(cs)
      <4>1. s[j].rev = head + 1
        BY <1>2, <1>4, <3>2
      <4>2. s[i].rev \in (floor + 1)..head \/ s[i].rev = head + 1
        <5>1. i \in 1..m \/ (i \in (m + 1)..(m + Len(cs)) /\ i - m \in 1..Len(cs))
          BY <1>5
        <5>2. CASE i \in 1..m
          BY <1>2, <1>3, <5>2
        <5>3. CASE i \in (m + 1)..(m + Len(cs)) /\ i - m \in 1..Len(cs)
          BY <1>2, <1>4, <5>3
        <5>. QED  BY <5>1, <5>2, <5>3
      <4>. QED  BY <4>1, <4>2
    <3>3. CASE ~(i \in 1..m) /\ j \in 1..m
      BY <1>1, <1>5, <2>1, <3>3
    <3>. QED  BY <1>5, <3>1, <3>2, <3>3
  <2>. QED  BY <2>1 DEF InOrder
<1>7. ASSUME NEW i \in 1..Len(s)
      PROVE  s[i].rev \in (floor + 1)..(head + 1) /\ Tells(q[s[i].rev], q[s[i].rev + 1], s[i])
  <2>1. CASE i \in 1..m
    <3>1. s[i] = ring[i] /\ s[i].rev \in (floor + 1)..head
      BY <1>2, <1>3, <2>1
    <3>2. q[s[i].rev] = p[s[i].rev] /\ q[s[i].rev + 1] = p[s[i].rev + 1]
      <4>1. s[i].rev \in 1..(head + 1) /\ s[i].rev + 1 \in 1..(head + 1)
        BY <3>1
      <4>. QED  BY <4>1
    <3>3. Tells(p[s[i].rev], p[s[i].rev + 1], s[i])
      BY <2>1, <3>1 DEF RingTells, m
    <3>. QED  BY <3>1, <3>2, <3>3
  <2>2. CASE i \in (m + 1)..(m + Len(cs)) /\ i - m \in 1..Len(cs)
    <3>1. s[i] = cs[i - m] /\ s[i].rev = head + 1
      BY <1>2, <1>4, <2>2
    <3>2. Tells(p[head + 1], out.res, s[i])
      BY <2>2, <3>1 DEF Records
    <3>3. q[head + 1] = p[head + 1] /\ (head + 1) + 1 = head + 2
      OBVIOUS
    <3>. QED  BY <3>1, <3>2, <3>3
  <2>. QED  BY <1>5, <2>1, <2>2
<1>8. ASSUME NEW r \in (floor + 1)..(head + 1), NEW k \in Keys,
             \A i \in 1..Len(s) : s[i].rev = r => s[i].key # k
      PROVE  SameAt(q[r], q[r + 1], k)
  <2>1. CASE r = head + 1
    <3>1. ASSUME NEW i \in 1..Len(cs)  PROVE cs[i].key # k
      <4>1. m + i \in 1..Len(s) /\ m + i \in (m + 1)..(m + Len(cs)) /\ (m + i) - m = i
        BY <1>1, <1>2 DEF m
      <4>2. s[m + i] = cs[i]
        BY <1>2, <4>1
      <4>. QED  BY <1>4, <1>8, <2>1, <4>1, <4>2
    <3>2. SameAt(p[head + 1], out.res, k)
      BY <3>1 DEF Records
    <3>3. q[r] = p[head + 1] /\ q[r + 1] = out.res
      BY <2>1
    <3>. QED  BY <3>2, <3>3
  <2>2. CASE r \in (floor + 1)..head
    <3>1. \A i \in 1..m : ring[i].rev = r => ring[i].key # k
      BY <1>1, <1>2, <1>8 DEF m
    <3>2. SameAt(p[r], p[r + 1], k)
      BY <2>2, <3>1 DEF RingTells, m
    <3>3. q[r] = p[r] /\ q[r + 1] = p[r + 1]
      BY <2>2
    <3>. QED  BY <3>2, <3>3
  <2>. QED  BY <2>1, <2>2
<1>9. ASSUME NEW i \in 1..Len(s), NEW j \in 1..Len(s),
             s[i].rev = s[j].rev, s[i].key = s[j].key
      PROVE  i = j
  <2>1. CASE i \in 1..m /\ j \in 1..m
    BY <1>2, <1>9, <2>1 DEF RingTells, m
  <2>2. CASE i - m \in 1..Len(cs) /\ j - m \in 1..Len(cs)
    <3>1. s[i] = cs[i - m] /\ s[j] = cs[j - m]
      BY <1>1, <1>2, <2>2 DEF m
    <3>2. i - m = j - m
      BY <1>9, <2>2, <3>1 DEF Records
    <3>. QED  BY <1>1, <3>2 DEF m
  <2>3. CASE i \in 1..m /\ j - m \in 1..Len(cs)
    <3>1. s[i].rev \in (floor + 1)..head
      BY <1>2, <1>3, <2>3
    <3>2. s[j] = cs[j - m]
      BY <1>1, <1>2, <2>3 DEF m
    <3>3. s[j].rev = head + 1
      BY <1>4, <2>3, <3>2
    <3>. QED  BY <1>9, <3>1, <3>3
  <2>4. CASE i - m \in 1..Len(cs) /\ j \in 1..m
    <3>1. s[j].rev \in (floor + 1)..head
      BY <1>2, <1>3, <2>4
    <3>2. s[i] = cs[i - m]
      BY <1>1, <1>2, <2>4 DEF m
    <3>3. s[i].rev = head + 1
      BY <1>4, <2>4, <3>2
    <3>. QED  BY <1>9, <3>1, <3>3
  <2>. QED  BY <1>5, <2>1, <2>2, <2>3, <2>4
<1>. QED  BY <1>2, <1>6, <1>7, <1>8, <1>9 DEF RingTells

-----------------------------------------------------------------------------
(* The steps. *)

\* An empty catalog has an empty past and an empty ring.
LEMMA InitIInv == Init => IInv
<1>. SUFFICES ASSUME Init PROVE IInv
  OBVIOUS
<1>1. /\ catalog = [resources |-> <<>>, history |-> [ring |-> <<>>, floor |-> 0, head |-> 0]]
      /\ past = << <<>> >>
  BY DEF Init, EmptyCatalog, NewHistory
<1>2. /\ DOMAIN catalog = {"resources", "history"} /\ catalog.resources = <<>>
      /\ catalog.history = [ring |-> <<>>, floor |-> 0, head |-> 0]
      /\ Floor = 0 /\ Head1 = 0 /\ catalog.history.ring = <<>>
  BY <1>1 DEF Floor, Head1
<1>3. catalog.history \in [ring: Seq(Item), floor: Nat, head: Nat]
  BY <1>2
<1>4. PastOK(past, catalog.resources, Head1)
  <2>1. Len(past) = 1 /\ past[1] = <<>> /\ DOMAIN past = 1..1 /\ DOMAIN past[1] = {}
    BY <1>1
  <2>2. past \in Seq({past[i] : i \in DOMAIN past})
    <3>. DEFINE T == {past[i] : i \in DOMAIN past}
    <3>1. << >> \in T
      BY <2>1
    <3>. HIDE DEF T
    <3>2. past \in Seq(T)
      BY <1>1, <3>1
    <3>. QED  BY <3>2 DEF T
  <2>3. \A r \in 0..0 : r = 0 /\ r + 1 = 1
    OBVIOUS
  <2>4. \A r \in 0..0 : ObjectsOK(past[r + 1], r)
    BY <2>1, <2>3 DEF ObjectsOK
  <2>5. Identified(past, <<>>, 0)
    BY <2>1, <2>3 DEF Identified
  <2>. QED  BY <1>2, <2>1, <2>2, <2>4, <2>5 DEF PastOK
<1>5. RingTells(<<>>, 0, 0, past)
  BY DEF RingTells, InOrder
<1>. QED  BY <1>2, <1>3, <1>4, <1>5 DEF IInv

\* A command whose outcome is one committed revision, or none.
LEMMA CommitsIInv ==
  ASSUME IInv, NEW out, Outcome(out, catalog.resources, Head1 + 1), Commits(out)
  PROVE  IInv'
<1>. DEFINE h == catalog.history
            head == h.head
            s == h.ring \o out.changes
            n == EvictPoint(s)
            f == IF n = 0 THEN h.floor ELSE s[n].rev
<1>1. /\ h.ring \in Seq(Item) /\ h.floor \in Nat /\ head \in Nat /\ h.floor <= head
      /\ PastOK(past, catalog.resources, head) /\ RingTells(h.ring, h.floor, head, past)
  BY DEF IInv, Floor, Head1
<1>2. CASE out.changes = <<>>
  <2>1. out.res = catalog.resources
    BY <1>2 DEF Outcome, Quiet, Records
  <2>2. /\ DOMAIN catalog' = {"resources", "history"} /\ catalog'.resources = catalog.resources
        /\ catalog'.history = catalog.history /\ past' = past
    BY <1>2, <2>1 DEF Commits, CommitOutcome
  <2>. QED  BY <2>2 DEF IInv, Floor, Head1
<1>3. CASE out.changes # <<>>
  <2>1. Records(out, catalog.resources, head + 1)
    BY <1>3 DEF Outcome, Quiet, Head1
  <2>2. /\ catalog' = [resources |-> out.res,
                       history |-> [ring |-> Drain(s, n), floor |-> f, head |-> head + 1]]
        /\ past' = Append(past, out.res)
    BY <1>3 DEF Commits, CommitOutcome, Commit, Evict
  <2>3. /\ DOMAIN catalog' = {"resources", "history"} /\ catalog'.resources = out.res
        /\ catalog'.history = [ring |-> Drain(s, n), floor |-> f, head |-> head + 1]
    BY <2>2
  <2>. HIDE DEF h, head, s, n
  <2>4. PastOK(past', out.res, head + 1)
    BY <1>1, <2>1, <2>2, PastGrows
  <2>5. past'[head + 2] = out.res /\ \A i \in 1..(head + 1) : past'[i] = past[i]
    <3>1. past \in Seq({past[i] : i \in DOMAIN past}) /\ Len(past) = head + 1
      BY <1>1 DEF PastOK
    <3>2. past'[Len(past) + 1] = out.res /\ \A i \in 1..Len(past) : past'[i] = past[i]
      BY <2>2, <3>1, Appended
    <3>3. Len(past) + 1 = head + 2
      BY <1>1, <3>1
    <3>. QED  BY <3>1, <3>2, <3>3
  <2>6. past[head + 1] = catalog.resources
    BY <1>1 DEF PastOK
  <2>7. RingTells(s, h.floor, head + 1, past')
    BY <1>1, <2>1, <2>5, <2>6, CommitTells DEF s
  <2>8. s \in Seq(Item) /\ InOrder(s) /\ Len(s) \in Nat
        /\ \A i \in 1..Len(s) : s[i].rev \in (h.floor + 1)..(head + 1)
    BY <2>7 DEF RingTells
  <2>9. n \in 0..Len(s) /\ Boundary(s, n)
    BY <2>8, EvictPointExists DEF n
  <2>10. f \in h.floor..(head + 1)
    BY <1>1, <2>8, <2>9
  <2>11. Splits(s, f, n)
    <3>1. CASE n = 0
      <4>1. f = h.floor
        BY <3>1
      <4>. QED  BY <1>1, <2>8, <3>1, <4>1 DEF Splits
    <3>2. CASE n # 0
      <4>1. f = s[n].rev /\ n \in 1..Len(s)
        BY <2>8, <2>9, <3>2
      <4>2. \A i \in 1..n : s[i].rev <= f
        BY <2>8, <4>1 DEF InOrder
      <4>3. ASSUME NEW i \in (n + 1)..Len(s)  PROVE s[i].rev > f
        <5>1. n # Len(s) /\ n + 1 \in 1..Len(s) /\ i \in 1..Len(s) /\ n <= n + 1 /\ n + 1 <= i
          BY <2>8, <4>1
        <5>2. s[n].rev # s[n + 1].rev
          BY <2>9, <3>2, <5>1 DEF Boundary
        <5>3. s[n].rev <= s[n + 1].rev /\ s[n + 1].rev <= s[i].rev
          BY <2>8, <4>1, <5>1 DEF InOrder
        <5>4. s[n].rev \in Nat /\ s[n + 1].rev \in Nat /\ s[i].rev \in Nat
          <6>1. s[n] \in Item /\ s[n + 1] \in Item /\ s[i] \in Item
            BY <2>8, <4>1, <5>1
          <6>. QED  BY <6>1, ItemRevisioned DEF Revisioned
        <5>. QED  BY <4>1, <5>2, <5>3, <5>4
      <4>. QED  BY <4>2, <4>3 DEF Splits
    <3>. QED  BY <3>1, <3>2
  <2>. HIDE DEF f
  <2>12. RingTells(Drain(s, n), f, head + 1, past')
    BY <1>1, <2>7, <2>9, <2>10, <2>11, DrainTells
  <2>13. Drain(s, n) \in Seq(Item) /\ f \in Nat /\ head + 1 \in Nat /\ f <= head + 1
    BY <1>1, <2>10, <2>12 DEF RingTells
  <2>14. catalog'.history \in [ring: Seq(Item), floor: Nat, head: Nat]
    BY <2>3, <2>13
  <2>15. Floor' = f /\ Head1' = head + 1 /\ catalog'.history.ring = Drain(s, n)
    BY <2>3 DEF Floor, Head1
  <2>. QED  BY <2>3, <2>4, <2>12, <2>13, <2>14, <2>15 DEF IInv
<1>. QED  BY <1>2, <1>3

\* compact (state.rs): a higher floor, and the ring drained up to it.
LEMMA CompactIInv ==
  ASSUME IInv, NEW target \in 1..Head1, CompactTo(target)
  PROVE  IInv'
<1>. DEFINE h == catalog.history
            t == IF target < h.head THEN target ELSE h.head
            d == Drain(h.ring, PartitionPoint(h.ring, t))
<1>1. /\ h \in [ring: Seq(Item), floor: Nat, head: Nat] /\ h.floor <= h.head
      /\ h.ring \in Seq(Item) /\ h.floor \in Nat /\ h.head \in Nat /\ t \in Nat /\ t <= h.head
      /\ PastOK(past, catalog.resources, h.head) /\ RingTells(h.ring, h.floor, h.head, past)
  BY DEF IInv, Floor, Head1
<1>2. /\ catalog' = [catalog EXCEPT !.history = Compact(@, target)] /\ past' = past
      /\ catalog' # catalog
  BY DEF CompactTo
<1>3. /\ DOMAIN catalog' = {"resources", "history"} /\ catalog'.resources = catalog.resources
      /\ catalog'.history = Compact(h, target)
  BY <1>2 DEF IInv
<1>4. CASE ~(t > h.floor)
  <2>1. Compact(h, target) = h
    BY <1>4 DEF Compact
  <2>. QED  BY <1>2, <1>3, <2>1 DEF IInv, Floor, Head1
<1>5. CASE t > h.floor
  <2>1. Compact(h, target) = [h EXCEPT !.ring = d, !.floor = t]
    BY <1>5 DEF Compact
  <2>. HIDE DEF h, t
  <2>2. RingTells(d, t, h.head, past)
    <3>. DEFINE n == PartitionPoint(h.ring, t)
    <3>1. InOrder(h.ring)
      BY <1>1 DEF RingTells
    <3>2. n \in 0..Len(h.ring) /\ Splits(h.ring, t, n)
      BY <1>1, <3>1, ItemRevisioned, PartitionPointSplits
    <3>3. t \in h.floor..h.head
      BY <1>1, <1>5
    <3>. HIDE DEF n
    <3>4. RingTells(Drain(h.ring, n), t, h.head, past)
      BY <1>1, <3>2, <3>3, DrainTells
    <3>. QED  BY <3>4 DEF n
  <2>. HIDE DEF d
  <2>3. d \in Seq(Item)
    BY <2>2 DEF RingTells
  <2>4. PICK g : g = Compact(h, target)
    OBVIOUS
  <2>5. /\ g \in [ring: Seq(Item), floor: Nat, head: Nat]
        /\ g.ring = d /\ g.floor = t /\ g.head = h.head
    BY <1>1, <2>1, <2>3, <2>4
  <2>6. catalog'.history = g
    BY <1>3, <2>4
  <2>7. Floor' = t /\ Head1' = h.head
    BY <2>5, <2>6 DEF Floor, Head1
  <2>. QED  BY <1>1, <1>2, <1>3, <2>2, <2>5, <2>6, <2>7 DEF IInv
<1>. QED  BY <1>4, <1>5

\* A reload (state.rs deserialize) keeps the objects and empties the ring.
LEMMA ReloadIInv == IInv /\ Reload => IInv'
<1>. SUFFICES ASSUME IInv, Reload PROVE IInv'
  OBVIOUS
<1>1. /\ DOMAIN catalog' = {"resources", "history"} /\ catalog'.resources = catalog.resources
      /\ catalog'.history = [ring |-> <<>>, floor |-> Head1, head |-> Head1] /\ past' = past
  BY DEF IInv, Reload, Reloaded, LoadedAt, Head1
<1>2. Head1 \in Nat /\ PastOK(past, catalog.resources, Head1)
  BY DEF IInv, Head1
<1>3. /\ catalog'.history \in [ring: Seq(Item), floor: Nat, head: Nat]
      /\ Floor' = Head1 /\ Head1' = Head1 /\ catalog'.history.ring = <<>>
  BY <1>1, <1>2 DEF Floor, Head1
<1>4. RingTells(<<>>, Head1, Head1, past)
  BY <1>2 DEF RingTells, InOrder
<1>. QED  BY <1>1, <1>2, <1>3, <1>4 DEF IInv

\* Every command, compaction and reload keeps the invariant.
LEMMA NextIInv == IInv /\ [Next]_vars => IInv'
<1>. SUFFICES ASSUME IInv, [Next]_vars PROVE IInv'
  OBVIOUS
<1>. DEFINE res == catalog.resources
            rev == Head1 + 1
<1>1. Head1 \in Nat /\ rev \in Nat \ {0} /\ NextRevision(catalog) = rev
  BY DEF IInv, Head1, NextRevision
<1>2. ObjectsOK(res, rev)
  <2>1. ObjectsOK(res, Head1)
    BY <1>1 DEF IInv, PastOK
  <2>. QED  BY <1>1, <2>1 DEF ObjectsOK, StoredBy, Meta
<1>. HIDE DEF rev, res
<1>3. ASSUME NEW out, NEW k \in Keys, Did(out, res, k, rev), Commits(out)  PROVE IInv'
  BY <1>3, OneKey, CommitsIInv DEF rev, res
<1>4. ASSUME NEW k \in Keys, NEW e, NEW s, NEW b \in Bodies, Put(k, b, e, s)  PROVE IInv'
  <2>1. b \in Value
    BY CatalogAssumption
  <2>2. Did(ApplyPut(res, k, b, e, s, rev), res, k, rev)
    BY <1>1, <1>2, <2>1, PutDid
  <2>. QED  BY <1>1, <1>3, <1>4, <2>2 DEF Put, res
<1>5. ASSUME NEW k \in Keys, NEW e, NEW s, NEW p \in Patches \cup {Nil}, Patch(k, p, e, s)
      PROVE  IInv'
  <2>1. Did(ApplyPatch(res, k, p, e, s, rev), res, k, rev)
    BY <1>1, <1>2, PatchDid
  <2>. QED  BY <1>1, <1>3, <1>5, <2>1 DEF Patch, res
<1>6. ASSUME NEW k \in Keys, NEW e, NEW s, NEW p \in Patches, NEW c,
             ServerSideApply(k, p, c, e, s)
      PROVE  IInv'
  <2>1. Did(ApplySsa(res, k, p, c, e, s, rev), res, k, rev)
    BY <1>1, <1>2, SsaDid
  <2>. QED  BY <1>1, <1>3, <1>6, <2>1 DEF ServerSideApply, res
<1>7. ASSUME NEW k \in Keys, NEW e, NEW clock, Delete(k, e, clock)  PROVE IInv'
  <2>1. Did(ApplyDelete(res, k, e, clock, rev), res, k, rev)
    BY <1>1, <1>2, DeleteDid
  <2>. QED  BY <1>1, <1>3, <1>7, <2>1 DEF Delete, res
<1>8. ASSUME NEW cs, NEW success, NEW failure, Txn(cs, success, failure),
             \A br \in {success, failure} :
               /\ Len(br) \in 0..2 /\ \A i \in 1..Len(br) : br[i] \in TxnOps
               /\ Len(br) = 2 => br[1].key # br[2].key
      PROVE  IInv'
  <2>1. Outcome(ApplyTxn(res, cs, success, failure, rev), res, rev)
    BY <1>1, <1>2, <1>8, TxnOutcome
  <2>. QED  BY <1>1, <1>8, <2>1, CommitsIInv DEF Txn, res, rev
<1>9. ASSUME NEW cs, NEW a \in TxnOps, NEW b \in TxnOps, a.key # b.key, Txn(cs, <<a, b>>, <<a>>)
      PROVE  IInv'
  <2>1. /\ Len(<<a, b>>) = 2 /\ Len(<<a>>) = 1 /\ <<a>>[1] = a
        /\ <<a, b>>[1] = a /\ <<a, b>>[2] = b
    OBVIOUS
  <2>2. \A i \in 1..2 : i = 1 \/ i = 2
    OBVIOUS
  <2>3. \A i \in 1..1 : i = 1
    OBVIOUS
  <2>4. \A br \in {<<a, b>>, <<a>>} :
          /\ Len(br) \in 0..2 /\ \A i \in 1..Len(br) : br[i] \in TxnOps
          /\ Len(br) = 2 => br[1].key # br[2].key
    BY <1>9, <2>1, <2>2, <2>3
  <2>. QED  BY <1>8, <1>9, <2>4
<1>10. ASSUME NEW cs, NEW a \in TxnOps, Txn(cs, <<a>>, <<>>)  PROVE IInv'
  <2>1. \A i \in 1..1 : i = 1
    OBVIOUS
  <2>2. \A br \in {<<a>>, <<>>} :
          /\ Len(br) \in 0..2 /\ \A i \in 1..Len(br) : br[i] \in TxnOps
          /\ Len(br) = 2 => br[1].key # br[2].key
    BY <2>1
  <2>. QED  BY <1>8, <1>10, <2>2
<1>11. CASE UNCHANGED vars
  BY <1>11 DEF vars, IInv, Floor, Head1
<1>. QED
  BY <1>4, <1>5, <1>6, <1>7, <1>9, <1>10, <1>11, CompactIInv, ReloadIInv, Zenon DEF Next

\* The ring, the past and the objects stay in step.
THEOREM Inductive == Spec => []IInv
<1>1. Init => IInv
  BY InitIInv
<1>2. IInv /\ [Next]_vars => IInv'
  BY NextIInv
<1>. QED  BY <1>1, <1>2, PTL DEF Spec

-----------------------------------------------------------------------------
(* Stamps. *)

\* The objects of every revision, and their stamps, from the invariant.
LEMMA IInvStamps == IInv => StampsSound
<1>. SUFFICES ASSUME IInv PROVE StampsSound
  OBVIOUS
<1>1. /\ Head1 \in Nat /\ Floor \in Nat /\ Floor <= Head1
      /\ PastOK(past, catalog.resources, Head1)
      /\ RingTells(catalog.history.ring, Floor, Head1, past)
  BY DEF IInv, Floor, Head1
<1>2. ObjectsOK(catalog.resources, Head1) /\ Objects(Head1) = catalog.resources
  BY <1>1 DEF PastOK, Objects
<1>3. TypeOK
  <2>1. DOMAIN catalog.resources \subseteq Keys
    BY <1>2 DEF ObjectsOK
  <2>2. \A k \in DOMAIN catalog.resources :
          catalog.resources[k].val \in Value /\ catalog.resources[k].meta \in Meta
    BY <1>2 DEF ObjectsOK, StoredBy
  <2>3. Len(past) = Head1 + 1
    BY <1>1 DEF PastOK
  <2>4. \A i \in 1..Len(catalog.history.ring) :
          catalog.history.ring[i].rev \in (Floor + 1)..Head1
    BY <1>1 DEF RingTells
  <2>. QED  BY <1>1, <1>2, <2>1, <2>2, <2>3, <2>4 DEF TypeOK
<1>4. VersionIdentifies
  <2>1. \A k \in DOMAIN catalog.resources :
          catalog.resources[k].val.rv = catalog.resources[k].meta.mod
    BY <1>2 DEF ObjectsOK, StoredBy
  <2>2. \A k \in DOMAIN catalog.resources : \A r \in 0..Head1 :
          k \in DOMAIN Objects(r) /\ Objects(r)[k].val.rv = catalog.resources[k].val.rv
              => Objects(r)[k] = catalog.resources[k]
    BY <1>1 DEF PastOK, Identified, Objects
  <2>. QED  BY <2>1, <2>2 DEF VersionIdentifies
<1>5. GenerationSound
  BY <1>1 DEF PastOK, Identified, Objects, Succeeds, GenerationSound
<1>. QED  BY <1>3, <1>4, <1>5 DEF StampsSound

(***************************************************************************)
(* What the store stamps can be relied upon (state.rs stamp_revision,      *)
(* compute_generation_on_put, stamp_identity): a resourceVersion names one *)
(* version of an object, and equal generations of one incarnation mean     *)
(* equal specs.                                                            *)
(***************************************************************************)
THEOREM StampsSoundAlways == Spec => []StampsSound
<1>1. IInv => StampsSound
  BY IInvStamps
<1>. QED  BY <1>1, Inductive, PTL

-----------------------------------------------------------------------------
(* Reading the past back out of a ring. *)

\* The ring up to a revision.
LEMMA PrefixTells ==
  ASSUME NEW floor \in Nat, NEW head \in Nat, NEW p, NEW s, RingTells(s, floor, head, p),
         NEW r \in floor..head, NEW n \in 0..Len(s), Splits(s, r, n)
  PROVE  RingTells(SubSeq(s, 1, n), floor, r, p)
<1>. DEFINE d == SubSeq(s, 1, n)
<1>1. s \in Seq(Item) /\ Len(s) \in Nat /\ \A i \in 1..Len(s) : s[i].rev \in Nat
  <2>1. s \in Seq(Item)
    BY DEF RingTells
  <2>. QED  BY <2>1, ItemRevisioned DEF Revisioned
<1>2. d \in Seq(Item) /\ Len(d) = n /\ \A i \in 1..n : d[i] = s[i]
  <2>1. n \in Nat /\ n <= Len(s)
    BY <1>1
  <2>. QED  BY <1>1, <2>1
<1>. HIDE DEF d
<1>3. \A i \in 1..Len(d) : i \in 1..Len(s) /\ d[i] = s[i] /\ s[i].rev <= r
  BY <1>1, <1>2 DEF Splits
<1>4. InOrder(d)
  BY <1>3 DEF RingTells, InOrder
<1>5. \A i \in 1..Len(d) : /\ d[i].rev \in (floor + 1)..r
                           /\ Tells(p[d[i].rev], p[d[i].rev + 1], d[i])
  <2>1. ASSUME NEW i \in 1..Len(d)
        PROVE  d[i].rev \in (floor + 1)..r /\ Tells(p[d[i].rev], p[d[i].rev + 1], d[i])
    <3>1. s[i].rev \in (floor + 1)..head
      BY <1>3 DEF RingTells
    <3>2. Tells(p[s[i].rev], p[s[i].rev + 1], s[i])
      BY <1>3 DEF RingTells
    <3>. QED  BY <1>3, <3>1, <3>2
  <2>. QED  BY <2>1
<1>6. ASSUME NEW q \in (floor + 1)..r, NEW k \in Keys,
             \A i \in 1..Len(d) : d[i].rev = q => d[i].key # k
      PROVE  SameAt(p[q], p[q + 1], k)
  <2>1. ASSUME NEW i \in 1..Len(s), s[i].rev = q  PROVE s[i].key # k
    <3>1. ~(i \in (n + 1)..Len(s))
      BY <1>1, <2>1 DEF Splits
    <3>2. i \in 1..Len(d)
      BY <1>1, <1>2, <3>1
    <3>. QED  BY <1>3, <1>6, <2>1, <3>2
  <2>2. q \in (floor + 1)..head
    OBVIOUS
  <2>. QED  BY <2>1, <2>2 DEF RingTells
<1>7. ASSUME NEW i \in 1..Len(d), NEW j \in 1..Len(d),
             d[i].rev = d[j].rev, d[i].key = d[j].key
      PROVE  i = j
  BY <1>3, <1>7 DEF RingTells
<1>. QED  BY <1>2, <1>4, <1>5, <1>6, <1>7 DEF RingTells, d

\* A key no change in between touches is the same at both ends.
LEMMA Stays ==
  ASSUME NEW floor \in Nat, NEW head \in Nat, NEW p, NEW s, RingTells(s, floor, head, p),
         NEW a \in floor..head, NEW b \in a..head, NEW k \in Keys,
         \A i \in 1..Len(s) : s[i].key = k => ~(s[i].rev \in (a + 1)..b)
  PROVE  SameAt(p[a + 1], p[b + 1], k)
<1>. DEFINE T == {n \in a..b : ~SameAt(p[a + 1], p[n + 1], k)}
<1>1. CASE T = {}
  <2>1. b \in a..b
    OBVIOUS
  <2>. QED  BY <1>1, <2>1
<1>2. CASE T # {}
  <2>1. T \in SUBSET Nat
    OBVIOUS
  <2>2. PICK n \in T : \A m \in T : n <= m
    <3>. HIDE DEF T
    <3>. QED  BY <1>2, <2>1, LeastNatural
  <2>3. n \in a..b /\ ~SameAt(p[a + 1], p[n + 1], k)
    BY <2>2
  <2>4. n # a
    BY <2>3 DEF SameAt
  <2>5. n - 1 \in a..b /\ ~(n <= n - 1) /\ (n - 1) + 1 = n /\ n \in (a + 1)..b
    BY <2>3, <2>4
  <2>6. SameAt(p[a + 1], p[(n - 1) + 1], k)
    BY <2>2, <2>5
  <2>7. SameAt(p[n], p[n + 1], k)
    <3>1. n \in (floor + 1)..head
      BY <2>5
    <3>2. \A i \in 1..Len(s) : s[i].rev = n => s[i].key # k
      BY <2>5
    <3>. QED  BY <3>1, <3>2 DEF RingTells
  <2>. QED  BY <2>3, <2>5, <2>6, <2>7 DEF SameAt
<1>. QED  BY <1>1, <1>2

\* The first change of a key tells how the key was below the ring.
LEMMA FirstDecides ==
  ASSUME NEW floor \in Nat, NEW head \in Nat, floor <= head, NEW p, NEW s,
         RingTells(s, floor, head, p), NEW k \in Keys,
         \E i \in 1..Len(s) : s[i].key = k, NEW c, c = FirstOf(s, k)
  PROVE  \E i \in 1..Len(s) :
           /\ c = s[i] /\ c.key = k /\ c.rev \in (floor + 1)..head
           /\ Tells(p[c.rev], p[c.rev + 1], c) /\ SameAt(p[floor + 1], p[c.rev], k)
           /\ \A j \in 1..(i - 1) : s[j].key # k
<1>. DEFINE T == {i \in 1..Len(s) : s[i].key = k}
            Is(i) == s[i].key = k /\ \A j \in 1..(i - 1) : s[j].key # k
<1>1. s \in Seq(Item) /\ Len(s) \in Nat
  BY DEF RingTells
<1>2. \E i \in 1..Len(s) : Is(i)
  <2>1. T \in SUBSET Nat /\ T # {}
    BY <1>1
  <2>2. PICK i \in T : \A j \in T : i <= j
    <3>. HIDE DEF T
    <3>. QED  BY <2>1, LeastNatural
  <2>3. ASSUME NEW j \in 1..(i - 1)  PROVE s[j].key # k
    <3>1. i \in 1..Len(s)
      BY <2>2
    <3>2. j \in 1..Len(s) /\ ~(i <= j)
      BY <1>1, <3>1
    <3>. QED  BY <2>2, <3>2
  <2>. QED  BY <2>2, <2>3
<1>3. PICK i \in 1..Len(s) : c = s[i] /\ Is(i)
  BY <1>2 DEF FirstOf
<1>4. c.key = k /\ c.rev \in (floor + 1)..head
  BY <1>3 DEF RingTells
<1>5. Tells(p[c.rev], p[c.rev + 1], c)
  BY <1>3 DEF RingTells
<1>6. SameAt(p[floor + 1], p[c.rev], k)
  <2>1. /\ floor \in floor..head /\ c.rev - 1 \in floor..head /\ (c.rev - 1) + 1 = c.rev
    BY <1>4
  <2>2. ASSUME NEW j \in 1..Len(s), s[j].key = k
        PROVE  ~(s[j].rev \in (floor + 1)..(c.rev - 1))
    <3>1. i <= j
      BY <1>1, <1>3, <2>2
    <3>2. c.rev <= s[j].rev
      BY <1>3, <3>1 DEF RingTells, InOrder
    <3>3. s[j].rev \in Nat /\ c.rev \in Nat
      BY <1>4 DEF RingTells
    <3>. QED  BY <3>2, <3>3
  <2>3. SameAt(p[floor + 1], p[(c.rev - 1) + 1], k)
    BY <2>1, <2>2, Stays
  <2>. QED  BY <2>1, <2>3
<1>. QED  BY <1>3, <1>4, <1>5, <1>6

\* The last change of a key tells how the key is at the end of the ring.
LEMMA LastDecides ==
  ASSUME NEW floor \in Nat, NEW head \in Nat, floor <= head, NEW p, NEW s,
         RingTells(s, floor, head, p), NEW k \in Keys, NEW i \in 1..Len(s), s[i].key = k,
         \A j \in (i + 1)..Len(s) : s[j].key # k
  PROVE  /\ s[i].rev \in (floor + 1)..head /\ Tells(p[s[i].rev], p[s[i].rev + 1], s[i])
         /\ SameAt(p[s[i].rev + 1], p[head + 1], k)
<1>1. s \in Seq(Item) /\ Len(s) \in Nat
  BY DEF RingTells
<1>2. s[i].rev \in (floor + 1)..head
  BY DEF RingTells
<1>3. Tells(p[s[i].rev], p[s[i].rev + 1], s[i])
  BY DEF RingTells
<1>4. SameAt(p[s[i].rev + 1], p[head + 1], k)
  <2>1. s[i].rev \in floor..head /\ head \in (s[i].rev)..head
    BY <1>2
  <2>2. ASSUME NEW j \in 1..Len(s), s[j].key = k
        PROVE  ~(s[j].rev \in (s[i].rev + 1)..head)
    <3>1. j <= i
      BY <1>1, <2>2
    <3>2. s[j].rev <= s[i].rev
      BY <3>1 DEF RingTells, InOrder
    <3>3. s[j].rev \in Nat
      <4>1. s[j].rev \in (floor + 1)..head
        BY DEF RingTells
      <4>. QED  BY <4>1
    <3>. QED  BY <1>2, <3>2, <3>3
  <2>. QED  BY <2>1, <2>2, Stays
<1>. QED  BY <1>2, <1>3, <1>4

\* LastOf finds it.
LEMMA LastOfFinds ==
  ASSUME NEW s \in Seq(Item), NEW k, \E i \in 1..Len(s) : s[i].key = k
  PROVE  \E i \in 1..Len(s) : /\ LastOf(s, k) = s[i] /\ s[i].key = k
                              /\ \A j \in (i + 1)..Len(s) : s[j].key # k
<1>. DEFINE Is(i) == s[i].key = k /\ \A j \in (i + 1)..Len(s) : s[j].key # k
            T == {n \in 0..Len(s) : \A j \in (n + 1)..Len(s) : s[j].key # k}
<1>1. Len(s) \in Nat
  OBVIOUS
<1>2. \E i \in 1..Len(s) : Is(i)
  <2>1. Len(s) \in T /\ T \in SUBSET Nat
    BY <1>1
  <2>2. PICK n \in T : \A m \in T : n <= m
    <3>. HIDE DEF T
    <3>. QED  BY <2>1, LeastNatural
  <2>3. n \in 0..Len(s) /\ \A j \in (n + 1)..Len(s) : s[j].key # k
    BY <2>2
  <2>4. n # 0
    <3>1. PICK i \in 1..Len(s) : s[i].key = k
      OBVIOUS
    <3>. QED  BY <1>1, <2>3, <3>1
  <2>5. n - 1 \in 0..Len(s) /\ ~(n <= n - 1) /\ n \in 1..Len(s)
    BY <1>1, <2>3, <2>4
  <2>6. ~(n - 1 \in T)
    BY <2>2, <2>5
  <2>7. PICK j \in ((n - 1) + 1)..Len(s) : s[j].key = k
    BY <2>5, <2>6
  <2>8. j = n
    BY <1>1, <2>3, <2>7
  <2>. QED  BY <2>3, <2>5, <2>7, <2>8
<1>. QED  BY <1>2 DEF LastOf

-----------------------------------------------------------------------------
(* Past reads. *)

\* What since and through return tell the steps above and below r.
LEMMA Windows ==
  ASSUME IInv, NEW r \in Window
  PROVE  /\ r \in Nat /\ Floor \in Nat /\ Head1 \in Nat /\ Floor <= r /\ r <= Head1
         /\ RingTells(Since(catalog.history, r), r, Head1, past)
         /\ RingTells(Through(catalog.history, r), Floor, r, past)
<1>. DEFINE ring == catalog.history.ring
            n == PartitionPoint(ring, r)
<1>1. /\ Floor \in Nat /\ Head1 \in Nat /\ r \in Floor..Head1 /\ r \in Nat
      /\ RingTells(ring, Floor, Head1, past)
  BY DEF IInv, Window, Floor, Head1
<1>2. ring \in Seq(Item) /\ InOrder(ring)
  BY <1>1 DEF RingTells
<1>. HIDE DEF ring
<1>3. n \in 0..Len(ring) /\ Splits(ring, r, n)
  BY <1>1, <1>2, ItemRevisioned, PartitionPointSplits
<1>. HIDE DEF n
<1>4. RingTells(Drain(ring, n), r, Head1, past)
  BY <1>1, <1>3, DrainTells
<1>5. RingTells(SubSeq(ring, 1, n), Floor, r, past)
  BY <1>1, <1>3, PrefixTells
<1>. QED  BY <1>1, <1>4, <1>5 DEF Since, Through, ring, n

\* The sets of changes of a key, and whether there are any.
LEMMA OfKey ==
  ASSUME NEW r, NEW k
  PROVE  /\ NewerOf(catalog, r, k) = {} <=>
              \A i \in 1..Len(Since(catalog.history, r)) : Since(catalog.history, r)[i].key # k
         /\ ThroughOf(catalog, r, k) = {} <=>
              \A i \in 1..Len(Through(catalog.history, r)) :
                 Through(catalog.history, r)[i].key # k
  BY DEF NewerOf, ThroughOf

\* The live objects, and those of every revision the window reaches.
LEMMA PastObjects ==
  ASSUME IInv, NEW r \in Window
  PROVE  /\ Objects(r) = past[r + 1] /\ ObjectsOK(Objects(r), r)
         /\ past[Head1 + 1] = catalog.resources
<1>1. Floor \in Nat /\ Head1 \in Nat /\ PastOK(past, catalog.resources, Head1)
  BY DEF IInv, Floor, Head1
<1>2. r \in 0..Head1
  BY <1>1 DEF Window
<1>. QED  BY <1>1, <1>2 DEF PastOK, Objects

\* The image of a key nothing happened to.
LEMMA SameImage ==
  ASSUME NEW p, NEW q, NEW k, SameAt(p, q, k)
  PROVE  ImageOf(p, k) = ImageOf(q, k)
  BY DEF SameAt, ImageOf

\* An exact read of one key at a revision of the window.
LEMMA ReadExact ==
  ASSUME IInv, NEW r \in Window, NEW k \in Keys
  PROVE  IF ReleasedAfter(r, k)
         THEN ReadOne(catalog, "Exact", r, k) # Nil /\ k \in DOMAIN Objects(r)
         ELSE ReadOne(catalog, "Exact", r, k) = ImageOf(Objects(r), k)
<1>. DEFINE w == Since(catalog.history, r)
            head == Head1
            live == ImageOf(catalog.resources, k)
            read == ReadOne(catalog, "Exact", r, k)
            c == FirstOf(w, k)
<1>1. /\ r \in Nat /\ head \in Nat /\ Floor \in Nat /\ Floor <= r /\ r <= head
      /\ RingTells(w, r, head, past)
  BY Windows
<1>2. Objects(r) = past[r + 1] /\ past[head + 1] = catalog.resources
  BY PastObjects
<1>3. read = IF r < head THEN (IF NewerOf(catalog, r, k) = {} THEN live ELSE c.prior) ELSE live
  BY <1>1 DEF ReadOne, Judge, Rewind, Head1, Floor
<1>4. CASE NewerOf(catalog, r, k) = {}
  <2>1. \A i \in 1..Len(w) : w[i].key # k
    BY <1>4, OfKey
  <2>. HIDE DEF w, read
  <2>2. r \in r..head /\ head \in r..head
    BY <1>1
  <2>3. SameAt(past[r + 1], past[head + 1], k)
    BY <1>1, <2>1, <2>2, Stays
  <2>4. ImageOf(Objects(r), k) = live
    BY <1>2, <2>3, SameImage
  <2>. QED  BY <1>3, <1>4, <2>4 DEF ReleasedAfter, read
<1>5. CASE NewerOf(catalog, r, k) # {}
  <2>1. \E i \in 1..Len(w) : w[i].key = k
    BY <1>5, OfKey
  <2>. HIDE DEF w, c, read
  <2>2. PICK i \in 1..Len(w) :
          /\ c = w[i] /\ c.key = k /\ c.rev \in (r + 1)..head
          /\ Tells(past[c.rev], past[c.rev + 1], c) /\ SameAt(past[r + 1], past[c.rev], k)
    <3>1. c = FirstOf(w, k)
      BY DEF c
    <3>. QED  BY <1>1, <2>1, <3>1, FirstDecides
  <2>3. c \in Item
    BY <1>1, <2>2 DEF RingTells
  <2>4. /\ c.kind \in {"Put", "Delete"} /\ c.value \in Value /\ c.value # Nil
    BY <2>3, ValueFacts DEF Item
  <2>5. read = c.prior
    BY <1>1, <1>3, <1>5, <2>2
  <2>6. ReleasedAfter(r, k) <=> IsRelease(c)
    BY <1>5 DEF ReleasedAfter, w, c
  <2>7. ImageOf(Objects(r), k) = ImageOf(past[c.rev], k)
    BY <1>2, <2>2, SameImage
  <2>8. k \in DOMAIN Objects(r) <=> k \in DOMAIN past[c.rev]
    BY <1>2, <2>2 DEF SameAt
  <2>9. CASE c.kind = "Put"
    <3>1. c.prior = ImageOf(past[c.rev], k) /\ ~IsRelease(c)
      BY <2>2, <2>9 DEF Tells, PutTells, IsRelease
    <3>. QED  BY <2>5, <2>6, <2>7, <3>1 DEF read
  <2>10. CASE c.kind = "Delete"
    <3>1. /\ k \in DOMAIN past[c.rev] /\ c.prior = c.value
          /\ c.value = past[c.rev][k].val \/ c.value.rv = c.rev
      BY <2>2, <2>10 DEF Tells, DeleteTells
    <3>2. CASE IsRelease(c)
      BY <2>4, <2>5, <2>6, <2>8, <3>1, <3>2 DEF read
    <3>3. CASE ~IsRelease(c)
      <4>1. c.prior = ImageOf(past[c.rev], k)
        BY <2>10, <3>1, <3>3 DEF IsRelease, ImageOf
      <4>. QED  BY <2>5, <2>6, <2>7, <3>3, <4>1 DEF read
    <3>. QED  BY <3>2, <3>3
  <2>. QED  BY <2>4, <2>9, <2>10
<1>. QED  BY <1>4, <1>5

\* The metadata of a key at a revision of the window.
LEMMA MetaExact ==
  ASSUME IInv, NEW r \in Window, NEW k \in DOMAIN Objects(r)
  PROVE  MetaHonest(r, k)
<1>. DEFINE w == Since(catalog.history, r)
            u == Through(catalog.history, r)
            head == Head1
            t == Objects(r)[k].meta
            m == MetaAt(catalog, r, k)
<1>1. /\ r \in Nat /\ head \in Nat /\ Floor \in Nat /\ Floor <= r /\ r <= head
      /\ RingTells(w, r, head, past) /\ RingTells(u, Floor, r, past)
  BY Windows
<1>7. r \in Nat /\ head \in Nat /\ r <= head /\ RingTells(w, r, head, past)
  BY <1>1
<1>8. Floor \in Nat /\ r \in Nat /\ Floor <= r /\ RingTells(u, Floor, r, past)
  BY <1>1
<1>2. /\ Objects(r) = past[r + 1] /\ past[head + 1] = catalog.resources
      /\ ObjectsOK(Objects(r), r)
  BY PastObjects
<1>3. k \in Keys
  BY <1>2 DEF ObjectsOK
<1>4. CASE ThroughOf(catalog, r, k) # {}
  <2>1. \E i \in 1..Len(u) : u[i].key = k
    BY <1>4, OfKey
  <2>2. m = [meta |-> LastOf(u, k).meta, exact |-> TRUE]
    BY <1>4 DEF MetaAt
  <2>3. u \in Seq(Item)
    BY <1>1 DEF RingTells
  <2>. HIDE DEF u, m
  <2>4. PICK i \in 1..Len(u) : /\ LastOf(u, k) = u[i] /\ u[i].key = k
                               /\ \A j \in (i + 1)..Len(u) : u[j].key # k
    BY <2>1, <2>3, LastOfFinds
  <2>5. /\ Tells(past[u[i].rev], past[u[i].rev + 1], u[i])
        /\ SameAt(past[u[i].rev + 1], past[r + 1], k)
    BY <1>1, <1>3, <2>4, LastDecides
  <2>6. u[i].kind \in {"Put", "Delete"}
    <3>1. u[i] \in Item
      BY <2>3
    <3>. QED  BY <3>1 DEF Item
  <2>7. u[i].kind # "Delete"
    BY <1>2, <2>4, <2>5 DEF SameAt, Tells, DeleteTells
  <2>8. u[i].meta = t
    BY <1>2, <2>4, <2>5, <2>6, <2>7 DEF SameAt, Tells, PutTells
  <2>9. m.exact /\ m.meta = t
    BY <2>2, <2>4, <2>8
  <2>. QED  BY <2>9 DEF MetaHonest, m
<1>5. CASE ThroughOf(catalog, r, k) = {} /\ NewerOf(catalog, r, k) = {}
  <2>1. \A i \in 1..Len(w) : w[i].key # k
    BY <1>5, OfKey
  <2>2. m = [meta |-> catalog.resources[k].meta, exact |-> TRUE]
    BY <1>5 DEF MetaAt
  <2>. HIDE DEF w, m
  <2>3. r \in r..head /\ head \in r..head
    BY <1>1
  <2>4. SameAt(past[r + 1], past[head + 1], k)
    BY <1>1, <1>3, <2>1, <2>3, Stays
  <2>5. m.exact /\ m.meta = t
    BY <1>2, <2>2, <2>4 DEF SameAt
  <2>. QED  BY <2>5 DEF MetaHonest, m
<1>6. CASE ThroughOf(catalog, r, k) = {} /\ NewerOf(catalog, r, k) # {}
  <2>. DEFINE c == FirstOf(w, k)
  <2>1. \E i \in 1..Len(w) : w[i].key = k
    BY <1>6, OfKey
  <2>2. \A i \in 1..Len(u) : u[i].key # k
    BY <1>6, OfKey
  <2>3. m = [meta |-> [create |-> c.meta.create, mod |-> Floor, version |-> 1], exact |-> FALSE]
    BY <1>6 DEF MetaAt, Floor
  <2>. HIDE DEF w, u, c, m
  <2>4. PICK i \in 1..Len(w) :
          /\ c = w[i] /\ c.key = k /\ c.rev \in (r + 1)..head
          /\ Tells(past[c.rev], past[c.rev + 1], c) /\ SameAt(past[r + 1], past[c.rev], k)
    <3>1. c = FirstOf(w, k)
      BY DEF c
    <3>. HIDE DEF head, t
    <3>. QED  BY <1>3, <1>7, <2>1, <3>1, FirstDecides
  <2>5. c.kind \in {"Put", "Delete"}
    <3>1. c \in Item
      BY <1>1, <2>4 DEF RingTells
    <3>. QED  BY <3>1 DEF Item
  <2>6. c.meta.create = t.create
    <3>1. k \in DOMAIN past[c.rev] /\ past[c.rev][k] = Objects(r)[k]
      BY <1>2, <2>4 DEF SameAt
    <3>. QED  BY <2>4, <2>5, <3>1 DEF Tells, PutTells, DeleteTells
  <2>7. t.mod <= Floor
    <3>1. Floor \in Floor..r /\ r \in Floor..r
      BY <1>1
    <3>2. SameAt(past[Floor + 1], past[r + 1], k)
      <4>1. \A n \in 1..Len(u) : u[n].key = k => ~(u[n].rev \in (Floor + 1)..r)
        BY <2>2
      <4>. HIDE DEF head, t
      <4>. QED  BY <1>3, <1>8, <3>1, <4>1, Stays
    <3>3. Floor \in Window
      BY <1>1 DEF Window
    <3>4. Objects(Floor) = past[Floor + 1] /\ ObjectsOK(Objects(Floor), Floor)
      BY <3>3, PastObjects
    <3>5. k \in DOMAIN Objects(Floor) /\ Objects(Floor)[k] = Objects(r)[k]
      BY <1>2, <3>2, <3>4 DEF SameAt
    <3>. QED  BY <3>4, <3>5 DEF ObjectsOK, StoredBy
  <2>8. ~m.exact /\ m.meta.create = t.create /\ m.meta.mod = Floor
    BY <2>3, <2>6
  <2>. QED  BY <2>7, <2>8 DEF MetaHonest, m
<1>. QED  BY <1>4, <1>5, <1>6

\* The two halves of a past read, from the invariant.
LEMMA IInvPast == IInv => PastReadsExactUnlessReleased
<1>. SUFFICES ASSUME IInv PROVE PastReadsExactUnlessReleased
  OBVIOUS
<1>1. Floor \in Nat /\ Head1 \in Nat /\ Floor <= Head1
  BY DEF IInv, Floor, Head1
<1>2. Served \subseteq Window
  BY <1>1 DEF Served, Window, Judge, Floor, Head1
<1>3. \A r \in Served, k \in Keys :
        IF ReleasedAfter(r, k)
        THEN ReadOne(catalog, "Exact", r, k) # Nil /\ k \in DOMAIN Objects(r)
        ELSE ReadOne(catalog, "Exact", r, k) = ImageOf(Objects(r), k)
  BY <1>2, ReadExact, Zenon
<1>4. \A r \in Window : \A k \in DOMAIN Objects(r) : MetaHonest(r, k)
  BY MetaExact
<1>. QED  BY <1>3, <1>4, Zenon DEF PastReadsExactUnlessReleased

(***************************************************************************)
(* Every retained past revision reads back as it was (state.rs rewind,     *)
(* state_at, read_one), from the present and the ring alone, but for a key *)
(* that a finalizer release takes next; and metadata is exact when it is   *)
(* said to be.                                                             *)
(***************************************************************************)
THEOREM PastReadsExactAlways == Spec => []PastReadsExactUnlessReleased
<1>1. IInv => PastReadsExactUnlessReleased
  BY IInvPast
<1>. QED  BY <1>1, Inductive, PTL

-----------------------------------------------------------------------------
(* Filtered watches. *)

\* k is there with label l.
Holds(p, k, l) == k \in DOMAIN p /\ p[k].val.label = l

\* What a change tells a watch of l, from what it did to its key.
LEMMA EventFacts ==
  ASSUME NEW c \in Item, NEW p, NEW q, NEW r, NEW l, Tells(p, q, c), ObjectsOK(p, r),
         IsRelease(c) => p[c.key].val.label = c.value.label
  PROVE  /\ EventOf(c, l) = "SKIP" <=> ~Holds(p, c.key, l) /\ ~Holds(q, c.key, l)
         /\ EventOf(c, l) = "DELETED" <=> Holds(p, c.key, l) /\ ~Holds(q, c.key, l)
<1>. DEFINE k == c.key
            before == Holds(p, k, l)
            after == Holds(q, k, l)
<1>1. c.kind \in {"Put", "Delete"} /\ c.value \in Value /\ c.value # Nil
  BY ValueFacts DEF Item
<1>2. k \in DOMAIN p => p[k].val # Nil
  BY ValueFacts DEF ObjectsOK, StoredBy
<1>3. CASE c.kind = "Put"
  <2>1. k \in DOMAIN q /\ c.value = q[k].val /\ c.prior = ImageOf(p, k)
    BY <1>3 DEF Tells, PutTells
  <2>2. c.value.label = l <=> after
    BY <2>1 DEF Holds
  <2>3. c.prior # Nil /\ c.prior.label = l <=> before
    BY <1>2, <2>1 DEF Holds, ImageOf
  <2>4. ShapeOf(c) # "Deleted" /\ (ShapeOf(c) = "Created" => ~before)
    BY <1>2, <1>3, <2>1 DEF ShapeOf, Holds, ImageOf
  <2>. HIDE DEF before, after
  <2>. QED  BY <2>2, <2>3, <2>4 DEF EventOf, Project, before, after
<1>4. CASE c.kind = "Delete"
  <2>1. /\ k \in DOMAIN p /\ k \notin DOMAIN q /\ c.prior = c.value
        /\ c.value = p[k].val \/ c.value.rv = c.rev
    BY <1>4 DEF Tells, DeleteTells
  <2>2. c.value.label = p[k].val.label
    BY <1>4, <2>1 DEF IsRelease
  <2>3. c.prior # Nil /\ c.prior.label = l <=> before
    BY <1>1, <2>1, <2>2 DEF Holds
  <2>4. ShapeOf(c) = "Deleted" /\ ~after
    BY <1>4, <2>1 DEF ShapeOf, Holds
  <2>. HIDE DEF before, after
  <2>. QED  BY <2>3, <2>4 DEF EventOf, Project, before, after
<1>. QED  BY <1>1, <1>3, <1>4

\* A key is between two of its changes as the first left it.
LEMMA NextChange ==
  ASSUME NEW floor \in Nat, NEW head \in Nat, NEW p, NEW s, RingTells(s, floor, head, p),
         NEW k \in Keys, NEW i \in 1..Len(s), s[i].key = k,
         NEW j \in (i + 1)..Len(s), s[j].key = k,
         \A m \in (i + 1)..(j - 1) : s[m].key # k
  PROVE  SameAt(p[s[i].rev + 1], p[s[j].rev], k)
<1>1. Len(s) \in Nat /\ j \in 1..Len(s) /\ i <= j /\ i # j
  BY DEF RingTells
<1>2. s[i].rev \in (floor + 1)..head /\ s[j].rev \in (floor + 1)..head
  BY <1>1 DEF RingTells
<1>3. s[i].rev <= s[j].rev
  BY <1>1 DEF RingTells, InOrder
<1>4. s[i].rev # s[j].rev
  BY <1>1 DEF RingTells
<1>5. /\ s[i].rev \in floor..head /\ s[j].rev - 1 \in (s[i].rev)..head
      /\ (s[j].rev - 1) + 1 = s[j].rev
  BY <1>2, <1>3, <1>4
<1>6. ASSUME NEW m \in 1..Len(s), s[m].key = k
      PROVE  ~(s[m].rev \in (s[i].rev + 1)..(s[j].rev - 1))
  <2>1. m <= i \/ j <= m
    BY <1>1, <1>6
  <2>2. s[m].rev <= s[i].rev \/ s[j].rev <= s[m].rev
    BY <1>1, <2>1 DEF RingTells, InOrder
  <2>3. s[m].rev \in (floor + 1)..head
    BY DEF RingTells
  <2>. QED  BY <1>2, <2>2, <2>3
<1>7. SameAt(p[s[i].rev + 1], p[(s[j].rev - 1) + 1], k)
  BY <1>5, <1>6, Stays
<1>. QED  BY <1>5, <1>7

\* A key that two objects agree on holds a label in both or in neither.
LEMMA SameHolds ==
  ASSUME NEW p, NEW q, NEW k, NEW l, SameAt(p, q, k)
  PROVE  Holds(p, k, l) <=> Holds(q, k, l)
  BY DEF SameAt, Holds

\* ev[i] is the event that s[i], a change of k, gives a watch of l.
Events(s, k, l, p, ev) ==
    \A i \in 1..Len(s) : s[i].key = k =>
       /\ ev[i] = "SKIP" <=> ~Holds(p[s[i].rev], k, l) /\ ~Holds(p[s[i].rev + 1], k, l)
       /\ ev[i] = "DELETED" <=> Holds(p[s[i].rev], k, l) /\ ~Holds(p[s[i].rev + 1], k, l)

\* Events of k lead from the objects of p to those of q: without one nothing
\* has changed, and the last one says whether k is there with label l.
Folded(s, k, l, ev, p, q) ==
    /\ (\A i \in 1..Len(s) : s[i].key = k => ev[i] = "SKIP")
         => (Holds(p, k, l) <=> Holds(q, k, l))
    /\ \A i \in 1..Len(s) :
         (/\ s[i].key = k /\ ev[i] # "SKIP"
          /\ \A j \in (i + 1)..Len(s) : s[j].key = k => ev[j] = "SKIP")
            => (ev[i] # "DELETED" <=> Holds(q, k, l))

\* The events of the changes in the ring lead from its floor to its head.
LEMMA FoldedView ==
  ASSUME NEW floor \in Nat, NEW head \in Nat, floor <= head, NEW p, NEW s,
         RingTells(s, floor, head, p), NEW k \in Keys, NEW l, NEW ev, Events(s, k, l, p, ev)
  PROVE  Folded(s, k, l, ev, p[floor + 1], p[head + 1])
<1>1. s \in Seq(Item) /\ Len(s) \in Nat
  BY DEF RingTells
<1>2. ASSUME \E i \in 1..Len(s) : s[i].key = k
      PROVE  \E i \in 1..Len(s) :
               /\ s[i].key = k /\ \A j \in (i + 1)..Len(s) : s[j].key # k
               /\ Holds(p[s[i].rev + 1], k, l) <=> Holds(p[head + 1], k, l)
  <2>0. PICK i \in 1..Len(s) : /\ LastOf(s, k) = s[i] /\ s[i].key = k
                               /\ \A j \in (i + 1)..Len(s) : s[j].key # k
    BY <1>1, <1>2, LastOfFinds
  <2>1. s[i].key = k /\ \A j \in (i + 1)..Len(s) : s[j].key # k
    BY <2>0
  <2>2. SameAt(p[s[i].rev + 1], p[head + 1], k)
    BY <2>1, LastDecides
  <2>. QED  BY <2>1, <2>2, SameHolds
<1>3. ASSUME \A i \in 1..Len(s) : s[i].key = k => ev[i] = "SKIP"
      PROVE  Holds(p[floor + 1], k, l) <=> Holds(p[head + 1], k, l)
  <2>1. CASE \A i \in 1..Len(s) : s[i].key # k
    <3>1. floor \in floor..head /\ head \in floor..head
      OBVIOUS
    <3>2. SameAt(p[floor + 1], p[head + 1], k)
      BY <2>1, <3>1, Stays
    <3>. QED  BY <3>2, SameHolds
  <2>2. CASE \E i \in 1..Len(s) : s[i].key = k
    <3>1. PICK i \in 1..Len(s) :
            s[i].key = k /\ (Holds(p[s[i].rev + 1], k, l) <=> Holds(p[head + 1], k, l))
      BY <1>2, <2>2
    <3>2. ~Holds(p[head + 1], k, l)
      BY <1>3, <3>1 DEF Events
    <3>3. PICK j \in 1..Len(s) :
            /\ FirstOf(s, k) = s[j] /\ FirstOf(s, k).key = k
            /\ SameAt(p[floor + 1], p[FirstOf(s, k).rev], k)
      BY <2>2, FirstDecides
    <3>4. s[j].key = k /\ SameAt(p[floor + 1], p[s[j].rev], k)
      BY <3>3
    <3>5. ~Holds(p[s[j].rev], k, l)
      BY <1>3, <3>4 DEF Events
    <3>. QED  BY <3>2, <3>4, <3>5, SameHolds
  <2>. QED  BY <2>1, <2>2
<1>4. ASSUME NEW i \in 1..Len(s), s[i].key = k, ev[i] # "SKIP",
             \A j \in (i + 1)..Len(s) : s[j].key = k => ev[j] = "SKIP"
      PROVE  ev[i] # "DELETED" <=> Holds(p[head + 1], k, l)
  <2>1. ev[i] # "DELETED" <=> Holds(p[s[i].rev + 1], k, l)
    BY <1>4 DEF Events
  <2>2. CASE \A j \in (i + 1)..Len(s) : s[j].key # k
    <3>1. SameAt(p[s[i].rev + 1], p[head + 1], k)
      BY <1>4, <2>2, LastDecides
    <3>. QED  BY <2>1, <3>1, SameHolds
  <2>3. CASE \E j \in (i + 1)..Len(s) : s[j].key = k
    <3>. DEFINE T == {j \in (i + 1)..Len(s) : s[j].key = k}
    <3>1. T \in SUBSET Nat /\ T # {}
      BY <1>1, <2>3
    <3>2. PICK j \in T : \A m \in T : j <= m
      <4>. HIDE DEF T
      <4>. QED  BY <3>1, LeastNatural
    <3>3. j \in (i + 1)..Len(s) /\ j \in 1..Len(s) /\ s[j].key = k
      BY <1>1, <3>2
    <3>4. ASSUME NEW m \in (i + 1)..(j - 1)  PROVE s[m].key # k
      <4>1. m \in (i + 1)..Len(s) /\ ~(j <= m)
        BY <1>1, <3>3
      <4>. QED  BY <3>2, <4>1
    <3>. HIDE DEF T
    <3>5. SameAt(p[s[i].rev + 1], p[s[j].rev], k)
      BY <1>4, <3>3, <3>4, NextChange
    <3>6. ~Holds(p[s[j].rev], k, l)
      BY <1>4, <3>3 DEF Events
    <3>7. ~Holds(p[s[i].rev + 1], k, l)
      BY <3>5, <3>6, SameHolds
    <3>8. PICK n \in 1..Len(s) :
            /\ s[n].key = k /\ \A m \in (n + 1)..Len(s) : s[m].key # k
            /\ Holds(p[s[n].rev + 1], k, l) <=> Holds(p[head + 1], k, l)
      BY <1>2, <3>3
    <3>9. n \in (i + 1)..Len(s)
      BY <1>1, <3>3, <3>8
    <3>10. ~Holds(p[head + 1], k, l)
      BY <1>4, <3>8, <3>9 DEF Events
    <3>. QED  BY <2>1, <3>7, <3>10
  <2>. QED  BY <2>2, <2>3
<1>. QED  BY <1>3, <1>4 DEF Folded

\* What a watch opened at r ends up with, from the events it is told.
LEMMA ViewFollows ==
  ASSUME NEW r, NEW k, NEW l, NEW w, w = Since(catalog.history, r), Len(w) \in Nat,
         NEW ev, ev = [i \in 1..Len(w) |-> EventOf(w[i], l)], NEW q,
         Folded(w, k, l, ev, Objects(r), q)
  PROVE  InView(r, k, l) <=> Holds(q, k, l)
<1>. DEFINE told == {i \in 1..Len(w) : w[i].key = k /\ EventOf(w[i], l) # "SKIP"}
            top == CHOOSE i \in told : \A j \in told : j <= i
<1>1. LastEvent(r, k, l) = IF told = {} THEN "SKIP" ELSE EventOf(w[top], l)
  BY DEF LastEvent
<1>2. CASE told = {}
  <2>1. \A i \in 1..Len(w) : w[i].key = k => ev[i] = "SKIP"
    BY <1>2
  <2>2. LastEvent(r, k, l) = "SKIP"
    BY <1>1, <1>2
  <2>3. InView(r, k, l) <=> Holds(Objects(r), k, l)
    BY <2>2, Zenon DEF InView, Holds
  <2>. QED  BY <2>1, <2>3 DEF Folded
<1>3. CASE told # {}
  <2>1. \E i \in told : \A j \in told : j <= i
    <3>. DEFINE T == {n \in 0..Len(w) : \A j \in told : j <= n}
    <3>1. Len(w) \in T /\ T \in SUBSET Nat
      OBVIOUS
    <3>2. PICK n \in T : \A m \in T : n <= m
      <4>. HIDE DEF T
      <4>. QED  BY <3>1, LeastNatural
    <3>3. n \in 0..Len(w) /\ \A j \in told : j <= n
      BY <3>2
    <3>4. n # 0
      BY <1>3, <3>3
    <3>5. n - 1 \in 0..Len(w) /\ ~(n <= n - 1)
      BY <3>3, <3>4
    <3>6. PICK j \in told : ~(j <= n - 1)
      BY <3>2, <3>5
    <3>7. j = n
      <4>1. j \in Nat /\ j <= n
        BY <3>3
      <4>. QED  BY <3>3, <3>6, <4>1
    <3>. QED  BY <3>3, <3>6, <3>7
  <2>2. top \in told /\ \A j \in told : j <= top
    BY <2>1
  <2>. HIDE DEF top
  <2>3. top \in 1..Len(w) /\ w[top].key = k /\ ev[top] # "SKIP"
    BY <2>2
  <2>4. ASSUME NEW j \in (top + 1)..Len(w), w[j].key = k  PROVE ev[j] = "SKIP"
    <3>1. j \in 1..Len(w) /\ ~(j <= top)
      BY <2>3
    <3>. QED  BY <2>2, <2>4, <3>1
  <2>5. LastEvent(r, k, l) = ev[top]
    BY <1>1, <1>3, <2>3
  <2>6. InView(r, k, l) <=> ev[top] # "DELETED"
    BY <2>3, <2>5, Zenon DEF InView
  <2>. QED  BY <2>3, <2>4, <2>6 DEF Folded
<1>. QED  BY <1>2, <1>3

\* A watch opened at a retained revision shows what matches now.
LEMMA ViewExact ==
  ASSUME IInv, NEW r \in Window, NEW k \in Keys, NEW l, ~Relabelling(r, k)
  PROVE  InView(r, k, l) <=> Matches(k, l)
<1>. DEFINE w == Since(catalog.history, r)
            ev == [i \in 1..Len(w) |-> EventOf(w[i], l)]
            head == Head1
<1>1. r \in Nat /\ head \in Nat /\ Floor \in Nat /\ Floor <= r /\ r <= head
  BY Windows
<1>2. RingTells(w, r, head, past)
  BY Windows
<1>3. Objects(r) = past[r + 1] /\ past[head + 1] = catalog.resources
  BY PastObjects
<1>4. w \in Seq(Item) /\ Len(w) \in Nat
  BY <1>2 DEF RingTells
<1>5. ASSUME NEW i \in 1..Len(w), w[i].key = k
      PROVE  /\ ev[i] = "SKIP" <=> ~Holds(past[w[i].rev], k, l) /\ ~Holds(past[w[i].rev + 1], k, l)
             /\ ev[i] = "DELETED" <=> Holds(past[w[i].rev], k, l) /\ ~Holds(past[w[i].rev + 1], k, l)
  <2>. DEFINE c == w[i]
  <2>1. c \in Item /\ c.rev \in (r + 1)..head /\ Tells(past[c.rev], past[c.rev + 1], c)
    BY <1>2, <1>4 DEF RingTells
  <2>2. c \in NewerOf(catalog, r, k)
    BY <1>5 DEF NewerOf
  <2>. HIDE DEF w
  <2>3. c.rev - 1 \in Window /\ (c.rev - 1) + 1 = c.rev
    BY <1>1, <2>1 DEF Window
  <2>4. Objects(c.rev - 1) = past[c.rev] /\ ObjectsOK(past[c.rev], c.rev - 1)
    BY <2>3, PastObjects
  <2>5. ASSUME IsRelease(c)  PROVE past[c.rev][k].val.label = c.value.label
    <3>1. c.kind = "Delete"
      BY <2>5 DEF IsRelease
    <3>2. k \in DOMAIN past[c.rev]
      BY <1>5, <2>1, <3>1 DEF Tells, DeleteTells
    <3>3. past[c.rev][k].val # Nil
      BY <2>4, <3>2, ValueFacts DEF ObjectsOK, StoredBy
    <3>4. ImageOf(Objects(c.rev - 1), k) = past[c.rev][k].val
      BY <2>4, <3>2 DEF ImageOf
    <3>. QED  BY <2>2, <2>5, <3>3, <3>4 DEF Relabelling
  <2>6. ev[i] = EventOf(c, l)
    OBVIOUS
  <2>. HIDE DEF ev, c
  <2>7. EventOf(c, l) = "SKIP" <=> ~Holds(past[c.rev], c.key, l) /\ ~Holds(past[c.rev + 1], c.key, l)
    BY <1>5, <2>1, <2>4, <2>5, EventFacts DEF c
  <2>8. EventOf(c, l) = "DELETED" <=> Holds(past[c.rev], c.key, l) /\ ~Holds(past[c.rev + 1], c.key, l)
    BY <1>5, <2>1, <2>4, <2>5, EventFacts DEF c
  <2>. QED  BY <1>5, <2>6, <2>7, <2>8, Zenon DEF c
<1>6. w = Since(catalog.history, r) /\ ev = [i \in 1..Len(w) |-> EventOf(w[i], l)]
  OBVIOUS
<1>. HIDE DEF w, ev
<1>7. Events(w, k, l, past, ev)
  BY <1>5 DEF Events
<1>8. Folded(w, k, l, ev, Objects(r), catalog.resources)
  BY <1>1, <1>2, <1>3, <1>7, FoldedView
<1>9. InView(r, k, l) <=> Holds(catalog.resources, k, l)
  BY <1>4, <1>6, <1>8, ViewFollows
<1>. QED  BY <1>9 DEF Holds, Matches

(***************************************************************************)
(* A watch filtered by a label (watch.rs Projection::of), opened on the    *)
(* list of any retained revision, leaves its holder with exactly the keys  *)
(* that match now, but for one that a finalizer release also relabelled.   *)
(***************************************************************************)
THEOREM FilteredViewExactAlways == Spec => []FilteredViewExactUnlessRelabelled
<1>1. IInv => FilteredViewExactUnlessRelabelled
  BY ViewExact DEF FilteredViewExactUnlessRelabelled
<1>. QED  BY <1>1, Inductive, PTL

=============================================================================
