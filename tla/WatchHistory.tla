---------------------------- MODULE WatchHistory ----------------------------
(***************************************************************************)
(* The watch-replay history of the resource catalog                        *)
(* (engenho-store/src/watch_history.rs): the ring of retained changes, the *)
(* compaction floor under it and the head it runs up to, with the four     *)
(* operations that keep them in step.  A history is a record               *)
(*    [ring: Seq(Change), floor: Nat, head: Nat];                          *)
(* a change is any record with a field rev, its revision.                  *)
(***************************************************************************)
EXTENDS Integers, Sequences

CONSTANT Capacity    \* the most changes the ring may hold (NonZeroUsize)

ASSUME CapacityAssumption == Capacity \in Nat \ {0}

(***************************************************************************)
(* VecDeque::partition_point on a ring in revision order: how many leading *)
(* changes are at or below rv.                                             *)
(***************************************************************************)
PartitionPoint(s, rv) ==
    CHOOSE n \in 0..Len(s) : /\ \A i \in 1..n : s[i].rev <= rv
                             /\ \A i \in (n+1)..Len(s) : s[i].rev > rv

\* The changes left after the first n are drained.
Drain(s, n) == SubSeq(s, n + 1, Len(s))

\* The changes of s with lo < rev <= hi.
Between(s, lo, hi) == SubSeq(s, PartitionPoint(s, lo) + 1, PartitionPoint(s, hi))

NewHistory == [ring |-> <<>>, floor |-> 0, head |-> 0]

(***************************************************************************)
(* The ring is never persisted: a loaded history starts empty, its floor   *)
(* at its head.  (LoadedAtOldFloor, like every definition here and in the  *)
(* other modules that carries a fault in its name, is the faulty variant   *)
(* the definition after it is mutated to.)                                 *)
(***************************************************************************)
LoadedAtOldFloor(r) == [ring |-> <<>>, floor |-> 0, head |-> r]

LoadedAt(r) == [ring |-> <<>>, floor |-> r, head |-> r]

\* split refuses a revision below the floor; its two halves otherwise.
RefusesNothing(h, rv) == FALSE

Refuses(h, rv) == rv < h.floor

Through(h, rv) == SubSeq(h.ring, 1, PartitionPoint(h.ring, rv))

SinceInclusive(h, rv) == Drain(h.ring, PartitionPoint(h.ring, rv - 1))

Since(h, rv) == Drain(h.ring, PartitionPoint(h.ring, rv))

(***************************************************************************)
(* commit appends one whole revision and then evicts whole revisions,      *)
(* oldest first, while the ring is over capacity.  The loop stops at the   *)
(* first revision boundary that leaves at most Capacity changes.           *)
(***************************************************************************)
Boundary(s, n) == n = 0 \/ n = Len(s) \/ s[n].rev # s[n + 1].rev

EvictPoint(s) ==
    CHOOSE n \in 0..Len(s) :
        /\ Boundary(s, n) /\ Len(s) - n <= Capacity
        /\ \A m \in 0..(n-1) : Boundary(s, m) => Len(s) - m > Capacity

Evict(s, floor, head) ==
    LET n == EvictPoint(s)
    IN  [ring  |-> Drain(s, n),
         floor |-> IF n = 0 THEN floor ELSE s[n].rev,
         head  |-> head]

Commit(h, cs) == Evict(h.ring \o cs, h.floor, h.head + 1)

\* compact clamps the target to the head and never lowers the floor.
Compact(h, target) ==
    LET t == IF target < h.head THEN target ELSE h.head
    IN  IF t > h.floor
        THEN [h EXCEPT !.ring = Drain(@, PartitionPoint(@, t)), !.floor = t]
        ELSE h

=============================================================================
