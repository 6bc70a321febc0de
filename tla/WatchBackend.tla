---------------------------- MODULE WatchBackend ----------------------------
(***************************************************************************)
(* The watch surface of one store replica: the catalog's history, the      *)
(* registry of live watchers beside it under the same lock                 *)
(* (engenho-store/src/watch_backend.rs, store.rs, fjall_store.rs), and the *)
(* clients that list, watch and resume.  Every operation that takes the    *)
(* catalog lock is one action.                                             *)
(*                                                                         *)
(* log is the sequence of changes the cluster has committed, in order; it  *)
(* is what Raft decides and what a replica's head is a position in.        *)
(***************************************************************************)
EXTENDS WatchHistory

CONSTANTS Watchers,     \* watch clients
          Buffer,       \* per-watcher channel capacity (WatchOpts::buffer)
          MaxTxn,       \* most changes one revision commits
          MaxRev,       \* bound on revisions
          MaxRestarts,  \* bound on process restarts
          MaxInstalls,  \* bound on snapshot installs
          MaxDrops      \* bound on clients dropping their stream

ASSUME BackendAssumption ==
    /\ Buffer \in Nat \ {0} /\ MaxTxn \in Nat \ {0}
    /\ MaxRev \in Nat /\ MaxRestarts \in Nat /\ MaxInstalls \in Nat /\ MaxDrops \in Nat

VARIABLES history,   \* this replica's [ring, floor, head]
          log,       \* every change the cluster committed, in revision order
          watch,     \* each client's WatcherHandle, channel and GoneSlot
          client,    \* what each client was sent and where it resumes
          restarts, installs, drops

vars == <<history, log, watch, client, restarts, installs, drops>>

None == -1

Revision == Nat
Change   == [rev: Nat \ {0}, pos: Nat \ {0}]
Bookmark(r) == [rev |-> r, pos |-> 0]
Signal   == Change \cup [rev: Nat, pos: {0}]

\* The newest committed revision, and the changes of the next one.
Top == IF log = <<>> THEN 0 ELSE log[Len(log)].rev

Batch(r, n) == [i \in 1..n |-> [rev |-> r, pos |-> i]]

\* The committed changes with lo < rev <= hi.
Window(lo, hi) == Between(log, lo, hi)

Later(a, b) == IF b > a THEN b ELSE a

Closed == [reg |-> FALSE, open |-> FALSE, chan |-> <<>>, gone |-> None,
           boundary |-> 0, lastSeen |-> 0, overflowed |-> FALSE,
           bookmarks |-> FALSE, bookmarked |-> None]

Init == /\ history = NewHistory
        /\ log = <<>>
        /\ watch = [w \in Watchers |-> Closed]
        /\ client = [w \in Watchers |->
                       [base |-> 0, got |-> <<>>, resume |-> 0, relist |-> TRUE]]
        /\ restarts = 0 /\ installs = 0 /\ drops = 0

-----------------------------------------------------------------------------
(***************************************************************************)
(* try_enqueue over a run of changes: deliver while the channel has room,  *)
(* and at the first change that does not fit arm the GoneSlot with the     *)
(* last revision enqueued and stop.                                        *)
(***************************************************************************)
FeedDropsOverflow(h, cs) ==
    LET room == Buffer - Len(h.chan)
    IN  [h EXCEPT !.chan = @ \o SubSeq(cs, 1, IF room < Len(cs) THEN room ELSE Len(cs)),
                  !.lastSeen = IF cs = <<>> THEN @ ELSE cs[Len(cs)].rev]

FeedReportsUnsent(h, cs) ==
    LET room == Buffer - Len(h.chan)
        sent == IF room < Len(cs) THEN room ELSE Len(cs)
    IN  [h EXCEPT !.chan = @ \o SubSeq(cs, 1, sent),
                  !.lastSeen = IF cs = <<>> THEN @ ELSE cs[Len(cs)].rev,
                  !.gone = IF sent < Len(cs) THEN cs[Len(cs)].rev ELSE None,
                  !.overflowed = sent < Len(cs)]

Feed(h, cs) ==
    LET room == Buffer - Len(h.chan)
        sent == IF room < Len(cs) THEN room ELSE Len(cs)
        seen == IF sent = 0 THEN h.lastSeen ELSE Later(h.lastSeen, cs[sent].rev)
    IN  IF h.overflowed THEN h
        ELSE [h EXCEPT !.chan = @ \o SubSeq(cs, 1, sent),
                       !.lastSeen = seen,
                       !.gone = IF sent < Len(cs) THEN seen ELSE None,
                       !.overflowed = sent < Len(cs)]

\* fan_shared: skip a watcher at or past the revision, reap a closed or dead one.
Fan(h, cs) ==
    IF ~h.reg \/ h.boundary >= cs[1].rev THEN h
    ELSE IF ~h.open THEN [h EXCEPT !.reg = FALSE]
    ELSE LET f == Feed(h, cs) IN [f EXCEPT !.reg = ~f.overflowed]

\* tick_bookmarks for one handle that is due.
TickOneWhenFull(h, current) ==
    IF ~h.reg \/ ~h.bookmarks \/ h.bookmarked = current THEN h
    ELSE [h EXCEPT !.chan = Append(@, Bookmark(current)),
                   !.lastSeen = Later(@, current),
                   !.bookmarked = current]

TickOne(h, current) ==
    IF ~h.reg THEN h
    ELSE IF h.overflowed THEN [h EXCEPT !.reg = FALSE]
    ELSE IF ~h.bookmarks \/ h.bookmarked = current THEN h
    ELSE IF ~h.open THEN [h EXCEPT !.reg = FALSE]
    ELSE IF Len(h.chan) >= Buffer THEN h
    ELSE [h EXCEPT !.chan = Append(@, Bookmark(current)),
                   !.lastSeen = Later(@, current),
                   !.bookmarked = current]

\* register_shared: feed the replay, then make the handle reachable.
Register(replay, from, bookmarks) ==
    Feed([reg |-> TRUE, open |-> TRUE, chan |-> <<>>, gone |-> None,
          boundary |-> history.head, lastSeen |-> from, overflowed |-> FALSE,
          bookmarks |-> bookmarks, bookmarked |-> None], replay)

-----------------------------------------------------------------------------
(***************************************************************************)
(* The cluster commits a revision of n changes; a replica applies it later.*)
(***************************************************************************)
Decide(n) ==
    /\ Top < MaxRev
    /\ log' = log \o Batch(Top + 1, n)
    /\ UNCHANGED <<history, watch, client, restarts, installs, drops>>

(***************************************************************************)
(* apply: commit the next decided revision to the history and fan every    *)
(* change of it to the watchers, under one guard.  After a restart this is *)
(* also the boot replay.                                                   *)
(***************************************************************************)
Apply ==
    LET cs == Window(history.head, history.head + 1)
    IN  /\ history.head < Top
        /\ history' = Commit(history, cs)
        /\ watch' = [w \in Watchers |-> Fan(watch[w], cs)]
        /\ UNCHANGED <<log, client, restarts, installs, drops>>

CompactTo(target) ==
    /\ history' = Compact(history, target)
    /\ history' # history
    /\ UNCHANGED <<log, watch, client, restarts, installs, drops>>

\* install_snapshot: the catalog is replaced; the registry is not touched.
InstallSnapshot(r) ==
    /\ installs < MaxInstalls
    /\ r > history.head
    /\ history' = LoadedAt(r)
    /\ installs' = installs + 1
    /\ UNCHANGED <<log, watch, client, restarts, drops>>

\* The process dies and opens the image of some earlier revision; every stream closes.
Restart(r) ==
    /\ restarts < MaxRestarts
    /\ history' = LoadedAt(r)
    /\ watch' = [w \in Watchers |-> Closed]
    /\ restarts' = restarts + 1
    /\ UNCHANGED <<log, client, installs, drops>>

Tick(due) ==
    /\ watch' = [w \in Watchers |->
                   IF w \in due \/ watch[w].overflowed
                   THEN TickOne(watch[w], history.head) ELSE watch[w]]
    /\ watch' # watch
    /\ UNCHANGED <<history, log, client, restarts, installs, drops>>

-----------------------------------------------------------------------------
\* A client with no view lists at the head and resumes from the list's revision.
Relist(w) ==
    /\ ~watch[w].open /\ client[w].relist
    /\ client' = [client EXCEPT ![w] = [base |-> history.head, got |-> <<>>,
                                        resume |-> history.head, relist |-> FALSE]]
    /\ UNCHANGED <<history, log, watch, restarts, installs, drops>>

\* watch_from: AheadOfStore and CompactedTooOld send the client back to a list.
WatchFrom(w, bookmarks) ==
    LET from == client[w].resume
    IN  /\ ~watch[w].open /\ ~client[w].relist
        /\ from <= history.head /\ ~Refuses(history, from)
        /\ watch' = [watch EXCEPT ![w] =
                       Register(Since(history, from), from, bookmarks)]
        /\ UNCHANGED <<history, log, client, restarts, installs, drops>>

WatchRefused(w) ==
    LET from == client[w].resume
    IN  /\ ~watch[w].open /\ ~client[w].relist
        /\ from > history.head \/ Refuses(history, from)
        /\ client' = [client EXCEPT ![w].relist = TRUE]
        /\ UNCHANGED <<history, log, watch, restarts, installs, drops>>

\* watch_subscribe: a live tail starts at the head it reads under the lock.
Subscribe(w) ==
    /\ ~watch[w].open /\ client[w].relist
    /\ watch' = [watch EXCEPT ![w] = Register(<<>>, history.head, FALSE)]
    /\ client' = [client EXCEPT ![w] = [base |-> history.head, got |-> <<>>,
                                        resume |-> history.head, relist |-> FALSE]]
    /\ UNCHANGED <<history, log, restarts, installs, drops>>

\* next_change: a buffered signal, accounted for ...
Receive(w) ==
    LET sig == Head(watch[w].chan)
    IN  /\ watch[w].open /\ watch[w].chan # <<>>
        /\ watch' = [watch EXCEPT ![w].chan = Tail(@)]
        /\ client' = [client EXCEPT
                        ![w].got = IF sig.pos = 0 THEN @ ELSE Append(@, sig),
                        ![w].resume = Later(@, sig.rev)]
        /\ UNCHANGED <<history, log, restarts, installs, drops>>

\* ... or, once the buffer is drained, the one terminal Gone: resume at its last_seen.
ReceiveGone(w) ==
    /\ watch[w].open /\ watch[w].chan = <<>> /\ watch[w].gone # None
    /\ watch' = [watch EXCEPT ![w].open = FALSE, ![w].gone = None]
    /\ client' = [client EXCEPT ![w].resume = watch[w].gone]
    /\ UNCHANGED <<history, log, restarts, installs, drops>>

\* The client's connection goes away; the registry reaps the handle later.
DropStream(w) ==
    /\ watch[w].open /\ drops < MaxDrops
    /\ watch' = [watch EXCEPT ![w].open = FALSE, ![w].chan = <<>>, ![w].gone = None]
    /\ drops' = drops + 1
    /\ UNCHANGED <<history, log, client, restarts, installs>>

-----------------------------------------------------------------------------
Next ==
    \/ \E n \in 1..MaxTxn : Decide(n)
    \/ Apply
    \/ \E r \in 1..Top : CompactTo(r) \/ InstallSnapshot(r)
    \/ \E r \in 0..history.head : Restart(r)
    \/ \E due \in SUBSET Watchers : Tick(due)
    \/ \E w \in Watchers :
         \/ Relist(w) \/ WatchRefused(w) \/ Subscribe(w)
         \/ \E b \in BOOLEAN : WatchFrom(w, b)
         \/ Receive(w) \/ ReceiveGone(w) \/ DropStream(w)

Spec == Init /\ [][Next]_vars

(***************************************************************************)
(* A lagging replica keeps applying, a client keeps reading its stream and *)
(* a client with no stream keeps trying to get one.                        *)
(***************************************************************************)
Fairness ==
    /\ WF_vars(Apply)
    /\ \A w \in Watchers :
         /\ WF_vars(Receive(w)) /\ WF_vars(ReceiveGone(w))
         /\ WF_vars(Relist(w)) /\ WF_vars(WatchRefused(w))
         /\ WF_vars(\E b \in BOOLEAN : WatchFrom(w, b))

FairSpec == Spec /\ Fairness

-----------------------------------------------------------------------------
Position(w) == PartitionPoint(log, client[w].base)

Handle == [reg: BOOLEAN, open: BOOLEAN, chan: Seq(Signal), gone: Nat \cup {None},
           boundary: Nat, lastSeen: Nat, overflowed: BOOLEAN,
           bookmarks: BOOLEAN, bookmarked: Nat \cup {None}]

Client == [base: Nat, got: Seq(Change), resume: Nat, relist: BOOLEAN]

(***************************************************************************)
(* The type invariant, with the bound of the bounded channel: no watcher   *)
(* is ever queued more than its buffer holds.                              *)
(***************************************************************************)
TypeOK ==
    /\ history \in [ring: Seq(Change), floor: Nat, head: Nat]
    /\ log \in Seq(Change)
    /\ watch \in [Watchers -> Handle]
    /\ \A w \in Watchers : Len(watch[w].chan) <= Buffer
    /\ client \in [Watchers -> Client]
    /\ restarts \in Nat /\ installs \in Nat /\ drops \in Nat

(***************************************************************************)
(* The promise of watch_history.rs: the ring holds exactly the committed   *)
(* changes of the revisions floor+1..head, each whole and in order, and    *)
(* never more than Capacity of them, whatever commits, evictions,          *)
(* compactions, restarts and snapshot installs came before.                *)
(***************************************************************************)
Sealed ==
    /\ history.floor <= history.head /\ history.head <= Top
    /\ history.ring = Window(history.floor, history.head)
    /\ Len(history.ring) <= Capacity

(***************************************************************************)
(* Two things make a client skip changes (README, findings): a snapshot    *)
(* installed under its stream, and a channel that fills in the middle of a *)
(* revision.  Without installs and with one change per revision there is   *)
(* neither.                                                                *)
(***************************************************************************)
NothingSkips == installs = 0 /\ \A i, j \in 1..Len(log) : i < j => log[i].rev < log[j].rev

(***************************************************************************)
(* What a client received since its list, over any number of overflows,    *)
(* drops and resumed watches: never a change at or before one it already   *)
(* has, even when a snapshot install or a restart moves the replica under  *)
(* it; and where nothing skips, a prefix of what was committed after the   *)
(* list, without a gap.                                                    *)
(***************************************************************************)
GapFree ==
    \A w \in Watchers :
        /\ \A i, j \in 1..Len(client[w].got) :
             i < j => LET a == client[w].got[i]  b == client[w].got[j]
                      IN  a.rev < b.rev \/ (a.rev = b.rev /\ a.pos < b.pos)
        /\ NothingSkips =>
             /\ Position(w) + Len(client[w].got) <= Len(log)
             /\ client[w].got = SubSeq(log, Position(w) + 1, Position(w) + Len(client[w].got))

(***************************************************************************)
(* Every client ends up holding every committed change, through overflow,  *)
(* compaction refusals and restarts, where nothing skips.                  *)
(***************************************************************************)
CatchesUp ==
    \A w \in Watchers :
        <>[](NothingSkips => client[w].got = Window(client[w].base, Top) /\ history.head = Top)

=============================================================================
