---------------------------- MODULE DurableStore ----------------------------
(***************************************************************************)
(* One replica's durable store (engenho-store/src/fjall_store.rs): the     *)
(* Raft log, the vote, the applied image (catalog blob and last_applied in *)
(* one batch) and the snapshot, in one fjall keyspace, across crashes.     *)
(*                                                                         *)
(* fjall journals writes in order, and a crash keeps any prefix of those   *)
(* that are not yet synced.  torn is the set of keyspaces a crash may      *)
(* leave: while a log operation is under way, one for each prefix of its   *)
(* writes; after persist only what the process itself reads.               *)
(*                                                                         *)
(* The catalog is abstracted to the indexes of the commands applied to it, *)
(* in order: applying one twice, or skipping one, shows.                   *)
(***************************************************************************)
EXTENDS Integers, Sequences

CONSTANTS MaxIndex,    \* bound on the log
          Entries,     \* what a leader may propose: a term and a kind
          MaxBatch,    \* bound on the entries of one append
          MaxVote,     \* bound on votes
          MaxCrashes,  \* bound on restarts
          Found        \* the disks a boot may find, with what was chosen by then

VARIABLES disk,        \* the keyspace as the process reads it, synced or not
          torn,        \* the keyspaces a crash may leave of it
          ram,         \* MaterializedState
          job,         \* the log operation between its inserts and its persist
          chosen,      \* the entries the quorum has committed
          promised,    \* what this replica has told the others it holds
          seen,        \* the highest index whose effect it has shown
          crashes

vars == <<disk, torn, ram, job, chosen, promised, seen, crashes>>

Kinds == {"cmd", "member"}     \* a command; a membership change or a blank
Entry == [term: 1..2, kind: Kinds]

NoJob == [kind |-> "none"]
NoSnap == [at |-> 0, content |-> <<>>]

LastCommand(content) == IF content = <<>> THEN 0 ELSE content[Len(content)]

Committed(i, e) == i <= Len(chosen) /\ chosen[i] = e

\* c is the commands among the first n entries of log, each once and in order.
InOrderOnce(c, n, log) ==
    /\ \A i, j \in 1..Len(c) : i < j => c[i] < c[j]
    /\ {c[i] : i \in 1..Len(c)} = {i \in 1..n : log[i].kind = "cmd"}

\* The catalogs a replica can have after n chosen entries: there is one.
CatalogsAt(n) == {c \in UNION {[1..k -> 1..n] : k \in 0..n} : InOrderOnce(c, n, chosen)}

\* How far a catalog got, whatever position is recorded beside it.
Reach(at, content) == IF LastCommand(content) > at THEN LastCommand(content) ELSE at

\* A position and a catalog that belong together, up to the torn image of an
\* earlier release, whose catalog may be ahead.
Exact(at, content, log) ==
    Reach(at, content) <= Len(log) /\ InOrderOnce(content, Reach(at, content), log)

Keyspace == [log: UNION {[D -> Entry] : D \in SUBSET (1..MaxIndex)}, purged: 0..MaxIndex,
             vote: 0..MaxVote, at: Nat, content: Seq(Nat), snap: [at: Nat, content: Seq(Nat)]]

\* Disks an earlier run of this release, or an older one, can have left.
ASSUME StoreAssumption ==
    /\ MaxIndex \in Nat /\ MaxBatch \in Nat /\ MaxVote \in Nat /\ MaxCrashes \in Nat
    /\ Entries \subseteq Entry
    /\ \A f \in Found : /\ f.chosen \in Seq(Entry) /\ f.disk \in Keyspace
                        /\ Exact(f.disk.at, f.disk.content, f.chosen)
                        /\ Exact(f.disk.snap.at, f.disk.snap.content, f.chosen)

-----------------------------------------------------------------------------
(***************************************************************************)
(* What the writes do to a keyspace.                                       *)
(***************************************************************************)
\* The first n of the entries es inserted after index at.
Put(d, at, es, n) ==
    [d EXCEPT !.log = [i \in DOMAIN d.log \cup (at + 1)..(at + n) |->
                         IF i > at THEN es[i - at] ELSE d.log[i]]]

\* The entries of the indexes doomed removed.
Removed(d, doomed) == [d EXCEPT !.log = [i \in DOMAIN d.log \ doomed |-> d.log[i]]]

\* write_image: the image, and the snapshot when there is one, in one batch.
Written(d, at, content, snap) ==
    [d EXCEPT !.at = at, !.content = content, !.snap = IF snap = NoSnap THEN @ ELSE snap]

\* Writes journalled one by one, the last of them leaving the keyspace last.
Journal(last, images) == disk' = last /\ torn' = torn \cup images

Persist == torn' = {disk} /\ UNCHANGED disk

\* A SyncAll batch.  It may fall between two writes of the log operation under
\* way, so it is on every prefix of that one.
CommitBatch(at, content, snap) ==
    /\ disk' = Written(disk, at, content, snap)
    /\ torn' = {Written(d, at, content, snap) : d \in torn}

-----------------------------------------------------------------------------
(***************************************************************************)
(* open_with: hydrate from the blob, or from a snapshot that is newer.     *)
(***************************************************************************)
\* Mutant: the vote is not read back.
OpenedForgetsVote(d) ==
    [up |-> TRUE, applied |-> d.at, content |-> d.content, dirty |-> FALSE,
     purged |-> d.purged, vote |-> 0]

Opened(d) ==
    LET newer == d.snap.at > d.at
    IN  [up      |-> TRUE,
         applied |-> IF newer THEN d.snap.at ELSE d.at,
         content |-> IF newer THEN d.snap.content ELSE d.content,
         dirty   |-> newer,
         purged  |-> d.purged, vote |-> d.vote]

Init == /\ \E f \in Found : disk = f.disk /\ chosen = f.chosen
        /\ torn = {disk} /\ job = NoJob /\ crashes = 0
        /\ ram = Opened(disk)
        /\ promised = [vote |-> disk.vote, log |-> disk.log]
        /\ seen = ram.applied

Idle == ram.up /\ job = NoJob

\* The highest key of the log, or last_purged when the log is empty.
LastIndex == IF DOMAIN disk.log = {} THEN ram.purged
             ELSE CHOOSE i \in DOMAIN disk.log : \A j \in DOMAIN disk.log : j <= i

-----------------------------------------------------------------------------
(***************************************************************************)
(* The log side.  Each operation inserts, then persists and only then      *)
(* answers; openraft runs them one at a time.                              *)
(***************************************************************************)
StartJob(j, last, images) == /\ job' = j /\ Journal(last, images)
                             /\ UNCHANGED <<ram, chosen, seen, crashes>>

BeginAppend(es) ==
    LET image(n) == Put(disk, LastIndex, es, n)
    IN  /\ Idle /\ LastIndex >= ram.applied /\ LastIndex + Len(es) <= MaxIndex
        /\ \A n \in 1..Len(es) : es[n].term = 1 \/ Committed(LastIndex + n, es[n])
        /\ StartJob([kind |-> "append", log |-> [i \in (LastIndex + 1)..(LastIndex + Len(es)) |->
                                                   es[i - LastIndex]]],
                    image(Len(es)), {image(n) : n \in 1..Len(es)})
        /\ UNCHANGED promised

\* Raft truncates only what is not committed.
BeginTruncate(from) ==
    /\ Idle /\ from > ram.applied /\ from \in DOMAIN disk.log
    /\ ~Committed(from, disk.log[from])
    /\ StartJob([kind |-> "truncate"],
                Removed(disk, from..MaxIndex), {Removed(disk, from..i) : i \in from..MaxIndex})
    /\ promised' = [promised EXCEPT !.log = [i \in {i \in DOMAIN @ : i < from} |-> @[i]]]

\* openraft purges only up to a snapshot.
BeginPurge(to) ==
    LET image == [Removed(disk, 1..to) EXCEPT !.purged = to]
    IN  /\ Idle /\ to > ram.purged /\ to <= disk.snap.at
        /\ StartJob([kind |-> "purge", to |-> to],
                    image, {Removed(disk, 1..i) : i \in 1..to} \cup {image})
        /\ UNCHANGED promised

BeginSaveVote(v) ==
    LET image == [disk EXCEPT !.vote = v]
    IN  /\ Idle /\ v > ram.vote
        /\ StartJob([kind |-> "vote", vote |-> v], image, {image})
        /\ UNCHANGED promised

\* The log reaches the others' answer: append's callback, save_vote's return.
Answer ==
    /\ promised' = CASE job.kind = "append" ->
                          [promised EXCEPT !.log = [i \in DOMAIN @ \cup DOMAIN job.log |->
                             IF i \in DOMAIN job.log THEN job.log[i] ELSE @[i]]]
                     [] job.kind = "vote" -> [promised EXCEPT !.vote = job.vote]
                     [] OTHER -> promised
    /\ ram' = CASE job.kind = "vote"  -> [ram EXCEPT !.vote = job.vote]
                [] job.kind = "purge" -> [ram EXCEPT !.purged = job.to]
                [] OTHER -> ram

\* Mutant: the answer does not wait for the sync.
FinishUnsynced ==
    /\ ram.up /\ job # NoJob /\ Answer /\ job' = NoJob
    /\ UNCHANGED <<disk, torn, chosen, seen, crashes>>

FinishJob ==
    /\ ram.up /\ job # NoJob /\ Persist /\ Answer /\ job' = NoJob
    /\ UNCHANGED <<chosen, seen, crashes>>

-----------------------------------------------------------------------------
(***************************************************************************)
(* The state machine side, under the state lock, beside the log side.      *)
(***************************************************************************)
\* Mutant: only last_applied is consulted.
HoldsByPosition(r, i, kind) == i <= r.applied

\* MaterializedState::holds.
Holds(r, i, kind) == i <= r.applied \/ (kind = "cmd" /\ i <= LastCommand(r.content))

\* openraft applies committed entries whose append has answered.
Ready(i) == /\ i \in DOMAIN disk.log /\ Committed(i, disk.log[i])
            /\ job.kind = "append" => i \notin DOMAIN job.log

ApplyEntry(r, i) ==
    IF Holds(r, i, chosen[i].kind) THEN [r EXCEPT !.applied = IF @ < i THEN i ELSE @]
    ELSE [r EXCEPT !.applied = i,
                   !.content = IF chosen[i].kind = "cmd" THEN Append(@, i) ELSE @]

\* The replica after its next n entries.
Replayed(r, n) ==
    LET run[k \in 0..n] == IF k = 0 THEN r ELSE ApplyEntry(run[k - 1], r.applied + k)
    IN  run[n]

\* apply: the next n committed entries; the image is written when due by count
\* or time, and always after a membership change.
Apply(n, due) ==
    LET from == ram.applied + 1
        to   == ram.applied + n
        out  == Replayed(ram, n)
    IN  /\ ram.up /\ n > 0
        /\ \A i \in from..to : Ready(i)
        /\ (\E i \in from..to : chosen[i].kind = "member" /\ ~Holds(ram, i, "member")) => due
        /\ IF due THEN CommitBatch(out.applied, out.content, NoSnap)
           ELSE UNCHANGED <<disk, torn>>
        /\ ram' = [out EXCEPT !.dirty = ~due]
        /\ seen' = IF seen < to THEN to ELSE seen
        /\ UNCHANGED <<job, chosen, promised, crashes>>

\* The image write fails: the entries are applied in RAM, nothing is fanned
\* or answered, and openraft stops on the storage error.
ApplyFails(n) ==
    /\ ram.up /\ n > 0
    /\ \A i \in (ram.applied + 1)..(ram.applied + n) : Ready(i)
    /\ ram' = [Replayed(ram, n) EXCEPT !.up = FALSE]
    /\ UNCHANGED <<disk, torn, job, chosen, promised, seen, crashes>>

Flush ==
    /\ ram.up /\ ram.dirty
    /\ CommitBatch(ram.applied, ram.content, NoSnap)
    /\ ram' = [ram EXCEPT !.dirty = FALSE]
    /\ UNCHANGED <<job, chosen, promised, seen, crashes>>

SnapshotBatch(at, content) == CommitBatch(at, content, [at |-> at, content |-> content])

BuildSnapshot ==
    /\ ram.up /\ ram.applied > 0
    /\ SnapshotBatch(ram.applied, ram.content)
    /\ ram' = [ram EXCEPT !.dirty = FALSE]
    /\ UNCHANGED <<job, chosen, promised, seen, crashes>>

Behind(s) == ram.up /\ s > ram.applied /\ s <= Len(chosen)

\* The replica's memory moves to the leader's catalog c at s.
MoveTo(s, c) ==
    /\ ram' = [ram EXCEPT !.applied = s, !.content = c, !.dirty = FALSE]
    /\ seen' = IF seen < s THEN s ELSE seen
    /\ UNCHANGED <<job, chosen, promised, crashes>>

\* Mutant: installed in RAM only.
InstallInRam(s) ==
    Behind(s) /\ \E c \in CatalogsAt(s) : MoveTo(s, c) /\ UNCHANGED <<disk, torn>>

\* The leader's snapshot at s: its catalog is the commands chosen up to s.
InstallSnapshot(s) ==
    Behind(s) /\ \E c \in CatalogsAt(s) : MoveTo(s, c) /\ SnapshotBatch(s, c)

-----------------------------------------------------------------------------
\* A kill at any moment, then open.
CrashAndOpen(d) ==
    /\ crashes < MaxCrashes
    /\ disk' = d /\ torn' = {d} /\ ram' = Opened(d)
    /\ job' = NoJob /\ crashes' = crashes + 1
    /\ UNCHANGED <<chosen, promised, seen>>

\* The quorum commits an entry: this replica's own at that index, or another.
Choose(e) ==
    /\ Len(chosen) < MaxIndex
    /\ LET i == Len(chosen) + 1
       IN  e.term = 2 \/ (i \in DOMAIN promised.log /\ promised.log[i] = e)
    /\ chosen' = Append(chosen, e)
    /\ UNCHANGED <<disk, torn, ram, job, promised, seen, crashes>>

Next ==
    \/ \E e \in Entries : Choose(e)
    \/ \E n \in 1..MaxBatch : \E es \in [1..n -> Entries] : BeginAppend(es)
    \/ \E i \in 1..MaxIndex : \/ BeginTruncate(i) \/ BeginPurge(i)
                              \/ InstallSnapshot(i) \/ ApplyFails(i)
                              \/ \E due \in BOOLEAN : Apply(i, due)
    \/ \E v \in 1..MaxVote : BeginSaveVote(v)
    \/ FinishJob \/ Flush \/ BuildSnapshot
    \/ \E d \in torn : CrashAndOpen(d)

Spec == Init /\ [][Next]_vars

-----------------------------------------------------------------------------
(***************************************************************************)
(* Types, and that a boot or an install never sets the vote below one that *)
(* was answered, nor the applied index past what is chosen.                *)
(***************************************************************************)
TypeOK ==
    /\ DOMAIN disk.log \subseteq 1..MaxIndex
    /\ \A i \in DOMAIN disk.log : disk.log[i] \in Entry
    /\ ram.applied \in 0..Len(chosen)
    /\ ram.vote \in promised.vote..MaxVote
    /\ seen \in 0..Len(chosen)

(***************************************************************************)
(* Exactly once: the catalog in RAM is the chosen commands up to where it  *)
(* is, none applied twice and none skipped, after any crash, torn image of *)
(* an older release, snapshot or replay.                                   *)
(***************************************************************************)
AppliedExactlyOnce == TypeOK /\ Exact(ram.applied, ram.content, chosen)

(***************************************************************************)
(* "A crash replays it rather than losing it": whatever part of a log      *)
(* operation a crash keeps, the boot finds every entry whose effect was    *)
(* shown either in its image or in its log, to replay.                     *)
(***************************************************************************)
NothingShownIsLost ==
    \A d \in torn : \A i \in (Opened(d).applied + 1)..seen :
        i \in DOMAIN d.log /\ Committed(i, d.log[i])

(***************************************************************************)
(* What the others were told survives: a vote given or an entry            *)
(* acknowledged is on disk after a crash, until it is truncated, or covered *)
(* by the image when it is purged.                                         *)
(***************************************************************************)
PromisesSurvive ==
    \A d \in torn :
        /\ d.vote >= promised.vote
        /\ \A i \in DOMAIN promised.log :
             i <= Opened(d).applied \/ (i \in DOMAIN d.log /\ d.log[i] = promised.log[i])

=============================================================================
