-------------------------- MODULE ResourceCatalog --------------------------
(***************************************************************************)
(* The replicated resource catalog (engenho-store/src/state.rs): the live  *)
(* objects with their version metadata, the history beside them, and what  *)
(* each Raft command does to both.  Commands are pure functions of the     *)
(* catalog, as in the code, so that every replica computes the same one.   *)
(*                                                                         *)
(* An object is abstracted to what the catalog's rules tell apart: its     *)
(* identity (uid; creationTimestamp follows the same rule), spec, one      *)
(* label, status, whether it has finalizers (fin), whether it carries a    *)
(* deletionTimestamp (del), and the stamps generation and resourceVersion. *)
(***************************************************************************)
EXTENDS WatchHistory

CONSTANT Nil         \* no object, no pre-image

None == -1           \* no revision: an unconditional write
NoUid == 0

Value  == [uid: Nat, spec: Nat, label: Nat, status: Nat,
           fin: BOOLEAN, del: BOOLEAN, gen: Nat, rv: Nat]
Meta   == [create: Nat, mod: Nat, version: Nat]

-----------------------------------------------------------------------------
\* VersionMeta of a first write and of a later one.
CreatedAt(rev) == [create |-> rev, mod |-> rev, version |-> 1]

BumpedAt(m, rev) == [m EXCEPT !.mod = rev, !.version = @ + 1]

ImageOf(res, k) == IF k \in DOMAIN res THEN res[k].val ELSE Nil

\* The CAS heart: an expected revision must be the live object's own.
\* (Mutant: the expectation is dropped on the way to the log.)
PreconditionIgnored(expected, res, k) == TRUE

CheckPrecondition(expected, res, k) ==
    expected # None => k \in DOMAIN res /\ res[k].meta.mod = expected

Released(v) == v.del /\ ~v.fin

\* Equal but for what the store stamps on every write.
Unchanged(prior, cand) == [cand EXCEPT !.rv = prior.rv, !.gen = prior.gen] = prior

Skips(onIdentical, prior, cand) ==
    /\ onIdentical = "Skip" /\ prior # Nil
    /\ Unchanged(prior, cand) /\ ~Released(cand)

\* Mutant: the generation of the body, which no client sends, is kept.
GenerationOfBody(prior, next) == IF prior = Nil \/ next.gen < 1 THEN 1 ELSE next.gen

ComputeGeneration(prior, next) ==
    IF prior = Nil THEN 1
    ELSE LET g == IF prior.gen < 1 THEN 1 ELSE prior.gen
         IN  IF prior.spec = next.spec THEN g ELSE g + 1

\* uid: the prior object's, else the body's, else minted from the create revision.
StampIdentity(body, prior, rev) ==
    [body EXCEPT !.uid = IF prior # Nil /\ prior.uid # NoUid THEN prior.uid
                         ELSE IF @ # NoUid THEN @ ELSE rev]

-----------------------------------------------------------------------------
(***************************************************************************)
(* What a command does: its operation, the objects after it, the changes   *)
(* it commits (none: the revision is not consumed).                        *)
(***************************************************************************)
NoChange(op, res) == [op |-> op, res |-> res, changes |-> <<>>]

Change(rev, k, kind, value, prior, meta) ==
    [rev |-> rev, key |-> k, kind |-> kind, value |-> value, prior |-> prior, meta |-> meta]

Without(res, k) == [j \in DOMAIN res \ {k} |-> res[j]]

\* A removal; value is the tombstone and, in the code, also the recorded prior.
Removal(res, k, value, rev) ==
    [op |-> "Deleted", res |-> Without(res, k),
     changes |-> <<Change(rev, k, "Delete", value, value, res[k].meta)>>]

Upsert(op, res, k, value, rev) ==
    LET meta == IF k \in DOMAIN res THEN BumpedAt(res[k].meta, rev) ELSE CreatedAt(rev)
    IN  [op |-> op, res |-> [j \in DOMAIN res \cup {k} |->
                               IF j = k THEN [val |-> value, meta |-> meta] ELSE res[j]],
         changes |-> <<Change(rev, k, "Put", value, ImageOf(res, k), meta)>>]

\* The common tail of Put, Patch and apply: stamp, then release or store.
Commit1(op, res, k, cand, rev) ==
    LET prior == ImageOf(res, k)
        new   == [cand EXCEPT !.rv = rev, !.gen = ComputeGeneration(prior, cand)]
    IN  IF prior # Nil /\ Released(new)
        THEN Removal(res, k, new, rev)
        ELSE Upsert(op, res, k, new, rev)

ApplyPut(res, k, body, expected, onIdentical, rev) ==
    LET prior == ImageOf(res, k)
        cand  == StampIdentity(body, prior, rev)
    IN  IF ~CheckPrecondition(expected, res, k) THEN NoChange("Conflict", res)
        ELSE IF Skips(onIdentical, prior, cand) THEN NoChange("Unchanged", res)
        ELSE Commit1(IF prior = Nil THEN "Created" ELSE "Replaced", res, k, cand, rev)

(***************************************************************************)
(* A patch is a record of the fields it sets, or Nil when it does not      *)
(* apply (a failed test, a bad pointer, an unsupported type).              *)
(***************************************************************************)
Merged(prior, patch) ==
    [f \in DOMAIN prior |-> IF f \in DOMAIN patch THEN patch[f] ELSE prior[f]]

ApplyPatch(res, k, patch, expected, onIdentical, rev) ==
    LET prior == ImageOf(res, k)
    IN  IF prior = Nil
        THEN NoChange(IF expected # None THEN "Conflict" ELSE "NoOp", res)
        ELSE IF ~CheckPrecondition(expected, res, k) THEN NoChange("Conflict", res)
        ELSE IF patch = Nil THEN NoChange("PatchRejected", res)
        ELSE IF Skips(onIdentical, prior, Merged(prior, patch)) THEN NoChange("Unchanged", res)
        ELSE Commit1("Patched", res, k, Merged(prior, patch), rev)

(***************************************************************************)
(* Server-side apply is an upsert of the merged configuration.  Ownership  *)
(* conflicts are decided in ssa.rs: conflict says it found one.            *)
(***************************************************************************)
Blank == [uid |-> NoUid, spec |-> 0, label |-> 0, status |-> 0,
          fin |-> FALSE, del |-> FALSE, gen |-> 0, rv |-> 0]

ApplySsa(res, k, config, conflict, expected, onIdentical, rev) ==
    LET prior == ImageOf(res, k)
        cand  == StampIdentity(Merged(IF prior = Nil THEN Blank ELSE prior, config), prior, rev)
    IN  IF ~CheckPrecondition(expected, res, k) THEN NoChange("Conflict", res)
        ELSE IF conflict /\ prior # Nil THEN NoChange("ApplyConflict", res)
        ELSE IF Skips(onIdentical, prior, cand) THEN NoChange("Unchanged", res)
        ELSE Commit1(IF prior = Nil THEN "Created" ELSE "Patched", res, k, cand, rev)

\* Mutant: no finalizer gate.
DeleteIgnoresFinalizers(res, k, expected, clock, rev) ==
    IF ~CheckPrecondition(expected, res, k) THEN NoChange("Conflict", res)
    ELSE IF k \notin DOMAIN res THEN NoChange("NoOp", res)
    ELSE Removal(res, k, res[k].val, rev)

\* Mutant: the Terminating stamp keeps the old resourceVersion.
DeleteKeepsVersion(res, k, expected, clock, rev) ==
    IF ~CheckPrecondition(expected, res, k) THEN NoChange("Conflict", res)
    ELSE IF k \notin DOMAIN res THEN NoChange("NoOp", res)
    ELSE IF ~res[k].val.fin THEN Removal(res, k, res[k].val, rev)
    ELSE IF res[k].val.del \/ ~clock THEN NoChange("NoOp", res)
    ELSE Upsert("DeletionPending", res, k, [res[k].val EXCEPT !.del = TRUE], rev)

\* The finalizer gate.  clock: whether the command carries a deletion timestamp.
ApplyDelete(res, k, expected, clock, rev) ==
    IF ~CheckPrecondition(expected, res, k) THEN NoChange("Conflict", res)
    ELSE IF k \notin DOMAIN res THEN NoChange("NoOp", res)
    ELSE IF ~res[k].val.fin THEN Removal(res, k, res[k].val, rev)
    ELSE IF res[k].val.del \/ ~clock THEN NoChange("NoOp", res)
    ELSE Upsert("DeletionPending", res, k, [res[k].val EXCEPT !.del = TRUE, !.rv = rev], rev)

-----------------------------------------------------------------------------
EvalCompare(res, cmp) ==
    IF cmp.rev = None THEN cmp.key \notin DOMAIN res
    ELSE cmp.key \in DOMAIN res /\ res[cmp.key].meta.mod = cmp.rev

\* One op of a transaction, after the ones in acc, at the transaction's revision.
TxnStep(acc, op, rev) ==
    LET out == IF op.kind = "Put"
               THEN ApplyPut(acc.res, op.key, op.body, None, "Commit", rev)
               ELSE ApplyDelete(acc.res, op.key, None, TRUE, rev)
    IN  [op |-> "Replaced", res |-> out.res, changes |-> acc.changes \o out.changes]

ApplyTxn(res, compares, success, failure, rev) ==
    LET branch == IF \A c \in compares : EvalCompare(res, c) THEN success ELSE failure
        run[n \in 0..Len(branch)] == IF n = 0 THEN NoChange("NoOp", res)
                                     ELSE TxnStep(run[n - 1], branch[n], rev)
        out    == run[Len(branch)]
    IN  IF out.changes = <<>> THEN NoChange("NoOp", out.res) ELSE out

\* Mutants: a no-op that takes a revision; a transaction remembered by its first change.
CommitAlways(cat, out) ==
    [resources |-> out.res,
     history   |-> IF out.changes = <<>> THEN [cat.history EXCEPT !.head = @ + 1]
                   ELSE Commit(cat.history, out.changes)]

CommitFirst(cat, out) ==
    [resources |-> out.res,
     history   |-> IF out.changes = <<>> THEN cat.history
                   ELSE Commit(cat.history, <<Head(out.changes)>>)]

\* apply_under: only a command that changed something takes the revision.
CommitOutcome(cat, out) ==
    [resources |-> out.res,
     history   |-> IF out.changes = <<>> THEN cat.history
                   ELSE Commit(cat.history, out.changes)]

NextRevision(cat) == cat.history.head + 1

EmptyCatalog == [resources |-> <<>>, history |-> NewHistory]

\* A catalog opened from its image: the objects and the head survive.
Reloaded(cat) == [cat EXCEPT !.history = LoadedAt(@.head)]

-----------------------------------------------------------------------------
(***************************************************************************)
(* Reads at a past revision undo the retained changes newer than it,       *)
(* newest first, so the oldest newer change of a key decides.              *)
(***************************************************************************)
NewerOf(cat, rev, k) ==
    LET newer == Since(cat.history, rev)
    IN  {newer[i] : i \in {i \in 1..Len(newer) : newer[i].key = k}}

FirstOf(s, k) == s[CHOOSE i \in 1..Len(s) :
                     s[i].key = k /\ \A j \in 1..(i-1) : s[j].key # k]

LastOf(s, k) == s[CHOOSE i \in 1..Len(s) :
                    s[i].key = k /\ \A j \in (i+1)..Len(s) : s[j].key # k]

\* Mutant: undone oldest first.
RewindUndoesNewest(cat, rev, k) ==
    IF NewerOf(cat, rev, k) = {} THEN ImageOf(cat.resources, k)
    ELSE LastOf(Since(cat.history, rev), k).prior

Rewind(cat, rev, k) ==
    IF NewerOf(cat, rev, k) = {} THEN ImageOf(cat.resources, k)
    ELSE FirstOf(Since(cat.history, rev), k).prior

(***************************************************************************)
(* state_at's metadata: the newest retained change at or before rev, else  *)
(* the live metadata, else a declared floor.                               *)
(***************************************************************************)
ThroughOf(cat, rev, k) ==
    LET through == Through(cat.history, rev)
    IN  {through[i] : i \in {i \in 1..Len(through) : through[i].key = k}}

\* Mutant: the undoing change's own metadata, presented as exact.
MetaAlwaysExact(cat, rev, k) ==
    IF ThroughOf(cat, rev, k) # {}
    THEN [meta |-> LastOf(Through(cat.history, rev), k).meta, exact |-> TRUE]
    ELSE IF NewerOf(cat, rev, k) = {} THEN [meta |-> cat.resources[k].meta, exact |-> TRUE]
    ELSE [meta |-> FirstOf(Since(cat.history, rev), k).meta, exact |-> TRUE]

MetaAt(cat, rev, k) ==
    IF ThroughOf(cat, rev, k) # {}
    THEN [meta |-> LastOf(Through(cat.history, rev), k).meta, exact |-> TRUE]
    ELSE IF NewerOf(cat, rev, k) = {} THEN [meta |-> cat.resources[k].meta, exact |-> TRUE]
    ELSE LET by == FirstOf(Since(cat.history, rev), k)
         IN  [meta  |-> [create |-> by.meta.create, mod |-> cat.history.floor, version |-> 1],
              exact |-> FALSE]

\* Where a read at rv is served from.
Judge(cat, consistency, rv) ==
    IF consistency # "Latest" /\ rv > cat.history.head THEN "TooLarge"
    ELSE IF consistency = "Exact" /\ rv < cat.history.floor THEN "Expired"
    ELSE IF consistency = "Exact" /\ rv < cat.history.head THEN "Past"
    ELSE "Head"

ReadOne(cat, consistency, rv, k) ==
    IF Judge(cat, consistency, rv) = "Past" THEN Rewind(cat, rv, k)
    ELSE ImageOf(cat.resources, k)

-----------------------------------------------------------------------------
(***************************************************************************)
(* What a watch receives for a change whose prior and post-image get these *)
(* verdicts of its selector (watch.rs Projection::of, ChangeShape::of).    *)
(***************************************************************************)
ShapeOf(c) == IF c.kind = "Delete" THEN "Deleted" ELSE IF c.prior = Nil THEN "Created" ELSE "Updated"

Project(shape, passesBefore, passesAfter) ==
    LET before == passesBefore /\ shape # "Created"
        after  == passesAfter /\ shape # "Deleted"
    IN  CASE ~before /\ after -> "ADDED"
          [] before /\ after  -> "MODIFIED"
          [] before /\ ~after -> "DELETED"
          [] OTHER            -> "SKIP"

=============================================================================
