---------------------------- MODULE CatalogStore ----------------------------
(***************************************************************************)
(* One replica's catalog under any sequence of committed commands, with    *)
(* compactions and reloads between them.  Controllers, the kubelet and the *)
(* apiserver all propose such commands; here they are arbitrary.           *)
(*                                                                         *)
(* past is the truth the reads are judged against: past[r + 1] is the set  *)
(* of objects as revision r left it.  The code keeps no such thing.        *)
(***************************************************************************)
EXTENDS ResourceCatalog

CONSTANTS Keys,        \* object keys
          Bodies,      \* bodies a Put or a transaction may store
          Patches,     \* patches and applied configurations
          MaxRev,      \* bound on revisions
          MaxReloads   \* bound on restarts

\* A body is an object; a patch sets fields of one, never its identity.
ASSUME CatalogAssumption ==
    /\ Nil \notin Value /\ Nil \notin Patches /\ Bodies \subseteq Value
    /\ \A p \in Patches : /\ DOMAIN p \subseteq DOMAIN Blank \ {"uid"}
                          /\ Merged(Blank, p) \in Value
    /\ MaxRev \in Nat /\ MaxReloads \in Nat

VARIABLES catalog, past, reloads

vars == <<catalog, past, reloads>>

Head1 == catalog.history.head
Floor == catalog.history.floor

Init == /\ catalog = EmptyCatalog
        /\ past = << <<>> >>
        /\ reloads = 0

\* What a command leaves behind; past grows with the head.
Commits(out) ==
    /\ Head1 < MaxRev
    /\ catalog' = CommitOutcome(catalog, out)
    /\ past' = IF out.changes = <<>> THEN past ELSE Append(past, out.res)
    /\ UNCHANGED reloads

\* Revisions a client could name: none, one a key is at now, or one that no
\* key is at any more (0 stands for all of those).
Expected == {None, 0} \cup {catalog.resources[k].meta.mod : k \in DOMAIN catalog.resources}

Put(k, body, expected, semantics) ==
    Commits(ApplyPut(catalog.resources, k, body, expected, semantics, NextRevision(catalog)))

Patch(k, patch, expected, semantics) ==
    Commits(ApplyPatch(catalog.resources, k, patch, expected, semantics, NextRevision(catalog)))

ServerSideApply(k, config, conflict, expected, semantics) ==
    Commits(ApplySsa(catalog.resources, k, config, conflict, expected, semantics,
                     NextRevision(catalog)))

Delete(k, expected, clock) ==
    Commits(ApplyDelete(catalog.resources, k, expected, clock, NextRevision(catalog)))

\* A transaction of one or two ops on distinct keys, as every proposer in the
\* repository builds them, guarded by at most one compare.
Compares == {{}} \cup {{[key |-> k, rev |-> r]} : k \in Keys, r \in Expected}

TxnOps == [kind: {"Put"}, key: Keys, body: Bodies] \cup [kind: {"Delete"}, key: Keys]

Txn(compares, success, failure) ==
    Commits(ApplyTxn(catalog.resources, compares, success, failure, NextRevision(catalog)))

CompactTo(target) ==
    /\ catalog' = [catalog EXCEPT !.history = Compact(@, target)]
    /\ catalog' # catalog
    /\ UNCHANGED <<past, reloads>>

Reload ==
    /\ reloads < MaxReloads
    /\ catalog' = Reloaded(catalog)
    /\ reloads' = reloads + 1
    /\ UNCHANGED past

Next ==
    \/ \E k \in Keys, e \in Expected, s \in {"Skip", "Commit"} :
         \/ \E b \in Bodies : Put(k, b, e, s)
         \/ \E p \in Patches \cup {Nil} : Patch(k, p, e, s)
         \/ \E p \in Patches, c \in BOOLEAN : ServerSideApply(k, p, c, e, s)
    \/ \E k \in Keys, e \in Expected, clock \in BOOLEAN : Delete(k, e, clock)
    \/ \E cs \in Compares, a, b \in TxnOps : a.key # b.key /\ Txn(cs, <<a, b>>, <<a>>)
    \/ \E cs \in Compares, a \in TxnOps : Txn(cs, <<a>>, <<>>)
    \/ \E r \in 1..Head1 : CompactTo(r)
    \/ Reload

Spec == Init /\ [][Next]_vars

-----------------------------------------------------------------------------
Objects(r) == past[r + 1]           \* the objects as revision r left them

Window == Floor..Head1              \* the revisions the history still reaches

\* The revisions an exact read is served at.
Served == {r \in 0..(Head1 + 1) : Judge(catalog, "Exact", r) \in {"Past", "Head"}}

(***************************************************************************)
(* Types, and that the ring and the revision counter stay in step: every   *)
(* committed revision has one recorded image, and nothing in the ring lies *)
(* outside floor+1..head.                                                  *)
(***************************************************************************)
TypeOK ==
    /\ DOMAIN catalog.resources \subseteq Keys
    /\ \A k \in DOMAIN catalog.resources :
         catalog.resources[k].val \in Value /\ catalog.resources[k].meta \in Meta
    /\ Floor \in Nat /\ Head1 \in Nat /\ Floor <= Head1
    /\ Len(past) = Head1 + 1 /\ Objects(Head1) = catalog.resources
    /\ \A i \in 1..Len(catalog.history.ring) :
         catalog.history.ring[i].rev \in (Floor + 1)..Head1

(***************************************************************************)
(* A removal by finalizer release: its tombstone was stamped with the      *)
(* release's own revision, where a plain delete keeps the object's.        *)
(***************************************************************************)
IsRelease(c) == c.kind = "Delete" /\ c.value.rv = c.rev

ReleasedAfter(r, k) ==
    NewerOf(catalog, r, k) # {} /\ IsRelease(FirstOf(Since(catalog.history, r), k))

\* Metadata marked Exact is that of revision r; a floor has the real
\* create_revision and bounds the real mod_revision.
MetaHonest(r, k) ==
    LET m == MetaAt(catalog, r, k)  t == Objects(r)[k].meta
    IN  IF m.exact THEN m.meta = t
        ELSE m.meta.create = t.create /\ t.mod <= m.meta.mod

(***************************************************************************)
(* state_at, read_page and read_one: "VALUES ARE EXACT".  Every retained   *)
(* past revision reads back object for object as it was, from the present  *)
(* and the ring alone, for every key whose next change is not a finalizer  *)
(* release; one that is released next still reads back as present.  And    *)
(* its metadata is never a guess handed out as exact.                      *)
(***************************************************************************)
PastReadsExactUnlessReleased ==
    /\ \A r \in Served, k \in Keys :
         IF ReleasedAfter(r, k)
         THEN ReadOne(catalog, "Exact", r, k) # Nil /\ k \in DOMAIN Objects(r)
         ELSE ReadOne(catalog, "Exact", r, k) = ImageOf(Objects(r), k)
    /\ \A r \in Window : \A k \in DOMAIN Objects(r) : MetaHonest(r, k)

(***************************************************************************)
(* A resourceVersion names one version of an object, so a compare-and-swap *)
(* that succeeds replaces exactly what its author read: no two states of a *)
(* key that a reader could have seen carry the same resourceVersion, and   *)
(* the live one is the revision the CAS compares with.                     *)
(***************************************************************************)
VersionIdentifies ==
    \A k \in DOMAIN catalog.resources :
        /\ catalog.resources[k].val.rv = catalog.resources[k].meta.mod
        /\ \A r \in 0..Head1 :
             k \in DOMAIN Objects(r) /\ Objects(r)[k].val.rv = catalog.resources[k].val.rv
                => Objects(r)[k] = catalog.resources[k]

(***************************************************************************)
(* observedGeneration is sound: within one incarnation of an object the    *)
(* generation never falls, and equal generations mean equal specs, across  *)
(* status writes, transactions, Terminating stamps and reloads.            *)
(***************************************************************************)
GenerationSound ==
    \A k \in DOMAIN catalog.resources : \A r \in 0..Head1 :
        LET now == catalog.resources[k]
        IN  k \in DOMAIN Objects(r) /\ Objects(r)[k].meta.create = now.meta.create =>
              /\ Objects(r)[k].val.gen <= now.val.gen
              /\ Objects(r)[k].val.gen = now.val.gen => Objects(r)[k].val.spec = now.val.spec
              /\ Objects(r)[k].val.uid = now.val.uid

(***************************************************************************)
(* The store is well typed, and what it stamps can be relied upon: the     *)
(* resourceVersion by a compare-and-swap, the generation by a controller.  *)
(***************************************************************************)
StampsSound == TypeOK /\ VersionIdentifies /\ GenerationSound

-----------------------------------------------------------------------------
(***************************************************************************)
(* A watch filtered by a label, opened at any retained revision r on the   *)
(* list of r, ends up with the keys that match now: the ones listed, plus  *)
(* every ADDED, minus every DELETED since.                                 *)
(***************************************************************************)
EventOf(c, l) ==
    Project(ShapeOf(c), c.prior # Nil /\ c.prior.label = l, c.value.label = l)

LastEvent(r, k, l) ==
    LET newer == Since(catalog.history, r)
        told  == {i \in 1..Len(newer) : newer[i].key = k /\ EventOf(newer[i], l) # "SKIP"}
    IN  IF told = {} THEN "SKIP"
        ELSE EventOf(newer[CHOOSE i \in told : \A j \in told : j <= i], l)

InView(r, k, l) ==
    IF LastEvent(r, k, l) = "SKIP"
    THEN k \in DOMAIN Objects(r) /\ Objects(r)[k].val.label = l
    ELSE LastEvent(r, k, l) # "DELETED"

Matches(k, l) == k \in DOMAIN catalog.resources /\ catalog.resources[k].val.label = l

Relabelling(r, k) ==
    \E c \in NewerOf(catalog, r, k) :
        IsRelease(c) /\ ImageOf(Objects(c.rev - 1), k) # Nil
                     /\ ImageOf(Objects(c.rev - 1), k).label # c.value.label

(***************************************************************************)
(* A watch filtered by a label keeps its holder's view exact, for every key*)
(* that no finalizer release in the window also relabelled.                *)
(***************************************************************************)
FilteredViewExactUnlessRelabelled ==
    \A r \in Window, k \in Keys, l \in {b.label : b \in Bodies} :
        ~Relabelling(r, k) => (InView(r, k, l) <=> Matches(k, l))

=============================================================================
