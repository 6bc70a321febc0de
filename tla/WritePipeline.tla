---------------------------- MODULE WritePipeline ----------------------------
(***************************************************************************)
(* The apiserver's write path (engenho-apiserver handler/write_plan.rs and *)
(* the subresource writes of handler.rs) over the store's proposal path    *)
(* (engenho-store mesh.rs): concurrent requests for one object, each of    *)
(* which reads a replica, plans, proposes a compare-and-swap, waits for    *)
(* its replica and reads the result back.  Between any two awaits any      *)
(* other request may commit.                                               *)
(*                                                                         *)
(* past[r + 1] is the object map as revision r left it; a replica that has *)
(* applied r shows it.  The leader has applied everything committed.       *)
(***************************************************************************)
EXTENDS ResourceCatalog, FiniteSets

CONSTANTS Obj,           \* the key written
          Writers,       \* concurrent requests, one each
          Asks,          \* what they may ask for: verb, arg, dry
          Leader, Followers,
          WriteAttempts, \* times one write is planned
          WaitExpires,   \* whether a forwarded proposal may outwait its replica
          MaxFaults,     \* bound on proposals that answer an error
          Start0         \* the object maps the requests may find

MainVerbs == {"Create", "Replace", "Patch", "Apply"}
ScopedVerbs == {"PutScoped", "PatchScoped"}     \* /status and /scale

\* What a request may carry: fields of an object, without the identity and the
\* stamps, which are the server's; a subresource write carries its own part only,
\* and its patch may be one that does not apply (Nil).
AskOK(ask) ==
    /\ ask.verb \in MainVerbs \cup ScopedVerbs \cup {"Delete"} /\ ask.dry \in BOOLEAN
    /\ ask.arg = Nil => ask.verb = "PatchScoped"
    /\ ask.arg # Nil => /\ DOMAIN ask.arg \subseteq DOMAIN Blank \ {"uid", "gen", "rv"}
                        /\ ask.verb \in ScopedVerbs => DOMAIN ask.arg \subseteq {"spec", "status"}
                        /\ Merged(Blank, ask.arg) \in Value

\* An object map as the catalog leaves it by revision rev.
StoredBy(res, rev) ==
    /\ DOMAIN res \subseteq {Obj}
    /\ Obj \in DOMAIN res => /\ res[Obj].val \in Value /\ res[Obj].meta \in Meta
                             /\ res[Obj].val.uid # NoUid
                             /\ res[Obj].val.rv = res[Obj].meta.mod
                             /\ res[Obj].meta.mod \in 1..rev

\* A history of object maps: a modification revision names one version.
HistoryOK(p) ==
    /\ p \in Seq({p[i] : i \in DOMAIN p}) /\ Len(p) > 0
    /\ \A i \in 1..Len(p) : StoredBy(p[i], i - 1)
    /\ \A i, j \in 1..Len(p) :
         Obj \in DOMAIN p[i] /\ Obj \in DOMAIN p[j] /\ p[i][Obj].meta.mod = p[j][Obj].meta.mod
             => p[i][Obj].val = p[j][Obj].val

ASSUME PipelineAssumption ==
    /\ Nil \notin Value /\ Leader \notin Followers
    /\ WriteAttempts \in Nat \ {0} /\ MaxFaults \in Nat /\ WaitExpires \in BOOLEAN
    /\ \A ask \in Asks : AskOK(ask)
    /\ \A p \in Start0 : HistoryOK(p)

VARIABLES past, applied, req, faults

vars == <<past, applied, req, faults>>

Nodes == {Leader} \cup Followers

Rev == Len(past) - 1

Live == past[Len(past)]

\* StoreMesh::get, get_with_meta: the local replica, however far it is.
Replica(n) == IF n = Leader THEN Live ELSE past[applied[n] + 1]

Idle == [pc |-> "idle", ask |-> Nil, expected |-> None, node |-> Leader, tries |-> 0,
         since |-> 0, at |-> None, cand |-> Nil, op |-> "none", target |-> 0,
         answer |-> "none", wrote |-> 0]

Init == /\ past \in Start0
        /\ applied \in [Followers -> 0..Rev]
        /\ req = [w \in Writers |-> Idle]
        /\ faults = 0

Answered(w, a) == req' = [req EXCEPT ![w].pc = "done", ![w].answer = a]

-----------------------------------------------------------------------------
(***************************************************************************)
(* Planning.                                                               *)
(***************************************************************************)
\* Mutant: an update leaves deletionTimestamp to the client.
StampKeepsClientDel(cand, prior) ==
    IF prior = Nil THEN [cand EXCEPT !.uid = NoUid]
    ELSE [cand EXCEPT !.uid = prior.uid, !.status = prior.status]

\* Step 10, on update: what the client may not move is the live object's.  The
\* object is of a kind that serves /status; other kinds take their status along.
StampServerOwned(cand, prior) ==
    IF prior = Nil THEN [cand EXCEPT !.uid = NoUid]
    ELSE [cand EXCEPT !.uid = prior.uid, !.del = prior.del, !.status = prior.status]

\* Step 4: the body, or the store's own merge.
Candidate(ask, prior) ==
    CASE ask.verb \in {"Create", "Replace"} -> Merged(Blank, ask.arg)
      [] ask.verb = "Patch" -> Merged(prior, ask.arg)
      [] ask.verb = "Apply" -> Merged(IF prior = Nil THEN Blank ELSE prior, ask.arg)

Refusal(answer)  == [kind |-> "Refuse", answer |-> answer]
ToWrite(at, cand) == [kind |-> "Write", at |-> at, cand |-> cand]

\* Steps 2 to 11 of a main-object write against what the replica holds.
PlanMain(ask, expected, res) ==
    LET held   == ImageOf(res, Obj)
        create == ask.verb = "Create" \/ held = Nil
        prior  == IF create THEN Nil ELSE held
        at     == IF create THEN None ELSE res[Obj].meta.mod
        cand   == StampServerOwned(Candidate(ask, prior), prior)
    IN  IF ask.verb \in {"Replace", "Patch"} /\ held = Nil THEN Refusal("NotFound")
        ELSE IF expected # None /\ at # expected THEN Refusal("Conflict")
        ELSE IF ask.verb = "Create" /\ held # Nil THEN Refusal("AlreadyExists")
        ELSE IF prior # Nil /\ Unchanged(prior, cand) /\ ~cand.del THEN Refusal("Unchanged")
        ELSE IF ask.dry THEN Refusal("DryRun")
        ELSE ToWrite(at, cand)

\* /status and /scale: the object must exist; a PUT without a precondition
\* takes the live revision, a PATCH goes in unconditionally.  Their routes never
\* look at dryRun: ask.dry changes nothing here.
PlanScoped(ask, expected, res) ==
    IF Obj \notin DOMAIN res THEN Refusal("NotFound")
    ELSE ToWrite(IF expected = None /\ ask.verb = "PutScoped" THEN res[Obj].val.rv ELSE expected,
                 ask.arg)

\* Mutant: only an object seen with finalizers is given a clock.
PlanDeleteByPrior(ask, expected, res) ==
    IF ask.dry THEN Refusal("DryRun")
    ELSE ToWrite(expected, [clock |-> Obj \in DOMAIN res /\ res[Obj].val.fin])

\* Mutant: a dry-run DELETE is proposed like any other.
PlanDeleteIgnoresDry(ask, expected, res) == ToWrite(expected, [clock |-> TRUE])

\* DELETE reads the object for its answer only; every delete carries its clock.
PlanDelete(ask, expected, res) ==
    IF ask.dry THEN Refusal("DryRun") ELSE ToWrite(expected, [clock |-> TRUE])

Plan(ask, expected, res) ==
    CASE ask.verb \in MainVerbs   -> PlanMain(ask, expected, res)
      [] ask.verb \in ScopedVerbs -> PlanScoped(ask, expected, res)
      [] ask.verb = "Delete"      -> PlanDelete(ask, expected, res)

-----------------------------------------------------------------------------
(***************************************************************************)
(* The command a plan proposes, as the catalog applies it.                 *)
(***************************************************************************)
\* Mutant: a create is an unconditional Put.
CommandOverwrites(r, res, rev) ==
    CASE r.ask.verb \in MainVerbs /\ r.at = None ->
           ApplyPut(res, Obj, r.cand, None, "Skip", rev)
      [] r.ask.verb \in MainVerbs /\ r.at # None ->
           ApplyPut(res, Obj, r.cand, r.at, "Skip", rev)
      [] r.ask.verb \in ScopedVerbs -> ApplyPatch(res, Obj, r.cand, r.at, "Skip", rev)
      [] r.ask.verb = "Delete"      -> ApplyDelete(res, Obj, r.at, r.cand.clock, rev)

Command(r, res, rev) ==
    CASE r.ask.verb \in MainVerbs /\ r.at = None ->
           ApplyTxn(res, {[key |-> Obj, rev |-> None]},
                    <<[kind |-> "Put", key |-> Obj, body |-> r.cand]>>, <<>>, rev)
      [] r.ask.verb \in MainVerbs /\ r.at # None ->
           ApplyPut(res, Obj, r.cand, r.at, "Skip", rev)
      [] r.ask.verb \in ScopedVerbs -> ApplyPatch(res, Obj, r.cand, r.at, "Skip", rev)
      [] r.ask.verb = "Delete"      -> ApplyDelete(res, Obj, r.at, r.cand.clock, rev)

-----------------------------------------------------------------------------
(***************************************************************************)
(* The steps of a request.                                                 *)
(***************************************************************************)
Arrive(w, ask, expected, n) ==
    /\ req[w].pc = "idle"
    /\ req' = [req EXCEPT ![w] = [Idle EXCEPT !.pc = "read", !.node = n, !.since = Rev,
                                              !.ask = ask, !.expected = expected]]
    /\ UNCHANGED <<past, applied, faults>>

ReadAndPlan(w) ==
    /\ req[w].pc = "read"
    /\ LET p == Plan(req[w].ask, req[w].expected, Replica(req[w].node))
       IN  IF p.kind = "Refuse" THEN Answered(w, p.answer)
           ELSE req' = [req EXCEPT ![w].pc = "propose", ![w].at = p.at, ![w].cand = p.cand]
    /\ UNCHANGED <<past, applied, faults>>

\* Ownership conflict, field validation, name, namespace, schema, admission.
Reject(w) ==
    /\ req[w].pc = "read" /\ Answered(w, "Rejected")
    /\ UNCHANGED <<past, applied, faults>>

Commits(out) == past' = IF out.changes = <<>> THEN past ELSE Append(past, out.res)

Propose(w) ==
    LET out == Command(req[w], Live, Rev + 1)
    IN  /\ req[w].pc = "propose"
        /\ Commits(out)
        /\ req' = [req EXCEPT ![w].pc = "wait", ![w].op = out.op, ![w].target = Len(past') - 1,
                              ![w].wrote = @ + Len(out.changes)]
        /\ UNCHANGED <<applied, faults>>

\* The proposal answers an error; it may have been committed all the same.
ProposeFails(w, committed) ==
    LET out == IF committed THEN Command(req[w], Live, Rev + 1) ELSE NoChange("none", Live)
    IN  /\ req[w].pc = "propose" /\ faults < MaxFaults
        /\ Commits(out)
        /\ req' = [req EXCEPT ![w].pc = "done", ![w].answer = "Error",
                              ![w].wrote = @ + Len(out.changes)]
        /\ faults' = faults + 1
        /\ UNCHANGED applied

\* wait_for_revision: the replica has caught up with the result, or time is up.
Waited(w) ==
    IF req[w].node = Leader \/ WaitExpires THEN TRUE ELSE applied[req[w].node] >= req[w].target

ReadBack(w) == IF Obj \in DOMAIN Replica(req[w].node) THEN "Stored" ELSE "Unreadable"

\* Mutant: the lost plan is proposed again as it is.
RacedReproposes(w) ==
    IF req[w].expected # None THEN Answered(w, "Conflict")
    ELSE IF req[w].ask.verb = "Create" THEN Answered(w, "AlreadyExists")
    ELSE req' = [req EXCEPT ![w].pc = "propose"]

\* write()'s match on Committed, once a race is lost.
Raced(w) ==
    IF req[w].expected # None THEN Answered(w, "Conflict")
    ELSE IF req[w].ask.verb = "Create" THEN Answered(w, "AlreadyExists")
    ELSE IF req[w].tries + 1 = WriteAttempts THEN Answered(w, "Conflict")
    ELSE req' = [req EXCEPT ![w].pc = "read", ![w].tries = @ + 1, ![w].op = "none",
                            ![w].at = None, ![w].cand = Nil]

\* Mutant: a committed write is taken for a lost one and planned again.
SettleRetriesAll(w) ==
    /\ req[w].pc = "wait" /\ Waited(w)
    /\ Raced(w)
    /\ UNCHANGED <<past, applied, faults>>

Settle(w) ==
    LET verb == req[w].ask.verb  op == req[w].op
    IN  /\ req[w].pc = "wait" /\ Waited(w)
        /\ CASE verb \in MainVerbs /\ op \in {"Created", "Replaced", "Unchanged"} ->
                  Answered(w, ReadBack(w))
             [] verb \in MainVerbs /\ op = "Deleted" -> Answered(w, "Released")
             [] verb \in MainVerbs /\ op \in {"Conflict", "NoOp"} -> Raced(w)
             [] verb \notin MainVerbs /\ op = "Conflict" -> Answered(w, "Conflict")
             [] verb \in ScopedVerbs /\ op = "PatchRejected" -> Answered(w, "BadRequest")
             [] verb \in ScopedVerbs /\ op \notin {"Conflict", "PatchRejected"} ->
                  Answered(w, ReadBack(w))
             [] verb = "Delete" /\ op # "Conflict" -> Answered(w, "Deleted")
        /\ UNCHANGED <<past, applied, faults>>

\* Replication: a follower applies the next entry.
CatchUp(n) ==
    /\ n \in Followers /\ applied[n] < Rev
    /\ applied' = [applied EXCEPT ![n] = @ + 1]
    /\ UNCHANGED <<past, req, faults>>

AllAnswered == \A w \in Writers : req[w].pc = "done"

Finished == AllAnswered /\ (\A n \in Followers : applied[n] = Rev) /\ UNCHANGED vars

Advance(w) == ReadAndPlan(w) \/ Propose(w) \/ Settle(w)

Next ==
    \/ \E w \in Writers :
         \/ \E ask \in Asks, e \in {None} \cup 1..Rev, n \in Nodes : Arrive(w, ask, e, n)
         \/ Advance(w)
         \/ Reject(w)
         \/ \E c \in BOOLEAN : ProposeFails(w, c)
    \/ \E n \in Followers : CatchUp(n)
    \/ Finished

Spec == Init /\ [][Next]_vars

(***************************************************************************)
(* Every await is polled again, and a follower that is reachable applies:  *)
(* a request that arrived is driven, and replication makes progress.       *)
(***************************************************************************)
FairSpec == /\ Spec
            /\ \A w \in Writers : WF_vars(Advance(w))
            /\ \A n \in Followers : WF_vars(CatchUp(n))

-----------------------------------------------------------------------------
(***************************************************************************)
(* Types, and that a request never takes more than WRITE_ATTEMPTS rounds   *)
(* nor pins a revision that was not committed.                             *)
(***************************************************************************)
TypeOK ==
    /\ \A r \in 1..Len(past) : DOMAIN past[r] \subseteq {Obj}
    /\ \A n \in Followers : applied[n] \in 0..Rev
    /\ \A w \in Writers : /\ req[w].pc \in {"idle", "read", "propose", "wait", "done"}
                          /\ req[w].tries \in 0..(WriteAttempts - 1)
                          /\ req[w].at \in {None} \cup 1..Rev
    /\ faults \in 0..MaxFaults

ServerOwned == {"uid", "del", "status", "gen", "rv"}

Before == ImageOf(Live, Obj)

After == ImageOf(past'[Len(past')], Obj)

\* The fields a committed request was entitled to change.
Touches(ask) ==
    CASE ask.verb \in {"Create", "Replace"} -> DOMAIN Blank \ {"uid", "del", "status"}
      [] ask.verb \in {"Patch", "Apply"}    -> (DOMAIN ask.arg \ ServerOwned) \cup {"gen", "rv"}
      [] ask.verb \in ScopedVerbs           -> DOMAIN ask.arg \cup {"gen", "rv"}
      [] ask.verb = "Delete"                -> {"del", "rv"}

CommittedBy(w) == Len(past') > Len(past) /\ req'[w].wrote > req[w].wrote

\* Whoever commits in this step changes only what it was entitled to.
NoLostUpdateStep ==
    \A w \in Writers : CommittedBy(w) =>
        /\ req[w].ask.verb = "Create" => Before = Nil
        /\ Before # Nil /\ After # Nil =>
             \A f \in DOMAIN Blank \ Touches(req[w].ask) : After[f] = Before[f]

(***************************************************************************)
(* No lost update: a committed request changes, in the object as it stands *)
(* at that moment and not as the request read it, only the fields it asked *)
(* for, and a create never replaces an object somebody else made first.    *)
(***************************************************************************)
NoLostUpdate == [][NoLostUpdateStep]_vars

(***************************************************************************)
(* Termination sticks: no write brings a Terminating object back, and an   *)
(* object that still has finalizers leaves only by a write that clears     *)
(* them while it is Terminating.                                           *)
(***************************************************************************)
TerminationSticks ==
    [][Before # Nil /\ past' # past =>
         /\ After # Nil /\ Before.del => After.del
         /\ After = Nil => ~Before.fin \/ Before.del]_vars

\* The object is as the request asked.
EffectOf(ask, o) ==
    IF ask.verb = "Delete" THEN o = Nil \/ o.del
    ELSE o # Nil /\ \A f \in Touches(ask) \cap DOMAIN ask.arg : o[f] = ask.arg[f]

TookEffect(w) ==
    \E r \in req[w].since..Rev : EffectOf(req[w].ask, ImageOf(past[r + 1], Obj))

Succeeded(w) == req[w].pc = "done" /\ req[w].answer \in {"Stored", "Unchanged", "Deleted"}

Vanished(w) == req[w].ask.verb \in ScopedVerbs /\ req[w].op \in {"NoOp", "Deleted"}

(***************************************************************************)
(* A request that was told it succeeded took effect: at some revision from *)
(* its arrival on the object was as it asked.  Excepted is a subresource   *)
(* write whose object vanished before or as it applied, and what a         *)
(* follower answers from a replica that may be behind the arrival.         *)
(***************************************************************************)
AckedTookEffectUnlessVanished ==
    \A w \in Writers :
        Succeeded(w) /\ req[w].node = Leader /\ ~Vanished(w) => TookEffect(w)

(***************************************************************************)
(* A request commits at most one revision however often it is re-planned,  *)
(* and one whose answer says that nothing was stored (a refusal, no change *)
(* to make, the object as a dry run would leave it) has committed nothing. *)
(***************************************************************************)
CommitsAtMostOnce ==
    \A w \in Writers :
        /\ req[w].wrote <= 1
        /\ req[w].answer \in {"Conflict", "NotFound", "AlreadyExists", "Rejected",
                              "Unchanged", "DryRun", "BadRequest"} => req[w].wrote = 0

(***************************************************************************)
(* A request that asked for a dry run commits nothing, at any step and     *)
(* whatever it is answered.  Excepted are writes to /status and /scale,    *)
(* whose routes do not read dryRun: there a dry run is stored.             *)
(***************************************************************************)
DryRunsPersistNothing ==
    \A w \in Writers :
        req[w].pc # "idle" /\ req[w].ask.dry /\ req[w].ask.verb \notin ScopedVerbs
            => req[w].wrote = 0

(***************************************************************************)
(* Requests are well typed and within their attempts, commit at most once  *)
(* and, unless they write a subresource, nothing at all when dry.          *)
(***************************************************************************)
RequestsSoundUnlessScopedDry == TypeOK /\ CommitsAtMostOnce /\ DryRunsPersistNothing

(***************************************************************************)
(* What others committed while a request was on its way is not undone:     *)
(* neither the fields they wrote nor the deletion they began.              *)
(***************************************************************************)
NothingUndone == NoLostUpdate /\ TerminationSticks

(***************************************************************************)
(* Every request is answered, whatever races it loses.                     *)
(***************************************************************************)
EveryRequestAnswered ==
    \A w \in Writers : req[w].pc # "idle" ~> req[w].pc = "done"

=============================================================================
