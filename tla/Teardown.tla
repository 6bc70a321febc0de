------------------------------ MODULE Teardown ------------------------------
(***************************************************************************)
(* Deleting a namespace, an owner, or an owned object while the namespace  *)
(* controller, the garbage collector and the ReplicaSet controller         *)
(* (engenho-controllers) work on the same objects.  The three are tasks of *)
(* one process: each read or write of the store is a step, and the others  *)
(* and the clients come between.  The store's rules are ResourceCatalog's. *)
(*                                                                         *)
(* One namespace, a ConfigMap, a ReplicaSet of one replica and the two pod *)
(* names it can use.  An object also carries the finalizers it names       *)
(* (fins) and its owner references (refs), each a key and a uid.  Nothing  *)
(* here compares the revisions of two objects, so each key counts its own. *)
(***************************************************************************)
EXTENDS ResourceCatalog, FiniteSets
LOCAL INSTANCE SequencesExt

CONSTANT Setups   \* controllers enabled, requests clients make, is the namespace Terminating

ASSUME SetupsAssumption ==
    Setups \subseteq [on: SUBSET {"namespace", "gc", "replicaset"}, edits: Nat,
                      ending: SUBSET BOOLEAN]

NS == "ns"
CM == "cm"
CM2 == "cm2"
RS == "rs"
Pods == <<"p0", "p1">>
Kube == "kubernetes"
Other == "other"

PodKeys == ToSet(Pods)
Content == {CM, CM2, RS} \cup PodKeys
Keys == {NS} \cup Content

VARIABLES res,      \* the live objects
          last,     \* the revision of the last change of each key
          edits,    \* requests clients may still make
          create,   \* the create that has passed its checks, or Nil
          on,       \* the controllers the configuration enables
          nc,       \* the namespace controller
          gc,       \* the garbage collector
          rc        \* the ReplicaSet controller

vars == <<res, last, edits, create, on, nc, gc, rc>>

Obj(fins, refs) ==
    [fins |-> fins, refs |-> refs] @@ [Blank EXCEPT !.fin = fins # {}]

Ref(k, v) == [key |-> k, uid |-> v.uid]

Stored(fins, refs, status, at) ==
    [val  |-> [Obj(fins, refs) EXCEPT !.uid = at, !.rv = at, !.gen = 1, !.status = status],
     meta |-> CreatedAt(at)]


NcIdle == [pc |-> "idle", ns |-> Nil, kinds |-> <<>>, dels |-> <<>>, remaining |-> 0, since |-> Nil]
GcIdle == [pc |-> "idle", todo |-> <<>>, item |-> Nil, refs |-> <<>>, keep |-> <<>>]
RcIdle == [pc |-> "idle", rs |-> Nil, cmds |-> <<>>, count |-> 0]

\* A namespace that a client or the boot created names no finalizer in its
\* metadata; one whose body names "kubernetes" there is torn down in steps.
NsFinalizers == {{}, {Kube}, {Kube, Other}}

\* A namespace, Terminating or without finalizers, with a ReplicaSet and a
\* pod of it, of an earlier ReplicaSet of that name, or of a ConfigMap too.
Owner(k, uid) == [key |-> k, uid |-> uid]

NsStart(ending) ==
    IF ending THEN [Stored({Kube, Other}, {}, 0, 1) EXCEPT !.val.del = TRUE]
    ELSE Stored({}, {}, 0, 1)

PodStarts == {Stored({}, {Owner(RS, 2)}, 0, 1), Stored({Other}, {Owner(RS, 2)}, 0, 1),
              Stored({}, {Owner(RS, 1)}, 0, 1), Stored({}, {Owner(RS, 2), Owner(CM, 1)}, 0, 1)}

Init ==
    /\ \E setup \in Setups, pod \in PodStarts : \E ending \in setup.ending :
         /\ on = setup.on /\ edits = setup.edits
         /\ create \in IF ending THEN {Nil, CM2} ELSE {Nil}
         /\ res = NS :> NsStart(ending) @@ RS :> Stored({}, {}, 1, 2) @@ CM :> Stored({}, {}, 0, 1)
                   @@ Pods[1] :> pod
    /\ last = [k \in Keys |-> IF k = RS THEN 2 ELSE 1]
    /\ nc = NcIdle /\ gc = GcIdle /\ rc = RcIdle

-----------------------------------------------------------------------------
(* The store. *)

At(k) == res[k].val

\* A command on key k, given the revision it would commit at.
Put(k, body)           == ApplyPut(res, k, body, None, "Skip", last[k] + 1)
Patch(k, patch, pin)   == ApplyPatch(res, k, patch, pin, "Skip", last[k] + 1)
Delete(k, pin)         == ApplyDelete(res, k, pin, TRUE, last[k] + 1)
PutNew(k, body)        == ApplyTxn(res, {[key |-> k, rev |-> None]},
                                   <<[kind |-> "Put", key |-> k, body |-> body]>>, <<>>, last[k] + 1)

Commits(k, out) ==
    /\ res' = out.res
    /\ last' = [last EXCEPT ![k] = @ + Len(out.changes)]

Idle == UNCHANGED <<res, last>>

Live(k) == k \in DOMAIN res /\ ~At(k).del

\* write_status_cas: skipped when current, else pinned to the object as read.
WriteStatus(k, seen, status) ==
    IF seen.status = status THEN Idle
    ELSE Commits(k, Patch(k, [status |-> status], seen.rv))

-----------------------------------------------------------------------------
(* Clients, through the apiserver. *)

Edit == edits > 0 /\ edits' = edits - 1

\* refuse_bad_create: the namespace is there when the request is checked.
CheckCreate(k) ==
    /\ Edit /\ create = Nil
    /\ k \notin DOMAIN res /\ NS \in DOMAIN res
    /\ create' = k
    /\ Idle /\ UNCHANGED <<on, nc, gc, rc>>

\* The create is proposed on the condition that the name is free, no more.
ProposeCreate ==
    /\ create # Nil
    /\ Commits(create, PutNew(create, Obj({}, {})))
    /\ create' = Nil
    /\ UNCHANGED <<edits, on, nc, gc, rc>>

CreateNamespace(fins) ==
    /\ Edit /\ NS \notin DOMAIN res
    /\ Commits(NS, PutNew(NS, Obj(fins, {})))
    /\ UNCHANGED <<create, on, nc, gc, rc>>

DeleteObject(k) ==
    /\ Edit /\ k \in DOMAIN res
    /\ Commits(k, Delete(k, None))
    /\ UNCHANGED <<create, on, nc, gc, rc>>

\* A client makes the ConfigMap a second owner of a pod.
AddOwner(p) ==
    /\ Edit /\ Live(p) /\ CM \in DOMAIN res
    /\ Commits(p, Patch(p, [refs |-> At(p).refs \cup {Ref(CM, At(CM))}], None))
    /\ UNCHANGED <<create, on, nc, gc, rc>>

\* Whoever owns the other finalizer releases it once the object is Terminating.
Release(k) ==
    /\ k \in DOMAIN res /\ At(k).del /\ Other \in At(k).fins
    /\ LET fins == At(k).fins \ {Other}
       IN  Commits(k, Patch(k, [fins |-> fins, fin |-> fins # {}], None))
    /\ UNCHANGED <<edits, create, on, nc, gc, rc>>

-----------------------------------------------------------------------------
(* The namespace controller. *)

NcFrame == UNCHANGED <<edits, create, on, gc, rc>>

\* The namespaced kinds in catalog order, each as its keys.
Kinds == <<Pods, <<CM, CM2>>, <<RS>>>>

\* tick: a Terminating namespace that holds the kubernetes finalizer is swept.
NcList ==
    /\ "namespace" \in on /\ nc.pc = "idle" /\ NS \in DOMAIN res
    /\ At(NS).del /\ Kube \in At(NS).fins
    /\ nc' = [NcIdle EXCEPT !.pc = "status", !.ns = At(NS), !.since = last]
    /\ Idle /\ NcFrame

NcStatus ==
    /\ nc.pc = "status"
    /\ WriteStatus(NS, nc.ns, 1)
    /\ nc' = [nc EXCEPT !.pc = "list", !.kinds = Kinds]
    /\ NcFrame

\* Mutant: an object that is Terminating already does not count as left.
RemainingLive(held) == Len(SelectSeq(held, Live))

Remaining(held) == Len(held)

\* Through with the last kind: start over later unless nothing was left.
Swept(n) == IF n.dels # <<>> \/ n.kinds # <<>> THEN n
            ELSE IF n.remaining = 0 THEN [n EXCEPT !.pc = "clear"]
            ELSE NcIdle

NcListKind ==
    /\ nc.pc = "list" /\ nc.dels = <<>>
    /\ LET held == SelectSeq(Head(nc.kinds), LAMBDA k : k \in DOMAIN res)
       IN  nc' = Swept([nc EXCEPT !.kinds = Tail(@), !.remaining = @ + Remaining(held),
                                  !.dels = SelectSeq(held, Live)])
    /\ Idle /\ NcFrame

\* Mutant: the delete carries no clock to stamp.
SweepDeleteNoClock(k) == ApplyDelete(res, k, None, FALSE, last[k] + 1)

SweepDelete(k) == Delete(k, None)

NcDelete ==
    /\ nc.pc = "list" /\ nc.dels # <<>>
    /\ Commits(Head(nc.dels), SweepDelete(Head(nc.dels)))
    /\ nc' = Swept([nc EXCEPT !.dels = Tail(@)])
    /\ NcFrame

\* The finalizer is patched out of the list as it was first read.
NcClear ==
    /\ nc.pc = "clear"
    /\ LET fins == nc.ns.fins \ {Kube}
       IN  Commits(NS, Patch(NS, [fins |-> fins, fin |-> fins # {}], None))
    /\ nc' = NcIdle
    /\ NcFrame

NcStep == NcList \/ NcStatus \/ NcListKind \/ NcDelete \/ NcClear

-----------------------------------------------------------------------------
(* The garbage collector. *)

GcFrame == UNCHANGED <<edits, create, on, nc, rc>>

\* Candidate::listed: pods that name an owner and are not being deleted.
GcList ==
    /\ "gc" \in on /\ gc.pc = "idle"
    /\ LET held == SelectSeq(Pods, LAMBDA p : Live(p) /\ At(p).refs # {})
       IN  /\ held # <<>>
           /\ gc' = [GcIdle EXCEPT !.pc = "items",
                        !.todo = [i \in 1..Len(held) |-> Ref(held[i], At(held[i]))]]
    /\ Idle /\ GcFrame

Current(c) == Live(c.key) /\ At(c.key).uid = c.uid /\ At(c.key).refs # {}

NextItem(todo) == IF todo = <<>> THEN GcIdle ELSE [GcIdle EXCEPT !.pc = "items", !.todo = todo]

\* collect: the item is read again, and its revision pins the write.
GcItem ==
    /\ gc.pc = "items"
    /\ LET k == Head(gc.todo).key
       IN  gc' = IF ~Current(Head(gc.todo)) THEN NextItem(Tail(gc.todo))
                 ELSE [gc EXCEPT !.pc = "classify", !.todo = Tail(@),
                                 !.item = [key |-> k, rv |-> At(k).rv, refs |-> At(k).refs],
                                 !.refs = SetToSeq(At(k).refs)]
    /\ Idle /\ GcFrame

\* Mutant: the owner's name is enough.
SolidByName(r) == r.key \in DOMAIN res

\* owner_state: an owner is solid when its own key holds the recorded uid.
Solid(r) == r.key \in DOMAIN res /\ At(r.key).uid = r.uid

\* classify: one live read per reference.
GcClassify ==
    /\ gc.pc = "classify" /\ gc.refs # <<>>
    /\ gc' = [gc EXCEPT !.refs = Tail(@),
                        !.keep = IF Solid(Head(gc.refs)) THEN Append(@, Head(gc.refs)) ELSE @]
    /\ Idle /\ GcFrame

\* Mutant: the verdict is written whatever the item has become.
PinnedNever(item) == None

Pinned(item) == item.rv

\* decide: keep, drop the references that are not solid, or delete.
GcDecide ==
    /\ gc.pc = "classify" /\ gc.refs = <<>>
    /\ IF gc.keep = <<>>
       THEN Commits(gc.item.key, Delete(gc.item.key, Pinned(gc.item)))
       ELSE IF ToSet(gc.keep) = gc.item.refs THEN Idle
       ELSE Commits(gc.item.key, Patch(gc.item.key, [refs |-> ToSet(gc.keep)], Pinned(gc.item)))
    /\ gc' = NextItem(gc.todo)
    /\ GcFrame

GcStep == GcList \/ GcItem \/ GcClassify \/ GcDecide

-----------------------------------------------------------------------------
(* The ReplicaSet controller, with the owned-children skeleton it runs in. *)

RcFrame == UNCHANGED <<edits, create, on, nc, gc>>

RcList ==
    /\ "replicaset" \in on /\ rc.pc = "idle" /\ RS \in DOMAIN res
    /\ rc' = [RcIdle EXCEPT !.pc = "gather", !.rs = At(RS)]
    /\ Idle /\ RcFrame

\* Mutant: a pod of any ReplicaSet of that name is owned.
OwnedByName(rs) == SelectSeq(Pods, LAMBDA p : p \in DOMAIN res /\ \E r \in At(p).refs : r.key = RS)

\* gather_owned; live_children.
Owned(rs) == SelectSeq(Pods, LAMBDA p : p \in DOMAIN res /\ Ref(RS, rs) \in At(p).refs)

OwnedLive(rs) == SelectSeq(Owned(rs), Live)

\* reconcile_one for one replica: a pod at the lowest free index, or the
\* deletion of the excess, highest names first.
Delta(rs) ==
    LET live == OwnedLive(rs)
        free == SelectSeq(Pods, LAMBDA p : p \notin ToSet(Owned(rs)))
    IN  IF live = <<>> /\ free # <<>> THEN <<[do |-> "put", key |-> Head(free)]>>
        ELSE IF Len(live) > 1 THEN <<[do |-> "delete", key |-> Last(live)]>>
        ELSE <<>>

\* The next command, or the recount after the last one.
NextChild(cmds) == [rc EXCEPT !.pc = IF cmds = <<>> THEN "count" ELSE "check", !.cmds = cmds]

RcGather ==
    /\ rc.pc = "gather"
    /\ rc' = NextChild(Delta(rc.rs))
    /\ Idle /\ RcFrame

\* ChildWrite::of: the key is read, and a Terminating object is left alone.
RcCheck ==
    /\ rc.pc = "check"
    /\ LET k == Head(rc.cmds).key
       IN  rc' = IF k \in DOMAIN res /\ At(k).del THEN NextChild(Tail(rc.cmds))
                 ELSE [rc EXCEPT !.pc = "propose"]
    /\ Idle /\ RcFrame

RcPropose ==
    /\ rc.pc = "propose"
    /\ LET c == Head(rc.cmds)
       IN  Commits(c.key, IF c.do = "put" THEN Put(c.key, Obj({}, {Ref(RS, rc.rs)}))
                          ELSE Delete(c.key, None))
    /\ rc' = NextChild(Tail(rc.cmds))
    /\ RcFrame

RcCount ==
    /\ rc.pc = "count"
    /\ rc' = [rc EXCEPT !.pc = "status", !.count = Len(OwnedLive(rc.rs))]
    /\ Idle /\ RcFrame

RcStatus ==
    /\ rc.pc = "status"
    /\ WriteStatus(RS, rc.rs, rc.count)
    /\ rc' = RcIdle
    /\ RcFrame

RcStep == RcList \/ RcGather \/ RcCheck \/ RcPropose \/ RcCount \/ RcStatus

-----------------------------------------------------------------------------
Clients ==
    \/ \E k \in {CM2, RS} : CheckCreate(k)
    \/ \E f \in NsFinalizers : CreateNamespace(f)
    \/ \E k \in Keys : DeleteObject(k)
    \/ AddOwner(Pods[1])

Releases == \E k \in {NS} \cup PodKeys : Release(k)

Next == Clients \/ ProposeCreate \/ Releases \/ NcStep \/ GcStep \/ RcStep

\* Every driver ticks again after a change (WatchDriver), a request that was
\* checked is proposed, and a finalizer's owner does its work.
Fairness ==
    /\ WF_vars(ProposeCreate) /\ WF_vars(Releases)
    /\ WF_vars(NcStep) /\ WF_vars(GcStep) /\ WF_vars(RcStep)

Spec == Init /\ [][Next]_vars /\ Fairness

-----------------------------------------------------------------------------
(* Properties. *)

\* The state's values; an object's version is that of its key's last change,
\* it is gated by exactly the finalizers it names, and one that is
\* Terminating without any is gone.
TypeOK ==
    /\ DOMAIN res \subseteq Keys /\ last \in [Keys -> Nat] /\ edits \in Nat
    /\ create \in {Nil, CM2, RS}
    /\ \A k \in DOMAIN res :
         /\ At(k).rv = res[k].meta.mod /\ At(k).rv = last[k]
         /\ At(k).uid \in 1..last[k] /\ At(k).fin = (At(k).fins # {})
         /\ ~Released(At(k))
    /\ nc.pc \in {"idle", "status", "list", "clear"}
    /\ gc.pc \in {"idle", "items", "classify"}
    /\ rc.pc \in {"idle", "gather", "check", "propose", "count", "status"}

\* When the namespace controller clears the finalizer, every object that was
\* in the namespace when that sweep began is gone: one held by finalizers of
\* its own, or put back by a controller, keeps the namespace.
SweptIsGone ==
    [][nc.pc = "clear" /\ nc' = NcIdle =>
         \A k \in Content \cap DOMAIN res : At(k).uid > nc.since[k]]_vars

Dangling(r) == ~ \E k \in DOMAIN res : k = r.key /\ At(k).uid = r.uid

OwnerGone(p) == p \in DOMAIN res /\ At(p).refs # {} /\ \A r \in At(p).refs : Dangling(r)

\* The garbage collector deletes a pod only while none of its owners lives,
\* whatever was recreated, adopted or taken over between its reads.
CollectsOnlyOrphans ==
    [][\A p \in PodKeys :
         gc' # gc /\ Live(p) /\ ~(p \in DOMAIN res' /\ ~res'[p].val.del) => OwnerGone(p)]_vars

\* Once clients are done no pod is left whose owners are all gone: it is
\* collected or taken over, also when its owner's name is in use again.
OrphansCollected ==
    "gc" \in on => <>[](\A p \in PodKeys : ~OwnerGone(p))

\* A Terminating namespace with the finalizer goes, though objects are still
\* created in it, controllers put pods back and a finalizer that its owner
\* released comes back with the controller's stale list.
NamespaceGoes ==
    ("namespace" \in on /\ NS \in DOMAIN res /\ At(NS).del) ~> (NS \notin DOMAIN res)

PodsOf(uid) == {p \in PodKeys : Live(p) /\ [key |-> RS, uid |-> uid] \in At(p).refs}

\* Once clients are done, a ReplicaSet that is left has its one pod and says so.
ReplicaSetSettles ==
    "replicaset" \in on =>
        <>[](RS \in DOMAIN res => /\ Cardinality(PodsOf(At(RS).uid)) = 1
                                 /\ At(RS).status = 1)

\* The garbage collector takes the orphans, all of them in the end, and nothing
\* else.
CollectsExactlyOrphans == CollectsOnlyOrphans /\ OrphansCollected

=============================================================================
