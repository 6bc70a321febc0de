--------------------------- MODULE EvictionBudget ---------------------------
(***************************************************************************)
(* Evictions against a PodDisruptionBudget: the pods/eviction subresource  *)
(* (engenho-apiserver handler.rs evict and spend_budget, eviction.rs) and  *)
(* the controller that keeps the budget's status (engenho-controllers      *)
(* pdb.rs).  Each read and each proposal of either is a step of its own;   *)
(* all of them go to the leader's replica.                                 *)
(*                                                                         *)
(* The pods are those the budget selects.  A pod is abstracted to its      *)
(* phase and its revision; the one budget to its spec (min healthy), its   *)
(* generation, its revision and its status.  disrupted holds the pods of   *)
(* status.disruptedPods whose stamp is younger than DISRUPTED_POD_TTL.     *)
(***************************************************************************)
EXTENDS Integers, FiniteSets

CONSTANTS Pods, Evictors,
          Options,      \* eviction options: [pinned, dry: BOOLEAN]
          Attempts,     \* tries of spend_budget
          Start,        \* the budgets an instance starts from
          Mins,         \* what the owner may set the budget's minimum to
          MaxOutside    \* bound on what others do to pods and budget, and on failures

VARIABLES pod,          \* each pod's [phase, rev]
          pdb,          \* the stored budget, or NoBudget
          req,          \* each eviction in flight
          ctl,          \* the controller's tick
          outside

vars == <<pod, pdb, req, ctl, outside>>

Unset == -1      \* no precondition; a budget no tick has observed

Phases == {"pending", "ready", "unready", "terminating", "gone"}

NoBudget == [rev |-> 0]

Status == [observed: Nat, current: Nat, desired: Nat, expected: Nat, allowed: Nat]

Budget == [rev: Nat \ {0}, min: Nat, always: BOOLEAN, gen: Nat, observed: Nat \cup {Unset},
           current: Nat, desired: Nat, expected: Nat, allowed: Nat, disrupted: SUBSET Pods]

ASSUME EvictionAssumption ==
    /\ IsFiniteSet(Pods) /\ Attempts \in Nat \ {0}
    /\ Options \subseteq [pinned: BOOLEAN, dry: BOOLEAN]
    /\ Start \subseteq Budget /\ Mins \subseteq Nat /\ MaxOutside \in Nat

\* A new budget has no status, and decide reads its numbers as 0.
Fresh(min, always) ==
    [rev |-> 1, min |-> min, always |-> always, gen |-> 1, observed |-> Unset, current |-> 0,
     desired |-> 0, expected |-> 0, allowed |-> 0, disrupted |-> {}]

Clip(n) == IF n < 0 THEN 0 ELSE n

Idle == [pc |-> "idle", answer |-> "none"]

Init == /\ pod = [p \in Pods |-> [phase |-> "ready", rev |-> 1]]
        /\ pdb \in Start
        /\ req = [e \in Evictors |-> Idle]
        /\ ctl = [pc |-> "idle"]
        /\ outside = 0

Exists(b) == b # NoBudget

-----------------------------------------------------------------------------
(***************************************************************************)
(* counts_healthy and compute_status: what a tick makes of a budget and a  *)
(* list of pods, with minAvailable given as a number.                      *)
(***************************************************************************)
Listed(pods) == {p \in Pods : pods[p].phase # "gone"}

CountsHealthy(b, pods, p) == pods[p].phase = "ready" /\ p \notin b.disrupted

ComputeStatus(b, pods) ==
    LET healthy == Cardinality({p \in Pods : CountsHealthy(b, pods, p)})
    IN  [observed |-> b.gen, current |-> healthy, desired |-> b.min,
         expected |-> Cardinality(Listed(pods)), allowed |-> Clip(healthy - b.min)]

CurrentStatus(b) == [observed |-> b.observed, current |-> b.current, desired |-> b.desired,
                     expected |-> b.expected, allowed |-> b.allowed]

\* tick lists the budgets ...
CtlList ==
    /\ ctl.pc = "idle" /\ Exists(pdb)
    /\ ctl' = [pc |-> "listed", seen |-> pdb]
    /\ UNCHANGED <<pod, pdb, req, outside>>

\* Mutant: only disruptionsAllowed is compared.
SameStatusByAllowed(b, status) == b.allowed = status.allowed

SameStatus(b, status) == CurrentStatus(b) = status

\* ... lists the pods, and has nothing to write when the budget it read agrees ...
CtlCount ==
    /\ ctl.pc = "listed"
    /\ LET status == ComputeStatus(ctl.seen, pod)
       IN  ctl' = IF SameStatus(ctl.seen, status) THEN [pc |-> "idle"]
                  ELSE [pc |-> "counted", status |-> status]
    /\ UNCHANGED <<pod, pdb, req, outside>>

\* ... and otherwise merges the five numbers into whatever budget is there now.
CtlPatch ==
    /\ ctl.pc = "counted"
    /\ ctl' = [pc |-> "idle"]
    /\ LET s == ctl.status
       IN  IF Exists(pdb) /\ CurrentStatus(pdb) # s
           THEN /\ pdb' = [pdb EXCEPT !.rev = @ + 1, !.observed = s.observed,
                                      !.current = s.current, !.desired = s.desired,
                                      !.expected = s.expected, !.allowed = s.allowed]
           ELSE UNCHANGED pdb
    /\ UNCHANGED <<pod, req, outside>>

-----------------------------------------------------------------------------
(***************************************************************************)
(* evict.  A pod that is Pending or Terminating is deleted without a       *)
(* budget; a pinned request names the revision the pod has as it is read.  *)
(***************************************************************************)
IgnoresBudgets(phase) == phase \in {"pending", "terminating"}

Answered(e, a) == req' = [req EXCEPT ![e] = [pc |-> "done", answer |-> a]]

Evict(e, p, opt) ==
    /\ req[e].pc = "idle"
    /\ IF pod[p].phase = "gone" THEN Answered(e, "NotFound")
       ELSE req' = [req EXCEPT ![e] =
              [pc |-> IF IgnoresBudgets(pod[p].phase) THEN "delete" ELSE "judge",
               pod |-> p, was |-> pod[p].phase, pin |-> IF opt.pinned THEN pod[p].rev ELSE Unset,
               dry |-> opt.dry, tries |-> 0, spends |-> FALSE, allow |-> 0, at |-> 0,
               aged |-> FALSE, answer |-> "none"]]
    /\ UNCHANGED <<pod, pdb, ctl, outside>>

\* unhealthyPodEvictionPolicy: AlwaysAllow, or a budget that is met.
MaySpare(b) == b.always \/ (b.current >= b.desired /\ b.desired > 0)

\* Mutant: a budget with nothing left is spent.
DecideNegative(was, b) ==
    IF was # "ready" /\ MaySpare(b) THEN "Delete"
    ELSE IF b.observed < b.gen THEN "Refuse"
    ELSE "Spend"

\* decide: what the one selecting budget says of a pod of this phase.
Decide(was, b) ==
    IF was # "ready" /\ MaySpare(b) THEN "Delete"
    ELSE IF b.observed < b.gen \/ b.allowed <= 0 THEN "Refuse"
    ELSE "Spend"

\* The rounds of spend_budget are counted; the last one refuses.
Retry(e) ==
    IF req[e].tries + 1 = Attempts THEN Answered(e, "TooManyRequests")
    ELSE req' = [req EXCEPT ![e].pc = "judge", ![e].tries = @ + 1]

Judge(e) ==
    /\ req[e].pc = "judge"
    /\ LET d == IF Exists(pdb) THEN Decide(req[e].was, pdb) ELSE "Delete"
       IN  CASE d = "Refuse" -> Answered(e, "TooManyRequests")
             [] d = "Spend" /\ ~req[e].dry ->
                  req' = [req EXCEPT ![e].pc = "meta", ![e].allow = pdb.allowed - 1]
             [] OTHER -> req' = [req EXCEPT ![e].pc = "delete"]
    /\ UNCHANGED <<pod, pdb, ctl, outside>>

\* The revision to swap on is read after the judgement.
ReadMeta(e) ==
    /\ req[e].pc = "meta"
    /\ IF Exists(pdb) THEN req' = [req EXCEPT ![e].pc = "spend", ![e].at = pdb.rev]
       ELSE Retry(e)
    /\ UNCHANGED <<pod, pdb, ctl, outside>>

\* Mutant: the patch replaces disruptedPods.
SpentReplacing(b, p, allowed) ==
    {[b EXCEPT !.rev = @ + 1, !.allowed = allowed, !.disrupted = {p}]}

(***************************************************************************)
(* What the merge patch may leave: the judged count less one, and the pod  *)
(* among the disrupted.  A pod stamped twice in one second leaves the      *)
(* budget as it is, and takes no revision.                                 *)
(***************************************************************************)
Spent(b, p, allowed) ==
    {[b EXCEPT !.rev = @ + 1, !.allowed = allowed, !.disrupted = @ \cup {p}]}
    \cup {c \in {b} : p \in c.disrupted /\ c.allowed = allowed}

\* Mutant: a lost swap is proposed again as it is.
SpendAgain(e) ==
    /\ req[e].pc = "spend"
    /\ IF Exists(pdb) /\ pdb.rev = req[e].at
       THEN /\ pdb' \in Spent(pdb, req[e].pod, req[e].allow)
           
            /\ req' = [req EXCEPT ![e].pc = "delete", ![e].spends = TRUE]
       ELSE /\ UNCHANGED req
            /\ UNCHANGED pdb
    /\ UNCHANGED <<pod, ctl, outside>>

Spend(e) ==
    /\ req[e].pc = "spend"
    /\ IF Exists(pdb) /\ pdb.rev = req[e].at
       THEN /\ pdb' \in Spent(pdb, req[e].pod, req[e].allow)
           
            /\ req' = [req EXCEPT ![e].pc = "delete", ![e].spends = TRUE]
       ELSE /\ Retry(e)
            /\ UNCHANGED pdb
    /\ UNCHANGED <<pod, ctl, outside>>

\* The store's answer to the delete: the pod is removed, or Terminating behind a finalizer.
Deleted(p, left) == IF pod[p].phase \in {"gone", "terminating"} THEN pod
                    ELSE [pod EXCEPT ![p] = [phase |-> left, rev |-> @.rev + 1]]

PinHolds(r) == r.pin = Unset \/ (pod[r.pod].phase # "gone" /\ pod[r.pod].rev = r.pin)

DeletePod(e, left) ==
    /\ req[e].pc = "delete"
    /\ left \in {"gone", "terminating"}
    /\ IF req[e].dry \/ ~PinHolds(req[e])
       THEN Answered(e, IF req[e].dry THEN "Evicted" ELSE "Conflict") /\ UNCHANGED pod
       ELSE Answered(e, "Evicted") /\ pod' = Deleted(req[e].pod, left)
    /\ UNCHANGED <<pdb, ctl, outside>>

-----------------------------------------------------------------------------
(***************************************************************************)
(* What others do: the kubelet and the workload controllers move pods, the *)
(* owner changes or removes the budget, stamps age; and proposals fail.    *)
(***************************************************************************)
Moves == {<<"pending", "ready">>, <<"ready", "unready">>, <<"unready", "ready">>,
          <<"terminating", "gone">>, <<"gone", "pending">>}

Outside == outside < MaxOutside /\ outside' = outside + 1

MovePod(p, to) ==
    /\ Outside /\ <<pod[p].phase, to>> \in Moves
    /\ pod' = [pod EXCEPT ![p] = [phase |-> to, rev |-> @.rev + 1]]
    /\ UNCHANGED <<pdb, req, ctl>>

ChangeBudget(min) ==
    /\ Outside /\ Exists(pdb) /\ min # pdb.min
    /\ pdb' = [pdb EXCEPT !.min = min, !.gen = @ + 1, !.rev = @ + 1]
    /\ UNCHANGED <<pod, req, ctl>>

RemoveBudget ==
    /\ Outside /\ Exists(pdb)
    /\ pdb' = NoBudget
    /\ UNCHANGED <<pod, req, ctl>>

Expire(p) ==
    /\ Outside /\ Exists(pdb) /\ p \in pdb.disrupted
    /\ pdb' = [pdb EXCEPT !.disrupted = @ \ {p}]
    /\ req' = [e \in Evictors |-> IF req[e].pc = "delete" /\ req[e].pod = p
                                  THEN [req[e] EXCEPT !.aged = TRUE] ELSE req[e]]
    /\ UNCHANGED <<pod, ctl>>

(***************************************************************************)
(* A proposal that errs, because there is no leader or because its answer  *)
(* is lost once it was applied, ends the eviction or the tick.             *)
(***************************************************************************)
SpendFails(e, applied) ==
    /\ Outside /\ req[e].pc = "spend"
    /\ Answered(e, "Failed")
    /\ IF applied /\ Exists(pdb) /\ pdb.rev = req[e].at
       THEN pdb' \in Spent(pdb, req[e].pod, req[e].allow)
       ELSE UNCHANGED pdb
    /\ UNCHANGED <<pod, ctl>>

DeleteFails(e, applied) ==
    /\ Outside /\ req[e].pc = "delete" /\ ~req[e].dry
    /\ Answered(e, "Failed")
    /\ pod' = IF applied /\ PinHolds(req[e]) THEN Deleted(req[e].pod, "gone") ELSE pod
    /\ UNCHANGED <<pdb, ctl>>

CtlFails ==
    /\ Outside /\ ctl.pc = "counted"
    /\ ctl' = [pc |-> "idle"]
    /\ UNCHANGED <<pod, pdb, req>>

Controller == CtlList \/ CtlCount \/ CtlPatch

Advance(e) == Judge(e) \/ ReadMeta(e) \/ Spend(e) \/ \E left \in Phases : DeletePod(e, left)

Next ==
    \/ CtlList \/ CtlCount \/ CtlPatch \/ CtlFails
    \/ \E e \in Evictors : \/ \E p \in Pods, opt \in Options : Evict(e, p, opt)
                           \/ Judge(e) \/ ReadMeta(e) \/ Spend(e)
                           \/ \E left \in {"gone", "terminating"} : DeletePod(e, left)
                           \/ \E applied \in BOOLEAN : SpendFails(e, applied)
                           \/ \E applied \in BOOLEAN : DeleteFails(e, applied)
    \/ \E p \in Pods : \/ Expire(p)
                       \/ \E to \in Phases : MovePod(p, to)
    \/ \E min \in Mins : ChangeBudget(min)
    \/ RemoveBudget

Spec == Init /\ [][Next]_vars

(***************************************************************************)
(* WatchDriver ticks a controller on every change of what it reads and at  *)
(* the latest after its fallback interval, and a request is driven to its  *)
(* answer.                                                                 *)
(***************************************************************************)
FairSpec == Spec /\ WF_vars(Controller) /\ \A e \in Evictors : WF_vars(Advance(e))

-----------------------------------------------------------------------------
Request == [pc: {"judge", "meta", "spend", "delete"}, pod: Pods, was: Phases,
            pin: Nat \cup {Unset}, dry: BOOLEAN, tries: 0..(Attempts - 1), spends: BOOLEAN,
            allow: Nat, at: Nat, aged: BOOLEAN, answer: {"none"}]

NotInFlight == [pc: {"idle", "done"},
                answer: {"none", "NotFound", "TooManyRequests", "Conflict", "Evicted", "Failed"}]

Tick == [pc: {"idle"}] \cup [pc: {"listed"}, seen: Budget] \cup [pc: {"counted"}, status: Status]

(***************************************************************************)
(* Types.  That allowed is a natural number says that the refusal of a     *)
(* negative disruptionsAllowed in decide is never needed, and that tries   *)
(* is below Attempts that spend_budget gives up in time.                   *)
(***************************************************************************)
TypeOK ==
    /\ pod \in [Pods -> [phase: Phases, rev: Nat]]
    /\ pdb \in Budget \cup {NoBudget}
    /\ req \in [Evictors -> Request \cup NotInFlight]
    /\ ctl \in Tick
    /\ outside \in 0..MaxOutside

(***************************************************************************)
(* No tick counts a taken pod back: from the moment an eviction has spent  *)
(* until it deletes its pod, the budget names the pod as disrupted, however *)
(* many evictions and ticks write to the budget meanwhile, unless its      *)
(* stamp aged out or the budget was removed.                               *)
(***************************************************************************)
TakenPodsStayNamed ==
    \A e \in Evictors :
        req[e].pc = "delete" /\ req[e].spends /\ ~req[e].aged /\ Exists(pdb) =>
            req[e].pod \in pdb.disrupted

(***************************************************************************)
(* The budget's status becomes right and stays right once evictions, pods, *)
(* stamps and specs stop moving, also after a status write computed from   *)
(* an outdated list and after a spend whose pod was not deleted.           *)
(***************************************************************************)
StatusConverges ==
    <>[](Exists(pdb) => CurrentStatus(pdb) = ComputeStatus(pdb, pod))

\* Every eviction is answered, whatever swaps it loses.
EveryEvictionAnswered ==
    \A e \in Evictors : req[e].pc # "idle" ~> req[e].pc = "done"

\* Evictions and the controller come to an end that is right: every request is
\* answered, and the status is that of the pods.
EvictionsSettle == EveryEvictionAnswered /\ StatusConverges

=============================================================================
