------------------------ MODULE EvictionBudgetProofs ------------------------
(***************************************************************************)
(* For any number of pods, evictions and attempts: the types of            *)
(* EvictionBudget, which are inductive as they stand, and, from them, that *)
(* a pod an eviction has paid for stays named in the budget until it is    *)
(* deleted.                                                                *)
(***************************************************************************)
EXTENDS EvictionBudget, FiniteSetTheorems, TLAPS

\* Sets of pods are counted by natural numbers.
LEMMA PodsCounted ==
  ASSUME NEW S \in SUBSET Pods
  PROVE  Cardinality(S) \in Nat
BY EvictionAssumption, FS_Subset, FS_CardinalityType

\* compute_status clips at zero (pdb.rs): a tick writes natural numbers.
LEMMA ComputedStatusTyped ==
  ASSUME NEW b \in Budget, NEW pods \in [Pods -> [phase: Phases, rev: Nat]]
  PROVE  ComputeStatus(b, pods) \in Status
<1>. DEFINE H == {p \in Pods : CountsHealthy(b, pods, p)}
            h == Cardinality(H)
            n == Cardinality(Listed(pods))
<1>1. h \in Nat /\ n \in Nat
  <2>1. H \in SUBSET Pods /\ Listed(pods) \in SUBSET Pods
    BY DEF Listed
  <2>. QED  BY <2>1, PodsCounted
<1>2. ComputeStatus(b, pods) = [observed |-> b.gen, current |-> h, desired |-> b.min,
                                expected |-> n, allowed |-> Clip(h - b.min)]
  BY DEF ComputeStatus
<1>. HIDE DEF h, n
<1>3. b.gen \in Nat /\ b.min \in Nat
  BY DEF Budget
<1>4. Clip(h - b.min) \in Nat
  BY <1>1, <1>3 DEF Clip
<1>. QED  BY <1>1, <1>2, <1>3, <1>4 DEF Status

\* A stored budget is a Budget.
LEMMA StoredBudget ==
  ASSUME TypeOK, Exists(pdb)
  PROVE  pdb \in Budget
BY DEF TypeOK, Exists

\* What has no answer yet and is past its first step is a Request.
LEMMA InFlight ==
  ASSUME TypeOK, NEW e \in Evictors, req[e].pc \notin {"idle", "done"}
  PROVE  req[e] \in Request
<1>1. req[e] \in Request \cup NotInFlight
  BY DEF TypeOK
<1>2. req[e] \notin NotInFlight
  BY DEF NotInFlight
<1>. QED  BY <1>1, <1>2

\* Both outcomes of the merge patch are budgets, and they name the pod (eviction.rs decide).
LEMMA SpentTyped ==
  ASSUME NEW b \in Budget, NEW p \in Pods, NEW n \in Nat, NEW c \in Spent(b, p, n)
  PROVE  c \in Budget /\ c.disrupted = b.disrupted \cup {p}
<1>1. b.rev + 1 \in Nat \ {0} /\ b.disrupted \cup {p} \in SUBSET Pods
  BY DEF Budget
<1>2. CASE c = b /\ p \in b.disrupted
  BY <1>2
<1>3. CASE c = [b EXCEPT !.rev = @ + 1, !.allowed = n, !.disrupted = @ \cup {p}]
  BY <1>1, <1>3 DEF Budget
<1>. QED  BY <1>2, <1>3 DEF Spent

\* A delete leaves a well-typed pod.
LEMMA DeletedTyped ==
  ASSUME NEW p \in Pods, NEW left \in Phases, pod \in [Pods -> [phase: Phases, rev: Nat]]
  PROVE  Deleted(p, left) \in [Pods -> [phase: Phases, rev: Nat]]
<1>1. [phase |-> left, rev |-> pod[p].rev + 1] \in [phase: Phases, rev: Nat]
  OBVIOUS
<1>. QED  BY <1>1 DEF Deleted

\* Replacing one eviction by a well-typed one keeps the table well typed.
LEMMA RequestSet ==
  ASSUME TypeOK, NEW e \in Evictors, NEW r \in Request \cup NotInFlight,
         req' = [req EXCEPT ![e] = r]
  PROVE  req' \in [Evictors -> Request \cup NotInFlight]
BY DEF TypeOK

\* A round of spend_budget that does not succeed counts, or refuses.
LEMMA RetryTyped ==
  ASSUME TypeOK, NEW e \in Evictors, req[e] \in Request, Retry(e)
  PROVE  /\ req' \in [Evictors -> Request \cup NotInFlight]
         /\ \E r \in Request \cup NotInFlight : r.pc # "delete" /\ req' = [req EXCEPT ![e] = r]
<1>1. CASE req[e].tries + 1 = Attempts
  <2>. DEFINE r == [pc |-> "done", answer |-> "TooManyRequests"]
  <2>1. r \in NotInFlight /\ r.pc # "delete"
    BY DEF NotInFlight
  <2>2. req' = [req EXCEPT ![e] = r]
    BY <1>1 DEF Retry, Answered
  <2>. QED  BY <2>1, <2>2, RequestSet
<1>2. CASE req[e].tries + 1 # Attempts
  <2>. DEFINE r == [req[e] EXCEPT !.pc = "judge", !.tries = @ + 1]
  <2>1. req[e].tries \in 0..(Attempts - 1) /\ Attempts \in Nat
    BY EvictionAssumption DEF Request
  <2>2. req[e].tries + 1 \in 0..(Attempts - 1)
    BY <1>2, <2>1
  <2>3. r \in Request /\ r.pc # "delete"
    BY <2>2 DEF Request
  <2>4. req' = [req EXCEPT ![e] = r]
    BY <1>2 DEF Retry, TypeOK
  <2>. QED  BY <2>3, <2>4, RequestSet
<1>. QED  BY <1>1, <1>2

-----------------------------------------------------------------------------
\* Every step keeps the types.
LEMMA TypeStep == TypeOK /\ [Next]_vars => TypeOK'
<1>. SUFFICES ASSUME TypeOK, [Next]_vars  PROVE TypeOK'
  OBVIOUS
<1>0. /\ pod \in [Pods -> [phase: Phases, rev: Nat]] /\ pdb \in Budget \cup {NoBudget}
      /\ req \in [Evictors -> Request \cup NotInFlight] /\ ctl \in Tick
      /\ outside \in 0..MaxOutside
  BY DEF TypeOK
<1>1. ASSUME CtlList  PROVE TypeOK'
  <2>1. ctl' \in Tick
    BY <1>1, StoredBudget DEF CtlList, Tick
  <2>. QED  BY <1>0, <1>1, <2>1 DEF CtlList, TypeOK
<1>2. ASSUME CtlCount  PROVE TypeOK'
  <2>1. ctl.seen \in Budget
    BY <1>0, <1>2 DEF CtlCount, Tick
  <2>2. ComputeStatus(ctl.seen, pod) \in Status
    BY <1>0, <2>1, ComputedStatusTyped
  <2>3. ctl' \in Tick
    BY <1>2, <2>2 DEF CtlCount, Tick
  <2>. QED  BY <1>0, <1>2, <2>3 DEF CtlCount, TypeOK
<1>3. ASSUME CtlPatch  PROVE TypeOK'
  <2>1. ctl.status \in Status
    BY <1>0, <1>3 DEF CtlPatch, Tick
  <2>2. ctl' \in Tick
    BY <1>3 DEF CtlPatch, Tick
  <2>3. pdb' \in Budget \cup {NoBudget}
    <3>1. CASE Exists(pdb) /\ CurrentStatus(pdb) # ctl.status
      <4>. DEFINE s == ctl.status
      <4>1. /\ pdb' = [pdb EXCEPT !.rev = @ + 1, !.observed = s.observed,
                                  !.current = s.current, !.desired = s.desired,
                                  !.expected = s.expected, !.allowed = s.allowed]
        BY <1>3, <3>1 DEF CtlPatch
      <4>2. pdb \in Budget
        BY <3>1, StoredBudget
      <4>3. pdb.rev + 1 \in Nat \ {0}
        BY <4>2 DEF Budget
      <4>4. /\ s.observed \in Nat /\ s.current \in Nat /\ s.desired \in Nat
            /\ s.expected \in Nat /\ s.allowed \in Nat
        BY <2>1 DEF Status
      <4>. HIDE DEF s
      <4>5. pdb' \in Budget
        BY <4>1, <4>2, <4>3, <4>4 DEF Budget
      <4>. QED  BY <4>1, <4>4, <4>5
    <3>2. CASE ~(Exists(pdb) /\ CurrentStatus(pdb) # ctl.status)
      BY <1>0, <1>3, <3>2 DEF CtlPatch
    <3>. QED  BY <3>1, <3>2
  <2>. QED  BY <1>0, <1>3, <2>2, <2>3 DEF CtlPatch, TypeOK
<1>4. ASSUME NEW e \in Evictors, NEW p \in Pods, NEW opt \in Options, Evict(e, p, opt)
      PROVE  TypeOK'
  <2>1. req' \in [Evictors -> Request \cup NotInFlight]
    <3>1. CASE pod[p].phase = "gone"
      <4>1. [pc |-> "done", answer |-> "NotFound"] \in NotInFlight
        BY DEF NotInFlight
      <4>. QED  BY <1>4, <3>1, <4>1, RequestSet DEF Evict, Answered
    <3>2. CASE pod[p].phase # "gone"
      <4>. DEFINE pc == IF IgnoresBudgets(pod[p].phase) THEN "delete" ELSE "judge"
                  pin == IF opt.pinned THEN pod[p].rev ELSE Unset
                  r == [pc |-> pc, pod |-> p, was |-> pod[p].phase, pin |-> pin,
                        dry |-> opt.dry, tries |-> 0, spends |-> FALSE, allow |-> 0, at |-> 0,
                        aged |-> FALSE, answer |-> "none"]
      <4>1. req' = [req EXCEPT ![e] = r]
        BY <1>4, <3>2 DEF Evict
      <4>2. pc \in {"judge", "meta", "spend", "delete"}
        OBVIOUS
      <4>3. pod[p].phase \in Phases /\ pod[p].rev \in Nat
        BY <1>0
      <4>4. pin \in Nat \cup {Unset}
        BY <4>3
      <4>5. opt.dry \in BOOLEAN /\ 0 \in 0..(Attempts - 1)
        BY EvictionAssumption
      <4>. HIDE DEF pc, pin
      <4>6. r \in Request
        BY <4>2, <4>3, <4>4, <4>5 DEF Request
      <4>. HIDE DEF r
      <4>. QED  BY <4>1, <4>6, RequestSet
    <3>. QED  BY <3>1, <3>2
  <2>. QED  BY <1>0, <1>4, <2>1 DEF Evict, TypeOK
<1>5. ASSUME NEW e \in Evictors, Judge(e)  PROVE TypeOK'
  <2>0. req[e] \in Request
    BY <1>5, InFlight DEF Judge
  <2>. DEFINE d == IF Exists(pdb) THEN Decide(req[e].was, pdb) ELSE "Delete"
  <2>1. CASE d = "Refuse"
    <3>1. [pc |-> "done", answer |-> "TooManyRequests"] \in NotInFlight
      BY DEF NotInFlight
    <3>2. req' = [req EXCEPT ![e] = [pc |-> "done", answer |-> "TooManyRequests"]]
      BY <1>5, <2>1 DEF Judge, Answered
    <3>3. req' \in [Evictors -> Request \cup NotInFlight]
      BY <3>1, <3>2, RequestSet
    <3>. QED  BY <1>0, <1>5, <3>3 DEF Judge, TypeOK
  <2>2. CASE d = "Spend" /\ ~req[e].dry
    <3>1. Exists(pdb) /\ Decide(req[e].was, pdb) = "Spend"
      BY <2>2
    <3>2. pdb \in Budget /\ pdb.allowed \in Nat
      BY <3>1, StoredBudget DEF Budget
    <3>3. pdb.allowed - 1 \in Nat
      BY <3>1, <3>2 DEF Decide
    <3>. DEFINE r == [req[e] EXCEPT !.pc = "meta", !.allow = pdb.allowed - 1]
    <3>4. r \in Request
      BY <2>0, <3>3 DEF Request
    <3>5. req' = [req EXCEPT ![e] = r]
      BY <1>0, <1>5, <2>2 DEF Judge
    <3>6. req' \in [Evictors -> Request \cup NotInFlight]
      BY <3>4, <3>5, RequestSet
    <3>. QED  BY <1>0, <1>5, <3>6 DEF Judge, TypeOK
  <2>3. CASE d # "Refuse" /\ ~(d = "Spend" /\ ~req[e].dry)
    <3>. DEFINE r == [req[e] EXCEPT !.pc = "delete"]
    <3>1. r \in Request
      BY <2>0 DEF Request
    <3>2. req' = [req EXCEPT ![e] = r]
      BY <1>0, <1>5, <2>3 DEF Judge
    <3>3. req' \in [Evictors -> Request \cup NotInFlight]
      BY <3>1, <3>2, RequestSet
    <3>. QED  BY <1>0, <1>5, <3>3 DEF Judge, TypeOK
  <2>. HIDE DEF d
  <2>. QED  BY <2>1, <2>2, <2>3
<1>6. ASSUME NEW e \in Evictors, ReadMeta(e)  PROVE TypeOK'
  <2>0. req[e] \in Request
    BY <1>6, InFlight DEF ReadMeta
  <2>1. CASE Exists(pdb)
    <3>. DEFINE r == [req[e] EXCEPT !.pc = "spend", !.at = pdb.rev]
    <3>1. pdb.rev \in Nat
      BY <2>1, StoredBudget DEF Budget
    <3>2. r \in Request
      BY <2>0, <3>1 DEF Request
    <3>3. req' = [req EXCEPT ![e] = r]
      BY <1>0, <1>6, <2>1 DEF ReadMeta
    <3>4. req' \in [Evictors -> Request \cup NotInFlight]
      BY <3>2, <3>3, RequestSet
    <3>. QED  BY <1>0, <1>6, <3>4 DEF ReadMeta, TypeOK
  <2>2. CASE ~Exists(pdb)
    <3>1. req' \in [Evictors -> Request \cup NotInFlight]
      BY <1>6, <2>0, <2>2, RetryTyped DEF ReadMeta
    <3>. QED  BY <1>0, <1>6, <3>1 DEF ReadMeta, TypeOK
  <2>. QED  BY <2>1, <2>2
<1>7. ASSUME NEW e \in Evictors, Spend(e)  PROVE TypeOK'
  <2>0. req[e] \in Request
    BY <1>7, InFlight DEF Spend
  <2>1. CASE Exists(pdb) /\ pdb.rev = req[e].at
    <3>1. pdb \in Budget /\ req[e].pod \in Pods /\ req[e].allow \in Nat
      BY <2>0, <2>1, StoredBudget DEF Request
    <3>2. pdb' \in Spent(pdb, req[e].pod, req[e].allow)
      BY <1>7, <2>1 DEF Spend
    <3>3. pdb' \in Budget
      BY <3>1, <3>2, SpentTyped
    <3>. DEFINE r == [req[e] EXCEPT !.pc = "delete", !.spends = TRUE]
    <3>4. r \in Request
      BY <2>0 DEF Request
    <3>5. req' = [req EXCEPT ![e] = r]
      BY <1>0, <1>7, <2>1 DEF Spend
    <3>6. req' \in [Evictors -> Request \cup NotInFlight]
      BY <3>4, <3>5, RequestSet
    <3>. QED  BY <1>0, <1>7, <3>3, <3>6 DEF Spend, TypeOK
  <2>2. CASE ~(Exists(pdb) /\ pdb.rev = req[e].at)
    <3>1. req' \in [Evictors -> Request \cup NotInFlight]
      BY <1>7, <2>0, <2>2, RetryTyped DEF Spend
    <3>. QED  BY <1>0, <1>7, <2>2, <3>1 DEF Spend, TypeOK
  <2>. QED  BY <2>1, <2>2
<1>8. ASSUME NEW e \in Evictors, NEW left \in Phases, DeletePod(e, left)  PROVE TypeOK'
  <2>0. req[e] \in Request /\ req[e].pod \in Pods
    BY <1>8, InFlight DEF DeletePod, Request
  <2>1. PICK a \in {"Evicted", "Conflict"} : req' = [req EXCEPT ![e] = [pc |-> "done", answer |-> a]]
    BY <1>8 DEF DeletePod, Answered
  <2>2. [pc |-> "done", answer |-> a] \in NotInFlight
    BY DEF NotInFlight
  <2>3. req' \in [Evictors -> Request \cup NotInFlight]
    BY <2>1, <2>2, RequestSet
  <2>. DEFINE p == req[e].pod
  <2>4. pod' = pod \/ pod' = Deleted(p, left)
    BY <1>8 DEF DeletePod
  <2>. HIDE DEF p
  <2>5. p \in Pods
    BY <2>0 DEF p
  <2>7. pod' \in [Pods -> [phase: Phases, rev: Nat]]
    BY <1>0, <2>4, <2>5, DeletedTyped
  <2>. QED  BY <1>0, <1>8, <2>3, <2>7 DEF DeletePod, TypeOK
<1>9. ASSUME NEW p \in Pods, Expire(p)  PROVE TypeOK'
  <2>1. pdb \in Budget
    BY <1>9, StoredBudget DEF Expire
  <2>2. pdb.disrupted \ {p} \in SUBSET Pods
    BY <2>1 DEF Budget
  <2>3. pdb' \in Budget
    BY <1>9, <2>1, <2>2 DEF Expire, Budget
  <2>4. ASSUME NEW e \in Evictors, req[e].pc = "delete"
        PROVE  [req[e] EXCEPT !.aged = TRUE] \in Request
    BY <2>4, InFlight DEF Request
  <2>5. req' \in [Evictors -> Request \cup NotInFlight]
    BY <1>0, <1>9, <2>4 DEF Expire
  <2>6. outside' \in 0..MaxOutside
    BY <1>0, <1>9, EvictionAssumption DEF Expire, Outside
  <2>. QED  BY <1>0, <1>9, <2>3, <2>5, <2>6 DEF Expire, TypeOK
<1>10. ASSUME NEW p \in Pods, NEW to \in Phases, MovePod(p, to)  PROVE TypeOK'
  <2>1. [phase |-> to, rev |-> pod[p].rev + 1] \in [phase: Phases, rev: Nat]
    BY <1>0
  <2>2. pod' \in [Pods -> [phase: Phases, rev: Nat]]
    BY <1>0, <1>10, <2>1 DEF MovePod
  <2>3. outside' \in 0..MaxOutside
    BY <1>0, <1>10, EvictionAssumption DEF MovePod, Outside
  <2>. QED  BY <1>0, <1>10, <2>2, <2>3 DEF MovePod, TypeOK
<1>11. ASSUME NEW min \in Mins, ChangeBudget(min)  PROVE TypeOK'
  <2>1. pdb \in Budget /\ min \in Nat
    BY <1>11, StoredBudget, EvictionAssumption DEF ChangeBudget
  <2>2. pdb.gen + 1 \in Nat /\ pdb.rev + 1 \in Nat \ {0}
    BY <2>1 DEF Budget
  <2>3. pdb' \in Budget
    BY <1>11, <2>1, <2>2 DEF ChangeBudget, Budget
  <2>4. outside' \in 0..MaxOutside
    BY <1>0, <1>11, EvictionAssumption DEF ChangeBudget, Outside
  <2>. QED  BY <1>0, <1>11, <2>3, <2>4 DEF ChangeBudget, TypeOK
<1>12. ASSUME RemoveBudget  PROVE TypeOK'
  <2>1. outside' \in 0..MaxOutside
    BY <1>0, <1>12, EvictionAssumption DEF RemoveBudget, Outside
  <2>. QED  BY <1>0, <1>12, <2>1 DEF RemoveBudget, TypeOK
<1>13. ASSUME UNCHANGED vars  PROVE TypeOK'
  BY <1>0, <1>13 DEF vars, TypeOK
<1>failed. ASSUME NEW e \in Evictors, Answered(e, "Failed")
           PROVE  req' \in [Evictors -> Request \cup NotInFlight]
  <2>1. [pc |-> "done", answer |-> "Failed"] \in NotInFlight
    BY DEF NotInFlight
  <2>. QED  BY <1>failed, <2>1, RequestSet DEF Answered
<1>14. ASSUME NEW e \in Evictors, NEW applied \in BOOLEAN, SpendFails(e, applied)  PROVE TypeOK'
  <2>0. req[e] \in Request
    BY <1>14, InFlight DEF SpendFails
  <2>1. pdb' \in Budget \cup {NoBudget}
    <3>1. CASE applied /\ Exists(pdb) /\ pdb.rev = req[e].at
      <4>1. pdb' \in Spent(pdb, req[e].pod, req[e].allow)
        BY <1>14, <3>1 DEF SpendFails
      <4>2. pdb \in Budget /\ req[e].pod \in Pods /\ req[e].allow \in Nat
        BY <2>0, <3>1, StoredBudget DEF Request
      <4>. QED  BY <1>0, <4>1, <4>2, SpentTyped
    <3>2. CASE ~(applied /\ Exists(pdb) /\ pdb.rev = req[e].at)
      BY <1>0, <1>14, <3>2 DEF SpendFails
    <3>. QED  BY <3>1, <3>2
  <2>2. outside' \in 0..MaxOutside
    BY <1>0, <1>14, EvictionAssumption DEF SpendFails, Outside
  <2>. QED  BY <1>0, <1>14, <1>failed, <2>1, <2>2 DEF SpendFails, TypeOK
<1>15. ASSUME NEW e \in Evictors, NEW applied \in BOOLEAN, DeleteFails(e, applied)  PROVE TypeOK'
  <2>0. req[e].pod \in Pods /\ "gone" \in Phases
    BY <1>15, InFlight DEF DeleteFails, Request, Phases
  <2>1. pod' \in [Pods -> [phase: Phases, rev: Nat]]
    BY <1>0, <1>15, <2>0, DeletedTyped DEF DeleteFails
  <2>2. outside' \in 0..MaxOutside
    BY <1>0, <1>15, EvictionAssumption DEF DeleteFails, Outside
  <2>. QED  BY <1>0, <1>15, <1>failed, <2>1, <2>2 DEF DeleteFails, TypeOK
<1>16. ASSUME CtlFails  PROVE TypeOK'
  <2>1. ctl' \in Tick
    BY <1>16 DEF CtlFails, Tick
  <2>2. outside' \in 0..MaxOutside
    BY <1>0, <1>16, EvictionAssumption DEF CtlFails, Outside
  <2>. QED  BY <1>0, <1>16, <2>1, <2>2 DEF CtlFails, TypeOK
<1>17. \A left \in {"gone", "terminating"} : left \in Phases
  BY DEF Phases
<1>. QED  BY <1>1, <1>2, <1>3, <1>4, <1>5, <1>6, <1>7, <1>8, <1>9, <1>10, <1>11, <1>12,
             <1>13, <1>14, <1>15, <1>16, <1>17 DEF Next

\* An instance starts from well-typed budgets and no request.
LEMMA TypeInit == Init => TypeOK
<1>. SUFFICES ASSUME Init  PROVE TypeOK
  OBVIOUS
<1>1. pdb \in Budget
  BY EvictionAssumption DEF Init
<1>2. pod \in [Pods -> [phase: Phases, rev: Nat]]
  BY DEF Init, Phases
<1>4. req \in [Evictors -> NotInFlight] /\ ctl \in Tick
  BY DEF Init, Idle, NotInFlight, Tick
<1>5. outside \in 0..MaxOutside
  BY EvictionAssumption DEF Init
<1>. QED  BY <1>1, <1>2, <1>4, <1>5 DEF TypeOK

(***************************************************************************)
(* disruptionsAllowed never goes negative and no eviction makes more than  *)
(* Attempts rounds, whoever writes to the budget (eviction.rs decide,      *)
(* handler.rs spend_budget).                                               *)
(***************************************************************************)
THEOREM TypeOKAlways == Spec => []TypeOK
BY TypeInit, TypeStep, PTL DEF Spec

-----------------------------------------------------------------------------
(***************************************************************************)
(* TakenPodsStayNamed is not inductive alone: a judgement that lets a pod  *)
(* go without spending also leads to the delete, so one needs that no      *)
(* request has spent before its swap succeeds.                             *)
(***************************************************************************)
Paid(r) == r.pc = "delete" /\ r.spends /\ ~r.aged

Early(r) == r.pc \in {"judge", "meta", "spend"}

Named(r, b) == /\ Early(r) => ~r.spends
               /\ Paid(r) /\ Exists(b) => r.pod \in b.disrupted

NamedInv == \A e \in Evictors : Named(req[e], pdb)

\* An eviction that has its answer owes nothing.
LEMMA DoneNamed ==
  ASSUME NEW a, NEW b
  PROVE  Named([pc |-> "done", answer |-> a], b)
BY DEF Named, Early, Paid

\* A lost round has spent nothing.
LEMMA RetryNamed ==
  ASSUME TypeOK, NEW e \in Evictors, req[e] \in Request, ~req[e].spends, Retry(e)
  PROVE  \E r : Named(r, pdb) /\ req' = [req EXCEPT ![e] = r]
<1>1. CASE req[e].tries + 1 = Attempts
  BY <1>1, DoneNamed DEF Retry, Answered
<1>2. CASE req[e].tries + 1 # Attempts
  <2>. DEFINE r == [req[e] EXCEPT !.pc = "judge", !.tries = @ + 1]
  <2>1. r.pc = "judge" /\ r.spends = req[e].spends
    BY DEF Request
  <2>2. req' = [req EXCEPT ![e] = r]
    BY <1>2 DEF Retry, TypeOK
  <2>. HIDE DEF r
  <2>3. Named(r, pdb)
    BY <2>1 DEF Named, Early, Paid
  <2>. QED  BY <2>2, <2>3
<1>. QED  BY <1>1, <1>2

\* The merge patches add to disruptedPods and never replace it.
LEMMA NamedStep == TypeOK /\ NamedInv /\ [Next]_vars => NamedInv'
<1>. SUFFICES ASSUME TypeOK, NamedInv, [Next]_vars  PROVE NamedInv'
  OBVIOUS
<1>0. req \in [Evictors -> Request \cup NotInFlight] /\ \A e \in Evictors : Named(req[e], pdb)
  BY DEF TypeOK, NamedInv
<1>keep. ASSUME req' = req, Exists(pdb') => Exists(pdb) /\ pdb.disrupted \subseteq pdb'.disrupted
         PROVE  NamedInv'
  BY <1>0, <1>keep DEF NamedInv, Named
<1>one. ASSUME NEW e \in Evictors, NEW r, Named(r, pdb), req' = [req EXCEPT ![e] = r], pdb' = pdb
        PROVE  NamedInv'
  BY <1>0, <1>one DEF NamedInv
<1>1. ASSUME CtlList \/ CtlCount  PROVE NamedInv'
  BY <1>1, <1>keep DEF CtlList, CtlCount
<1>2. ASSUME CtlPatch  PROVE NamedInv'
  <2>1. CASE Exists(pdb) /\ CurrentStatus(pdb) # ctl.status
    <3>1. pdb \in Budget
      BY <2>1, StoredBudget
    <3>2. pdb'.disrupted = pdb.disrupted
      BY <1>2, <2>1, <3>1 DEF CtlPatch, Budget
    <3>. QED  BY <1>2, <2>1, <3>2, <1>keep DEF CtlPatch
  <2>2. CASE ~(Exists(pdb) /\ CurrentStatus(pdb) # ctl.status)
    BY <1>2, <2>2, <1>keep DEF CtlPatch
  <2>. QED  BY <2>1, <2>2
<1>3. ASSUME NEW e \in Evictors, NEW p \in Pods, NEW opt \in Options, Evict(e, p, opt)
      PROVE  NamedInv'
  <2>1. CASE pod[p].phase = "gone"
    BY <1>3, <2>1, <1>one, DoneNamed DEF Evict, Answered
  <2>2. CASE pod[p].phase # "gone"
    <3>. DEFINE r == [pc |-> IF IgnoresBudgets(pod[p].phase) THEN "delete" ELSE "judge",
                      pod |-> p, was |-> pod[p].phase,
                      pin |-> IF opt.pinned THEN pod[p].rev ELSE Unset,
                      dry |-> opt.dry, tries |-> 0, spends |-> FALSE, allow |-> 0, at |-> 0,
                      aged |-> FALSE, answer |-> "none"]
    <3>1. Named(r, pdb)
      BY DEF Named, Paid, Early
    <3>2. req' = [req EXCEPT ![e] = r] /\ pdb' = pdb
      BY <1>3, <2>2 DEF Evict
    <3>. HIDE DEF r
    <3>. QED  BY <3>1, <3>2, <1>one
  <2>. QED  BY <2>1, <2>2
<1>4. ASSUME NEW e \in Evictors, Judge(e)  PROVE NamedInv'
  <2>0. req[e] \in Request /\ pdb' = pdb /\ ~req[e].spends
    BY <1>0, <1>4, InFlight DEF Judge, Named, Early
  <2>1. \/ req' = [req EXCEPT ![e] = [pc |-> "done", answer |-> "TooManyRequests"]]
        \/ req' = [req EXCEPT ![e] = [req[e] EXCEPT !.pc = "meta", !.allow = pdb.allowed - 1]]
        \/ req' = [req EXCEPT ![e] = [req[e] EXCEPT !.pc = "delete"]]
    BY <1>0, <1>4 DEF Judge, Answered
  <2>2. /\ Named([req[e] EXCEPT !.pc = "meta", !.allow = pdb.allowed - 1], pdb)
        /\ Named([req[e] EXCEPT !.pc = "delete"], pdb)
    BY <2>0 DEF Named, Paid, Early, Request
  <2>. QED  BY <2>0, <2>1, <2>2, <1>one, DoneNamed
<1>5. ASSUME NEW e \in Evictors, ReadMeta(e)  PROVE NamedInv'
  <2>0. req[e] \in Request /\ pdb' = pdb /\ ~req[e].spends
    BY <1>0, <1>5, InFlight DEF ReadMeta, Named, Early
  <2>1. CASE Exists(pdb)
    <3>. DEFINE r == [req[e] EXCEPT !.pc = "spend", !.at = pdb.rev]
    <3>1. Named(r, pdb)
      BY <2>0 DEF Named, Paid, Early, Request
    <3>2. req' = [req EXCEPT ![e] = r]
      BY <1>0, <1>5, <2>1 DEF ReadMeta
    <3>. QED  BY <2>0, <3>1, <3>2, <1>one
  <2>2. CASE ~Exists(pdb)
    BY <1>5, <2>0, <2>2, <1>one, RetryNamed DEF ReadMeta
  <2>. QED  BY <2>1, <2>2
<1>6. ASSUME NEW e \in Evictors, Spend(e)  PROVE NamedInv'
  <2>0. req[e] \in Request /\ ~req[e].spends
    BY <1>0, <1>6, InFlight DEF Spend, Named, Early
  <2>1. CASE Exists(pdb) /\ pdb.rev = req[e].at
    <3>. DEFINE r == [req[e] EXCEPT !.pc = "delete", !.spends = TRUE]
    <3>1. pdb \in Budget
      BY <2>1, StoredBudget
    <3>2. pdb'.disrupted = pdb.disrupted \cup {req[e].pod}
      <4>1. pdb' \in Spent(pdb, req[e].pod, req[e].allow)
        BY <1>6, <2>1 DEF Spend
      <4>. QED  BY <2>0, <3>1, <4>1, SpentTyped DEF Request
    <3>3. r.pod = req[e].pod /\ r.pc = "delete"
      BY <2>0 DEF Request
    <3>4. req' = [req EXCEPT ![e] = r]
      BY <1>0, <1>6, <2>1 DEF Spend
    <3>. HIDE DEF r
    <3>5. Named(r, pdb')
      BY <3>2, <3>3 DEF Named, Early
    <3>6. \A f \in Evictors : Named(req[f], pdb')
      BY <1>0, <2>1, <3>2 DEF Named
    <3>. QED  BY <1>0, <3>4, <3>5, <3>6 DEF NamedInv
  <2>2. CASE ~(Exists(pdb) /\ pdb.rev = req[e].at)
    <3>1. Retry(e) /\ pdb' = pdb
      BY <1>6, <2>2 DEF Spend
    <3>. QED  BY <2>0, <3>1, <1>one, RetryNamed
  <2>. QED  BY <2>1, <2>2
<1>7. ASSUME NEW e \in Evictors, NEW left \in Phases, DeletePod(e, left)  PROVE NamedInv'
  <2>1. pdb' = pdb /\ \E a : req' = [req EXCEPT ![e] = [pc |-> "done", answer |-> a]]
    BY <1>7 DEF DeletePod, Answered
  <2>. QED  BY <2>1, <1>one, DoneNamed
<1>8. ASSUME NEW p \in Pods, Expire(p)  PROVE NamedInv'
  <2>1. pdb \in Budget /\ Exists(pdb)
    BY <1>8, StoredBudget DEF Expire
  <2>2. pdb'.disrupted = pdb.disrupted \ {p}
    BY <1>8, <2>1 DEF Expire, Budget
  <2>3. SUFFICES ASSUME NEW e \in Evictors  PROVE Named(req'[e], pdb')
    BY DEF NamedInv
  <2>4. CASE req[e].pc = "delete" /\ req[e].pod = p
    <3>1. req[e] \in Request
      BY <2>4, InFlight
    <3>2. req'[e] = [req[e] EXCEPT !.aged = TRUE]
      BY <1>8, <2>4 DEF Expire
    <3>3. req'[e].aged /\ req'[e].pc = "delete"
      BY <2>4, <3>1, <3>2 DEF Request
    <3>. QED  BY <3>3 DEF Named, Paid, Early
  <2>5. CASE ~(req[e].pc = "delete" /\ req[e].pod = p)
    <3>1. req'[e] = req[e]
      BY <1>8, <2>5 DEF Expire
    <3>2. Named(req[e], pdb)
      BY <1>0
    <3>. QED  BY <2>1, <2>2, <2>5, <3>1, <3>2 DEF Named, Paid
  <2>. QED  BY <2>4, <2>5
<1>9. ASSUME NEW p \in Pods, NEW to \in Phases, MovePod(p, to)  PROVE NamedInv'
  BY <1>9, <1>keep DEF MovePod
<1>10. ASSUME NEW min \in Mins, ChangeBudget(min)  PROVE NamedInv'
  <2>1. pdb \in Budget /\ Exists(pdb)
    BY <1>10, StoredBudget DEF ChangeBudget
  <2>2. pdb'.disrupted = pdb.disrupted
    BY <1>10, <2>1 DEF ChangeBudget, Budget
  <2>. QED  BY <1>10, <2>1, <2>2, <1>keep DEF ChangeBudget
<1>11. ASSUME RemoveBudget  PROVE NamedInv'
  <2>1. req' = req /\ ~Exists(pdb')
    BY <1>11 DEF RemoveBudget, Exists
  <2>. QED  BY <2>1, <1>keep
<1>12. ASSUME UNCHANGED vars  PROVE NamedInv'
  BY <1>12, <1>keep DEF vars
<1>13. ASSUME NEW e \in Evictors, NEW applied \in BOOLEAN, SpendFails(e, applied)  PROVE NamedInv'
  <2>. DEFINE r == [pc |-> "done", answer |-> "Failed"]
  <2>1. req' = [req EXCEPT ![e] = r]
    BY <1>13 DEF SpendFails, Answered
  <2>2. CASE applied /\ Exists(pdb) /\ pdb.rev = req[e].at
    <3>1. req[e] \in Request /\ pdb \in Budget
      BY <1>13, <2>2, InFlight, StoredBudget DEF SpendFails
    <3>2. pdb'.disrupted = pdb.disrupted \cup {req[e].pod}
      <4>1. pdb' \in Spent(pdb, req[e].pod, req[e].allow)
        BY <1>13, <2>2 DEF SpendFails
      <4>. QED  BY <3>1, <4>1, SpentTyped DEF Request
    <3>3. \A f \in Evictors : Named(req[f], pdb')
      BY <1>0, <2>2, <3>2 DEF Named
    <3>4. Named(r, pdb')
      BY DoneNamed
    <3>. HIDE DEF r
    <3>. QED  BY <1>0, <2>1, <3>3, <3>4 DEF NamedInv
  <2>3. CASE ~(applied /\ Exists(pdb) /\ pdb.rev = req[e].at)
    <3>1. pdb' = pdb
      BY <1>13, <2>3 DEF SpendFails
    <3>. QED  BY <2>1, <3>1, <1>one, DoneNamed
  <2>. QED  BY <2>2, <2>3
<1>14. ASSUME NEW e \in Evictors, NEW applied \in BOOLEAN, DeleteFails(e, applied)  PROVE NamedInv'
  BY <1>14, <1>one, DoneNamed DEF DeleteFails, Answered
<1>15. ASSUME CtlFails  PROVE NamedInv'
  BY <1>15, <1>keep DEF CtlFails
<1>16. \A left \in {"gone", "terminating"} : left \in Phases
  BY DEF Phases
<1>. QED  BY <1>1, <1>2, <1>3, <1>4, <1>5, <1>6, <1>7, <1>8, <1>9, <1>10, <1>11, <1>12,
             <1>13, <1>14, <1>15, <1>16 DEF Next

(***************************************************************************)
(* "a pod an eviction just took is not counted back before it disappears"  *)
(* (pdb.rs counts_healthy): whatever evictions and ticks write to the      *)
(* budget meanwhile, a pod that was paid for is named in disruptedPods     *)
(* until its delete or the end of its stamp.                               *)
(***************************************************************************)
THEOREM TakenPodsNamedAlways == Spec => []TakenPodsStayNamed
<1>1. Init => NamedInv
  BY DEF Init, Idle, NamedInv, Named, Early, Paid
<1>2. NamedInv => TakenPodsStayNamed
  BY DEF NamedInv, Named, Paid, TakenPodsStayNamed
<1>. QED  BY <1>1, <1>2, TypeInit, TypeStep, NamedStep, PTL DEF Spec

=============================================================================
