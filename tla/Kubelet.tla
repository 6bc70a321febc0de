------------------------------ MODULE Kubelet -------------------------------
(***************************************************************************)
(* The kubelet's passes over one pod name (engenho-kubelet/src/kubelet.rs):*)
(* list the pod, clean up what is no longer bound here, re-adopt or start  *)
(* what has no record, run the init sequence, poll every container and     *)
(* restart it under the policy, publish the status by compare-and-swap.    *)
(* Between the steps containers exit or vanish, the runtime refuses calls, *)
(* clients delete the pod and create it again under the same name, and the *)
(* kubelet crashes, which loses its records but not the containers.        *)
(*                                                                         *)
(* A run's id is <<the uid of the pod it was started for, how many runs of *)
(* that container the uid has had>>: unique, as a runtime's ids are.  The  *)
(* uid in it is a ghost: nothing of the kubelet reads it.                  *)
(***************************************************************************)
EXTENDS PodLifecycle, Sequences, FiniteSets

CONSTANTS
  Setups,     \* pods and runtimes: [policy, adopts, apps, inits], and the bound
              \* on the pods created under the name: [pods]
  MaxEvents   \* bound: exits, refusals, lost containers, edits and crashes

\* A pod has a policy and app containers; an init container may be a sidecar.
\* Names are the runtime's: <ns>_<pod>_<name> for an app container and
\* <ns>_<pod>_init-<name> for an init container, distinct within each list
\* (validate_container).  A pod with an app called init-<one of its inits>, whose
\* two containers would share a name, is not modelled.
ASSUME SetupsAssumption ==
  \A s \in Setups :
    /\ s.policy \in Policies /\ s.adopts \in BOOLEAN /\ s.pods \in Nat \ {0}
    /\ s.apps \in Seq(STRING) /\ Len(s.apps) > 0
    /\ s.inits \in Seq([name: STRING, sidecar: BOOLEAN])
    /\ \A i, j \in DOMAIN s.apps : s.apps[i] = s.apps[j] => i = j
    /\ \A i, j \in DOMAIN s.inits : s.inits[i].name = s.inits[j].name => i = j
    /\ \A i \in DOMAIN s.apps, j \in DOMAIN s.inits : s.apps[i] # s.inits[j].name
ASSUME BoundsAssumption == MaxEvents \in Nat

VARIABLES
  setup,    \* the member of Setups this behaviour is about
  pod,      \* the Pod in the store: uid, deletion mark, published status
  held,     \* the containers the runtime has, by their deterministic names
  starts,   \* ghost: runs started so far, per uid and container
  clean,    \* ghost: the runs that exited 0
  local,    \* the kubelet's in-memory record of the pod
  penalty,  \* containers whose start curve owes a wait, per uid
  pass,     \* where the tick is, and what it has read
  orphans,  \* ghost: the runs that were left behind by a crash
  born,     \* bound: pods created so far
  taken,    \* ghost: uids that were given the containers of another uid
  events    \* bound: how many of MaxEvents have happened

vars == <<setup, pod, held, starts, clean, local, penalty, pass, taken, orphans, born,
          events>>

\* Variables that no step of the kubelet's passes changes.
steady == <<setup, born, orphans>>

-----------------------------------------------------------------------------
Apps == {setup.apps[i] : i \in DOMAIN setup.apps}
Inits == {setup.inits[i].name : i \in DOMAIN setup.inits}
Sidecars == {setup.inits[i].name : i \in {j \in DOMAIN setup.inits : setup.inits[j].sidecar}}
Names == Apps \union Inits
Uids == 1..setup.pods

NoPod == [uid |-> 0, term |-> FALSE, phase |-> "Pending",
          apps |-> [c \in Apps |-> Waiting], inits |-> [c \in Inits |-> NoId]]
Exists(p) == p.uid # 0

Gone == [id |-> NoId, run |-> "gone"]
Up(c) == held[c].run \in {"up", "stopping"}

NoRecord == [id |-> NoId, count |-> 0, down |-> "none", owed |-> FALSE]
NewRecord(id, count) == [NoRecord EXCEPT !.id = id, !.count = count]
EmptyLocal == [known |-> FALSE, uid |-> 0, done |-> FALSE,
               recs |-> [c \in Names |-> NoRecord]]
Recorded(c) == local.recs[c].id # NoId

Idle == [at |-> "idle", seen |-> NoPod, fresh |-> FALSE, todo |-> {}, blocked |-> FALSE,
         obs |-> [c \in Apps |-> Waiting], unseen |-> FALSE,
         out |-> [phase |-> "Pending", apps |-> [c \in Apps |-> Waiting],
                  inits |-> [c \in Inits |-> NoId]]]

Init ==
  /\ setup \in Setups
  /\ pod = NoPod
  /\ held = [c \in Names |-> Gone]
  /\ starts = [u \in Uids |-> [c \in Names |-> 0]]
  /\ clean = {}
  /\ local = EmptyLocal
  /\ penalty = {}
  /\ pass = Idle
  /\ taken = {}
  /\ orphans = {}
  /\ born = 0
  /\ events = 0

Spend(n) == events + n <= MaxEvents /\ events' = events + n

-----------------------------------------------------------------------------
(***************************************************************************)
(* The API and the workloads.                                              *)
(***************************************************************************)
Create ==
  /\ ~Exists(pod)
  /\ born < setup.pods
  /\ born' = born + 1
  /\ pod' = [NoPod EXCEPT !.uid = born']
  /\ pass' = [pass EXCEPT !.fresh = FALSE]
  /\ UNCHANGED <<setup, orphans, held, starts, clean, local, penalty, taken, events>>

\* A pod without finalizers goes at once, the others are marked first.
Delete ==
  /\ Exists(pod)
  /\ pod' \in {NoPod, [pod EXCEPT !.term = TRUE]}
  /\ pod' # pod
  /\ pass' = [pass EXCEPT !.fresh = FALSE]
  /\ UNCHANGED <<steady, held, starts, clean, local, penalty, taken, events>>

\* Any other client's write moves the resourceVersion.
Edit ==
  /\ pass.fresh /\ Spend(1)
  /\ pass' = [pass EXCEPT !.fresh = FALSE]
  /\ UNCHANGED <<steady, pod, held, starts, clean, local, penalty, taken>>

Ends(c, exit) ==
  /\ held' = [held EXCEPT ![c].run = exit]
  /\ clean' = IF exit = "ok" THEN clean \union {<<c, held[c].id>>} ELSE clean
  /\ UNCHANGED <<steady, pod, starts, local, penalty, pass, taken>>

\* A container exits by itself.
Exit(c) ==
  /\ held[c].run = "up" /\ Spend(1)
  /\ \E exit \in {"ok", "bad"} : Ends(c, exit)

\* An init container completes, which is what it is for.
InitExit(c) ==
  /\ c \in Inits \ Sidecars
  /\ held[c].run = "up"
  /\ Ends(c, "ok")
  /\ UNCHANGED events

\* A stop runs its course.
Reaped(c) ==
  /\ held[c].run = "stopping"
  /\ \E exit \in {"ok", "bad"} : Ends(c, exit)
  /\ UNCHANGED events

\* The runtime loses a container, or someone removes it.
Vanish(c) ==
  /\ held[c] # Gone /\ Spend(1)
  /\ held' = [held EXCEPT ![c] = Gone]
  /\ UNCHANGED <<steady, pod, starts, clean, local, penalty, pass, taken>>

\* The kubelet's process dies.  On the native runtime its workloads, being
\* its children, die with it.
Crash ==
  /\ Spend(1)
  /\ local.known \/ pass.at # "idle"
  /\ held' \in {held} \union (IF setup.adopts THEN {} ELSE {[c \in Names |-> Gone]})
  /\ local' = EmptyLocal
  /\ penalty' = {}
  /\ pass' = Idle
  /\ orphans' = orphans \union {<<c, held[c].id>> : c \in {d \in Names : held[d] # Gone}}
  /\ UNCHANGED <<setup, born, pod, starts, clean, taken>>

-----------------------------------------------------------------------------
(***************************************************************************)
(* The runtime's calls: what each may do to the containers it holds.       *)
(***************************************************************************)
\* Mutant: a container being stopped is taken for one that is down.
PolledStoppingIsDown(c, id) ==
  IF held[c].id # id \/ held[c].run = "stopping" THEN "unknown"
  ELSE held[c].run

\* status: a container the runtime does not have is down, nobody knows how.
Polled(c, id) ==
  IF held[c].id # id THEN "unknown" ELSE IF Up(c) THEN "up" ELSE held[c].run

\* Mutant: an adopted container is reported under an id of its own.
LaunchNewId(c, u, h) ==
  LET id == <<u, starts[u][c] + 1>>
  IN {[id |-> id, starts |-> [starts EXCEPT ![u][c] = @ + 1], cost |-> 0,
       held |-> IF setup.adopts /\ h[c].run = "up" THEN h
                ELSE [h EXCEPT ![c] = [id |-> id, run |-> "up"]]]}

\* start: a container under the name that runs is adopted, or else replaced.
\* A failed start leaves the name to whatever holds it, and costs an event.
Launch(c, u, h) ==
  LET id == <<u, starts[u][c] + 1>>
      adopted == setup.adopts /\ h[c].run \in {"up", "stopping"}
  IN {[id |-> NoId, held |-> h, starts |-> starts, cost |-> 1]} \union
     {IF adopted
      THEN [id |-> h[c].id, held |-> h, starts |-> starts, cost |-> 0]
      ELSE [id |-> id, held |-> [h EXCEPT ![c] = [id |-> id, run |-> "up"]],
            starts |-> [starts EXCEPT ![u][c] = @ + 1], cost |-> 0]}

\* stop, then remove: gone, or still stopping, or refused (an event).
Clear(c, id) ==
  IF held[c].id # id THEN {[ok |-> TRUE, held |-> held, cost |-> 0]}
  ELSE {[ok |-> TRUE, held |-> [held EXCEPT ![c] = Gone], cost |-> 0],
        [ok |-> FALSE, held |-> held, cost |-> 1]} \union
       {[ok |-> FALSE, held |-> [held EXCEPT ![c].run = "stopping"], cost |-> 0] :
          x \in {y \in {c} : Up(y)}}

\* cleanup_group: stop every container of names whose id is ids[c], then remove
\* every one.  A stop that is refused ends it; a container still stopping, or a
\* refused removal, does not hold up the others.
GroupDown(names, ids) ==
  LET mine == {c \in names : held[c] # Gone /\ held[c].id = ids[c]}
      up == {c \in mine : Up(c)}
      Stopping(cs, gone) ==
        [c \in Names |-> IF c \in gone THEN Gone
                         ELSE IF c \in cs THEN [held[c] EXCEPT !.run = "stopping"]
                         ELSE held[c]]
  IN \/ /\ up # {} /\ Spend(1)
        /\ \E cs \in SUBSET up : held' = Stopping(cs, {})
     \/ \E gone \in SUBSET mine :
           /\ Spend(IF mine \ gone \subseteq up THEN 0 ELSE 1)
           /\ held' = Stopping(up, gone)

\* Mutant: a container asked to stop is taken for gone.
AllDownOnceAsked(names, ids) ==
  \A c \in names : held'[c].run # "up" \/ held'[c].id # ids[c]

AllDown(names, ids) == \A c \in names : held'[c] = Gone \/ held'[c].id # ids[c]

-----------------------------------------------------------------------------
(***************************************************************************)
(* The tick.                                                               *)
(***************************************************************************)
\* List the pods bound here; drop the start penalties of pods that are gone.
Tick ==
  /\ pass.at = "idle"
  /\ Exists(pod) \/ local.known
  /\ pass' = [Idle EXCEPT !.at = IF Exists(pod) THEN "drive" ELSE "clean", !.seen = pod,
                       !.fresh = Exists(pod)]
  /\ penalty' = {p \in penalty : p[1] = pod.uid}
  /\ UNCHANGED <<steady, pod, held, starts, clean, local, taken, events>>

Ids == [c \in Names |-> local.recs[c].id]

\* The pod is no longer bound here: stop and remove its app containers.
CleanApps ==
  /\ pass.at = "clean"
  /\ GroupDown(Apps, Ids)
  /\ pass' = IF AllDown(Apps, Ids) THEN [pass EXCEPT !.at = "cleanInits"] ELSE Idle
  /\ UNCHANGED <<steady, pod, starts, clean, local, penalty, taken>>

\* Then its init containers; the record goes when everything is gone.
CleanInits ==
  /\ pass.at = "cleanInits"
  /\ GroupDown(Inits, Ids)
  /\ pass' = Idle
  /\ local' = IF AllDown(Inits, Ids) THEN EmptyLocal ELSE local
  /\ UNCHANGED <<steady, pod, starts, clean, penalty, taken>>

-----------------------------------------------------------------------------
\* Where a pass that may start containers begins.
StartPath(p) ==
  IF setup.inits # <<>> /\ ~local.done THEN [p EXCEPT !.at = "init"]
  ELSE LET due == {i \in DOMAIN setup.apps :
                     /\ ~Recorded(setup.apps[i])
                     /\ <<p.seen.uid, setup.apps[i]>> \notin penalty}
       IN [p EXCEPT !.at = IF due = {} THEN "observe" ELSE "mount",
                    !.todo = IF due = {} THEN DOMAIN setup.apps ELSE due]

\* Where a pass that only observes begins.
ObservePath(p) ==
  IF setup.inits # <<>> /\ ~local.done THEN [p EXCEPT !.at = "init"]
  ELSE [p EXCEPT !.at = "observe", !.todo = DOMAIN setup.apps]

Writes(p, phase, apps, inits) ==
  [p EXCEPT !.at = "write", !.out = [phase |-> phase, apps |-> apps, inits |-> inits]]

NoneStarted == [c \in Apps |-> Waiting]
RecordedInits == [c \in Inits |-> local.recs[c].id]

\* A pod this kubelet has no record of, on a runtime that hands back what it
\* runs, or one whose status is terminal already.
DriveUnknown ==
  /\ pass.at = "drive" /\ ~local.known
  /\ setup.adopts \/ pass.seen.phase \in Terminal
  /\ pass' = IF pass.seen.phase \in Terminal \/ pass.seen.term THEN Idle
             ELSE StartPath(pass)
  /\ UNCHANGED <<steady, pod, held, starts, clean, local, penalty, taken, events>>

StoredIds ==
  [c \in Names |-> IF c \in Apps THEN pass.seen.apps[c].id ELSE pass.seen.inits[c]]

\* The containers of the runs the stored status names that are still there.
Lost == SelectSeq(setup.apps \o [i \in DOMAIN setup.inits |-> setup.inits[i].name],
                  LAMBDA c : held[c] # Gone /\ held[c].id = StoredIds[c])

\* On a runtime that cannot: tear down every run the stored status names, one
\* after the other, and hold the pod at the first that is not gone.
Reap ==
  /\ pass.at = "drive" /\ ~local.known
  /\ ~setup.adopts /\ pass.seen.phase \notin Terminal
  /\ \E n \in 0..Len(Lost) :
       \E run \in {"refused", "stopping"} :
          /\ run = "stopping" => n < Len(Lost) /\ Up(Lost[n + 1])
          /\ Spend(IF n < Len(Lost) /\ run = "refused" THEN 1 ELSE 0)
          /\ held' = [c \in Names |->
                IF \E i \in 1..n : Lost[i] = c THEN Gone
                ELSE IF run = "stopping" /\ Lost[n + 1] = c
                THEN [held[c] EXCEPT !.run = "stopping"]
                ELSE held[c]]
  /\ pass' = IF AllDown(Names, StoredIds) THEN [pass EXCEPT !.at = "readopt"] ELSE Idle
  /\ UNCHANGED <<steady, pod, starts, clean, local, penalty, taken>>

\* Then publish what was lost under Never, or go on to start the pod.
Readopt ==
  /\ pass.at = "readopt"
  /\ pass' = IF ReconcileLostPod(setup.policy, pass.seen.apps) = "Failed"
             THEN Writes(pass, "Failed", [c \in Apps |-> LostStatus(pass.seen.apps[c])],
                         pass.seen.inits)
             ELSE IF pass.seen.term THEN Idle
             ELSE StartPath(pass)
  /\ UNCHANGED <<steady, pod, held, starts, clean, local, penalty, taken, events>>

\* Mutant: a pod with a record is only observed.
AwaitsAppStartNever == FALSE

AwaitsAppStart ==
  /\ pass.seen.phase \notin Terminal /\ ~pass.seen.term
  /\ \E c \in Apps : ~Recorded(c)

\* A pod with a record: start what it lacks, or observe it.  The record is
\* filed under the pod's name.
DriveKnown ==
  /\ pass.at = "drive" /\ local.known
  /\ pass' = IF AwaitsAppStart THEN StartPath(pass) ELSE ObservePath(pass)
  /\ taken' = IF local.uid = pass.seen.uid THEN taken ELSE taken \union {pass.seen.uid}
  /\ UNCHANGED <<steady, pod, held, starts, clean, local, penalty, events>>

\* The pod's volumes cannot be set up: it is published as not started.
Unmounted ==
  /\ pass.at \in {"init", "mount"} /\ Spend(1)
  /\ pass' = Writes(pass, "Pending", NoneStarted, pass.seen.inits)
  /\ UNCHANGED <<steady, pod, held, starts, clean, local, penalty, taken>>

Mounted ==
  /\ pass.at = "mount"
  /\ pass' = [pass EXCEPT !.at = "start"]
  /\ UNCHANGED <<steady, pod, held, starts, clean, local, penalty, taken, events>>

-----------------------------------------------------------------------------
\* The outcome r of a launch of c: its record, its penalty, what it took over.
Launched(c, r, count) ==
  /\ held' = r.held
  /\ starts' = r.starts
  /\ Spend(r.cost)
  /\ penalty' = IF r.id = NoId THEN penalty \union {<<pass.seen.uid, c>>} ELSE penalty
  /\ taken' = IF r.id = NoId \/ r.id[1] = pass.seen.uid THEN taken
              ELSE taken \union {pass.seen.uid}
  /\ local' = IF r.id = NoId THEN local
              ELSE [local EXCEPT !.known = TRUE,
                                 !.uid = IF local.known THEN @ ELSE pass.seen.uid,
                                 !.recs[c] = NewRecord(r.id, count)]

NextTodo == CHOOSE i \in pass.todo : \A j \in pass.todo : i <= j
Done(p) == [p EXCEPT !.todo = @ \ {NextTodo}]

\* Start the next app container the record lacks and its curve permits.
StartApp ==
  /\ pass.at = "start"
  /\ LET c == setup.apps[NextTodo]
     IN \E r \in Launch(c, pass.seen.uid, held) :
           Launched(c, r, StartedAs(pass.seen.apps[c], r.id, setup.adopts))
  /\ pass' = IF pass.todo = {NextTodo}
             THEN [pass EXCEPT !.at = "observe", !.todo = DOMAIN setup.apps]
             ELSE Done(pass)
  /\ UNCHANGED <<steady, pod, clean>>

\* The mounts of the next container cannot be prepared: the pass ends here.
SkipStart ==
  /\ pass.at = "start" /\ Spend(1)
  /\ pass' = Idle
  /\ UNCHANGED <<steady, pod, held, starts, clean, local, penalty, taken>>

-----------------------------------------------------------------------------
(***************************************************************************)
(* The init sequence.                                                      *)
(***************************************************************************)
\* What the poll of a container says of its record: the exit is kept.
Noted(c) ==
  IF ~Recorded(c) \/ Polled(c, local.recs[c].id) = "up" THEN local.recs[c]
  ELSE [local.recs[c] EXCEPT !.down = KnownAfter(@, Polled(c, local.recs[c].id))]

InitObs ==
  [i \in DOMAIN setup.inits |->
     LET c == setup.inits[i].name
         rec == local.recs[c]
     IN IF ~Recorded(c) THEN Waiting
        ELSE IF Polled(c, rec.id) = "up" THEN RunningEntry(rec.id, rec.count)
        ELSE EndedEntry(rec.id, rec.count, Noted(c).down)]

\* The record once the first n init containers are polled.
InitsNoted(n) ==
  [local EXCEPT !.recs = [c \in Names |->
     IF \E i \in 1..n : setup.inits[i].name = c THEN Noted(c) ELSE @[c]]]

\* The n-th cannot be polled: nothing is started and nothing is written.
InitUnseen ==
  /\ pass.at = "init" /\ Spend(1)
  /\ \E n \in DOMAIN setup.inits : /\ Recorded(setup.inits[n].name)
                                   /\ local' = InitsNoted(n - 1)
  /\ pass' = Idle
  /\ UNCHANGED <<steady, pod, held, starts, clean, penalty, taken>>

\* Poll the init containers and ask the sequencer.
InitDecide ==
  LET act == NextInitAction(setup.policy, setup.inits, InitObs)
  IN /\ pass.at = "init"
     /\ local' = InitsNoted(Len(setup.inits))
     /\ pass' = IF act.failed
                THEN Writes(pass, "Failed", NoneStarted, RecordedInits)
                ELSE [pass EXCEPT !.at = IF act.start = {} THEN "initEnd" ELSE "initStart",
                                  !.todo = act.start, !.blocked = act.blocked]
     /\ UNCHANGED <<steady, pod, held, starts, clean, penalty, taken, events>>

\* Start, or clear and start again, the next init container it named.
InitStart ==
  LET c == setup.inits[NextTodo].name
      rec == local.recs[c]
      skip == \/ <<pass.seen.uid, c>> \in penalty
              \/ Recorded(c) /\ Polled(c, rec.id) = "up"
  IN /\ pass.at = "initStart"
     /\ pass' = IF pass.todo = {NextTodo} THEN [Done(pass) EXCEPT !.at = "initEnd"]
                ELSE Done(pass)
     /\ \/ skip /\ UNCHANGED <<held, starts, local, penalty, taken, events>>
        \/ /\ ~skip /\ Recorded(c) /\ Spend(1)  \* its poll fails
           /\ UNCHANGED <<held, starts, local, penalty, taken>>
        \/ /\ ~skip /\ ~Recorded(c)
           /\ \E r \in Launch(c, pass.seen.uid, held) : Launched(c, r, 0)
        \/ /\ ~skip /\ Recorded(c)
           /\ \E k \in Clear(c, rec.id) :
                 \/ /\ ~k.ok /\ Spend(k.cost)
                    /\ held' = k.held
                    /\ UNCHANGED <<starts, local, penalty, taken>>
                 \/ /\ k.ok
                    /\ \E r \in Launch(c, pass.seen.uid, k.held) :
                          Launched(c, r, rec.count + 1)
     /\ UNCHANGED <<steady, pod, clean>>

\* Nothing blocks and every init container has started: on to the apps.
InitFinish ==
  /\ pass.at = "initEnd"
  /\ ~pass.blocked /\ \A c \in Inits : Recorded(c)
  /\ local' = [local EXCEPT !.done = TRUE]
  /\ pass' = [pass EXCEPT !.at = "apps"]
  /\ UNCHANGED <<steady, pod, held, starts, clean, penalty, taken, events>>

\* The start path once more, now past the init sequence.
StartApps ==
  /\ pass.at = "apps"
  /\ pass' = StartPath(pass)
  /\ UNCHANGED <<steady, pod, held, starts, clean, local, penalty, taken, events>>

\* Otherwise the pod is published Pending, to be come back to, unless an init
\* container cannot be polled.
InitPending ==
  /\ pass.at = "initEnd"
  /\ pass.blocked \/ \E c \in Inits : ~Recorded(c)
  /\ \/ /\ pass' = Writes(pass, "Pending", NoneStarted, RecordedInits)
        /\ UNCHANGED events
     \/ /\ \E c \in Inits : Recorded(c)
        /\ Spend(1)
        /\ pass' = Idle
  /\ UNCHANGED <<steady, pod, held, starts, clean, local, penalty, taken>>

-----------------------------------------------------------------------------
(***************************************************************************)
(* The poll of the app containers.                                         *)
(***************************************************************************)
App == setup.apps[NextTodo]
Rec == local.recs[App]
Observe(entry) == pass' = [Done(pass) EXCEPT !.obs[App] = entry]
Observing == pass.at = "observe" /\ pass.todo # {}
RunPolled == IF Observing /\ Recorded(App) THEN Polled(App, Rec.id) ELSE "none"

\* A container without a record is waiting to be started.
ObserveMissing ==
  /\ Observing /\ ~Recorded(App)
  /\ Observe(Waiting)
  /\ UNCHANGED <<steady, pod, held, starts, clean, local, penalty, taken, events>>

\* A poll that fails says nothing, and withholds the status.
ObserveUnseen ==
  /\ RunPolled # "none" /\ Spend(1)
  /\ pass' = [Done(pass) EXCEPT !.unseen = TRUE]
  /\ UNCHANGED <<steady, pod, held, starts, clean, local, penalty, taken>>

ObserveUp ==
  /\ RunPolled = "up"
  /\ Observe(RunningEntry(Rec.id, Rec.count))
  /\ UNCHANGED <<steady, pod, held, starts, clean, local, penalty, taken, events>>

\* stop, remove and start again, once the start curve permits; entry is
\* published when no replacement is up.
Relaunch(owed, entry, cost) ==
  LET noted == [local EXCEPT !.recs[App] = Noted(App)]
      again == [NewRecord(NoId, Rec.count + 1) EXCEPT !.owed = owed]
  IN /\ <<pass.seen.uid, App>> \notin penalty
     /\ UNCHANGED taken
     /\ \E k \in Clear(App, Rec.id) :
           \/ /\ ~k.ok /\ Spend(cost + k.cost)
              /\ held' = k.held
              /\ local' = noted /\ Observe(entry)
              /\ UNCHANGED <<starts, penalty>>
           \/ /\ k.ok
              /\ \E r \in Launch(App, pass.seen.uid, k.held) :
                    /\ held' = r.held
                    /\ starts' = r.starts
                    /\ Spend(cost + r.cost)
                    /\ \/ /\ r.id = NoId
                          /\ penalty' = penalty \union {<<pass.seen.uid, App>>}
                          /\ local' = noted /\ Observe(entry)
                       \/ /\ r.id # NoId
                          /\ local' = [local EXCEPT !.recs[App] = [again EXCEPT !.id = r.id]]
                          /\ Observe(RunningEntry(r.id, Rec.count + 1))
                          /\ UNCHANGED penalty

\* A liveness or startup probe fails past its threshold: the container is
\* replaced, carrying its crash penalty over, or under Never only stopped.  (A
\* container that is up owes no start wait: its last start succeeded.)
ProbeTrip ==
  /\ RunPolled = "up" /\ ~pass.seen.term
  /\ \/ /\ setup.policy # "Never"
        /\ Relaunch(Rec.owed, RunningEntry(Rec.id, Rec.count), 1)
     \/ /\ setup.policy = "Never"
        /\ \E run \in {held[App].run, "stopping"} : held' = [held EXCEPT ![App].run = run]
        /\ Observe(RunningEntry(Rec.id, Rec.count))
        /\ Spend(1)
        /\ UNCHANGED <<starts, local, penalty, taken>>
  /\ UNCHANGED <<steady, pod, clean>>

Down == RunPolled \notin {"none", "up"}
Restarts == ~pass.seen.term /\ ShouldRestart(setup.policy, Noted(App).down)
EndedObs == EndedEntry(Rec.id, Rec.count, Noted(App).down)

\* Down for good: the policy does not restart it, or the pod is being deleted.
ObserveLatched ==
  /\ Down /\ ~Restarts
  /\ local' = [local EXCEPT !.recs[App] = Noted(App)]
  /\ Observe(EndedObs)
  /\ UNCHANGED <<steady, pod, held, starts, clean, penalty, taken, events>>

\* Down, and a wait is owed: its crash penalty, or the start curve's.
ObserveBackOff ==
  /\ Down /\ Restarts
  /\ Rec.owed \/ <<pass.seen.uid, App>> \in penalty
  /\ local' = [local EXCEPT !.recs[App] = Noted(App)]
  /\ Observe(BackingOff(Rec.id, Rec.count))
  /\ UNCHANGED <<steady, pod, held, starts, clean, penalty, taken, events>>

ObserveRestart ==
  /\ Down /\ Restarts /\ ~Rec.owed
  /\ Relaunch(TRUE, EndedObs, 0)
  /\ UNCHANGED <<steady, pod, clean>>

\* Every container is polled: fold what was seen into the pod's status.
Fold ==
  /\ pass.at = "observe" /\ pass.todo = {}
  /\ pass' = IF pass.unseen THEN Idle
             ELSE Writes(pass, ReconcilePodPhase(setup.policy, pass.obs,
                                                 {c \in Apps : Recorded(c)}),
                         pass.obs, RecordedInits)
  /\ UNCHANGED <<steady, pod, held, starts, clean, local, penalty, taken, events>>

\* Mutant: the status is written over whatever is stored under the name.
LandsAlways == Exists(pod)

\* The stored pod is patched only if it still is the one that was listed.
Lands == pass.fresh

Write ==
  /\ pass.at = "write"
  /\ pod' = IF Lands
            THEN [pod EXCEPT !.phase = PhaseToPublish(pass.seen.phase, pass.out.phase),
                             !.apps = pass.out.apps, !.inits = pass.out.inits]
            ELSE pod
  /\ pass' = Idle
  /\ UNCHANGED <<steady, held, starts, clean, local, penalty, taken, events>>

-----------------------------------------------------------------------------
(***************************************************************************)
(* Time: a start curve's wait, and a crash penalty, come to their end.     *)
(***************************************************************************)
CurveElapses ==
  /\ \E p \in penalty : penalty' = penalty \ {p}
  /\ UNCHANGED <<steady, pod, held, starts, clean, local, pass, taken, events>>

PenaltyServed(c) ==
  /\ local.recs[c].owed /\ local.recs[c].down # "none"
  /\ local' = [local EXCEPT !.recs[c].owed = FALSE]
  /\ UNCHANGED <<steady, pod, held, starts, clean, penalty, pass, taken, events>>

-----------------------------------------------------------------------------
PassStep ==
  \/ CleanApps \/ CleanInits
  \/ DriveUnknown \/ Reap \/ Readopt \/ DriveKnown \/ Unmounted \/ Mounted
  \/ StartApp \/ SkipStart
  \/ InitUnseen \/ InitDecide \/ InitStart \/ InitFinish \/ StartApps \/ InitPending
  \/ ObserveMissing \/ ObserveUnseen \/ ObserveUp \/ ProbeTrip
  \/ ObserveLatched \/ ObserveBackOff \/ ObserveRestart
  \/ Fold \/ Write

Next ==
  \/ Create \/ Delete \/ Edit \/ Crash
  \/ \E c \in Names : Exit(c) \/ InitExit(c) \/ Reaped(c) \/ Vanish(c) \/ PenaltyServed(c)
  \/ Tick \/ PassStep \/ CurveElapses

Spec == Init /\ [][Next]_vars

(***************************************************************************)
(* The driver ticks the kubelet again and again (its fallback timer), a    *)
(* pass that began goes on, waits come to their end, a stop runs its       *)
(* course and init containers complete.  Failures are the bounded events.  *)
(***************************************************************************)
FairSpec ==
  /\ Spec
  /\ WF_vars(Tick) /\ WF_vars(PassStep) /\ WF_vars(CurveElapses)
  /\ \A c \in UNION {{s.apps[i] : i \in DOMAIN s.apps} \union
                     {s.inits[i].name : i \in DOMAIN s.inits} : s \in Setups} :
        /\ WF_vars(c \in Names /\ InitExit(c))
        /\ WF_vars(c \in Names /\ Reaped(c))
        /\ WF_vars(c \in Names /\ PenaltyServed(c))

-----------------------------------------------------------------------------
(***************************************************************************)
(* Properties.                                                             *)
(***************************************************************************)
Ended == {"ok", "bad"}
EntryOK(e) ==
  /\ e.state \in {"waiting", "running", "ended"} /\ e.exit \in Exits
  /\ e.count \in Nat
  /\ e.state \in {"running", "ended"} => e.id # NoId

\* The types, and that a record names what the runtime has under the name, or
\* nothing that it has: the kubelet never follows a run that was replaced, and
\* owes no start wait on one that is up.
TypeOK ==
  /\ setup \in Setups
  /\ pod.uid \in 0..born /\ pod.term \in BOOLEAN
  /\ pod.phase \in {"Pending", "Running"} \union Terminal
  /\ \A c \in Apps : EntryOK(pod.apps[c])
  /\ pass.fresh \in BOOLEAN /\ (pass.fresh => Exists(pod) /\ pod = pass.seen)
  /\ \A c \in Names :
        /\ held[c].run \in {"up", "stopping", "gone"} \union Ended
        /\ held[c].run = "gone" <=> held[c] = Gone
        /\ local.recs[c].down \in {"none"} \union Exits
        /\ Recorded(c) => local.known /\ held[c].id \in {NoId, local.recs[c].id}
  /\ penalty \subseteq Uids \X Names
  /\ taken \subseteq Uids
  /\ \A c \in Apps : Recorded(c) /\ Up(c) => <<local.uid, c>> \notin penalty
  /\ events \in 0..MaxEvents

SamePod == Exists(pod) /\ pod'.uid = pod.uid

\* A pod that was published Succeeded or Failed stays so, and the end of a run
\* that was seen is not forgotten when the container is later removed or lost,
\* whatever crashes come between (phase_to_publish, Termination::known_after).
TerminalStays ==
  [][SamePod =>
       /\ pod.phase \in Terminal => pod'.phase = pod.phase
       /\ \A c \in Apps :
             /\ pod.apps[c].state = "ended" /\ pod.apps[c].exit \in Ended
             /\ pod'.apps[c].state = "ended" /\ pod'.apps[c].id = pod.apps[c].id
             => pod'.apps[c].exit = pod.apps[c].exit]_vars

\* The status of a pod names only runs that were started for it: what a pass
\* found out about a deleted pod is not written to the next pod of its name.
StatusIsOwn ==
  pod.uid \notin taken => \A c \in Apps : pod.apps[c].id[1] \in {0, pod.uid}

\* Succeeded is published only of a pod each of whose containers really exited
\* with 0, in the run the status names: never on an end nobody saw.
SucceededIsTrue ==
  pod.phase = "Succeeded" /\ pod.uid \notin taken =>
    \A c \in Apps : <<c, pod.apps[c].id>> \in clean

\* A terminal phase is not published while a run that the status names is still
\* up: a lost run is reaped first, a probe's stop is waited for.
NothingRunsPastTheEnd ==
  pod.phase \in Terminal /\ pod.uid \notin taken =>
    \A c \in Apps : Up(c) => held[c].id # pod.apps[c].id

\* A run that the stored status of a Never pod shows up is not followed by
\* another one, on a runtime that cannot hand it back: also not after the
\* kubelet that started it crashed (readopt, LostPod::Failed).
NeverRunsOnce ==
  [][setup.policy = "Never" /\ ~setup.adopts /\ Exists(pod) /\ pod.uid \notin taken =>
       \A c \in Apps : StoredUp(pod.apps[c]) =>
         starts'[pod.uid][c] = starts[pod.uid][c]]_vars

\* When the status of a container passes from one run to another its restart
\* count grows, also over a crash of the kubelet; while it names the same run
\* the count stays (StartedAs).
RestartsCounted ==
  [][SamePod =>
       \A c \in Apps :
         LET old == pod.apps[c]
             new == pod'.apps[c]
         IN old.id # NoId /\ new.id # NoId =>
              IF new.id = old.id THEN new.count = old.count ELSE new.count > old.count]_vars

\* An app container is started only once every init container of the pod has
\* exited 0 and every sidecar has been started, for this pod and not for an
\* earlier one of its name (next_init_action, finish_init).
AppsAfterInits ==
  [][\A u \in Uids \ taken', a \in Apps :
       starts'[u][a] > starts[u][a] =>
         \A c \in Inits : IF c \in Sidecars THEN starts[u][c] > 0
                          ELSE \E n \in 1..starts[u][c] : <<c, <<u, n>>>> \in clean]_vars

\* Whatever the runtime holds the kubelet has a record of, unless a crash took
\* the record: no container is forgotten by a restart that failed half way or
\* by a cleanup that was refused.
NothingForgotten ==
  \A c \in Names : held[c] # Gone =>
    held[c].id = local.recs[c].id \/ <<c, held[c].id>> \in orphans

\* Once failures stop, the status agrees with the runtime: every container of a
\* pod that is not ending is up as published or ended for good, and of a pod
\* that is gone no record is left.
Converges ==
  <>[](/\ ~Exists(pod) => ~local.known
       /\ Exists(pod) /\ ~pod.term /\ pod.phase \notin Terminal =>
            \A c \in Apps :
               \/ pod.apps[c].state = "running" /\ held[c] = [id |-> pod.apps[c].id, run |-> "up"]
               \/ /\ pod.apps[c].state = "ended"
                  /\ ~ShouldRestart(setup.policy, pod.apps[c].exit))

\* A pod being deleted starts nothing and restarts nothing (lifecycle.rs).
TerminatingStartsNothing ==
  [][pass.seen.term => starts' = starts]_vars

\* The published status is about this pod, and the end it tells is true.
StatusHonest == StatusIsOwn /\ SucceededIsTrue /\ NothingRunsPastTheEnd

\* The kubelet's records and the runtime's containers agree, both ways.
RecordsAgree == TypeOK /\ NothingForgotten

\* A run that the status shows is followed by another only where the policy
\* restarts it, and then the restart is counted, also over crashes.
RunsAccounted == NeverRunsOnce /\ RestartsCounted

=============================================================================
