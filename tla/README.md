# A TLA+ verification of engenho's control plane

engenho is a Kubernetes control plane in one Rust binary. This directory specifies
the parts of it that carry its correctness — the replicated resource store and its
watches, the API server's write path and evictions, the loop that drives every
controller, the controllers that delete things, the kubelet's pod life cycle and the
daemon above them all — as TLA+ modules translated from the source, checks them with
TLC on small instances, and proves most of their safety properties with TLAPS for
every instance.

`PROJECT.json` holds the machine-readable side: the map from definitions to source
lines, the runs, the mutants that show each property can fail, the hazards and the
theorems. Paths below are relative to `src/`.

## 1. Inventory

### Parts, state and operations

| Part | State | Operations | What makes it hard |
|---|---|---|---|
| Watch history `engenho-store/src/watch_history.rs` | a ring of changes, `floor`, `head` | `commit`, eviction, `compact`, `loaded_at`, `since` | eviction at capacity, transactions under one revision, what a reload forgets |
| Watch backend `watch_backend.rs` | registry of handles, one bounded channel each | fan-out, register with replay, live tail, bookmarks, overflow, reap | slow consumers, resume after overflow, restarts and snapshot installs under live streams |
| Resource catalog `state.rs`, `revision.rs`, `read.rs` | objects with version metadata, the history | `apply` of put, patch, server-side apply, delete, transaction; `compact`; past reads | compare-and-swap, finalizers and their release, no-op writes, reading the past back out of the ring |
| Server-side apply `ssa.rs`, `patch_apply.rs` | `managedFields` of an object | merge, conflict, take over, drop | ownership over long sequences of applies |
| Durable store `fjall_store.rs` | log, vote, `last_purged`, applied image, snapshot; all of it in RAM too | append, truncate, purge, save vote, apply, flush, build and install snapshot, boot | a crash between any two journalled writes |
| In-memory store `store.rs` | catalog and registry, log and vote in memory | apply, list, watch | the same apply order as the durable store |
| Mesh `mesh.rs` | openraft handle, router | `propose`, `forward`, wait for a revision, reads | lost answers, lagging followers |
| Write pipeline `engenho-apiserver/src/handler.rs`, `handler/write_plan.rs` | none of its own: a request in flight | create, replace, patch, apply, subresource writes, delete, dry run | everything read before an `await` is stale after it |
| Evictions `eviction.rs`, `handler.rs`; budget controller `engenho-controllers/src/pdb.rs` | a request in flight, a budget in the store | `evict`, `decide`, `spend_budget`; list, count, patch | judge-then-swap on an object two other parties write |
| Watch driver `engenho-controllers/src/watch_driver.rs` | a stream, one requeue slot | debounce, drain, re-subscribe, requeue, fallback, contained panics | a one-shot terminal, missed events, sweeps that fail |
| Deleting controllers `namespace.rs`, `gc.rs`, `gc/collect.rs`, `owned_children.rs`, `replicaset.rs` | none: each tick works from lists it read | sweep and clear, classify and collect, count and replace | three controllers and clients change the same objects between each other's reads |
| Kubelet `engenho-kubelet/src/kubelet.rs`, `lifecycle.rs`, `backoff.rs` | an in-memory record per pod, the runtime's containers | a pass per pod: clean up, re-adopt, init sequence, start, poll, restart, publish | the runtime refuses calls or loses containers, the kubelet crashes, pods are recreated under their names |
| Daemon supervisor `engenho-runtime/src/lifecycle/` | the machine, a boot or drain task, control files that outlive the process | start, stop, restart, retry, exit, reconfigure, reinitialise | results racing with requests, crashes between a file and the step it announces |
| Other controllers, scheduler, runtime assembly, revoada | object state in the store, host state | level-triggered ticks | ordering against each other |

The remaining crates are translation, data types, code generation, launchers or test
harnesses; `PROJECT.json` lists each with the reason it is left out.

### How they interact

A request reaches the handler, which reads its local replica, plans a command and
proposes it to the mesh. The mesh hands it to the leader, whose log (durable store)
replicates it; every replica applies it to its catalog, which commits the changes to
its history, and the store fans them to its watchers after they are durable. Watch
clients (controllers through the watch driver, `kubectl` through HTTP) consume those
streams, tick, and propose commands of their own; the kubelet is one of them. The
supervisor boots and drains the process all this runs in.

### What makes each part correct

* **Watch**: a client that follows the protocol — list, watch from the listed
  revision, resume from what it was told — sees every committed change once and in
  order, and ends up with all of them.
* **Catalog**: a revision names one state of an object; a past read is what really
  was, or says that it does not know; a selector watch shows exactly the objects
  that match; the generation moves with the spec.
* **Server-side apply**: what is owned is what is there, and no unforced apply
  changes what another manager owns.
* **Durable store**: nothing acknowledged, voted or shown is lost, nothing is
  applied twice.
* **Write pipeline**: no lost update, no double commit, no resurrection, an
  answered success took effect, every request is answered.
* **Evictions**: a taken pod is not counted back, the status converges.
* **Watch driver**: every change is followed by a successful sweep that began after it.
* **Deleting controllers**: a namespace is released only once it is empty, exactly
  the orphans are collected, counts settle.
* **Kubelet**: the published status is about this pod and true, ends are final, a
  `Never` container is not run twice, restarts are counted, apps wait for inits, no
  container is forgotten, status and runtime converge.
* **Supervisor**: never two runtimes on one store, a held stop stays stopped, nobody
  waits for ever.

## 2. Modules

| Module | Models | Uses |
|---|---|---|
| `WatchHistory` | the ring as pure operators | – |
| `WatchBackend` | one replica's registry, its channels, and clients of it | `WatchHistory` |
| `ResourceCatalog` | `apply` and the historical reads as pure operators | `WatchHistory` |
| `CatalogStore` | a catalog under arbitrary commands, compactions and reloads | `ResourceCatalog` |
| `FieldOwnership` | server-side apply over the life of one object | – |
| `WritePipeline` | concurrent API requests on one object over a leader and followers | `ResourceCatalog` |
| `DurableStore` | one replica's disk and RAM across crashes | – |
| `EvictionBudget` | evictions against one budget and its controller | – |
| `LevelTrigger` | abstract: what a driver promises its controller | – |
| `WatchDriver` | the driver's loop; implements `LevelTrigger` | `LevelTrigger` |
| `Teardown` | namespace controller, garbage collector, ReplicaSet controller and clients | `ResourceCatalog` |
| `PodLifecycle` | the kubelet's pure decisions | – |
| `Kubelet` | the kubelet's passes over one pod name, the runtime and the API | `PodLifecycle` |
| `DaemonLifecycle` | the supervisor's pure machine | – |
| `Supervisor` | its loop, tasks, control files and crashes | `DaemonLifecycle` |
| `WatchBackendProofs`, `CatalogStoreProofs`, `WritePipelineProofs`, `DurableStoreProofs`, `EvictionBudgetProofs`, `WatchDriverProofs`, `KubeletProofs`, `SupervisorProofs` | lemmas and theorems | the modules they name |
| `MC*` | instances for TLC | the module they name |

### Correspondence

**WatchHistory / WatchBackend.** `history` is the `WatchHistory` struct. `log` is what
the quorum has committed (openraft's business, an input here): `Decide` extends it,
`Apply` is the store's `apply` of the next revision — commit to the ring, then fan out
under the same lock, so one action. `watch[w]` is a `WatcherHandle` with the receiving
end of its channel: `chan` the bounded buffer, `gone` the terminal side slot,
`boundary` and `lastSeen` the replay boundary and resume point. `Feed` is
`try_enqueue`, `Register` is `register_shared` (replay, then live), `Tick` the
bookmark ticker, `Receive` and `ReceiveGone` the stream's `next_change`. A change is
its revision and its position in the revision's transaction; payloads do not matter
to these properties. `client[w]` is a well-behaved consumer: the revision it listed
at, what it has received, where it would resume.

**ResourceCatalog / CatalogStore.** `resources` maps a key to a value and a
`VersionMeta`. A value keeps the fields the store looks at (uid, spec, label, status,
finalizer, deletion timestamp, generation, resourceVersion); JSON merging is the
override of some of these fields. The order of checks in every `apply_*` is kept:
precondition, existence, no-op test, stamping, finalizer release, commit. Historical
reads (`Rewind`, `MetaAt`, `ReadOne`) undo the ring the way `state_at` does. `past` is
the truth the reads are judged against; the code has nothing like it.

**FieldOwnership.** An object has scalar fields and a list merged by `name`; a path
names one of them, a configuration is a function from paths to values. `Merge`,
`Conflicts`, `Dropped`, `Applied` and `UpdateOwnership` are the phases of `apply_ssa`
in its order; `TrieOrder` is the order in which `owned_paths` hands out the paths to
remove, which matters because an element is found by its name. Plain patches change
the object without being recorded, as in the code.

**WritePipeline.** `req[w]` is the stack of one handler call. Its steps are the
awaits: `ReadAndPlan` (read the local replica, plan, perhaps answer without
proposing), `Propose` (the command is applied by the leader), `Settle` (wait for the
revision, look at the outcome, read back, or plan again up to `WRITE_ATTEMPTS`).
`ProposeFails` is a proposal whose answer is an error, applied or not. A subresource
patch the store rejects is answered `BadRequest`. Any request may ask for a dry run;
`PlanMain` and `PlanDelete` answer it without proposing, `PlanScoped` (/status and
/scale) does not look. Admission, validation and defaulting are one nondeterministic
`Reject`. The object is of a kind that serves /status, so a main-object update keeps the
stored status; for other kinds the code takes it from the body.

**DurableStore.** `disk` is the keyspace the process reads, `torn` the keyspaces a
crash may leave of it: one for each prefix of the writes that the running log operation
has journalled and not yet synced. A log operation is two steps, its inserts (`Journal`)
and its `persist` (`Persist`, after which only `disk` is left), since openraft runs it
in a task of its own beside apply. An image batch is atomic and synced, and may fall
between any two of those writes, so `CommitBatch` puts it on every torn keyspace. The
catalog is the sequence of command indexes applied to it. Besides an empty disk, a boot
may find the two torn disks an earlier release could leave, which
`adopt_newer_snapshot` and `holds` exist for. The commit index kept for openraft
(`save_committed`) and a snapshot that cannot be read (`fjall_store.rs:480`) are not
modelled.

**EvictionBudget.** A pod is its phase and revision (a finished pod behaves as a
pending one: no budget is asked), the budget its minimum, generation, revision and
status. `Judge`, `ReadMeta` and `Spend` are the three store calls of one round of
`spend_budget`; minAvailable is a number, and the refusals of a uid or resourceVersion
that does not match the first read and of a pod with several budgets are left out.
`CtlList`, `CtlCount` and `CtlPatch` are the steps of the controller's tick. A
`disruptedPods` stamp ages out at any moment (`Expire`). `SpendFails`,
`DeleteFails` and `CtlFails` are proposals that return an error, with or without
having been applied. The eviction's reads go to the leader.

**WatchDriver / LevelTrigger.** `head` counts the changes the controller has to see,
`stream` and `buf` are its subscription, `pc` is where the loop is, `slot` the requeue
slot, `at` the change the running or last sweep began after, `seen` the last one a
successful sweep began after. `missed` notes a change that no subscription carried.
`LevelTrigger` keeps only `head`, `at`, `seen` and whether a sweep is running.

**Teardown.** One namespace, a ConfigMap and another one a client may create, a
ReplicaSet of one replica and the two pod names it can use. Each read or write of the
store is a step: `Nc*` are the namespace controller's, `Gc*` the collector's, `Rc*`
the owned-children reconciler's. The store answers by `ResourceCatalog`.

**PodLifecycle / Kubelet.** `pod` is the stored Pod, `held` what the runtime has under
the deterministic container names, `local` the in-memory `LocalPod` with its
`ContainerRecord`s, `penalty` the start curve, `pass` where the tick is and what it
has read. Every call to the runtime or the store is a step; what the kubelet decides
between two calls is an operator of `PodLifecycle`. A run's id is the uid it was
started for and a number: the uid in it is a ghost for the properties. A runtime
either hands back what runs (`podman_api`) or cannot (`Readoption::Cannot`) and then a
start replaces what is under the name; the CRI backend's start, which creates another
container beside it (`cri_backend.rs:607`), is not modelled. `taken`
notes the pods that were given another pod's containers, see section 5.

**DaemonLifecycle / Supervisor.** `m` is the machine and `Step` its pure transition;
`slot` is where the runtime is, `boot` the boot or drain task. A handler of the loop
is the step that applies its event and then the steps it leaves in `todo`: the loop
takes nothing else in between, but tasks move and the process may die. `file` is the
declared configuration. `hold`, `marker` and `journal` are the control files: each is
what the process meant it to say (`own`), what is on disk (`disk`), and whether the last
write took (`last`). Any write may fail (`Fates`, `Saved`): the handler goes on as if it
had not, as in the code, which only logs it. A process that starts reads the disk. A
crash is the process being killed: what it wrote stays. (`write_atomic` does not sync
the directory after its rename; a power loss is not modelled.)

## 3. Runs

| Run | Result | Question |
|---|---|---|
| `watch_resume` | holds | Is a client's view in order over commits, compaction, overflow, drops, restarts and installs, and, where nothing skips, gap-free and complete in the end? |
| `catalog_commands` | holds | Are past reads, stamps and selector watches right under every command, two-key transactions, compaction and reload? |
| `field_ownership` | holds | Do owned and present fields agree, and does an unforced apply leave others' fields alone? |
| `write_race` | holds | Three requests of any verb, dry runs among them, race through the leader, one losing its answer. |
| `write_follower` | holds | Requests through a lagging follower whose waits expire: nothing is undone, all are answered. |
| `durable_crash` | holds | Every interleaving of log, apply and snapshot work with crashes, from fresh and torn disks. |
| `eviction_budget` | holds | Two evictions, the controller and one outside event or failure: named pods, convergence, answers. |
| `watch_driver` | holds | Does the loop implement the level-triggered promise, and regain its stream? |
| `teardown` | holds | Do the deleting controllers take what they should, nothing else, and come to an end? |
| `kubelet_lifecycle` | holds | Status, records and runtime under failures, recreation and crashes, for every restart policy. |
| `kubelet_terminating` | violated | Does a pod being deleted start nothing? |
| `supervisor_lifecycle` | holds | The daemon under every request, boot outcome, edit, challenge, failed write of a control file and crash. |

Every property of a run that holds has at least one mutant: a plausible wrong version
of one mapped definition under which TLC finds the property violated. A property that
is a conjunction of named parts has one for each part.

### Properties

* `watch_resume`: the ring is the committed changes above its floor (`Sealed`); what a
  client received is in order and never repeated, and, without installs and with one
  change per revision, gap-free (`GapFree`); it then gets everything in the end
  (`CatchesUp`).
* `catalog_commands`: a resourceVersion names one version and equal generations mean
  equal specs (`StampsSound`); a read at a past revision returns what was there
  (`PastReadsExactUnlessReleased`); a watch filtered by a label keeps its holder's
  view exact (`FilteredViewExactUnlessRelabelled`).
* `field_ownership`: every field present has an owner and every owned field is there
  (`OwnedExactlyUnlessLeftOver`); an unforced apply changes no other manager's field
  (`NoSilentOverwrite`).
* `write_race`, `write_follower`: a request told that it succeeded took effect
  (`AckedTookEffectUnlessVanished`); a request commits at most once, and a dry run
  nothing unless it writes a subresource (`RequestsSoundUnlessScopedDry`); no committed
  field or deletion is undone (`NothingUndone`); all requests are answered
  (`EveryRequestAnswered`).
* `durable_crash`: every entry is applied once and in order (`AppliedExactlyOnce`);
  what was shown is in the image or the log after a crash (`NothingShownIsLost`);
  votes and acknowledged entries survive it (`PromisesSurvive`).
* `eviction_budget`: a taken pod stays named in the budget until it is deleted
  (`TakenPodsStayNamed`); evictions are answered and the status converges
  (`EvictionsSettle`).
* `watch_driver`: a driver that waits is up to date (`QuietMeansCurrent`); an ended
  subscription is replaced (`StreamRegained`); the refinement below.
* `teardown`: a namespace is released only when what it held is gone (`SweptIsGone`)
  and is released in the end (`NamespaceGoes`); orphans, and only they, are collected
  (`CollectsExactlyOrphans`); a ReplicaSet gets its pod (`ReplicaSetSettles`).
* `kubelet_lifecycle`: the runtime holds nothing without a record (`RecordsAgree`);
  a status names the pod's own runs and claims only ends that were seen
  (`StatusHonest`), which stay (`TerminalStays`); a Never pod runs once and restarts
  are counted (`RunsAccounted`); init containers come first (`AppsAfterInits`); status
  and runtime agree once failures stop (`Converges`).
* `kubelet_terminating`: a pod being deleted starts nothing
  (`TerminatingStartsNothing`), which the code does not keep (section 5).
* `supervisor_lifecycle`: hold, run marker and journal each tell the truth while their
  last write took (`ControlFilesTellUnlessUnwritten`); slot, lifecycle and store agree (`SlotFollowsLifecycle`,
  `StoreReleasedAtRestUnlessLeaked`); a failed boot saw the declared file
  (`FailedBootSawTheFile`); data moves only under a closed store
  (`NeverMovedUnderARuntime`); stops are answered and failed boots retried
  (`NothingStranded`).

### Bounds

* Watch: ring capacity 2 and channel buffer 2 with 3 revisions of one or two changes
  make eviction, refusal, overflow and resume all happen; one restart, install and
  drop each. Handles share nothing but the ring, so one watcher shows what several
  would.
* Catalog: two keys are what a transaction needs, four revisions are enough for
  create, terminate, release and recreate, and exceed the ring.
* Ownership: two managers share and take over; one list element with a field that
  sorts before `name` and one after it, as the removal order depends on it; two
  elements so that one without a name can stand beside a named one.
* Write path: three writers make a write lose its race twice; with the follower two
  writers suffice, as staleness takes the part of the third. Attempts equal writers.
* Durable: three entries let an image lie strictly between purge and log end; appends
  of up to two entries can be torn in the middle (`MaxBatch`); two crashes give a crash during the recovery from a crash.
* Evictions: two pods, two evictions, a budget of one and one outside event; the
  attempts are the code's own 3.
* Driver: three changes and a buffer of two overflow it twice; two irrelevant events.
* Teardown: four setups of controllers and client requests; one replica and two pod
  names are enough for a replacement beside a pod that is going.
* Kubelet: two failures of any kind (exit, refusal, lost container, edit, crash) and
  two pods per name, for each policy and kind of runtime with one container; one pod
  with two containers, and with an init container and a sidecar.
* Supervisor: two boots per process, one journal entry, one edit and one challenge on
  their way; processes are relaunched and writes fail without bound. At one time there
  is either one control file whose last write failed (`Faulty`: any of the three) or the
  edit and the challenge (`MaxLoad`): no step reads two control files, and none that
  reads one depends on an edit or a challenge.

Deadlock checking is off where the bounds end a behaviour (revisions, crashes,
outside events run out); the write and supervisor runs keep it on.

### Fairness

* `WatchBackend!FairSpec`: the replica applies what is committed, a client reads its
  stream, and one without a stream tries to get one — the apply loop of openraft and
  the reconnect loops of every client in the repository. Ticks, drops, compactions,
  restarts and installs are never assumed to happen.
* `WritePipeline!FairSpec`: a request future is polled to its end, and a reachable
  follower applies. Lost answers and arrivals are not fair.
* `EvictionBudget!FairSpec`, `Teardown!Fairness`: a request is driven to its answer,
  a finalizer's owner does its work, and controllers' ticks recur, which is what
  `WatchDriver` shows of their driver.
* `WatchDriver!Fairness`: the executor polls the loop, an armed timer that is the only
  wake fires, and a sweep or subscription tried again and again succeeds in the end
  (strong fairness on the outcome; without it no promise about success can hold).
* `Kubelet!FairSpec`: the driver ticks the kubelet again, a pass that began goes on,
  waits elapse, a stop runs its course and an init container completes. Failures are
  the bounded events and never assumed.
* `Supervisor!Fairness`: the loop and the tasks are polled, a boot and a drain end,
  and since the loop's `select!` picks among ready branches at random, the branches of a
  boot's result, a drain's end and the retry timer, when ready again and again, are
  taken. Nothing is assumed of the file watcher, which may have failed to start
  (`supervisor.rs:1631`), nor of control-file writes.

### Refinement

`WatchDriver!ImplementsLevelTrigger` is `LevelTrigger!Spec` under the mapping of the
loop's `pc` to idle, sweeping or dead, checked as a property of `watch_driver`, its
fairness included: subscriptions, buffers, debounce and requeues are invisible. Its
safety half, initial states and steps, is also a theorem (`ImplementsPromiseSteps`).

## 4. Proofs

All proofs are checked by TLAPS from the assumptions on the constants only
(`CapacityAssumption`, `BackendAssumption`, `CatalogAssumption`, `PipelineAssumption`,
`StoreAssumption`, `EvictionAssumption`, `DriverAssumption`, `SetupsAssumption`,
`BoundsAssumption`, `SupervisorAssumption`), which TLC evaluates in the runs of their
modules. They say that bounds are naturals, buffers not empty and inputs well formed;
none of them bounds a number of processes, objects, crashes or steps. Every inductive
invariant was checked by TLC on the run's instance as well.

**Watch** (`WatchBackendProofs`)

* `SealedAlways` — the ring is exactly the committed changes of revisions
  floor+1..head, each revision whole, within capacity. `Sealed` is not inductive
  alone: `IInv` adds that the log is in revision order and that the next decided
  transaction takes the revision after its last one. The lemmas about the ring do
  the work: a partition point exists and is unique on an ordered ring, the eviction
  loop terminates at a revision boundary, draining a window leaves a window, and two
  adjacent windows concatenate.
* `TypeOKAlways` — no channel is ever over its buffer: `Feed` keeps a handle within
  bounds, replay feeds an empty channel, a bookmark needs a free place.
* `GapFreeAlways` — nobody is handed a change at or before one it has, and in a
  behaviour without any install and with one change per revision (`NothingSkips`), what
  a client received is a prefix of what was committed after its list. `GapInv` relates the three
  places a change can be: what is queued for a stream continues what its client has and
  ends at the head, and a closed stream's resume point is what its client has.

**Catalog** (`CatalogStoreProofs`)

* `StampsSoundAlways`, `PastReadsExactAlways`, `FilteredViewExactAlways` — for any keys,
  bodies and patches, any capacity and any number of revisions and reloads: stamps
  identify what they stamp, the past reads back as it was, and a filtered watch keeps
  its holder's view. All three rest on one `IInv` about the ring and the past that the
  code does not keep: every object of every revision is as some command stored it
  (`ObjectsOK`), the version now is the only one with its stamp and the last of its
  incarnation (`Identified`), and each change in the ring tells the step of the past it
  records (`RingTells`: pre-image, post-image and metadata; a key without a change at a
  revision is the same before and after it, and no key has two). The argument has three
  layers. Each command is shown to make at most one change, to one key, that tells what
  it did; a transaction's ops are on distinct keys, so its changes do not disturb each
  other. Evicting, compacting and reloading cut the ring at a revision boundary and leave
  a ring that tells a shorter stretch. And reading back: the first newer change of a key
  says how the key was, the last one how it is (`FirstDecides`, `LastDecides`), with
  nothing in between (`Stays`, `NextChange`). The two exceptions are in the statements
  because a finalizer release records its own result as the pre-image (section 5).
* `CatalogAssumption`: bodies are objects, a patch sets fields other than the uid to
  values of their types, and no object or patch is `Nil`.

**Write path** (`WritePipelineProofs`)

* `RequestsSoundAlways`, `AckedTookEffect`, `NothingIsUndone` — for any requests,
  replicas and starting histories a request commits at most once, and not at all as a
  dry run outside /status and /scale (it never reaches its proposal), an answered success
  took effect after its arrival, and no write takes back a field or a deletion that
  another committed since the version it was planned from. `RequestInv` says what a
  request in flight knows: what it read is a version that really was (`PlannedIn`), its
  command is what its caller meant on that version (`Meant`), it has committed at most
  once and only what it says (`WroteOnce`, `Honest`), within its attempts (`Bounded`);
  `HistoryOK` ties every revision of the object to its resourceVersion. The catalog's
  operators come first, as lemmas: what each `Apply*` may do to an object.

**Durable store** (`DurableStoreProofs`)

* `AppliedExactlyOnceAlways`, `NothingShownIsLostAlways`, `PromisesSurviveAlways` — for
  every log length, batch size and number of crashes, and for every disk a boot may
  find. The invariant is about every keyspace a crash might leave (`torn`), not the
  one on disk: its images are prefixes of the chosen entries, what was shown is in image
  or log, promises are kept (`DiskOK`). It has to cover what is applied in memory but
  not yet shown as well, or the next apply would show what a torn disk lacks. `JobOK`
  says what the running log operation may still do to the log, `Settled` that nothing
  is torn between operations.

**Evictions** (`EvictionBudgetProofs`)

* `TypeOKAlways` — `disruptionsAllowed` is never negative (so the Forbidden branch of
  `decide` is dead) and no eviction exceeds its attempts: `compute_status` clips, and a
  judgement that spends has seen a positive number.
* `TakenPodsNamedAlways` — a pod that was paid for stays in `disruptedPods` until it is
  deleted or its stamp ages out. `NamedInv` adds that a request before its swap has not
  spent: the unspent path to the delete would otherwise break it.

**Watch driver** (`WatchDriverProofs`)

* `QuietMeansCurrentAlways` — a driver that waits is up to date. What is inductive is
  that a change the last sweep did not see is still on its way (`Carried`: in the
  buffer, or a sweep is due), and that a subscription is replaced only when it has
  nothing more to hand over (`ReplacedWhenRead`).
* `ImplementsPromiseSteps` — the safety half of the refinement of `LevelTrigger`.

**Kubelet** (`KubeletProofs`)

* `RecordsAgreeAlways`, `StatusHonestAlways`, `TerminalStaysAlways`,
  `RunsAccountedAlways`, `AppsAfterInitsAlways` — all the safety properties of
  `kubelet_lifecycle`, for every set-up in `Setups` (policy, any number of containers,
  init containers and sidecars, either kind of runtime) and any number of pods,
  failures and crashes. `SetupsAssumption` says what the API server's validation
  ensures of a pod: a known policy, at least one container, no name used twice.
* None of the five is inductive alone; they rest on one `IInv` with three layers.
  Per container: the runtime's entry, the record and the stored entry speak of runs
  that were started and do not contradict each other on id, restart count or exit
  (`RunOK`, `RecOK`, `Told`). Per pod: why a published status stays true
  (`StatusOK`, `Standing`): a terminal phase names no run that can still be up and is
  backed, while the record lives, by ends that no poll takes back (`Finished`, or
  `Doomed` for a failed init container). Per pass: what was read and decided at an
  earlier step still holds where it is used (`GoingOK`, `InitOK`, `PastInitsOK`,
  `StartOK`, `ObserveOK`). The hard part is `WriteOK`: the status in hand was computed
  before the write, containers end or vanish and the pod may be recreated meanwhile,
  and it must still be one that may follow the stored one (`Follows`). `UidsOK` orders
  the uids of record, pass and store; `Spoiled` is the exemption of section 5.
* Steps are not treated one by one: each changes the containers in one of five ways
  (`OneEnds`, `Decay`, `Fresh`, `Adopt`, `Drop`), each shown once to keep the container
  and status layers; the proof of an action says which way it is and re-establishes
  the pass layer.

**Supervisor** (`SupervisorProofs`)

* `SlotFollowsLifecycleAlways`, `StoreReleasedAtRestAlways` — no boot starts beside a
  runtime and the two error branches of `perform` are dead; a daemon at rest holds no
  store but for the mesh a failed open dropped. Both follow from one `IInv`: what the
  slot says agrees with where the boot task is (`TaskMatchesSlot`), and an open store
  belongs to that task, to a runtime or to a leaked mesh (`StoreAccounted`). The
  machine's transitions are lemmas about the pure `Step`.
* `NeverMovedAlways` — data moves only under a closed store: a challenge is dropped by
  every boot that starts before it is answered.
* `FailedBootSawTheFileAlways` — a failed boot saw the declared file or its change is on
  the way.
* `ControlFilesTellAlways` — hold, marker and journal tell the truth across crashes, each
  as long as its last write took, for any of them failing any number of times. The
  invariant speaks of what the process meant to write and what is on disk and follows the order in which a handler writes: what is still in `todo`
  (`Agenda`, `StopsWait`), that a promised hold is on disk (`PromiseKept`), that the
  marker is ahead of the slot (`MarkerAhead`) and the journal behind it
  (`JournalFollows`).

**Only model-checked**: every liveness property (`CatchesUp`, `EveryRequestAnswered`,
`EvictionsSettle`, `StreamRegained`, `NamespaceGoes`, `ReplicaSetSettles`, `Converges`,
`NothingStranded`) and the fairness half of the refinement, as fairness and ENABLED are
out of the prover's reach; and the safety properties of `FieldOwnership` (its merges
are folds over paths in trie order, which call for induction over data) and of
`Teardown` (an invariant about three controllers' lists that has not been found yet).
Where a proof needs a recursive function or a least index (`Replayed`, `ApplyTxn`, the
next container of a pass) it is obtained from a least counterexample (`LeastNatural`); the library's induction theorems take an operator as
parameter and cannot be used.

## 5. Where the code and its documentation part

The finding of a run that TLC refutes:

* `engenho-kubelet/src/kubelet.rs:4597` — a pod marked for deletion during its init
  sequence goes on being initialised and started: `reconcile_running` hands it to
  `reconcile_init` before it looks at its life cycle, against `lifecycle.rs:225`
  (`kubelet_terminating`).

Others the models show. No run is kept for them; where a property is named for what
it leaves out, this is it.

Store and API server:

* a snapshot install replaces the catalog under live watchers and neither feeds nor
  ends them (`fjall_store.rs:1559` against `watch_backend.rs:80`; `NothingSkips`);
* an overflow between two changes of one transaction reports that revision as seen,
  and the resumed watch skips the rest (`watch_backend.rs:377`; `NothingSkips`);
* a finalizer release records its post-image as prior image, so a selector watch on
  the old label never hears of it and a past read before it returns its image
  (`state.rs:1207`; `FilteredViewExactUnlessRelabelled`,
  `PastReadsExactUnlessReleased`);
* a lagging follower answers "unchanged" without asking the leader
  (`write_plan.rs:597`);
* a purge or truncate cut short leaves a hole in the log that the next boot takes for
  a whole one (`fjall_store.rs:1232`);
* the revision an eviction swaps on is read after the judgement, so two evictions can
  spend one disruption (`handler.rs:1663`);
* a subresource patch whose object vanished is answered by its read-back
  (`handler.rs:1614`; `AckedTookEffectUnlessVanished`);
* a dry run of PUT or PATCH on /status or /scale is stored and answered like any other:
  those routes never read `dryRun` (`router.rs:2668`, `router.rs:2738`), against
  `params.rs:326` ("whether a write is EVALUATED but never persisted") and
  `tests/w1_one_write_pipeline.rs:142` ("`dryRun=All` runs every rule and stores
  nothing"). `PlanScoped` does the same; `RequestsSoundUnlessScopedDry` leaves it out;
* a create may carry a deletion timestamp and be born Terminating
  (`write_plan.rs:732` against `handler.rs:2048`);
* dropping a list element removes its fields in trie order; once `name` is gone the
  later ones stay behind in an element without a name (`ssa.rs:817`;
  `OwnedExactlyUnlessLeftOver`). A forced apply also takes fields of equal value, and
  with them the `name` of an element a co-owner still declares.

Controllers:

* a namespace created by a client or the boot names its finalizer only in
  `spec.finalizers`, while the store and the namespace controller read
  `metadata.finalizers`: its delete removes it at once and leaves its contents
  (`engenho-types/src/birth.rs:88` against `namespace.rs:63`). `NsFinalizers` has both
  kinds; `NamespaceGoes` and `SweptIsGone` are about the other;
* a create that passed its namespace check can land after the namespace is gone, and
  a create into a Terminating namespace is accepted (`write_plan.rs:643`);
* the finalizer list written back by the namespace controller is unpinned, so a
  finalizer released meanwhile returns (`namespace.rs:191`);
* a child write is an unconditional put: it overwrites an object under the child's
  name that the parent does not own, and revives one that became Terminating after
  the check (`owned_children.rs:506`); a Terminating ReplicaSet is still reconciled.

Kubelet:

* the record is filed by name, not uid: a pod recreated between two passes is given
  its predecessor's containers, exits and `init_complete` (`kubelet.rs:621`); an
  adopting runtime also adopts another uid's running container. The properties
  exempt such pods (`taken`);
* an adopting runtime re-runs a `Never` container that exited while no kubelet
  watched (`pending-readopt-exited` in `backend.rs`), and one that cannot adopt
  re-runs one whose start was not yet published when the kubelet crashed, or that
  ended beside a container that never started; `NeverRunsOnce` is about the runs the
  stored status shows up, on a runtime that cannot adopt;
* a pod deleted while the kubelet is down leaks its containers (`orphans`);
* a failed start or unmounted volume after a restart publishes the pod as not started
  and so resets its restart count (`kubelet.rs:3480` against `kubelet.rs:3966`);
* after a restart on an adopting runtime the init containers run again beside running
  apps, and sidecars are not restarted once the sequence is complete.

Supervisor:

* a boot that fails after opening the store drops the mesh unterminated, or ignores that
  its terminate failed (`runtime.rs:2222`, `runtime.rs:2251`), and reports that nothing
  was opened (`runtime.rs:2248` against `release.rs:61`; `leaked`);
* a hold that cannot be written is only logged and the stop is answered Ok, so that the
  next launch boots, against `supervisor.rs:181` ("A relaunched daemon comes up Stopped");
  a hold that cannot be removed keeps a started daemon down after a relaunch
  (`supervisor.rs:1586`). A run marker that could not be written is not tried again
  before the state changes, as `self.marker` moves on (`supervisor.rs:1535`): a killed
  daemon may leave a file that says the store was released. A journal write that fails
  is only logged, and the next one brings it up to date (`supervisor.rs:1604`).
  `ControlFilesTellUnlessUnwritten` is about files whose last write took;
* the run marker says live only once the boot task is spawned.

## 6. Not modelled

openraft itself (elections, replication, membership) is taken as: entries are
committed in one order and every replica applies them in it. JSON documents beyond
maps and keyed lists, admission and validation, encryption at rest, transports,
rendering, authentication, images, volumes and networks on the host are outside; so
are the other workload controllers, the scheduler, node leases, volume binding,
revoada and the etcd facade, which `PROJECT.json` lists one by one. Most of the
repository's lines are of these kinds: generated types, wire formats, host plumbing
and tests. Time is nondeterministic: a timer may fire at any moment.

## 7. Plan

Proofs next:

1. `Teardown!SweptIsGone` and `Teardown!CollectsExactlyOrphans`.
2. `FieldOwnership!NoSilentOverwrite`, with `TrieOrder` as a relation instead of a fold.

Modules after that: HTTP watch sessions over the stream (`watch_start.rs`,
`watch_end.rs`, `list_floor.rs`); linearizable reads of the mesh; an abstract store
that `CatalogStore` implements; node leases; the scheduler's bind; Deployments and
rollouts over the ReplicaSet controller.

## 8. Running

    tlc -workers 2 -config watch_resume.cfg MCWatchBackend
    tlapm SupervisorProofs.tla
