----------------------------- MODULE Supervisor -----------------------------
(***************************************************************************)
(* The daemon above the runtime (engenho-runtime/src/lifecycle): one loop  *)
(* over requests, the running boot, the runtime's shutdown, the retry      *)
(* timer and the declared configuration file, beside a boot or shutdown    *)
(* task that runs concurrently with it, over a data directory that         *)
(* outlives the process.                                                   *)
(*                                                                         *)
(* A handler of the loop is the step that applies its event followed by    *)
(* the steps it leaves in `todo`: the loop takes nothing else until `todo` *)
(* is empty, but the tasks move and the process can die in between.        *)
(***************************************************************************)
EXTENDS DaemonLifecycle, Sequences, FiniteSets, SequencesExt

CONSTANTS Contents,     \* contents of the declared configuration file
          Good,         \* the contents a boot can run on
          JournalCap,   \* BootJournal::CAP
          MaxBoots,     \* boots started by one process
          MaxEdits,     \* changes of the declared file on their way to the loop
          MaxPending,   \* challenges pending (PENDING_MAX) or confirmed and in flight
          Faulty,       \* the control files whose writes may fail
          MaxLoad       \* edits, challenges and failed writes at one time

ASSUME SupervisorAssumption ==
    /\ Good \subseteq Contents
    /\ JournalCap \in Nat \ {0}
    /\ {MaxBoots, MaxEdits, MaxPending, MaxLoad} \subseteq Nat
    /\ Faulty \subseteq {"hold", "run", "journal"}

VARIABLES
    up,         \* whether a daemon process runs
    m,          \* its lifecycle
    slot,       \* where its runtime is
    boot,       \* the boot task: where it is, and what it has read
    todo,       \* what the running handler still does
    timer,      \* the retry timer: the attempt it is armed for, 0 for none
    stops,      \* stop requests waiting for the drain, with their hold
    snap,       \* the published snapshot
    changes,    \* declared-file notifications the loop has not read
    book,       \* pending challenges
    inflight,   \* confirmed re-initializations on their way to the loop
    storeOpen,  \* whether something in the process holds the store's lock
    leaked,     \* ghost: a boot opened the store and dropped it unterminated
    file,       \* the declared file
    unnotified, \* changes of it the watcher has not reported yet
    hold,       \* control/hold, and what write_hold last asked of it
    marker,     \* control/run.json and self.marker
    journal,    \* control/boot-journal.json and self.journal: how each boot ended
    data,       \* whether the data directory holds a store
    promised    \* ghost: the last answered stop holds across a relaunch

procVars == <<up, m, slot, boot, todo, timer, stops, snap, changes, book, inflight>>
storeVars == <<storeOpen, leaked, data>>
diskVars == <<hold, marker, journal>>
fileVars == <<file, unnotified>>
vars == <<procVars, storeVars, diskVars, fileVars, promised>>

NoBoot == [pc |-> "none", cancel |-> FALSE, digest |-> "none",
           outcome |-> "none", class |-> "None"]
FreshBoot == [NoBoot EXCEPT !.pc = "enter"]

-----------------------------------------------------------------------------
(* A control file: what the process meant it to say, what is on disk, and  *)
(* whether the last write of it took.                                      *)

Written(v) == [own |-> v, disk |-> v, last |-> "written"]

Unwritten == {name \in {"hold", "run", "journal"} :
                "failed" = CASE name = "hold" -> hold.last
                             [] name = "run" -> marker.last
                             [] OTHER -> journal.last}

\* The bound on what is under way at once; a file left unwritten counts twice.
Room(k) ==
    unnotified + changes + Cardinality(book) + Cardinality(inflight)
        + 2 * Cardinality(Unwritten) + k <= MaxLoad

\* How a write of a control file can end.
Fates(name) ==
    {"written"} \cup (IF name \in Faulty /\ (name \in Unwritten \/ Room(2)) THEN {"failed"} ELSE {})

\* A write that fails leaves the old file; the handler logs it and goes on as
\* if it had been written.
Saved(f, v, fate) ==
    [own |-> v, disk |-> IF fate = "written" THEN v ELSE f.disk, last |-> fate]

Init ==
    /\ up = FALSE /\ m = AtRest /\ slot = "Idle" /\ boot = NoBoot /\ todo = <<>>
    /\ timer = 0 /\ stops = <<>> /\ snap = [state |-> "Resolving", epoch |-> 0]
    /\ changes = 0 /\ book = {} /\ inflight = {}
    /\ storeOpen = FALSE /\ leaked = FALSE
    /\ file \in Contents /\ unnotified = 0
    /\ hold = Written("None") /\ marker = Written("None") /\ journal = Written(<<>>)
    /\ data \in BOOLEAN /\ promised = FALSE

-----------------------------------------------------------------------------
(* The boot journal. *)

JournalBegin(j) == Append(IF Len(j) = JournalCap THEN Tail(j) ELSE j, "InProgress")

\* Variant: only a boot that succeeded closes its entry.
JournalCloseSuccess(j, result) ==
    IF j # <<>> /\ result = "Succeeded" THEN ReplaceAt(j, Len(j), result) ELSE j

JournalClose(j, result) ==
    IF j # <<>> /\ Last(j) = "InProgress" THEN ReplaceAt(j, Len(j), result) ELSE j

-----------------------------------------------------------------------------
(* The loop: applying an event. *)

\* perform: the slot after an effect, given the slot the handler left.
SlotAfter(effect, s) ==
    IF effect = "StartBoot" /\ s = "Idle" THEN "Booting"
    ELSE IF effect = "ShutdownRuntime" /\ s = "Up" THEN "Draining"
    ELSE s

\* start_boot spawns a boot task, a cancel reaches only a boot that runs, and
\* a task that ended is gone once its outcome was taken.
BootAfter(effect, s) ==
    IF effect = "StartBoot" /\ s = "Idle" THEN FreshBoot
    ELSE IF effect = "CancelBoot" /\ s = "Booting" THEN [boot EXCEPT !.cancel = TRUE]
    ELSE IF s \in {"Booting", "Draining"} THEN boot
    ELSE [NoBoot EXCEPT !.digest = boot.digest]

\* perform: `s` and `j` are the slot and the journal the handler left.
Perform(effect, s, j) ==
    /\ slot' = SlotAfter(effect, s)
    /\ boot' = BootAfter(effect, s)
    /\ IF effect = "StartBoot" /\ s = "Idle"
       THEN \E fate \in Fates("journal") : journal' = Saved(j, JournalBegin(j.own), fate)
       ELSE journal' = j

\* apply: step the machine, perform the effect, and leave after_transition
\* and the rest of the handler to do.
Apply(e, s, j, rest) ==
    LET stepped == Step(m, e) IN
    /\ m' = stepped.m
    /\ Perform(stepped.effect, s, j)
    /\ todo' = (IF stepped.ok THEN <<"after">> ELSE <<>>) \o rest

\* The loop selects: no handler is running and the lifecycle is not ending.
Selecting == up /\ todo = <<>> /\ m.state # "Exiting"

CanBoot == m.attempts < MaxBoots

HandlerFrame == UNCHANGED <<up, timer, snap, book, storeVars, fileVars, hold, marker>>

\* Launch, Supervisor::new: the daemon lock is free, the previous process
\* being gone; the run marker is written before anything boots, and the
\* journal is what the disk has.
Launch ==
    /\ ~up /\ up' = TRUE
    /\ m' = AtRest /\ slot' = "Idle" /\ boot' = NoBoot /\ timer' = 0
    /\ stops' = <<>> /\ snap' = [state |-> "Resolving", epoch |-> 0]
    /\ changes' = 0 /\ unnotified' = 0 /\ book' = {} /\ inflight' = {}
    /\ \E fate \in Fates("run") : marker' = Saved(marker, "Released", fate)
    /\ journal' = Written(journal.disk)
    /\ todo' = <<"run">>
    /\ UNCHANGED <<storeVars, file, hold, promised>>

\* Variant: a process boots at once, whatever the hold marker says.
FirstEventBoots ==
    /\ up /\ todo = <<"run">>
    /\ Apply([type |-> "Start"], slot, journal, <<>>)
    /\ UNCHANGED <<stops, changes, inflight, promised>> /\ HandlerFrame

\* run: the first event of a process, decided by the hold marker.
FirstEvent ==
    /\ up /\ todo = <<"run">>
    /\ Apply([type |-> IF hold.disk = "None" THEN "Start" ELSE "HeldAtStartup"], slot, journal, <<>>)
    /\ UNCHANGED <<stops, changes, inflight, promised>> /\ HandlerFrame

\* Variant: a wedged daemon is recorded like a resting one.
KeepsMarkerNever == FALSE

\* sync_run_marker returns early: a wedged daemon never claims it released the
\* store.
KeepsMarker == m.state = "Wedged" \/ (m.state = "Exiting" /\ slot = "Wedged")

MarkerWanted ==
    IF m.state \in {"Booting", "Running", "Draining"} THEN m.state ELSE "Released"

\* sync_run_marker writes what it had not asked for already, the phase of a
\* boot included; a write that failed is not tried again.
SyncRunMarker ==
    \/ /\ KeepsMarker \/ MarkerWanted = marker.own
       /\ UNCHANGED marker
    \/ /\ ~KeepsMarker /\ (MarkerWanted # marker.own \/ MarkerWanted = "Booting")
       /\ \E fate \in Fates("run") : marker' = Saved(marker, MarkerWanted, fate)

Answered == IF m.state = "Draining" THEN <<>> ELSE stops

\* Variant: a stop is answered only by the lifecycle coming to rest.
AnswerStopsAtRest ==
    /\ stops' = IF m.state = "Stopped" THEN <<>> ELSE stops
    /\ promised' = IF m.state # "Stopped" \/ stops = <<>> THEN promised ELSE Last(stops)

\* answer_stops: whatever ended the drain answers them.
AnswerStops ==
    /\ stops' = IF m.state = "Draining" THEN stops ELSE <<>>
    /\ promised' = IF Answered = <<>> THEN promised ELSE Last(Answered)

\* after_transition: the retry timer, the run marker, the stops that waited
\* on a drain, the snapshot.
AfterTransition ==
    /\ up /\ todo # <<>> /\ Head(todo) = "after"
    /\ timer' = IF m.state = "Failed" /\ m.retry = "Backoff" THEN m.attempts ELSE 0
    /\ SyncRunMarker
    /\ AnswerStops
    /\ snap' = [state |-> m.state, epoch |-> m.epoch]
    /\ todo' = Tail(todo)
    /\ UNCHANGED <<up, m, slot, boot, changes, book, inflight, storeVars, hold, journal,
                   fileVars>>

-----------------------------------------------------------------------------
(* The loop: requests. *)

\* Start: an accepted start clears the hold marker afterwards.
RequestStart ==
    /\ Selecting /\ CanBoot
    /\ Apply([type |-> "Start"], slot, journal,
             IF Step(m, [type |-> "Start"]).ok THEN <<"clear">> ELSE <<>>)
    /\ promised' = (promised /\ ~Step(m, [type |-> "Start"]).ok)
    /\ UNCHANGED <<stops, changes, inflight>> /\ HandlerFrame

\* Stop: the hold marker is set or cleared before the reply is queued, and
\* the reply waits for the drain.
RequestStop(held) ==
    /\ Selecting
    /\ Apply([type |-> "Stop"], slot, journal,
             IF Step(m, [type |-> "Stop"]).ok
             THEN IF held THEN <<"set", "pushHeld">> ELSE <<"clear", "push">>
             ELSE <<>>)
    /\ promised' = (promised /\ ~Step(m, [type |-> "Stop"]).ok)
    /\ UNCHANGED <<stops, changes, inflight>> /\ HandlerFrame

\* write_hold: set_hold or clear_hold, whose failure is only logged.
WriteHold ==
    /\ up /\ todo # <<>> /\ Head(todo) \in {"set", "clear"}
    /\ \E fate \in Fates("hold") :
         hold' = Saved(hold, IF Head(todo) = "set" THEN "AcrossRelaunch" ELSE "None", fate)
    /\ todo' = Tail(todo)
    /\ UNCHANGED <<up, m, slot, boot, timer, stops, snap, changes, book, inflight, storeVars,
                   marker, journal, fileVars, promised>>

\* pending_stops.push, then answer_stops: at once when nothing drains.
QueueStop ==
    /\ up /\ todo # <<>> /\ Head(todo) \in {"push", "pushHeld"}
    /\ LET queued == Append(stops, Head(todo) = "pushHeld") IN
       /\ stops' = IF m.state = "Draining" THEN queued ELSE <<>>
       /\ promised' = IF m.state = "Draining" THEN promised ELSE Last(queued)
    /\ todo' = Tail(todo)
    /\ UNCHANGED <<up, m, slot, boot, timer, snap, changes, book, inflight, storeVars,
                   diskVars, fileVars>>

\* Restart, Retry, Exit: the event and nothing else.
RequestRestart ==
    /\ Selecting /\ CanBoot
    /\ Apply([type |-> "Restart"], slot, journal, <<>>)
    /\ UNCHANGED <<stops, changes, inflight, promised>> /\ HandlerFrame

RequestRetry ==
    /\ Selecting /\ CanBoot
    /\ Apply([type |-> "Retry"], slot, journal, <<>>)
    /\ UNCHANGED <<stops, changes, inflight, promised>> /\ HandlerFrame

RequestExit(intent) ==
    /\ Selecting
    /\ Apply([type |-> "Exit", intent |-> intent], slot, journal, <<>>)
    /\ UNCHANGED <<stops, changes, inflight, promised>> /\ HandlerFrame

\* reconfigure: a held boot is retried; a running runtime adopts what it can
\* and says whether leaves are left for a restart; a configuration that does
\* not resolve changes nothing.
Reconfigure(leftover, restartNow) ==
    /\ Selecting /\ CanBoot
    /\ IF m.state = "Running"
       THEN /\ file \in Good
            /\ Apply([type |-> "ConfigApplied", pending |-> leftover], slot, journal,
                     IF restartNow /\ leftover THEN <<"restart">> ELSE <<>>)
       ELSE /\ m.state = "Failed" /\ m.retry = "Hold"
            /\ Apply([type |-> "ConfigChanged"], slot, journal, <<>>)
    /\ UNCHANGED <<stops, changes, inflight, promised>> /\ HandlerFrame

\* reconfigure's restart, applied after the configuration was.
RestartForConfig ==
    /\ up /\ todo = <<"restart">>
    /\ Apply([type |-> "Restart"], slot, journal, <<>>)
    /\ UNCHANGED <<stops, changes, inflight, promised>> /\ HandlerFrame

-----------------------------------------------------------------------------
(* The loop: re-initialization.  A challenge is bound to the stop epoch the *)
(* snapshot shows; `boots` is a ghost of the boots this process had started *)
(* by then.                                                                 *)

Resting(s) == s \in {"Stopped", "Failed"}

Prepare ==
    /\ up /\ Resting(snap.state)
    /\ Cardinality(book) + Cardinality(inflight) < MaxPending /\ Room(1)
    /\ book' = book \cup {[epoch |-> snap.epoch, boots |-> m.attempts]}
    /\ UNCHANGED <<up, m, slot, boot, todo, timer, stops, snap, changes, inflight,
                   storeVars, diskVars, fileVars, promised>>

\* cancel, or the expiry that issue and redeem enforce.
Withdraw(c) ==
    /\ up /\ c \in book
    /\ book' = book \ {c}
    /\ UNCHANGED <<up, m, slot, boot, todo, timer, stops, snap, changes, inflight,
                   storeVars, diskVars, fileVars, promised>>

\* execute: the challenge is used up whatever the check of its binding says;
\* the confirmed operation is sent to the loop.
Execute(c) ==
    /\ up /\ c \in book
    /\ book' = book \ {c}
    /\ inflight' = IF Resting(snap.state) /\ snap.epoch = c.epoch
                   THEN inflight \cup {c} ELSE inflight
    /\ UNCHANGED <<up, m, slot, boot, todo, timer, stops, snap, changes,
                   storeVars, diskVars, fileVars, promised>>

\* Variant: the epoch the challenge was bound to is not compared again.
RestingInAnyEpoch(c) == Resting(m.state) /\ slot = "Idle" /\ ~storeOpen

\* resting_in: at rest, in the bound epoch, with the store's lock taken.
RestingIn(c) ==
    /\ Resting(m.state) /\ slot = "Idle"
    /\ m.epoch = c.epoch
    /\ ~storeOpen

\* reinit: the check and the move in one handler.  A move that fails puts
\* back what it had moved.
Reinitialize(c, moved) ==
    /\ Selecting /\ c \in inflight
    /\ inflight' = inflight \ {c}
    /\ data' = (data /\ ~(RestingIn(c) /\ moved))
    /\ UNCHANGED <<up, m, slot, boot, todo, timer, stops, snap, changes, book,
                   storeOpen, leaked, diskVars, fileVars, promised>>

-----------------------------------------------------------------------------
(* The loop: what the slot, the timer and the declared file report. *)

\* The phase reports a boot sends ahead of its outcome; each persists the
\* journal.
OnProgress ==
    /\ Selecting /\ slot = "Booting" /\ boot.pc \notin {"enter", "done"}
    /\ \E fate \in Fates("journal") :
         Apply([type |-> "Phase"], slot, Saved(journal, journal.own, fate), <<>>)
    /\ UNCHANGED <<stops, changes, inflight, promised>> /\ HandlerFrame

\* on_boot_done: the slot and the journal follow the outcome, then the event.
\* A panicked boot task proves nothing about the store.
SlotOf(outcome) ==
    IF outcome = "ok" THEN "Up"
    ELSE IF outcome \in {"never", "released"} THEN "Idle"
    ELSE "Wedged"

ResultOf(b) ==
    CASE b.outcome = "ok" -> "Succeeded"
      [] b.outcome # "panic" /\ b.class = "Cancelled" -> "Cancelled"
      [] OTHER -> "Failed"

BootEvent(b) ==
    IF b.outcome = "ok" THEN [type |-> "Booted"]
    ELSE [type |-> "BootFailed",
          released |-> b.outcome \in {"never", "released"},
          class |-> IF b.outcome # "panic" /\ b.class = "Backoff" THEN "Backoff" ELSE "Hold"]

\* Variant: a failure is not settled against the declared file.
OnBootDoneUnsettled ==
    /\ Selecting /\ slot = "Booting" /\ boot.pc = "done"
    /\ \E fate \in Fates("journal") :
         Apply(BootEvent(boot), SlotOf(boot.outcome),
               Saved(journal, JournalClose(journal.own, ResultOf(boot)), fate), <<>>)
    /\ UNCHANGED <<stops, changes, inflight, promised>> /\ HandlerFrame

\* resettle_declared runs once the failure has landed.
OnBootDone ==
    /\ Selecting /\ slot = "Booting" /\ boot.pc = "done"
    /\ \E fate \in Fates("journal") :
         Apply(BootEvent(boot), SlotOf(boot.outcome),
               Saved(journal, JournalClose(journal.own, ResultOf(boot)), fate),
               IF Step(m, BootEvent(boot)).m.state = "Failed" THEN <<"resettle">> ELSE <<>>)
    /\ UNCHANGED <<stops, changes, inflight, promised>> /\ HandlerFrame

\* The file is read again and compared with the digest the boot took.
Resettle ==
    /\ up /\ todo = <<"resettle">>
    /\ IF boot.digest # file /\ CanBoot
       THEN Apply([type |-> "ConfigChanged"], slot, journal, <<>>)
       ELSE todo' = <<>> /\ UNCHANGED <<m, slot, boot, journal>>
    /\ UNCHANGED <<stops, changes, inflight, promised>> /\ HandlerFrame

\* on_drained, with the store released by the shutdown or still held.
OnDrained(released) ==
    /\ Selecting /\ slot = "Draining" /\ boot.pc = "drained"
    /\ released = (boot.outcome = "released")
    /\ Apply([type |-> "Drained", released |-> released],
             IF released THEN "Idle" ELSE "Wedged", journal, <<>>)
    /\ UNCHANGED <<stops, changes, inflight, promised>> /\ HandlerFrame

\* The retry timer fires.
OnRetryDue ==
    /\ Selecting /\ timer # 0 /\ CanBoot
    /\ timer' = 0
    /\ Apply([type |-> "RetryDue"], slot, journal, <<>>)
    /\ UNCHANGED <<up, stops, snap, changes, book, inflight, storeVars, fileVars, hold,
                   marker, promised>>

\* A declared-file notification is read.
OnDeclared ==
    /\ Selecting /\ changes > 0
    /\ m.state = "Failed" => CanBoot
    /\ changes' = changes - 1
    /\ Apply([type |-> "ConfigChanged"], slot, journal, <<>>)
    /\ UNCHANGED <<stops, inflight, promised>> /\ HandlerFrame

\* The process ends, and the kernel drops every lock it held.
Gone ==
    /\ up' = FALSE /\ m' = AtRest /\ slot' = "Idle" /\ boot' = NoBoot /\ todo' = <<>>
    /\ timer' = 0 /\ stops' = <<>> /\ snap' = [state |-> "Resolving", epoch |-> 0]
    /\ changes' = 0 /\ unnotified' = 0 /\ book' = {} /\ inflight' = {}
    /\ storeOpen' = FALSE /\ leaked' = FALSE

\* finish: the marker and the journal once more, then the exit.
Finish ==
    /\ up /\ todo = <<>> /\ m.state = "Exiting"
    /\ SyncRunMarker
    /\ \E fate \in Fates("journal") : journal' = Saved(journal, journal.own, fate)
    /\ Gone
    /\ UNCHANGED <<hold, data, file, promised>>

\* The process is killed or crashes.
Crash ==
    /\ up
    /\ Gone
    /\ UNCHANGED <<diskVars, data, file, promised>>

-----------------------------------------------------------------------------
(* The boot task and the shutdown task, beside the loop. *)

TaskFrame == UNCHANGED <<up, m, slot, todo, timer, stops, snap, changes, book, inflight,
                         diskVars, fileVars, promised>>

BootEnds(outcome, class) ==
    boot' = [boot EXCEPT !.pc = "done", !.outcome = outcome, !.class = class]

\* BootRecorder::enter refuses the next phase once a stop was asked for.
BootCancelled ==
    /\ boot.cancel /\ boot.pc \in {"enter", "checks"}
    /\ BootEnds("never", "Cancelled")
    /\ UNCHANGED storeVars /\ TaskFrame

\* supervised_boot: the digest is taken before the file is resolved.
BootDigest ==
    /\ boot.pc = "enter" /\ ~boot.cancel
    /\ boot' = [boot EXCEPT !.pc = "resolve", !.digest = file]
    /\ UNCHANGED storeVars /\ TaskFrame

BootResolve ==
    /\ boot.pc = "resolve"
    /\ boot' = [boot EXCEPT !.pc = IF file \in Good THEN "checks" ELSE "done",
                            !.outcome = IF file \in Good THEN "none" ELSE "never",
                            !.class = IF file \in Good THEN "None" ELSE "Hold"]
    /\ UNCHANGED storeVars /\ TaskFrame

\* boot_store: the lock must be free.
BootOpenStore ==
    /\ boot.pc = "checks" /\ ~boot.cancel
    /\ IF storeOpen
       THEN BootEnds("never", "Backoff") /\ UNCHANGED storeVars
       ELSE /\ boot' = [boot EXCEPT !.pc = "assemble"]
            /\ storeOpen' = TRUE /\ data' = TRUE /\ UNCHANGED leaked
    /\ TaskFrame

\* A phase before the store is opened fails.
BootFailsEarly(class) ==
    /\ boot.pc = "checks"
    /\ BootEnds("never", class)
    /\ UNCHANGED storeVars /\ TaskFrame

\* open_store opened the store and then failed: to initialize it, and the mesh
\* is dropped, not terminated; or as no member, or in a join, and a terminate
\* that failed is ignored.  The failure is reported like an earlier one.
BootFailsInOpen(class) ==
    /\ boot.pc = "checks" /\ ~storeOpen
    /\ storeOpen' = TRUE /\ leaked' = TRUE /\ data' = TRUE
    /\ BootEnds("never", class)
    /\ TaskFrame

\* The dropped mesh's own tasks end and let go of the store.
LeakDrains ==
    /\ leaked
    /\ storeOpen' = FALSE /\ leaked' = FALSE
    /\ UNCHANGED <<boot, data>> /\ TaskFrame

\* Past the bind the boot finishes and a stop is honoured by a shutdown.
BootSucceeds ==
    /\ boot.pc = "assemble"
    /\ BootEnds("ok", "None")
    /\ UNCHANGED storeVars /\ TaskFrame

\* unwind_failed_boot: a boot that fails over the store, or is cancelled
\* before the bind, gives it back or finds it still shared.
BootFailsOpen(class, released) ==
    /\ boot.pc = "assemble"
    /\ class = "Cancelled" => boot.cancel
    /\ BootEnds(IF released THEN "released" ELSE "held", class)
    /\ storeOpen' = ~released
    /\ UNCHANGED <<leaked, data>> /\ TaskFrame

\* The boot task panics; what it had opened is dropped, not terminated.
BootPanics ==
    /\ boot.pc \in {"resolve", "checks", "assemble"}
    /\ BootEnds("panic", "None")
    /\ UNCHANGED storeVars /\ TaskFrame

\* Runtime::shutdown returns: the store terminated, or something still held it.
ShutdownReturns(released) ==
    /\ slot = "Draining" /\ boot.pc # "drained"
    /\ boot' = [NoBoot EXCEPT !.pc = "drained",
                              !.outcome = IF released THEN "released" ELSE "held"]
    /\ storeOpen' = (storeOpen /\ ~released)
    /\ UNCHANGED <<leaked, data>> /\ TaskFrame

-----------------------------------------------------------------------------
(* The declared file and its watcher. *)

EditFile(c) ==
    /\ unnotified + changes < MaxEdits /\ Room(1) /\ c # file
    /\ file' = c
    /\ unnotified' = IF up THEN unnotified + 1 ELSE 0
    /\ UNCHANGED <<procVars, storeVars, diskVars, promised>>

\* watch_declared: every change is one message, possibly late.
Notify ==
    /\ up /\ unnotified > 0
    /\ unnotified' = unnotified - 1 /\ changes' = changes + 1
    /\ UNCHANGED <<up, m, slot, boot, todo, timer, stops, snap, book, inflight, storeVars,
                   diskVars, file, promised>>

-----------------------------------------------------------------------------
Requests ==
    \/ RequestStart \/ \E held \in BOOLEAN : RequestStop(held)
    \/ RequestRestart \/ RequestRetry \/ \E i \in ExitIntents : RequestExit(i)
    \/ \E left, now \in BOOLEAN : Reconfigure(left, now)
    \/ Prepare \/ \E c \in book : Withdraw(c) \/ Execute(c)

LoopStep ==
    \/ FirstEvent \/ AfterTransition \/ WriteHold \/ QueueStop \/ RestartForConfig
    \/ OnProgress \/ OnBootDone \/ Resettle \/ OnRetryDue \/ OnDeclared
    \/ \E r \in BOOLEAN : OnDrained(r)
    \/ \E c \in inflight, moved \in BOOLEAN : Reinitialize(c, moved)
    \/ Finish

TaskStep ==
    \/ BootCancelled \/ BootDigest \/ BootResolve \/ BootOpenStore
    \/ \E class \in {"Backoff", "Hold"} : BootFailsEarly(class) \/ BootFailsInOpen(class)
    \/ \E class \in {"Backoff", "Hold", "Cancelled"}, r \in BOOLEAN : BootFailsOpen(class, r)
    \/ BootSucceeds \/ BootPanics
    \/ \E r \in BOOLEAN : ShutdownReturns(r)

Next ==
    \/ Launch \/ Crash \/ Requests \/ LoopStep \/ TaskStep \/ LeakDrains
    \/ \E c \in Contents : EditFile(c)
    \/ Notify

\* The executor keeps polling the loop and the tasks, and a boot and a shutdown
\* end.  The loop's select! is not biased: it polls its branches in random
\* order, so a branch that is ready again and again is taken however many
\* requests arrive.  Nothing is assumed of the watcher, which may have failed
\* to start.
Fairness ==
    /\ WF_vars(FirstEvent \/ AfterTransition \/ WriteHold \/ QueueStop \/ RestartForConfig
               \/ Resettle)
    /\ SF_vars(OnBootDone) /\ SF_vars(\E r \in BOOLEAN : OnDrained(r))
    /\ SF_vars(OnRetryDue)
    /\ WF_vars(TaskStep)

Spec == Init /\ [][Next]_vars /\ Fairness
-----------------------------------------------------------------------------
(* Properties. *)

Phases == {"none", "enter", "resolve", "checks", "assemble", "done", "drained"}

\* The values the supervisor's own state and the data directory can take.
TypeOK ==
    /\ up \in BOOLEAN /\ m \in Lifecycle
    /\ slot \in {"Idle", "Booting", "Up", "Draining", "Wedged"}
    /\ boot \in [pc: Phases, cancel: BOOLEAN, digest: Contents \cup {"none"},
                 outcome: {"none", "ok", "never", "released", "held", "panic"},
                 class: {"None", "Backoff", "Hold", "Cancelled"}]
    /\ todo \in Seq({"run", "after", "set", "clear", "push", "pushHeld", "resettle", "restart"})
    /\ timer \in Nat /\ stops \in Seq(BOOLEAN)
    /\ snap \in [state: States, epoch: Nat]
    /\ {changes, unnotified} \subseteq Nat
    /\ book \cup inflight \subseteq [epoch: Nat, boots: Nat]
    /\ {storeOpen, leaked, data, promised} \subseteq BOOLEAN
    /\ file \in Contents
    /\ {hold.own, hold.disk} \subseteq {"None", "AcrossRelaunch"}
    /\ {marker.own, marker.disk} \subseteq {"None", "Released", "Booting", "Running", "Draining"}
    /\ {journal.own, journal.disk} \subseteq
         Seq({"InProgress", "Succeeded", "Failed", "Cancelled"})
    /\ {hold.last, marker.last, journal.last} \subseteq {"written", "failed"}

\* The slot the supervisor keeps agrees with the lifecycle the machine
\* decides, so `start_boot` always finds the slot idle and ShutdownRuntime
\* always finds a runtime up: the two error! branches of `perform` are dead.
SlotFollowsLifecycle ==
    /\ m.state = "Booting" => slot = "Booting"
    /\ m.state = "Running" => slot = "Up"
    /\ m.state = "Draining" => slot \in {"Booting", "Draining"}
    /\ m.state = "Wedged" => slot = "Wedged"
    /\ m.state = "Exiting" => slot \in {"Idle", "Wedged"}
    /\ m.state \in {"Resolving", "Stopped", "Failed"} => slot = "Idle"

\* machine.rs: a resting state is entered only on an outcome that says the
\* store was released.  What the code keeps of it: the store is held at rest
\* only by a mesh that open_store dropped without terminating it.
StoreReleasedAtRestUnlessLeaked ==
    m.state \in {"Resolving", "Stopped", "Failed"} => ~storeOpen \/ leaked

\* A run marker that says the store was released is true whenever the loop
\* is between handlers, so the next daemon's PreviousRun is too; unless the
\* marker that would have said otherwise could not be written.
RunMarkerHonest ==
    up /\ todo = <<>> /\ marker.disk = "Released" /\ marker.last = "written" /\ storeOpen
        => leaked

\* An answered stop that holds across a relaunch is kept: the marker is on
\* disk, and no process of this data directory boots until it is started or
\* stopped without a hold; unless the marker could not be written, which the
\* answer does not tell.
HeldStaysStopped ==
    promised /\ hold.last = "written" =>
        hold.disk = "AcrossRelaunch" /\ m.state \notin {"Booting", "Running"}

\* A failed boot has seen the declared file as it is, unless a change is
\* still on its way to the loop: a change that landed during the boot, whose
\* notification was refused, is not lost.
FailedBootSawTheFile ==
    up /\ todo = <<>> /\ m.state = "Failed" /\ changes = 0 /\ unnotified = 0 /\ CanBoot
        => boot.digest = file

\* The journal's last attempt is in progress exactly while this process runs
\* a boot: every way a boot ends closes its entry, in memory whatever became
\* of the writes, and on disk as soon as one takes again.
JournalTells ==
    up /\ m.attempts > 0 =>
        /\ (slot = "Booting") = (Last(journal.own) = "InProgress")
        /\ journal.last = "written" => (slot = "Booting") = (Last(journal.disk) = "InProgress")

\* The data directory is moved aside only with the store closed, and only
\* under a challenge no boot has been started since.
NeverMovedUnderARuntime ==
    [][data /\ ~data' =>
         /\ ~storeOpen /\ slot = "Idle"
         /\ \E c \in inflight \ inflight' : c.boots = m.attempts]_vars

\* An accepted stop is answered: the boot or the runtime it waits on ends.
StopsAreAnswered == (stops # <<>>) ~> (stops = <<>>)

\* A boot that failed for a cause outside the configuration is retried.
BackoffIsRetried ==
    (up /\ m.state = "Failed" /\ m.retry = "Backoff" /\ CanBoot)
        ~> ~(up /\ m.state = "Failed" /\ m.retry = "Backoff" /\ CanBoot)

\* The process is well typed, and what its control directory tells the next one
\* is so: the hold of a stop, the run marker and the boot journal, each as
\* long as its last write took.
ControlFilesTellUnlessUnwritten ==
    TypeOK /\ HeldStaysStopped /\ RunMarkerHonest /\ JournalTells

\* Nobody waits for ever: neither a caller of stop nor a boot in backoff.
NothingStranded == StopsAreAnswered /\ BackoffIsRetried

=============================================================================
