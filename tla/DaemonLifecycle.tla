-------------------------- MODULE DaemonLifecycle --------------------------
(***************************************************************************)
(* The daemon's lifecycle as a pure step function, from a lifecycle and an *)
(* event to the next lifecycle and the one effect the supervisor performs  *)
(* (engenho-runtime/src/lifecycle/machine.rs).  Times, causes and wording  *)
(* are left out; everything a transition is decided by is kept.            *)
(***************************************************************************)
EXTENDS Naturals

ExitIntents == {"Halt", "Relaunch"}

\* AfterDrain, with the exit's intent spelled out; "None" outside a drain.
Thens == {"None", "Stop", "Restart"} \cup ExitIntents

States == {"Resolving", "Booting", "Running", "Draining",
           "Stopped", "Failed", "Wedged", "Exiting"}

\* `then` also keeps the intent of an Exiting lifecycle; `retry` is the
\* RetryClass of a Failed one; `pending` is RestartNeeded of a Running one.
Lifecycle == [state: States, then: Thens, retry: {"None", "Backoff", "Hold"},
              pending: BOOLEAN, attempts: Nat, epoch: Nat]

\* Lifecycle::at: nothing booted yet.
AtRest == [state |-> "Resolving", then |-> "None", retry |-> "None",
           pending |-> FALSE, attempts |-> 0, epoch |-> 0]

Move(m, s, then, retry) ==
    [m EXCEPT !.state = s, !.then = then, !.retry = retry, !.pending = FALSE]

BeginBoot(m) == [Move(m, "Booting", "None", "None") EXCEPT !.attempts = @ + 1]

Fail(m, class) == [Move(m, "Failed", "None", class) EXCEPT !.epoch = @ + 1]

Rest(m) == Move(m, "Stopped", "None", "None")

Wedge(m) == Move(m, "Wedged", "None", "None")

ExitWith(m, intent) == Move(m, "Exiting", intent, "None")

-----------------------------------------------------------------------------
\* What a step returns: accepted or not, the next lifecycle, the effect.
Did(m, effect) == [ok |-> TRUE, m |-> m, effect |-> effect]

Refused(m) == [ok |-> FALSE, m |-> m, effect |-> "None"]

\* Variant: a finished drain is taken to have released the store.
SettleAssumesReleased(m, released) ==
    IF m.then \in ExitIntents THEN Did(ExitWith(m, m.then), "Exit")
    ELSE IF m.then = "Stop"
    THEN Did(Rest([m EXCEPT !.epoch = @ + 1]), "None")
    ELSE Did(BeginBoot([m EXCEPT !.epoch = @ + 1]), "StartBoot")

\* settle: a drain finished, with the store released or still held.  Ending
\* the process releases whatever it held.
Settle(m, released) ==
    IF m.then \in ExitIntents THEN Did(ExitWith(m, m.then), "Exit")
    ELSE IF ~released THEN Did(Wedge(m), "None")
    ELSE IF m.then = "Stop"
    THEN Did(Rest([m EXCEPT !.epoch = @ + 1]), "None")
    ELSE Did(BeginBoot([m EXCEPT !.epoch = @ + 1]), "StartBoot")

\* Variant: the retry timer is not one of the ways out of Failed.
StartingWithoutRetryDue(m, e) ==
    IF \/ e.type = "Start" /\ m.state \in {"Resolving", "Stopped"}
       \/ e.type \in {"Retry", "ConfigChanged"} /\ m.state = "Failed"
    THEN Did(BeginBoot(m), "StartBoot")
    ELSE IF e.type = "HeldAtStartup" /\ m.state = "Resolving"
    THEN Did(Rest(m), "None")
    ELSE Refused(m)

\* starting: a boot begins only from rest, and rest begins here.
Starting(m, e) ==
    IF \/ e.type = "Start" /\ m.state \in {"Resolving", "Stopped"}
       \/ e.type \in {"Retry", "ConfigChanged"} /\ m.state = "Failed"
       \/ e.type = "RetryDue" /\ m.state = "Failed" /\ m.retry = "Backoff"
    THEN Did(BeginBoot(m), "StartBoot")
    ELSE IF e.type = "HeldAtStartup" /\ m.state = "Resolving"
    THEN Did(Rest(m), "None")
    ELSE Refused(m)

\* Variant: a failed boot is taken to have released what it opened.
BootingIgnoresStore(m, e) ==
    IF m.state = "Booting" /\ e.type = "Phase" THEN Did(m, "None")
    ELSE IF m.state = "Running" /\ e.type = "ConfigApplied"
    THEN Did([m EXCEPT !.pending = e.pending], "None")
    ELSE IF m.state = "Booting" /\ e.type = "Booted"
    THEN Did(Move(m, "Running", "None", "None"), "None")
    ELSE IF m.state = "Booting" /\ e.type = "BootFailed"
    THEN Did(Fail(m, e.class), "None")
    ELSE Refused(m)

\* booting: a running boot's progress and outcome.
Booting(m, e) ==
    IF m.state = "Booting" /\ e.type = "Phase" THEN Did(m, "None")
    ELSE IF m.state = "Running" /\ e.type = "ConfigApplied"
    THEN Did([m EXCEPT !.pending = e.pending], "None")
    ELSE IF m.state = "Booting" /\ e.type = "Booted"
    THEN Did(Move(m, "Running", "None", "None"), "None")
    ELSE IF m.state = "Booting" /\ e.type = "BootFailed"
    THEN Did(IF e.released THEN Fail(m, e.class) ELSE Wedge(m), "None")
    ELSE Refused(m)

\* Variant: the drain of an exit forgets how the process is to end.
DrainForDropsIntent(e) == e.type

\* The drain a stop, a restart or an exit asks for.
DrainFor(e) == IF e.type = "Exit" THEN e.intent ELSE e.type

\* stopping: stopping, restarting, draining and exiting.
Stopping(m, e) ==
    IF e.type \in {"Stop", "Restart", "Exit"} /\ m.state \in {"Booting", "Running"}
    THEN Did(Move(m, "Draining", DrainFor(e), "None"),
             IF m.state = "Booting" THEN "CancelBoot" ELSE "ShutdownRuntime")
    ELSE IF e.type = "Stop" /\ m.state = "Failed" THEN Did(Rest(m), "None")
    ELSE IF m.state = "Draining" /\ e.type = "Booted" THEN Did(m, "ShutdownRuntime")
    ELSE IF m.state = "Draining" /\ e.type = "Phase" THEN Did(m, "None")
    ELSE IF m.state = "Draining" /\ e.type \in {"BootFailed", "Drained"}
    THEN Settle(m, e.released)
    ELSE IF m.state = "Draining" /\ e.type = "Exit"
    THEN Did([m EXCEPT !.then = e.intent], "None")
    ELSE IF e.type = "Exit" /\ m.state \in {"Resolving", "Stopped", "Failed", "Wedged"}
    THEN Did(ExitWith(m, e.intent), "Exit")
    ELSE Refused(m)

\* step: the first of the three that accepts the event.
Step(m, e) ==
    IF Starting(m, e).ok THEN Starting(m, e)
    ELSE IF Booting(m, e).ok THEN Booting(m, e)
    ELSE Stopping(m, e)
=============================================================================
