---------------------------- MODULE WatchDriver ----------------------------
(***************************************************************************)
(* The loop that runs a controller (engenho-controllers/watch_driver.rs):  *)
(* it waits on a live-tail subscription, one requeue slot and a fallback   *)
(* timer, sweeps, and subscribes again when the stream is over.  Time is   *)
(* left out: a delay is a step other actors can come before.               *)
(***************************************************************************)
EXTENDS Naturals, Sequences, SequencesExt

CONSTANTS BufferCap,   \* items a subscription buffers before it overflows
          MaxChanges,  \* changes the controller has to see
          MaxNoise,    \* changes of other kinds
          HasFallback  \* fallback_interval is not Duration::MAX

ASSUME DriverAssumption ==
    /\ BufferCap \in Nat \ {0} /\ {MaxChanges, MaxNoise} \subseteq Nat
    /\ HasFallback \in BOOLEAN

VARIABLES
    head,      \* changes the controller has to see
    noise,     \* changes of other kinds so far
    stream,    \* the subscription: none, live, or over and not yet replaced
    buf,       \* what it has buffered
    pc,        \* where the loop is
    after,     \* what follows the sweep: wait, or subscribe again
    slot,      \* whether the requeue slot is armed
    at,        \* the change the last sweep began after
    seen,      \* the change the last successful sweep began after
    missed,    \* ghost: a change no subscription carried, since the last sweep began
    tickState, \* Stateless or Stateful
    poller     \* the filter names no kind

driverVars == <<pc, after, slot, at, seen>>
vars == <<head, noise, stream, buf, driverVars, missed, tickState, poller>>

Init ==
    /\ head \in 0..MaxChanges /\ noise = 0
    /\ stream = "none" /\ buf = <<>>
    /\ pc = "start" /\ after = "wait" /\ slot = FALSE
    /\ at = 0 /\ seen = 0 /\ missed = (head # 0)
    /\ tickState \in {"Stateless", "Stateful"} /\ poller \in BOOLEAN

-----------------------------------------------------------------------------
(* The store. *)

\* Mutant: the buffer has no limit.
FedUnbounded(item) ==
    IF stream # "live" THEN UNCHANGED <<stream, buf>>
    ELSE buf' = Append(buf, item) /\ UNCHANGED stream

\* A committed change reaches a live subscription; one that finds the buffer
\* full ends it with the one-shot WatchGone.
Fed(item) ==
    IF stream # "live" THEN UNCHANGED <<stream, buf>>
    ELSE IF Len(buf) < BufferCap THEN buf' = Append(buf, item) /\ UNCHANGED stream
    ELSE stream' = "gone" /\ UNCHANGED buf

CommitRelevant ==
    /\ head < MaxChanges
    /\ head' = head + 1
    /\ Fed(IF poller THEN "other" ELSE "relevant")
    /\ missed' = (missed \/ stream # "live" \/ stream' = "gone")
    /\ UNCHANGED <<noise, driverVars, tickState, poller>>

CommitOther ==
    /\ noise < MaxNoise
    /\ noise' = noise + 1
    /\ Fed("other")
    /\ UNCHANGED <<head, driverVars, missed, tickState, poller>>

\* The store drops the sender: what is buffered is still read, then nothing.
DropSender ==
    /\ stream = "live"
    /\ stream' = "ended"
    /\ UNCHANGED <<head, noise, buf, driverVars, missed, tickState, poller>>

-----------------------------------------------------------------------------
(* The loop. *)

LoopFrame == UNCHANGED <<head, noise, tickState, poller>>

\* subscribe, resubscribe: after the delay the store grants a live tail from
\* now on, or refuses.  A driver that nothing can wake sweeps once at start.
Subscribe(granted) ==
    /\ pc \in {"start", "subscribe"}
    /\ stream' = IF granted THEN "live" ELSE "none"
    /\ buf' = <<>>
    /\ pc' = IF pc = "start" /\ poller THEN "tick" ELSE "wait"
    /\ after' = "wait"
    /\ UNCHANGED <<slot, at, seen, missed>> /\ LoopFrame

\* wait_for_relevant_event: the stream is polled before the timers.
WaitItem ==
    /\ pc = "wait" /\ buf # <<>>
    /\ buf' = Tail(buf)
    /\ pc' = IF Head(buf) = "relevant" THEN "debounce" ELSE "wait"
    /\ UNCHANGED <<stream, after, slot, at, seen, missed>> /\ LoopFrame

\* Gone is delivered once; after it the stream yields nothing.
WaitGone ==
    /\ pc = "wait" /\ buf = <<>> /\ stream = "gone"
    /\ stream' = "ended" /\ pc' = "tick" /\ after' = "subscribe"
    /\ UNCHANGED <<buf, slot, at, seen, missed>> /\ LoopFrame

WaitEnded ==
    /\ pc = "wait" /\ buf = <<>> /\ stream = "ended"
    /\ pc' = "tick" /\ after' = "subscribe"
    /\ UNCHANGED <<stream, buf, slot, at, seen, missed>> /\ LoopFrame

\* Nothing to read: only the timers can fire.
StreamPending == buf = <<>> /\ stream \in {"none", "live"}

TimerWake ==
    /\ pc = "wait" /\ StreamPending
    /\ pc' = "tick"
    /\ after' = IF stream = "none" THEN "subscribe" ELSE "wait"
    /\ UNCHANGED <<stream, buf, slot, at, seen, missed>> /\ LoopFrame

\* Mutant: only the fallback retries a refused subscription.
RequeueKeepsNoStream ==
    /\ slot /\ pc = "wait" /\ StreamPending
    /\ pc' = "tick" /\ after' = "wait"
    /\ UNCHANGED <<stream, buf, slot, at, seen, missed>> /\ LoopFrame

Requeue == slot /\ TimerWake

\* Mutant: without a stream only the requeue slot is slept on.
FallbackTimerNeedsStream == HasFallback /\ stream = "live" /\ TimerWake

FallbackTimer == HasFallback /\ TimerWake

\* The debounce is over: drain_pending reads what is buffered and hands back
\* the terminal if it surfaced.
Drain ==
    /\ pc = "debounce"
    /\ buf' = <<>>
    /\ stream' = IF stream = "gone" THEN "ended" ELSE stream
    /\ after' = IF stream = "gone" THEN "subscribe" ELSE "wait"
    /\ pc' = "tick"
    /\ UNCHANGED <<slot, at, seen, missed>> /\ LoopFrame

\* Ticker::tick: the slot is cleared and the sweep reads the store from here.
Begin ==
    /\ pc = "tick"
    /\ pc' = "ticking" /\ slot' = FALSE /\ at' = head /\ missed' = FALSE
    /\ UNCHANGED <<stream, buf, after, seen>> /\ LoopFrame

\* next_wake, RequeueSlot::arm.
Arms(outcome) == outcome \in {"Requeued", "Transient"}

\* Mutant: the burst is drained after the sweep instead of before it.
EndDrains(outcome) ==
    /\ pc = "ticking"
    /\ pc' = after
    /\ slot' = Arms(outcome)
    /\ seen' = IF outcome \in {"Done", "Requeued"} THEN at ELSE seen
    /\ buf' = <<>>
    /\ UNCHANGED <<stream, after, at, missed>> /\ LoopFrame

End(outcome) ==
    /\ pc = "ticking"
    /\ pc' = after
    /\ slot' = Arms(outcome)
    /\ seen' = IF outcome \in {"Done", "Requeued"} THEN at ELSE seen
    /\ UNCHANGED <<stream, buf, after, at, missed>> /\ LoopFrame

\* tick_observed: a panic in a Stateless tick is contained and owed no retry;
\* in a Stateful one it ends the task.
Panic ==
    /\ pc = "ticking"
    /\ pc' = IF tickState = "Stateless" THEN after ELSE "dead"
    /\ UNCHANGED <<stream, buf, after, slot, at, seen, missed>> /\ LoopFrame

-----------------------------------------------------------------------------
Succeeds == \E o \in {"Done", "Requeued"} : End(o)

LoopStep ==
    \/ \E granted \in BOOLEAN : Subscribe(granted)
    \/ WaitItem \/ WaitGone \/ WaitEnded \/ Drain \/ Begin

Next ==
    \/ CommitRelevant \/ CommitOther \/ DropSender
    \/ LoopStep \/ Requeue \/ FallbackTimer
    \/ Succeeds \/ End("Transient") \/ End("Declarative") \/ Panic

\* The executor polls the loop, a timer that stays the loop's only wake
\* fires, and a sweep or a subscription that is tried again and again
\* succeeds in the end.
Fairness ==
    /\ WF_vars(LoopStep) /\ WF_vars(Requeue) /\ WF_vars(FallbackTimer)
    /\ SF_vars(Succeeds) /\ SF_vars(Subscribe(TRUE))

Spec == Init /\ [][Next]_vars /\ Fairness
-----------------------------------------------------------------------------
(* Properties. *)

\* The values the loop's state can take; the buffer respects its capacity.
TypeOK ==
    /\ head \in 0..MaxChanges /\ noise \in 0..MaxNoise
    /\ stream \in {"none", "live", "gone", "ended"}
    /\ buf \in Seq({"relevant", "other"}) /\ Len(buf) <= BufferCap
    /\ pc \in {"start", "subscribe", "wait", "debounce", "tick", "ticking", "dead"}
    /\ after \in {"wait", "subscribe"}
    /\ slot \in BOOLEAN /\ missed \in BOOLEAN /\ poller \in BOOLEAN
    /\ at \in 0..head /\ seen \in 0..at
    /\ tickState \in {"Stateless", "Stateful"}

\* A driver that waits with nothing to read is up to date: the last sweep
\* began after the last change, unless a change fell where no subscription
\* carried it.  No event is drained without a sweep that begins after it.
QuietMeansCurrent ==
    TypeOK /\ (pc = "wait" /\ ~poller /\ ~missed /\ stream = "live"
        /\ "relevant" \notin ToSet(buf) => at = head)

\* A driver whose subscription is over or was refused has a live one again,
\* while it lives: the one-shot terminal is never lost, and a requeue due on
\* every wait does not keep the retry waiting for the fallback.
StreamRegained ==
    (tickState = "Stateless" /\ stream # "live") ~> (stream = "live")

\* The promise every controller is written against, checked as a refinement
\* for a driver with a fallback: one sweep at a time, and every change is
\* followed by a successful sweep that began after it.
Promise == INSTANCE LevelTrigger WITH
    phase <- IF pc = "ticking" THEN "sweeping" ELSE IF pc = "dead" THEN "dead" ELSE "idle"

ImplementsLevelTrigger == Promise!Spec
=============================================================================
