------------------------- MODULE WatchDriverProofs -------------------------
(***************************************************************************)
(* The driver's loop loses no wake-up, and it implements the promise of    *)
(* LevelTrigger step by step, for every buffer, number of changes and kind *)
(* of driver.                                                              *)
(***************************************************************************)
EXTENDS WatchDriver, TLAPS, SequenceTheorems

\* A change the last sweep did not see is still on its way to the next one.
Owed == \/ at = head
        \/ \E i \in 1..Len(buf) : buf[i] = "relevant"
        \/ pc \in {"debounce", "tick"}

Carried == ~poller /\ ~missed => Owed

\* A subscription is replaced only when it has nothing more to hand over.
Replacing == pc \in {"start", "subscribe"} \/ (pc \in {"tick", "ticking"} /\ after = "subscribe")

ReplacedWhenRead == Replacing => stream \in {"none", "ended"} /\ buf = <<>>

IInv == TypeOK /\ Carried /\ ReplacedWhenRead

Items == {"relevant", "other"}

\* Appending to the buffer and taking its first item, as the loop sees them.
LEMMA Buffered ==
  ASSUME NEW s \in Seq(Items), NEW x \in Items
  PROVE  /\ Append(s, x) \in Seq(Items)
         /\ Len(s) \in Nat
         /\ Len(Append(s, x)) = Len(s) + 1
         /\ Append(s, x)[Len(s) + 1] = x
         /\ \A i \in 1..Len(s) : Append(s, x)[i] = s[i]
  OBVIOUS

\* Taking the head off a backlog leaves a backlog of the same items.
LEMMA Taken ==
  ASSUME NEW s \in Seq(Items), s # <<>>
  PROVE  /\ Tail(s) \in Seq(Items)
         /\ Len(s) \in Nat \ {0}
         /\ Len(Tail(s)) = Len(s) - 1
         /\ Head(s) = s[1] /\ Head(s) \in Items
         /\ \A i \in 1..Len(Tail(s)) : Tail(s)[i] = s[i + 1]
  OBVIOUS

\* The driver starts with no stream, no backlog and a first sweep owed.
LEMMA InitIInv == Init => IInv
<1>. SUFFICES ASSUME Init PROVE IInv
  OBVIOUS
<1>1. missed \in BOOLEAN /\ (missed \/ head = 0)
  BY Zenon DEF Init
<1>2. TypeOK
  <2>1. head \in 0..MaxChanges /\ noise = 0 /\ at = 0 /\ seen = 0 /\ buf = <<>>
    BY Zenon DEF Init
  <2>2. /\ head \in 0..MaxChanges /\ noise \in 0..MaxNoise
        /\ buf \in Seq({"relevant", "other"}) /\ Len(buf) <= BufferCap
        /\ at \in 0..head /\ seen \in 0..at
    BY <2>1, DriverAssumption
  <2>. QED  BY <1>1, <2>2, Zenon DEF Init, TypeOK
<1>3. Carried
  BY <1>1 DEF Init, Carried, Owed
<1>4. ReplacedWhenRead
  BY DEF Init, ReplacedWhenRead
<1>. QED  BY <1>2, <1>3, <1>4 DEF IInv

\* What the store does to the buffer: within capacity, and an item is kept
\* unless the stream was not live or is over now.
LEMMA FedKeeps ==
  ASSUME IInv, NEW x \in Items, Fed(x)
  PROVE  /\ stream' \in {"none", "live", "gone", "ended"}
         /\ buf' \in Seq(Items) /\ Len(buf') <= BufferCap
         /\ stream # "live" => stream' = stream /\ buf' = buf
         /\ \A i \in 1..Len(buf) : i \in 1..Len(buf') /\ buf'[i] = buf[i]
         /\ stream = "live" /\ stream' # "gone" => \E i \in 1..Len(buf') : buf'[i] = x
<1>1. buf \in Seq(Items) /\ Len(buf) <= BufferCap /\ BufferCap \in Nat /\ Len(buf) \in Nat
      /\ stream \in {"none", "live", "gone", "ended"}
  BY DriverAssumption DEF IInv, TypeOK, Items
<1>2. CASE stream # "live"
  BY <1>1, <1>2 DEF Fed
<1>3. CASE stream = "live" /\ Len(buf) < BufferCap
  BY <1>1, <1>3, Buffered DEF Fed
<1>4. CASE stream = "live" /\ ~(Len(buf) < BufferCap)
  BY <1>1, <1>4 DEF Fed
<1>. QED  BY <1>2, <1>3, <1>4

\* A relevant commit is either still in the backlog or behind a sweep owed.
LEMMA CommitRelevantIInv == IInv /\ CommitRelevant => IInv'
<1>. SUFFICES ASSUME IInv, CommitRelevant PROVE IInv'
  OBVIOUS
<1>. DEFINE x == IF poller THEN "other" ELSE "relevant"
<1>1. x \in Items /\ Fed(x)
  BY DEF CommitRelevant, Items
<1>2. /\ UNCHANGED <<noise, pc, after, slot, at, seen, tickState, poller>>
      /\ head' = head + 1 /\ head < MaxChanges
  BY DEF CommitRelevant, driverVars
<1>3. missed' \in BOOLEAN /\ (~missed' => ~missed /\ stream = "live" /\ stream' # "gone")
  BY Zenon DEF CommitRelevant
<1>. HIDE DEF x
<1>4. /\ stream' \in {"none", "live", "gone", "ended"}
      /\ buf' \in Seq(Items) /\ Len(buf') <= BufferCap
      /\ stream # "live" => stream' = stream /\ buf' = buf
      /\ stream = "live" /\ stream' # "gone" => \E i \in 1..Len(buf') : buf'[i] = x
  BY <1>1, FedKeeps
<1>5. TypeOK'
  <2>1. head' \in 0..MaxChanges /\ at' \in 0..head' /\ seen' \in 0..at'
    BY <1>2, DriverAssumption DEF IInv, TypeOK
  <2>. QED  BY <2>1, <1>2, <1>3, <1>4, Zenon DEF IInv, TypeOK, Items
<1>6. Carried'
  BY <1>2, <1>3, <1>4 DEF Carried, Owed, x
<1>7. ReplacedWhenRead'
  BY <1>2, <1>4 DEF IInv, ReplacedWhenRead, Replacing
<1>. QED  BY <1>5, <1>6, <1>7 DEF IInv

\* A commit the controller does not watch disturbs nothing.
LEMMA CommitOtherIInv == IInv /\ CommitOther => IInv'
<1>. SUFFICES ASSUME IInv, CommitOther PROVE IInv'
  OBVIOUS
<1>1. /\ UNCHANGED <<head, pc, after, slot, at, seen, missed, tickState, poller>>
      /\ noise' = noise + 1 /\ noise < MaxNoise /\ Fed("other")
  BY DEF CommitOther, driverVars
<1>2. /\ stream' \in {"none", "live", "gone", "ended"}
      /\ buf' \in Seq(Items) /\ Len(buf') <= BufferCap
      /\ stream # "live" => stream' = stream /\ buf' = buf
      /\ \A i \in 1..Len(buf) : i \in 1..Len(buf') /\ buf'[i] = buf[i]
  <2>1. "other" \in Items
    BY DEF Items
  <2>. QED  BY <1>1, <2>1, FedKeeps
<1>3. TypeOK'
  <2>1. noise' \in 0..MaxNoise
    BY <1>1, DriverAssumption DEF IInv, TypeOK
  <2>. QED  BY <2>1, <1>1, <1>2, Zenon DEF IInv, TypeOK, Items
<1>4. Carried'
  BY <1>1, <1>2, Zenon DEF IInv, Carried, Owed
<1>5. ReplacedWhenRead'
  BY <1>1, <1>2 DEF IInv, ReplacedWhenRead, Replacing
<1>. QED  BY <1>3, <1>4, <1>5 DEF IInv

\* A subscription, made or refused, leaves the sweep owed in place.
LEMMA SubscribeIInv ==
  ASSUME IInv, NEW granted \in BOOLEAN, Subscribe(granted)
  PROVE  IInv'
<1>1. /\ UNCHANGED <<head, noise, slot, at, seen, missed, tickState, poller>>
      /\ stream' \in {"none", "live"} /\ buf' = <<>> /\ after' = "wait"
      /\ pc \in {"start", "subscribe"} /\ pc' \in {"tick", "wait"}
  BY DEF Subscribe, LoopFrame
<1>2. TypeOK'
  <2>1. buf' \in Seq(Items) /\ Len(buf') <= BufferCap
    BY <1>1, DriverAssumption
  <2>. QED  BY <2>1, <1>1, Zenon DEF IInv, TypeOK, Items
<1>3. Carried'
  <2>1. ~poller /\ ~missed => at = head
    BY <1>1 DEF IInv, Carried, Owed, ReplacedWhenRead, Replacing
  <2>. QED  BY <2>1, <1>1, Zenon DEF Carried, Owed
<1>4. ReplacedWhenRead'
  BY <1>1 DEF ReplacedWhenRead, Replacing
<1>. QED  BY <1>2, <1>3, <1>4 DEF IInv

\* Taking an item from the stream owes a sweep when the item is relevant.
LEMMA WaitItemIInv == IInv /\ WaitItem => IInv'
<1>. SUFFICES ASSUME IInv, WaitItem PROVE IInv'
  OBVIOUS
<1>1. /\ UNCHANGED <<head, noise, stream, after, slot, at, seen, missed, tickState, poller>>
      /\ buf # <<>> /\ buf' = Tail(buf) /\ pc = "wait"
      /\ pc' = IF Head(buf) = "relevant" THEN "debounce" ELSE "wait"
  BY DEF WaitItem, LoopFrame
<1>2. /\ buf' \in Seq(Items) /\ Len(buf) \in Nat \ {0} /\ Len(buf') = Len(buf) - 1
      /\ Head(buf) = buf[1] /\ Head(buf) \in Items
      /\ \A i \in 1..Len(buf') : buf'[i] = buf[i + 1]
  <2>1. buf \in Seq(Items)
    BY DEF IInv, TypeOK, Items
  <2>. QED  BY <2>1, <1>1, Taken
<1>3. TypeOK'
  <2>1. Len(buf') <= BufferCap
    BY <1>2, DriverAssumption DEF IInv, TypeOK
  <2>. QED  BY <2>1, <1>1, <1>2, Zenon DEF IInv, TypeOK, Items
<1>4. Carried'
  <2>1. ASSUME NEW i \in 1..Len(buf), buf[i] = "relevant", pc' = "wait"
        PROVE  \E j \in 1..Len(buf') : buf'[j] = "relevant"
    <3>1. i # 1
      BY <1>1, <1>2, <2>1
    <3>2. i - 1 \in 1..Len(buf') /\ buf'[i - 1] = "relevant"
      BY <1>2, <2>1, <3>1
    <3>. QED  BY <3>2
  <2>2. pc' \in {"wait", "debounce"}
    BY <1>1
  <2>. QED  BY <1>1, <2>1, <2>2 DEF IInv, Carried, Owed
<1>5. ReplacedWhenRead'
  BY <1>1 DEF ReplacedWhenRead, Replacing
<1>. QED  BY <1>3, <1>4, <1>5 DEF IInv

\* The remaining steps of the loop leave the buffer as it is, or empty it on
\* the way to a sweep.
LEMMA WakeIInv == IInv /\ (WaitGone \/ WaitEnded \/ TimerWake \/ Drain) => IInv'
<1>. SUFFICES ASSUME IInv, WaitGone \/ WaitEnded \/ TimerWake \/ Drain PROVE IInv'
  OBVIOUS
<1>1. UNCHANGED <<head, noise, slot, at, seen, missed, tickState, poller>> /\ pc' = "tick"
  BY DEF WaitGone, WaitEnded, TimerWake, Drain, LoopFrame
<1>2. /\ stream' \in {"none", "live", "gone", "ended"}
      /\ buf' \in {buf, <<>>}
      /\ after' \in {"wait", "subscribe"}
      /\ after' = "subscribe" => stream' \in {"none", "ended"} /\ buf' = <<>>
  BY DEF IInv, TypeOK, WaitGone, WaitEnded, TimerWake, StreamPending, Drain
<1>3. TypeOK'
  <2>1. buf' \in Seq(Items) /\ Len(buf') <= BufferCap
    <3>1. buf \in Seq(Items) /\ Len(buf) <= BufferCap
      BY DEF IInv, TypeOK, Items
    <3>2. <<>> \in Seq(Items) /\ Len(<<>>) <= BufferCap
      BY DriverAssumption
    <3>. QED  BY <3>1, <3>2, <1>2
  <2>. QED  BY <2>1, <1>1, <1>2, Zenon DEF IInv, TypeOK, Items
<1>4. Carried'
  BY <1>1 DEF Carried, Owed
<1>5. ReplacedWhenRead'
  BY <1>1, <1>2 DEF ReplacedWhenRead, Replacing
<1>. QED  BY <1>3, <1>4, <1>5 DEF IInv

\* A sweep that begins has every change committed so far in sight.
LEMMA BeginIInv == IInv /\ Begin => IInv'
<1>. SUFFICES ASSUME IInv, Begin PROVE IInv'
  OBVIOUS
<1>1. /\ UNCHANGED <<head, noise, stream, buf, after, seen, tickState, poller>>
      /\ pc = "tick" /\ pc' = "ticking" /\ slot' = FALSE /\ at' = head /\ missed' = FALSE
  BY DEF Begin, LoopFrame
<1>2. TypeOK'
  <2>1. at' \in 0..head' /\ seen' \in 0..at'
    BY <1>1, DriverAssumption DEF IInv, TypeOK
  <2>. QED  BY <2>1, <1>1, Zenon DEF IInv, TypeOK
<1>3. Carried'
  BY <1>1 DEF Carried, Owed
<1>4. ReplacedWhenRead'
  BY <1>1 DEF IInv, ReplacedWhenRead, Replacing
<1>. QED  BY <1>2, <1>3, <1>4 DEF IInv

\* A sweep that ends, fails or panics leaves nothing unaccounted for.
LEMMA SweepEndsIInv == IInv /\ ((\E o : End(o)) \/ Panic) => IInv'
<1>. SUFFICES ASSUME IInv, (\E o : End(o)) \/ Panic  PROVE IInv'
  OBVIOUS
<1>1. /\ UNCHANGED <<head, noise, stream, buf, after, at, missed, tickState, poller>>
      /\ pc = "ticking" /\ pc' \in {after, "dead"} /\ seen' \in {at, seen}
  BY DEF End, Panic, LoopFrame
<1>2. slot' \in BOOLEAN
  <2>1. ASSUME NEW o, End(o)  PROVE slot' \in BOOLEAN
    <3>1. slot' = (o \in {"Requeued", "Transient"})
      BY <2>1, Zenon DEF End, Arms
    <3>2. (o \in {"Requeued", "Transient"}) \in BOOLEAN
      OBVIOUS
    <3>. QED  BY <3>1, <3>2, Zenon
  <2>2. CASE Panic
    BY <2>2, Zenon DEF IInv, TypeOK, Panic
  <2>. QED  BY <2>1, <2>2, Zenon
<1>3. TypeOK'
  <2>1. seen' \in 0..at'
    BY <1>1, DriverAssumption DEF IInv, TypeOK
  <2>2. pc' \in {"start", "subscribe", "wait", "debounce", "tick", "ticking", "dead"}
    BY <1>1 DEF IInv, TypeOK
  <2>. QED  BY <2>1, <2>2, <1>1, <1>2, Zenon DEF IInv, TypeOK
<1>4. Carried'
  BY <1>1 DEF IInv, Carried, Owed
<1>5. ReplacedWhenRead'
  BY <1>1 DEF IInv, TypeOK, ReplacedWhenRead, Replacing
<1>. QED  BY <1>3, <1>4, <1>5 DEF IInv

\* The inductive step, one case per action.
LEMMA NextIInv == IInv /\ [Next]_vars => IInv'
<1>. SUFFICES ASSUME IInv, [Next]_vars PROVE IInv'
  OBVIOUS
<1>1. CASE DropSender
  <2>1. /\ UNCHANGED <<head, noise, buf, pc, after, slot, at, seen, missed, tickState, poller>>
        /\ stream' = "ended"
    BY <1>1 DEF DropSender, driverVars
  <2>. QED  BY <2>1, Zenon DEF IInv, TypeOK, Carried, Owed, ReplacedWhenRead, Replacing
<1>2. CASE Requeue \/ FallbackTimer
  BY <1>2, WakeIInv DEF Requeue, FallbackTimer
<1>3. CASE UNCHANGED vars
  BY <1>3, ZenonT(30) DEF vars, driverVars, IInv, TypeOK, Carried, Owed, ReplacedWhenRead, Replacing
<1>4. CASE LoopStep
  BY <1>4, SubscribeIInv, WaitItemIInv, WakeIInv, BeginIInv DEF LoopStep
<1>5. CASE Succeeds \/ End("Transient") \/ End("Declarative") \/ Panic
  BY <1>5, SweepEndsIInv DEF Succeeds
<1>. QED  BY <1>1, <1>2, <1>3, <1>4, <1>5, CommitRelevantIInv, CommitOtherIInv DEF Next

(***************************************************************************)
(* No wake-up is lost: whatever overflows, ends, is refused or panics, a   *)
(* driver that waits on a live subscription with nothing relevant to read  *)
(* began its last sweep after the last change, unless no subscription      *)
(* carried the change (wait_for_relevant_event, drain_pending).            *)
(***************************************************************************)
THEOREM QuietMeansCurrentAlways == Spec => []QuietMeansCurrent
<1>1. IInv => QuietMeansCurrent
  <2>. SUFFICES ASSUME IInv, pc = "wait", ~poller, ~missed, "relevant" \notin ToSet(buf)
                PROVE  at = head
    BY DEF IInv, QuietMeansCurrent
  <2>1. \A i \in 1..Len(buf) : buf[i] # "relevant"
    BY DEF IInv, TypeOK, ToSet
  <2>. QED  BY <2>1 DEF IInv, Carried, Owed
<1>. QED  BY <1>1, InitIInv, NextIInv, PTL DEF Spec

-----------------------------------------------------------------------------
(* The refinement. *)

\* Refinement: an initial state of the driver is one of the promise.
LEMMA InitPromise == Init => Promise!Init
<1>. SUFFICES ASSUME Init PROVE Promise!Init
  OBVIOUS
<1>1. head \in 0..MaxChanges /\ at = 0 /\ seen = 0 /\ pc = "start"
  BY Zenon DEF Init
<1>. QED  BY <1>1 DEF Promise!Init

\* A step that leaves the changes and the sweeps alone, outside of a sweep.
LEMMA StutterPromise ==
  ASSUME UNCHANGED <<head, at, seen>>, pc \notin {"ticking", "dead"}, pc' \notin {"ticking", "dead"}
  PROVE  UNCHANGED Promise!vars
  BY DEF Promise!vars

\* Refinement: every step of the driver is a step of the promise, or a stutter.
LEMMA NextPromise == IInv /\ [Next]_vars => [Promise!Next]_(Promise!vars)
<1>. SUFFICES ASSUME IInv, [Next]_vars PROVE [Promise!Next]_(Promise!vars)
  OBVIOUS
<1>1. CASE CommitRelevant
  BY <1>1 DEF CommitRelevant, driverVars, Promise!Next, Promise!Change
<1>2. CASE CommitOther \/ DropSender \/ UNCHANGED vars
  BY <1>2 DEF CommitOther, DropSender, vars, driverVars, Promise!vars
<1>3. CASE (\E granted \in BOOLEAN : Subscribe(granted)) \/ WaitItem
  BY <1>3, StutterPromise DEF Subscribe, WaitItem, LoopFrame
<1>4. CASE WaitGone \/ WaitEnded \/ TimerWake \/ Drain
  BY <1>4, StutterPromise DEF WaitGone, WaitEnded, TimerWake, Drain, LoopFrame
<1>5. CASE Begin
  BY <1>5 DEF Begin, LoopFrame, Promise!Next, Promise!Begin
<1>6. ASSUME NEW o, End(o)  PROVE Promise!Next
  <2>1. /\ UNCHANGED <<head, at>> /\ pc = "ticking" /\ pc' \in {"wait", "subscribe"}
        /\ seen' = at \/ seen' = seen
    BY <1>6 DEF End, LoopFrame, IInv, TypeOK
  <2>. QED  BY <2>1 DEF Promise!Next, Promise!Finish, Promise!Abandon
<1>7. CASE Panic
  <2>1. /\ UNCHANGED <<head, at, seen>> /\ pc = "ticking" /\ pc' \in {"wait", "subscribe", "dead"}
    BY <1>7 DEF Panic, LoopFrame, IInv, TypeOK
  <2>. QED  BY <2>1 DEF Promise!Next, Promise!Abandon, Promise!Stop
<1>. QED  BY <1>1, <1>2, <1>3, <1>4, <1>5, <1>6, <1>7
            DEF Next, LoopStep, Succeeds, Requeue, FallbackTimer

(***************************************************************************)
(* The loop implements the safety part of the promise: one sweep at a      *)
(* time, a sweep is recorded as covering only what was committed when it   *)
(* began, only a sweep that succeeded is recorded, and a dead driver       *)
(* sweeps no more.                                                         *)
(***************************************************************************)
THEOREM ImplementsPromiseSteps == Spec => Promise!Init /\ [][Promise!Next]_(Promise!vars)
<1>. QED  BY InitPromise, InitIInv, NextIInv, NextPromise, PTL DEF Spec

=============================================================================
