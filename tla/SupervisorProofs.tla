-------------------------- MODULE SupervisorProofs --------------------------
(***************************************************************************)
(* For every number of boots, edits, challenges and journal entries: the   *)
(* slot follows the lifecycle, the store is held at rest only by a mesh    *)
(* that open_store dropped, data moves only under a closed store, a failed *)
(* boot saw the declared file, and a control file whose last write took    *)
(* tells the truth.                                                        *)
(***************************************************************************)
EXTENDS Supervisor, SequenceTheorems, TLAPS

BootRecord == [pc: Phases, cancel: BOOLEAN, digest: Contents \cup {"none"},
               outcome: {"none", "ok", "never", "released", "held", "panic"},
               class: {"None", "Backoff", "Hold", "Cancelled"}]

\* The store is free, or held by a dropped mesh.
Free == ~storeOpen \/ leaked

\* A boot task exists exactly in the slot that waits for it, and a shutdown
\* has ended only in the slot that waits for that.
TaskMatchesSlot ==
    /\ slot = "Booting" => boot.pc \in {"enter", "resolve", "checks", "assemble", "done"}
    /\ slot = "Draining" => boot.pc \in {"none", "drained"}
    /\ slot \in {"Idle", "Up", "Wedged"} => boot.pc = "none"

\* Whoever may open the store next finds it free: the idle slot, a boot that
\* has not reached it, and every outcome the loop will take for a release.
StoreAccounted ==
    /\ slot = "Idle" => Free
    /\ slot = "Booting" /\ boot.pc \in {"enter", "resolve", "checks"} => Free
    /\ slot = "Booting" /\ boot.pc = "done" /\ boot.outcome \in {"never", "released"} => Free
    /\ slot = "Draining" /\ boot.pc = "drained" /\ boot.outcome = "released" => Free

IInv ==
    /\ m \in Lifecycle
    /\ slot \in {"Idle", "Booting", "Up", "Draining", "Wedged"}
    /\ boot \in BootRecord
    /\ SlotFollowsLifecycle
    /\ TaskMatchesSlot
    /\ StoreAccounted

-----------------------------------------------------------------------------
(* The machine. *)

CommandTypes == {"Start", "HeldAtStartup", "Retry", "RetryDue", "ConfigChanged",
                 "Stop", "Restart", "Exit", "Phase", "ConfigApplied"}

\* The helpers of the step function keep a lifecycle a lifecycle.
LEMMA MoveType ==
    ASSUME NEW n \in Lifecycle, NEW s \in States, NEW then \in Thens,
           NEW retry \in {"None", "Backoff", "Hold"}
    PROVE  /\ Move(n, s, then, retry) \in Lifecycle
           /\ Move(n, s, then, retry).state = s
           /\ Move(n, s, then, retry).then = then
BY DEF Move, Lifecycle

\* Counting a boot or an epoch keeps it one too, in the same state.
LEMMA CountType ==
    ASSUME NEW n \in Lifecycle
    PROVE  /\ [n EXCEPT !.attempts = @ + 1] \in Lifecycle
           /\ [n EXCEPT !.attempts = @ + 1].state = n.state
           /\ [n EXCEPT !.epoch = @ + 1] \in Lifecycle
           /\ [n EXCEPT !.epoch = @ + 1].state = n.state
BY DEF Lifecycle

\* What a step returns.
LEMMA DidFacts ==
    \A n, f : /\ Did(n, f).m = n /\ Did(n, f).effect = f
              /\ Refused(n).m = n /\ Refused(n).effect = "None"
BY DEF Did, Refused

\* Where each named transition of the machine leads.
LEMMA MoveFacts ==
    ASSUME NEW n \in Lifecycle
    PROVE  /\ BeginBoot(n) \in Lifecycle /\ BeginBoot(n).state = "Booting"
           /\ Rest(n) \in Lifecycle /\ Rest(n).state = "Stopped"
           /\ Wedge(n) \in Lifecycle /\ Wedge(n).state = "Wedged"
           /\ \A i \in ExitIntents :
                ExitWith(n, i) \in Lifecycle /\ ExitWith(n, i).state = "Exiting"
           /\ \A c \in {"Backoff", "Hold"} :
                Fail(n, c) \in Lifecycle /\ Fail(n, c).state = "Failed"
<1>0. ExitIntents \subseteq Thens /\ "None" \in Thens
  BY DEF Thens
<1>1. /\ Move(n, "Booting", "None", "None") \in Lifecycle
      /\ Move(n, "Booting", "None", "None").state = "Booting"
  BY <1>0, MoveType DEF States
<1>2. \A c \in {"Backoff", "Hold"} : /\ Move(n, "Failed", "None", c) \in Lifecycle
                                     /\ Move(n, "Failed", "None", c).state = "Failed"
  <2> TAKE c \in {"Backoff", "Hold"}
  <2>1. "Failed" \in States /\ c \in {"None", "Backoff", "Hold"}
    BY DEF States
  <2> QED BY <1>0, <2>1, MoveType
<1>3. BeginBoot(n) \in Lifecycle /\ BeginBoot(n).state = "Booting"
  BY <1>1, CountType DEF BeginBoot
<1>4. Rest(n) \in Lifecycle /\ Rest(n).state = "Stopped"
  BY <1>0, MoveType DEF Rest, States
<1>5. Wedge(n) \in Lifecycle /\ Wedge(n).state = "Wedged"
  BY <1>0, MoveType DEF Wedge, States
<1>6. \A i \in ExitIntents : ExitWith(n, i) \in Lifecycle /\ ExitWith(n, i).state = "Exiting"
  BY <1>0, MoveType DEF ExitWith, States
<1>7. \A c \in {"Backoff", "Hold"} : Fail(n, c) \in Lifecycle /\ Fail(n, c).state = "Failed"
  BY <1>2, CountType DEF Fail
<1> QED BY <1>3, <1>4, <1>5, <1>6, <1>7

\* Every event but the outcome of a task: refused or noted in place, or one
\* of the five transitions that start, hold, drain or end.
LEMMA StepCommand ==
    ASSUME NEW n \in Lifecycle, NEW e, e.type \in CommandTypes,
           e.type = "Exit" => e.intent \in ExitIntents,
           e.type = "ConfigApplied" => e.pending \in BOOLEAN
    PROVE  /\ Step(n, e).m \in Lifecycle
           /\ \/ Step(n, e).m.state = n.state /\ Step(n, e).effect = "None"
              \/ /\ n.state \in {"Resolving", "Stopped", "Failed"}
                 /\ Step(n, e).m.state = "Booting" /\ Step(n, e).effect = "StartBoot"
              \/ /\ n.state \in {"Resolving", "Failed"}
                 /\ Step(n, e).m.state = "Stopped" /\ Step(n, e).effect = "None"
              \/ /\ n.state = "Booting"
                 /\ Step(n, e).m.state = "Draining" /\ Step(n, e).effect = "CancelBoot"
              \/ /\ n.state = "Running"
                 /\ Step(n, e).m.state = "Draining" /\ Step(n, e).effect = "ShutdownRuntime"
              \/ /\ n.state \in {"Resolving", "Stopped", "Failed", "Wedged"}
                 /\ Step(n, e).m.state = "Exiting" /\ Step(n, e).effect = "Exit"
<1>1. CASE Starting(n, e).ok
  <2>1. \/ Starting(n, e) = Did(BeginBoot(n), "StartBoot")
           /\ n.state \in {"Resolving", "Stopped", "Failed"}
        \/ Starting(n, e) = Did(Rest(n), "None") /\ n.state = "Resolving"
    BY <1>1 DEF Starting, Refused
  <2>2. Step(n, e) = Starting(n, e)
    BY <1>1 DEF Step
  <2> QED BY <2>1, <2>2, MoveFacts, DidFacts
<1>2. CASE ~Starting(n, e).ok /\ Booting(n, e).ok
  <2> DEFINE noted == [n EXCEPT !.pending = e.pending]
  <2>1. \/ Booting(n, e) = Did(n, "None")
        \/ Booting(n, e) = Did(noted, "None") /\ e.type = "ConfigApplied"
    BY <1>2 DEF Booting, Refused, CommandTypes
  <2>2. e.type = "ConfigApplied" => noted \in Lifecycle /\ noted.state = n.state
    BY DEF Lifecycle
  <2>3. Step(n, e) = Booting(n, e)
    BY <1>2 DEF Step
  <2> HIDE DEF noted
  <2>4. Step(n, e).effect = "None"
    BY <2>1, <2>3, DidFacts
  <2>5. Step(n, e).m \in Lifecycle /\ Step(n, e).m.state = n.state
    BY <2>1, <2>2, <2>3, DidFacts
  <2> QED BY <2>4, <2>5
<1>3. CASE ~Starting(n, e).ok /\ ~Booting(n, e).ok
  <2>1. Step(n, e) = Stopping(n, e)
    BY <1>3 DEF Step
  <2>2. e.type \in {"Stop", "Restart", "Exit"} => DrainFor(e) \in Thens
    BY DEF DrainFor, Thens
  <2>3. e.type \in {"Stop", "Restart", "Exit"} =>
          Move(n, "Draining", DrainFor(e), "None") \in Lifecycle
          /\ Move(n, "Draining", DrainFor(e), "None").state = "Draining"
    BY <2>2, MoveType DEF States
  <2> DEFINE bound == [n EXCEPT !.then = e.intent]
  <2>4. e.type = "Exit" => bound \in Lifecycle /\ bound.state = n.state
    BY DEF Lifecycle, Thens
  <2>5. \/ Stopping(n, e) = Did(Move(n, "Draining", DrainFor(e), "None"), "CancelBoot")
           /\ n.state = "Booting" /\ e.type \in {"Stop", "Restart", "Exit"}
        \/ Stopping(n, e) = Did(Move(n, "Draining", DrainFor(e), "None"), "ShutdownRuntime")
           /\ n.state = "Running" /\ e.type \in {"Stop", "Restart", "Exit"}
        \/ Stopping(n, e) = Did(Rest(n), "None") /\ n.state = "Failed"
        \/ Stopping(n, e) = Did(n, "None")
        \/ Stopping(n, e) = Did(bound, "None") /\ e.type = "Exit"
        \/ Stopping(n, e) = Did(ExitWith(n, e.intent), "Exit") /\ e.type = "Exit"
           /\ n.state \in {"Resolving", "Stopped", "Failed", "Wedged"}
        \/ Stopping(n, e) = Refused(n)
    BY DEF Stopping, CommandTypes
  <2> HIDE DEF bound
  <2>6. CASE Stopping(n, e) = Did(Move(n, "Draining", DrainFor(e), "None"), "CancelBoot")
             /\ n.state = "Booting" /\ e.type \in {"Stop", "Restart", "Exit"}
    BY <2>1, <2>3, <2>6, DidFacts
  <2>7. CASE Stopping(n, e) = Did(Move(n, "Draining", DrainFor(e), "None"), "ShutdownRuntime")
             /\ n.state = "Running" /\ e.type \in {"Stop", "Restart", "Exit"}
    BY <2>1, <2>3, <2>7, DidFacts
  <2>8. CASE Stopping(n, e) = Did(Rest(n), "None") /\ n.state = "Failed"
    BY <2>1, <2>8, DidFacts, MoveFacts
  <2>9. CASE Stopping(n, e) = Did(n, "None") \/ Stopping(n, e) = Refused(n)
    BY <2>1, <2>9, DidFacts
  <2>10. CASE Stopping(n, e) = Did(bound, "None") /\ e.type = "Exit"
    BY <2>1, <2>4, <2>10, DidFacts
  <2>11. CASE Stopping(n, e) = Did(ExitWith(n, e.intent), "Exit") /\ e.type = "Exit"
              /\ n.state \in {"Resolving", "Stopped", "Failed", "Wedged"}
    BY <2>1, <2>11, DidFacts, MoveFacts
  <2> QED BY <2>5, <2>6, <2>7, <2>8, <2>9, <2>10, <2>11
<1> QED BY <1>1, <1>2, <1>3


\* A finished drain ends the process, wedges, or was released and rests or
\* boots again.
LEMMA SettleFacts ==
    ASSUME NEW n \in Lifecycle, NEW r \in BOOLEAN
    PROVE  /\ Settle(n, r).m \in Lifecycle
           /\ \/ Settle(n, r).m.state = "Exiting" /\ Settle(n, r).effect = "Exit"
              \/ ~r /\ Settle(n, r).m.state = "Wedged" /\ Settle(n, r).effect = "None"
              \/ r /\ Settle(n, r).m.state = "Stopped" /\ Settle(n, r).effect = "None"
              \/ r /\ Settle(n, r).m.state = "Booting" /\ Settle(n, r).effect = "StartBoot"
<1>1. PICK after \in Lifecycle : after = [n EXCEPT !.epoch = @ + 1]
  BY CountType
<1>2. \/ Settle(n, r) = Did(ExitWith(n, n.then), "Exit") /\ n.then \in ExitIntents
      \/ Settle(n, r) = Did(Wedge(n), "None") /\ ~r
      \/ Settle(n, r) = Did(Rest(after), "None") /\ r
      \/ Settle(n, r) = Did(BeginBoot(after), "StartBoot") /\ r
  BY <1>1 DEF Settle
<1>3. CASE Settle(n, r) = Did(ExitWith(n, n.then), "Exit") /\ n.then \in ExitIntents
  <2>1. Settle(n, r).m = ExitWith(n, n.then) /\ Settle(n, r).effect = "Exit"
    BY <1>3, DidFacts
  <2>2. ExitWith(n, n.then) \in Lifecycle /\ ExitWith(n, n.then).state = "Exiting"
    BY <1>3, MoveFacts
  <2> QED BY <2>1, <2>2
<1>4. CASE Settle(n, r) = Did(Wedge(n), "None") /\ ~r
  BY <1>4, DidFacts, MoveFacts
<1>5. CASE Settle(n, r) = Did(Rest(after), "None") /\ r
  <2>0. Did(Rest(after), "None").m = Rest(after) /\ Did(Rest(after), "None").effect = "None"
    BY DidFacts
  <2>1. Settle(n, r).m = Rest(after) /\ Settle(n, r).effect = "None"
    BY <1>5, <2>0
  <2>2. Rest(after) \in Lifecycle /\ Rest(after).state = "Stopped"
    BY <1>1, MoveFacts
  <2> QED BY <1>5, <2>1, <2>2
<1>6. CASE Settle(n, r) = Did(BeginBoot(after), "StartBoot") /\ r
  <2>0. /\ Did(BeginBoot(after), "StartBoot").m = BeginBoot(after)
        /\ Did(BeginBoot(after), "StartBoot").effect = "StartBoot"
    BY DidFacts
  <2>1. Settle(n, r).m = BeginBoot(after) /\ Settle(n, r).effect = "StartBoot"
    BY <1>6, <2>0
  <2>2. BeginBoot(after) \in Lifecycle /\ BeginBoot(after).state = "Booting"
    BY <1>1, MoveFacts
  <2> QED BY <1>6, <2>1, <2>2
<1> QED BY <1>2, <1>3, <1>4, <1>5, <1>6

\* The outcome of a task, taken where the machine waits for one.
LEMMA StepOutcome ==
    ASSUME NEW n \in Lifecycle, NEW e
    PROVE  /\ e.type = "Booted" /\ n.state = "Booting" =>
                /\ Step(n, e).m \in Lifecycle
                /\ Step(n, e).m.state = "Running" /\ Step(n, e).effect = "None"
           /\ e.type = "Booted" /\ n.state = "Draining" =>
                Step(n, e).m = n /\ Step(n, e).effect = "ShutdownRuntime"
           /\ e.type = "BootFailed" /\ n.state = "Booting" /\ e.class \in {"Backoff", "Hold"} =>
                /\ Step(n, e).m \in Lifecycle
                /\ Step(n, e).m.state = (IF e.released THEN "Failed" ELSE "Wedged")
                /\ Step(n, e).effect = "None"
           /\ e.type \in {"BootFailed", "Drained"} /\ n.state = "Draining" =>
                Step(n, e) = Settle(n, e.released)
<1>1. e.type \in {"Booted", "BootFailed", "Drained"} => Starting(n, e) = Refused(n)
  BY DEF Starting
<1>2. ~Refused(n).ok /\ \A f : Did(f, "None").ok
  BY DEF Did, Refused
<1>3. ASSUME e.type = "Booted", n.state = "Booting"
      PROVE  /\ Step(n, e).m \in Lifecycle
             /\ Step(n, e).m.state = "Running" /\ Step(n, e).effect = "None"
  <2>1. Booting(n, e) = Did(Move(n, "Running", "None", "None"), "None")
    BY <1>3 DEF Booting
  <2>2. Step(n, e) = Booting(n, e)
    BY <1>1, <1>2, <1>3, <2>1 DEF Step
  <2>3. /\ Move(n, "Running", "None", "None") \in Lifecycle
        /\ Move(n, "Running", "None", "None").state = "Running"
    BY MoveType DEF States, Thens
  <2> QED BY <2>1, <2>2, <2>3, DidFacts
<1>4. ASSUME e.type = "Booted", n.state = "Draining"
      PROVE  Step(n, e).m = n /\ Step(n, e).effect = "ShutdownRuntime"
  <2>1. Booting(n, e) = Refused(n)
    BY <1>4 DEF Booting
  <2>2. Stopping(n, e) = Did(n, "ShutdownRuntime")
    BY <1>4 DEF Stopping
  <2>3. Step(n, e) = Stopping(n, e)
    BY <1>1, <1>2, <1>4, <2>1 DEF Step
  <2> QED BY <2>2, <2>3, DidFacts
<1>5. ASSUME e.type = "BootFailed", n.state = "Booting", e.class \in {"Backoff", "Hold"}
      PROVE  /\ Step(n, e).m \in Lifecycle
             /\ Step(n, e).m.state = (IF e.released THEN "Failed" ELSE "Wedged")
             /\ Step(n, e).effect = "None"
  <2>1. Booting(n, e) = Did(IF e.released THEN Fail(n, e.class) ELSE Wedge(n), "None")
    BY <1>5 DEF Booting
  <2>2. Step(n, e) = Booting(n, e)
    BY <1>1, <1>2, <1>5, <2>1 DEF Step
  <2>3. CASE e.released
    BY <1>5, <2>1, <2>2, <2>3, DidFacts, MoveFacts
  <2>4. CASE ~e.released
    BY <2>1, <2>2, <2>4, DidFacts, MoveFacts
  <2> QED BY <2>3, <2>4
<1>6. ASSUME e.type \in {"BootFailed", "Drained"}, n.state = "Draining"
      PROVE  Step(n, e) = Settle(n, e.released)
  <2>1. Booting(n, e) = Refused(n)
    BY <1>6 DEF Booting
  <2>2. Stopping(n, e) = Settle(n, e.released)
    BY <1>6 DEF Stopping
  <2> QED BY <1>1, <1>2, <1>6, <2>1, <2>2 DEF Step
<1> QED BY <1>3, <1>4, <1>5, <1>6

-----------------------------------------------------------------------------
(* The loop's handlers. *)

\* The two boot records the loop writes.
LEMMA BootAfterType ==
    ASSUME boot \in BootRecord, NEW f, NEW s
    PROVE  /\ BootAfter(f, s) \in BootRecord
           /\ f = "StartBoot" /\ s = "Idle" => BootAfter(f, s).pc = "enter"
           /\ ~(f = "StartBoot" /\ s = "Idle") /\ s \in {"Idle", "Up", "Wedged"} =>
                BootAfter(f, s).pc = "none"
           /\ s \in {"Booting", "Draining"} => /\ BootAfter(f, s).pc = boot.pc
                                               /\ BootAfter(f, s).outcome = boot.outcome
<1>1. FreshBoot \in BootRecord /\ FreshBoot.pc = "enter"
  BY DEF FreshBoot, NoBoot, BootRecord, Phases
<1>2. /\ [boot EXCEPT !.cancel = TRUE] \in BootRecord
      /\ [boot EXCEPT !.cancel = TRUE].pc = boot.pc
      /\ [boot EXCEPT !.cancel = TRUE].outcome = boot.outcome
  BY DEF BootRecord
<1>3. /\ [NoBoot EXCEPT !.digest = boot.digest] \in BootRecord
      /\ [NoBoot EXCEPT !.digest = boot.digest].pc = "none"
  BY DEF NoBoot, BootRecord, Phases
<1> QED BY <1>1, <1>2, <1>3 DEF BootAfter

\* A handler that is not about a task keeps the invariant.
LEMMA ApplyCommand ==
    ASSUME IInv, NEW e, NEW j, NEW rest, e.type \in CommandTypes,
           e.type = "Exit" => e.intent \in ExitIntents,
           e.type = "ConfigApplied" => e.pending \in BOOLEAN,
           Apply(e, slot, j, rest), UNCHANGED <<storeOpen, leaked>>
    PROVE  IInv'
<1> DEFINE f == Step(m, e).effect
           n == Step(m, e).m
<1>1. m' = n /\ slot' = SlotAfter(f, slot) /\ boot' = BootAfter(f, slot)
  BY DEF Apply, Perform
<1>2. /\ n \in Lifecycle
      /\ \/ n.state = m.state /\ f = "None"
         \/ m.state \in {"Resolving", "Stopped", "Failed"} /\ n.state = "Booting" /\ f = "StartBoot"
         \/ m.state \in {"Resolving", "Failed"} /\ n.state = "Stopped" /\ f = "None"
         \/ m.state = "Booting" /\ n.state = "Draining" /\ f = "CancelBoot"
         \/ m.state = "Running" /\ n.state = "Draining" /\ f = "ShutdownRuntime"
         \/ /\ m.state \in {"Resolving", "Stopped", "Failed", "Wedged"}
            /\ n.state = "Exiting" /\ f = "Exit"
  BY StepCommand DEF IInv
<1>3. /\ boot' \in BootRecord
      /\ f = "StartBoot" /\ slot = "Idle" => boot'.pc = "enter"
      /\ ~(f = "StartBoot" /\ slot = "Idle") /\ slot \in {"Idle", "Up", "Wedged"} => boot'.pc = "none"
      /\ slot \in {"Booting", "Draining"} => boot'.pc = boot.pc /\ boot'.outcome = boot.outcome
  BY <1>1, BootAfterType DEF IInv
<1> HIDE DEF f, n
<1>4. SlotFollowsLifecycle'
  BY <1>1, <1>2 DEF IInv, SlotFollowsLifecycle, SlotAfter
<1>5. slot' \in {"Idle", "Booting", "Up", "Draining", "Wedged"}
  BY <1>1 DEF IInv, SlotAfter
<1>6. TaskMatchesSlot'
  BY <1>1, <1>2, <1>3 DEF IInv, TaskMatchesSlot, SlotAfter, SlotFollowsLifecycle
<1>7. StoreAccounted'
  BY <1>1, <1>2, <1>3 DEF IInv, StoreAccounted, TaskMatchesSlot, Free, SlotAfter, SlotFollowsLifecycle
<1> QED BY <1>1, <1>2, <1>3, <1>4, <1>5, <1>6, <1>7 DEF IInv

\* on_boot_done keeps the invariant: the slot taken from the outcome is the
\* one the machine's next state asks for.
LEMMA BootDoneKeeps ==
    ASSUME IInv, OnBootDone
    PROVE  IInv'
<1> DEFINE e == BootEvent(boot)
           s == SlotOf(boot.outcome)
           f == Step(m, e).effect
           n == Step(m, e).m
<1>1. /\ slot = "Booting" /\ boot.pc = "done"
      /\ m' = n /\ slot' = SlotAfter(f, s) /\ boot' = BootAfter(f, s)
      /\ UNCHANGED <<storeOpen, leaked>>
  BY DEF OnBootDone, Apply, Perform, HandlerFrame, storeVars
<1>2. m.state \in {"Booting", "Draining"}
  BY <1>1 DEF IInv, SlotFollowsLifecycle, Lifecycle, States
<1>3. boot.outcome \in {"none", "ok", "never", "released", "held", "panic"}
  BY DEF IInv, BootRecord
<1>4. /\ boot.outcome = "ok" => e.type = "Booted" /\ s = "Up"
      /\ boot.outcome \in {"never", "released"} =>
           e.type = "BootFailed" /\ e.released = TRUE /\ e.class \in {"Backoff", "Hold"} /\ s = "Idle"
      /\ boot.outcome \notin {"ok", "never", "released"} =>
           e.type = "BootFailed" /\ e.released = FALSE /\ e.class \in {"Backoff", "Hold"} /\ s = "Wedged"
  <2>1. boot.outcome = "ok" => e = [type |-> "Booted"]
    BY DEF BootEvent
  <2>2. boot.outcome # "ok" =>
          \E c \in {"Backoff", "Hold"} :
             e = [type |-> "BootFailed", released |-> boot.outcome \in {"never", "released"},
                  class |-> c]
    BY DEF BootEvent
  <2>3. /\ boot.outcome = "ok" => s = "Up"
        /\ boot.outcome \in {"never", "released"} => s = "Idle"
        /\ boot.outcome \notin {"ok", "never", "released"} => s = "Wedged"
    BY DEF SlotOf
  <2> HIDE DEF e, s
  <2>4. boot.outcome # "ok" => /\ e.type = "BootFailed" /\ e.class \in {"Backoff", "Hold"}
                               /\ e.released = (boot.outcome \in {"never", "released"})
    BY <2>2
  <2>5. boot.outcome \in {"never", "released"} => e.released = TRUE
    <3>1. boot.outcome \in {"never", "released"} => boot.outcome # "ok"
      OBVIOUS
    <3> QED BY <2>4, <3>1, Zenon
  <2>6. boot.outcome \notin {"ok", "never", "released"} => e.released = FALSE
    <3>1. boot.outcome \notin {"ok", "never", "released"} =>
            boot.outcome # "ok" /\ (boot.outcome \in {"never", "released"}) = FALSE
      OBVIOUS
    <3> QED BY <2>4, <3>1, Zenon
  <2>7. boot.outcome = "ok" => e.type = "Booted"
    BY <2>1
  <2> QED BY <2>3, <2>4, <2>5, <2>6, <2>7
<1>5. boot.outcome \in {"never", "released"} => Free
  BY <1>1 DEF IInv, StoreAccounted
<1> HIDE DEF e, s
<1>6. /\ n \in Lifecycle
      /\ \/ s = "Up" /\ n.state = "Running" /\ f = "None"
         \/ s = "Up" /\ n.state = "Draining" /\ f = "ShutdownRuntime"
         \/ s = "Idle" /\ n.state = "Failed" /\ f = "None"
         \/ s = "Wedged" /\ n.state = "Wedged" /\ f = "None"
         \/ s \in {"Idle", "Wedged"} /\ n.state = "Exiting" /\ f = "Exit"
         \/ s = "Idle" /\ n.state = "Stopped" /\ f = "None"
         \/ s = "Idle" /\ n.state = "Booting" /\ f = "StartBoot"
  <2>1. m \in Lifecycle
    BY DEF IInv
  <2>2. CASE boot.outcome = "ok"
    <3>1. e.type = "Booted" /\ s = "Up"
      BY <1>4, <2>2
    <3>2. CASE m.state = "Booting"
      BY <2>1, <3>1, <3>2, StepOutcome
    <3>3. CASE m.state = "Draining"
      BY <2>1, <3>1, <3>3, StepOutcome
    <3> QED BY <1>2, <3>2, <3>3
  <2>3. CASE boot.outcome # "ok"
    <3>1. /\ e.type = "BootFailed" /\ e.released \in BOOLEAN /\ e.class \in {"Backoff", "Hold"}
          /\ s = (IF e.released THEN "Idle" ELSE "Wedged")
      BY <1>3, <1>4, <2>3
    <3>2. CASE m.state = "Booting"
      BY <2>1, <3>1, <3>2, StepOutcome
    <3>3. CASE m.state = "Draining"
      <4>1. Step(m, e) = Settle(m, e.released)
        BY <2>1, <3>1, <3>3, StepOutcome
      <4> QED BY <2>1, <3>1, <4>1, SettleFacts
    <3> QED BY <1>2, <3>2, <3>3
  <2> QED BY <2>2, <2>3
<1>7. /\ boot' \in BootRecord
      /\ f = "StartBoot" /\ s = "Idle" => boot'.pc = "enter"
      /\ ~(f = "StartBoot" /\ s = "Idle") => boot'.pc = "none"
  <2>1. s \in {"Idle", "Up", "Wedged"}
    BY <1>6
  <2>2. boot \in BootRecord
    BY DEF IInv
  <2>3. /\ BootAfter(f, s) \in BootRecord
        /\ f = "StartBoot" /\ s = "Idle" => BootAfter(f, s).pc = "enter"
        /\ ~(f = "StartBoot" /\ s = "Idle") /\ s \in {"Idle", "Up", "Wedged"} =>
             BootAfter(f, s).pc = "none"
    BY <2>2, BootAfterType
  <2> QED BY <1>1, <2>1, <2>3
<1>8. s = "Idle" => Free
  BY <1>3, <1>4, <1>5
<1> HIDE DEF f, n
<1>9. SlotFollowsLifecycle' /\ slot' \in {"Idle", "Booting", "Up", "Draining", "Wedged"}
  BY <1>1, <1>6 DEF SlotFollowsLifecycle, SlotAfter
<1>10. TaskMatchesSlot'
  BY <1>1, <1>6, <1>7 DEF TaskMatchesSlot, SlotAfter
<1>11. StoreAccounted'
  BY <1>1, <1>6, <1>7, <1>8 DEF StoreAccounted, Free, SlotAfter
<1> QED BY <1>1, <1>6, <1>7, <1>9, <1>10, <1>11 DEF IInv

\* on_drained keeps it: a restart boots only over a store the drain released.
LEMMA DrainedKeeps ==
    ASSUME IInv, NEW r \in BOOLEAN, OnDrained(r)
    PROVE  IInv'
<1> DEFINE e == [type |-> "Drained", released |-> r]
           s == IF r THEN "Idle" ELSE "Wedged"
           f == Step(m, e).effect
           n == Step(m, e).m
<1>1. /\ slot = "Draining" /\ boot.pc = "drained" /\ r = (boot.outcome = "released")
      /\ m' = n /\ slot' = SlotAfter(f, s) /\ boot' = BootAfter(f, s)
      /\ UNCHANGED <<storeOpen, leaked>>
  BY DEF OnDrained, Apply, Perform, HandlerFrame, storeVars
<1>2. m \in Lifecycle /\ m.state = "Draining"
  BY <1>1 DEF IInv, SlotFollowsLifecycle, Lifecycle, States
<1>3. s = "Idle" => Free
  BY <1>1 DEF IInv, StoreAccounted
<1>4. e.type = "Drained" /\ e.released = r
  OBVIOUS
<1> HIDE DEF e
<1>5. Step(m, e) = Settle(m, r)
  BY <1>2, <1>4, StepOutcome
<1>6. /\ n \in Lifecycle
      /\ \/ s \in {"Idle", "Wedged"} /\ n.state = "Exiting" /\ f = "Exit"
         \/ s = "Wedged" /\ n.state = "Wedged" /\ f = "None"
         \/ s = "Idle" /\ n.state = "Stopped" /\ f = "None"
         \/ s = "Idle" /\ n.state = "Booting" /\ f = "StartBoot"
  BY <1>2, <1>5, SettleFacts
<1> HIDE DEF s
<1>7. /\ boot' \in BootRecord
      /\ f = "StartBoot" /\ s = "Idle" => boot'.pc = "enter"
      /\ ~(f = "StartBoot" /\ s = "Idle") => boot'.pc = "none"
  BY <1>1, <1>6, BootAfterType DEF IInv
<1> HIDE DEF f, n
<1>8. SlotFollowsLifecycle' /\ slot' \in {"Idle", "Booting", "Up", "Draining", "Wedged"}
  BY <1>1, <1>6 DEF SlotFollowsLifecycle, SlotAfter
<1>9. TaskMatchesSlot'
  BY <1>1, <1>6, <1>7 DEF TaskMatchesSlot, SlotAfter
<1>10. StoreAccounted'
  BY <1>1, <1>3, <1>6, <1>7 DEF StoreAccounted, Free, SlotAfter
<1> QED BY <1>1, <1>6, <1>7, <1>8, <1>9, <1>10 DEF IInv

-----------------------------------------------------------------------------
(* The tasks beside the loop. *)

\* A boot that ends keeps its record well typed.
LEMMA BootEndsType ==
    ASSUME boot \in BootRecord,
           NEW o \in {"never", "released", "held", "ok", "panic"},
           NEW c \in {"None", "Backoff", "Hold", "Cancelled"},
           BootEnds(o, c)
    PROVE  boot' \in BootRecord /\ boot'.pc = "done" /\ boot'.outcome = o
BY DEF BootEnds, BootRecord, Phases

\* A step of the boot task keeps the invariant when the record it leaves is
\* honest about the store.
LEMMA BootTaskKeeps ==
    ASSUME IInv, TaskFrame, slot = "Booting", boot' \in BootRecord,
           boot'.pc \in {"enter", "resolve", "checks", "assemble", "done"},
           boot'.pc \in {"enter", "resolve", "checks"} => Free',
           boot'.pc = "done" /\ boot'.outcome \in {"never", "released"} => Free'
    PROVE  IInv'
BY DEF IInv, TaskFrame, SlotFollowsLifecycle, TaskMatchesSlot, StoreAccounted

\* The boot task and the shutdown task keep the invariant: an outcome that
\* says the store was given back is true.
LEMMA TaskKeeps ==
    ASSUME IInv, file \in Contents, TaskStep
    PROVE  IInv'
<1>0. /\ boot \in BootRecord
      /\ boot.pc \in {"enter", "resolve", "checks", "assemble"} => slot = "Booting"
      /\ boot.pc \in {"enter", "resolve", "checks"} => Free
  BY DEF IInv, TaskMatchesSlot, StoreAccounted
<1>2. CASE BootCancelled
  <2>1. boot' \in BootRecord /\ boot'.pc = "done" /\ boot'.outcome = "never"
    BY <1>0, <1>2, BootEndsType DEF BootCancelled
  <2>2. Free'
    BY <1>0, <1>2 DEF BootCancelled, storeVars, Free
  <2> QED BY <1>0, <1>2, <2>1, <2>2, BootTaskKeeps DEF BootCancelled
<1>3. CASE BootDigest
  <2>1. boot' \in BootRecord /\ boot'.pc = "resolve"
    BY <1>0, <1>3 DEF BootDigest, BootRecord, Phases
  <2>2. Free'
    BY <1>0, <1>3 DEF BootDigest, storeVars, Free
  <2> QED BY <1>0, <1>3, <2>1, <2>2, BootTaskKeeps DEF BootDigest
<1>4. CASE BootResolve
  <2>1. boot' \in BootRecord /\ boot'.pc \in {"checks", "done"}
    BY <1>0, <1>4 DEF BootResolve, BootRecord, Phases
  <2>2. Free'
    BY <1>0, <1>4 DEF BootResolve, storeVars, Free
  <2> QED BY <1>0, <1>4, <2>1, <2>2, BootTaskKeeps DEF BootResolve
<1>5. CASE BootOpenStore
  <2>1. CASE storeOpen
    <3>1. BootEnds("never", "Backoff") /\ UNCHANGED storeVars /\ TaskFrame /\ boot.pc = "checks"
      BY <1>5, <2>1 DEF BootOpenStore
    <3>2. boot' \in BootRecord /\ boot'.pc = "done"
      BY <1>0, <3>1, BootEndsType
    <3>3. Free'
      BY <1>0, <3>1 DEF storeVars, Free
    <3> QED BY <1>0, <3>1, <3>2, <3>3, BootTaskKeeps
  <2>2. CASE ~storeOpen
    <3>1. boot' = [boot EXCEPT !.pc = "assemble"] /\ TaskFrame /\ boot.pc = "checks"
      BY <1>5, <2>2 DEF BootOpenStore
    <3>2. boot' \in BootRecord /\ boot'.pc = "assemble"
      BY <1>0, <3>1 DEF BootRecord, Phases
    <3> QED BY <1>0, <3>1, <3>2, BootTaskKeeps
  <2> QED BY <2>1, <2>2
<1>6. ASSUME NEW class \in {"Backoff", "Hold"}, BootFailsInOpen(class)
      PROVE  IInv'
  <2>1. boot' \in BootRecord /\ boot'.pc = "done"
    BY <1>0, <1>6, BootEndsType DEF BootFailsInOpen
  <2>2. Free'
    BY <1>6 DEF BootFailsInOpen, Free
  <2> QED BY <1>0, <1>6, <2>1, <2>2, BootTaskKeeps DEF BootFailsInOpen
<1>7. ASSUME NEW class \in {"Backoff", "Hold"}, BootFailsEarly(class)
      PROVE  IInv'
  <2>1. boot' \in BootRecord /\ boot'.pc = "done"
    BY <1>0, <1>7, BootEndsType DEF BootFailsEarly
  <2>2. Free'
    BY <1>0, <1>7 DEF BootFailsEarly, storeVars, Free
  <2> QED BY <1>0, <1>7, <2>1, <2>2, BootTaskKeeps DEF BootFailsEarly
<1>8. ASSUME NEW class \in {"Backoff", "Hold", "Cancelled"}, NEW r \in BOOLEAN,
             BootFailsOpen(class, r)
      PROVE  IInv'
  <2>1. boot' \in BootRecord /\ boot'.pc = "done"
        /\ boot'.outcome = (IF r THEN "released" ELSE "held")
    <3>1. BootEnds(IF r THEN "released" ELSE "held", class)
      BY <1>8 DEF BootFailsOpen
    <3>2. (IF r THEN "released" ELSE "held") \in {"never", "released", "held", "ok", "panic"}
          /\ class \in {"None", "Backoff", "Hold", "Cancelled"}
      BY <1>8
    <3> QED BY <1>0, <3>1, <3>2, BootEndsType
  <2>2. boot'.outcome \in {"never", "released"} => Free'
    BY <1>8, <2>1 DEF BootFailsOpen, Free
  <2> QED BY <1>0, <1>8, <2>1, <2>2, BootTaskKeeps DEF BootFailsOpen
<1>9. CASE BootSucceeds
  <2>1. boot' \in BootRecord /\ boot'.pc = "done" /\ boot'.outcome = "ok"
    BY <1>0, <1>9, BootEndsType DEF BootSucceeds
  <2> QED BY <1>0, <1>9, <2>1, BootTaskKeeps DEF BootSucceeds
<1>10. CASE BootPanics
  <2>1. boot' \in BootRecord /\ boot'.pc = "done" /\ boot'.outcome = "panic"
    BY <1>0, <1>10, BootEndsType DEF BootPanics
  <2> QED BY <1>0, <1>10, <2>1, BootTaskKeeps DEF BootPanics
<1>11. ASSUME NEW r \in BOOLEAN, ShutdownReturns(r)
       PROVE  IInv'
  <2>1. /\ boot' \in BootRecord /\ boot'.pc = "drained"
        /\ boot'.outcome = (IF r THEN "released" ELSE "held")
    BY <1>11 DEF ShutdownReturns, NoBoot, BootRecord, Phases
  <2>2. boot'.outcome = "released" => Free'
    <3>1. boot'.outcome = "released" => r
      BY <2>1
    <3>2. storeOpen' = (storeOpen /\ ~r)
      BY <1>11 DEF ShutdownReturns
    <3> QED BY <3>1, <3>2, Zenon DEF Free
  <2> QED BY <1>11, <2>1, <2>2
          DEF ShutdownReturns, TaskFrame, IInv, SlotFollowsLifecycle, TaskMatchesSlot, StoreAccounted
<1> QED BY <1>2, <1>3, <1>4, <1>5, <1>6, <1>7, <1>8, <1>9, <1>10, <1>11 DEF TaskStep

-----------------------------------------------------------------------------
(* The theorem. *)

\* What the invariant needs of the file and of a process that is not there.
Outside == file \in Contents /\ (up \/ slot = "Idle")

\* The initial states satisfy the invariant.
LEMMA InitKeeps == Init => IInv /\ Outside
<1> SUFFICES ASSUME Init PROVE IInv /\ Outside
  OBVIOUS
<1>1. m = AtRest /\ AtRest \in Lifecycle /\ AtRest.state = "Resolving"
  BY DEF Init, AtRest, Lifecycle, States, Thens
<1>2. boot = NoBoot /\ NoBoot \in BootRecord /\ NoBoot.pc = "none"
  BY DEF Init, NoBoot, BootRecord, Phases
<1>3. slot = "Idle" /\ storeOpen = FALSE /\ file \in Contents
  BY DEF Init
<1> QED BY <1>1, <1>2, <1>3
        DEF IInv, SlotFollowsLifecycle, TaskMatchesSlot, StoreAccounted, Free, Outside

\* A step that leaves the lifecycle, the slot, the boot and the store alone.
LEMMA FrameKeeps ==
    ASSUME IInv, UNCHANGED <<m, slot, boot, storeOpen, leaked>>
    PROVE  IInv'
BY DEF IInv, SlotFollowsLifecycle, TaskMatchesSlot, StoreAccounted, Free

\* A process that is gone, or newly launched, holds nothing.
LEMMA ResetKeeps ==
    ASSUME m' = AtRest, slot' = "Idle", boot' = NoBoot, Free'
    PROVE  IInv'
<1>1. AtRest \in Lifecycle /\ AtRest.state = "Resolving"
  BY DEF AtRest, Lifecycle, States, Thens
<1>2. NoBoot \in BootRecord /\ NoBoot.pc = "none"
  BY DEF NoBoot, BootRecord, Phases
<1> QED BY <1>1, <1>2
        DEF IInv, SlotFollowsLifecycle, TaskMatchesSlot, StoreAccounted
\* The requests and the challenges.
LEMMA RequestKeeps ==
    ASSUME IInv, Requests
    PROVE  IInv' /\ UNCHANGED file /\ up'
<1>1. CASE RequestStart
  <2>1. /\ \E rest : Apply([type |-> "Start"], slot, journal, rest)
        /\ UNCHANGED <<storeOpen, leaked, file>> /\ up'
    BY <1>1 DEF RequestStart, Selecting, HandlerFrame, storeVars, fileVars
  <2> QED BY <2>1, ApplyCommand DEF CommandTypes
<1>2. ASSUME NEW held \in BOOLEAN, RequestStop(held) PROVE IInv' /\ UNCHANGED file /\ up'
  <2>1. /\ \E rest : Apply([type |-> "Stop"], slot, journal, rest)
        /\ UNCHANGED <<storeOpen, leaked, file>> /\ up'
    BY <1>2 DEF RequestStop, Selecting, HandlerFrame, storeVars, fileVars
  <2> QED BY <2>1, ApplyCommand DEF CommandTypes
<1>3. CASE RequestRestart
  BY <1>3, ApplyCommand DEF RequestRestart, Selecting, HandlerFrame, storeVars, fileVars, CommandTypes
<1>4. CASE RequestRetry
  BY <1>4, ApplyCommand DEF RequestRetry, Selecting, HandlerFrame, storeVars, fileVars, CommandTypes
<1>5. ASSUME NEW i \in ExitIntents, RequestExit(i) PROVE IInv' /\ UNCHANGED file /\ up'
  BY <1>5, ApplyCommand DEF RequestExit, Selecting, HandlerFrame, storeVars, fileVars, CommandTypes
<1>6. ASSUME NEW left \in BOOLEAN, NEW now \in BOOLEAN, Reconfigure(left, now)
      PROVE  IInv' /\ UNCHANGED file /\ up'
  <2>1. UNCHANGED <<storeOpen, leaked, file>> /\ up'
    BY <1>6 DEF Reconfigure, Selecting, HandlerFrame, storeVars, fileVars
  <2>2. CASE m.state = "Running"
    <3>1. \E rest : Apply([type |-> "ConfigApplied", pending |-> left], slot, journal, rest)
      BY <1>6, <2>2 DEF Reconfigure
    <3> QED BY <2>1, <3>1, ApplyCommand DEF CommandTypes
  <2>3. CASE m.state # "Running"
    <3>1. Apply([type |-> "ConfigChanged"], slot, journal, <<>>)
      BY <1>6, <2>3 DEF Reconfigure
    <3> QED BY <2>1, <3>1, ApplyCommand DEF CommandTypes
  <2> QED BY <2>2, <2>3
<1>7. CASE Prepare
  BY <1>7, FrameKeeps DEF Prepare, storeVars, fileVars
<1>8. ASSUME NEW c \in book, Withdraw(c) \/ Execute(c) PROVE IInv' /\ UNCHANGED file /\ up'
  BY <1>8, FrameKeeps DEF Withdraw, Execute, storeVars, fileVars
<1> QED BY <1>1, <1>2, <1>3, <1>4, <1>5, <1>6, <1>7, <1>8 DEF Requests

\* The steps of the loop.
LEMMA LoopKeeps ==
    ASSUME IInv, LoopStep
    PROVE  IInv' /\ UNCHANGED file /\ (up' \/ slot' = "Idle")
<1>1. CASE FirstEvent
  <2>1. /\ \/ Apply([type |-> "Start"], slot, journal, <<>>)
           \/ Apply([type |-> "HeldAtStartup"], slot, journal, <<>>)
        /\ UNCHANGED <<storeOpen, leaked, file>> /\ up'
    BY <1>1 DEF FirstEvent, HandlerFrame, storeVars, fileVars
  <2> QED BY <2>1, ApplyCommand DEF CommandTypes
<1>2. CASE AfterTransition \/ WriteHold \/ QueueStop
  BY <1>2, FrameKeeps DEF AfterTransition, WriteHold, QueueStop, storeVars, fileVars
<1>3. CASE RestartForConfig
  BY <1>3, ApplyCommand DEF RestartForConfig, Selecting, HandlerFrame, storeVars, fileVars, CommandTypes
<1>4. CASE OnProgress
  BY <1>4, ApplyCommand DEF OnProgress, Selecting, HandlerFrame, storeVars, fileVars, CommandTypes
<1>5. CASE OnBootDone
  BY <1>5, BootDoneKeeps DEF OnBootDone, Selecting, HandlerFrame, fileVars
<1>6. CASE Resettle
  <2>1. UNCHANGED <<storeOpen, leaked, file>> /\ up'
    BY <1>6 DEF Resettle, Selecting, HandlerFrame, storeVars, fileVars
  <2>2. \/ Apply([type |-> "ConfigChanged"], slot, journal, <<>>)
        \/ UNCHANGED <<m, slot, boot>>
    BY <1>6 DEF Resettle
  <2> QED BY <2>1, <2>2, ApplyCommand, FrameKeeps DEF CommandTypes
<1>7. CASE OnRetryDue
  BY <1>7, ApplyCommand DEF OnRetryDue, Selecting, storeVars, fileVars, CommandTypes
<1>8. CASE OnDeclared
  BY <1>8, ApplyCommand DEF OnDeclared, Selecting, HandlerFrame, storeVars, fileVars, CommandTypes
<1>9. ASSUME NEW r \in BOOLEAN, OnDrained(r) PROVE IInv' /\ UNCHANGED file /\ (up' \/ slot' = "Idle")
  BY <1>9, DrainedKeeps DEF OnDrained, Selecting, HandlerFrame, fileVars
<1>10. ASSUME NEW c \in inflight, NEW moved \in BOOLEAN, Reinitialize(c, moved)
       PROVE  IInv' /\ UNCHANGED file /\ (up' \/ slot' = "Idle")
  BY <1>10, FrameKeeps DEF Reinitialize, Selecting, fileVars
<1>11. CASE Finish
  BY <1>11, ResetKeeps DEF Finish, Gone, Free
<1> QED BY <1>1, <1>2, <1>3, <1>4, <1>5, <1>6, <1>7, <1>8, <1>9, <1>10, <1>11 DEF LoopStep

\* Every step keeps the invariant.
LEMMA NextKeeps ==
    ASSUME IInv, Outside, [Next]_vars
    PROVE  IInv' /\ Outside'
<1>1. CASE Launch
  <2>1. Free'
    BY <1>1 DEF Launch, storeVars, Free, Outside, IInv, StoreAccounted
  <2> QED BY <1>1, <2>1, ResetKeeps DEF Launch, Outside
<1>2. CASE Crash
  BY <1>2, ResetKeeps DEF Crash, Gone, Free, Outside
<1>3. CASE Requests
  BY <1>3, RequestKeeps DEF Outside
<1>4. CASE LoopStep
  BY <1>4, LoopKeeps DEF Outside
<1>5. CASE TaskStep
  <2>1. UNCHANGED <<file, up, slot>>
    BY <1>5 DEF TaskStep, TaskFrame, fileVars, BootCancelled, BootDigest, BootResolve,
       BootOpenStore, BootFailsInOpen, BootFailsEarly, BootFailsOpen, BootSucceeds,
       BootPanics, ShutdownReturns
  <2> QED BY <1>5, <2>1, TaskKeeps DEF Outside
<1>6. CASE LeakDrains
  <2>1. UNCHANGED <<m, slot, boot, file, up>> /\ Free'
    BY <1>6 DEF LeakDrains, TaskFrame, fileVars, Free
  <2> QED BY <2>1 DEF IInv, SlotFollowsLifecycle, TaskMatchesSlot, StoreAccounted, Outside
<1>7. ASSUME NEW c \in Contents, EditFile(c) PROVE IInv' /\ Outside'
  BY <1>7, FrameKeeps DEF EditFile, procVars, storeVars, Outside
<1>8. CASE Notify
  BY <1>8, FrameKeeps DEF Notify, storeVars, Outside
<1>9. CASE UNCHANGED vars
  BY <1>9, FrameKeeps DEF vars, procVars, storeVars, fileVars, Outside
<1> QED BY <1>1, <1>2, <1>3, <1>4, <1>5, <1>6, <1>7, <1>8, <1>9 DEF Next

\* In every behaviour, whatever the bounds, the slot the supervisor keeps is
\* the one the machine's state asks for: perform's two error! branches and
\* start_boot's refusal are dead code.
THEOREM SlotFollowsLifecycleAlways == Spec => []SlotFollowsLifecycle
<1>1. Init => IInv /\ Outside
  BY InitKeeps
<1>2. IInv /\ Outside /\ [Next]_vars => (IInv /\ Outside)'
  BY NextKeeps
<1>3. IInv => SlotFollowsLifecycle
  BY DEF IInv
<1> QED BY <1>1, <1>2, <1>3, PTL DEF Spec

\* In every behaviour, whatever the bounds, a resting lifecycle holds no store
\* but one that open_store opened and dropped: every other way a boot or a
\* drain ends without releasing the store leads to Wedged.
THEOREM StoreReleasedAtRestAlways == Spec => []StoreReleasedAtRestUnlessLeaked
<1>1. Init => IInv /\ Outside
  BY InitKeeps
<1>2. IInv /\ Outside /\ [Next]_vars => (IInv /\ Outside)'
  BY NextKeeps
<1>3. IInv => StoreReleasedAtRestUnlessLeaked
  BY DEF IInv, StoreReleasedAtRestUnlessLeaked, SlotFollowsLifecycle, StoreAccounted, Free
<1> QED BY <1>1, <1>2, <1>3, PTL DEF Spec

-----------------------------------------------------------------------------
(* Challenges.  A re-initialization runs only under a challenge that no     *)
(* boot has been started since: the epoch grows whenever a process comes    *)
(* back to rest from a boot, so an epoch names one rest of one process.     *)

\* What a step of the machine may do to the counters: the epoch never falls,
\* nothing returns to Resolving, and a lifecycle at rest in the epoch it was
\* in already was at rest, with as many boots behind it.
Counted(n, k) ==
    /\ k.epoch \in Nat /\ n.epoch <= k.epoch
    /\ k.state = "Resolving" => n.state = "Resolving"
    /\ Resting(k.state) /\ k.epoch = n.epoch =>
         k.attempts = n.attempts /\ (Resting(n.state) \/ n.state = "Resolving")

\* Every challenge was issued in this epoch or an earlier one, and the ones
\* of this epoch, while it is a rest, count the boots there have been.
Challenges ==
    /\ snap.epoch \in Nat /\ snap.epoch <= m.epoch
    /\ m.state = "Resolving" => book = {} /\ inflight = {} /\ ~Resting(snap.state)
    /\ \A c \in book \cup inflight :
         /\ c.epoch \in Nat /\ c.epoch <= m.epoch
         /\ Resting(m.state) /\ c.epoch = m.epoch => c.boots = m.attempts

\* The fields of a lifecycle after each of the machine's transitions.
LEMMA MoveCounts ==
    ASSUME NEW n \in Lifecycle, NEW s, NEW then, NEW retry
    PROVE  /\ Move(n, s, then, retry).state = s
           /\ Move(n, s, then, retry).epoch = n.epoch
           /\ Move(n, s, then, retry).attempts = n.attempts
           /\ Fail(n, retry).state = "Failed" /\ Fail(n, retry).epoch = n.epoch + 1
           /\ BeginBoot(n).state = "Booting" /\ BeginBoot(n).epoch = n.epoch
BY DEF Move, Fail, BeginBoot, Lifecycle

\* The drain's outcome counts the epoch wherever it leads back to rest.
LEMMA SettleCounts ==
    ASSUME NEW n \in Lifecycle, n.state = "Draining", NEW r
    PROVE  Counted(n, Settle(n, r).m)
<1>1. PICK after \in Lifecycle : after = [n EXCEPT !.epoch = @ + 1]
  BY CountType
<1>2. n.epoch \in Nat /\ after.epoch = n.epoch + 1
  BY <1>1 DEF Lifecycle
<1>3. \/ Settle(n, r).m = ExitWith(n, n.then)
      \/ Settle(n, r).m = Wedge(n)
      \/ Settle(n, r).m = Rest(after)
      \/ Settle(n, r).m = BeginBoot(after)
  BY <1>1 DEF Settle, Did
<1>4. CASE Settle(n, r).m = ExitWith(n, n.then)
  BY <1>2, <1>4, MoveCounts DEF ExitWith, Counted, Resting
<1>5. CASE Settle(n, r).m = Wedge(n)
  BY <1>2, <1>5, MoveCounts DEF Wedge, Counted, Resting
<1>6. CASE Settle(n, r).m = Rest(after)
  BY <1>2, <1>6, MoveCounts DEF Rest, Counted, Resting
<1>7. CASE Settle(n, r).m = BeginBoot(after)
  BY <1>2, <1>7, MoveCounts DEF Counted, Resting
<1> QED BY <1>3, <1>4, <1>5, <1>6, <1>7

\* Every event, from every lifecycle, counts.
LEMMA StepCounts ==
    ASSUME NEW n \in Lifecycle, NEW e
    PROVE  Counted(n, Step(n, e).m)
<1>0. n.epoch \in Nat
  BY DEF Lifecycle
<1>1. CASE Starting(n, e).ok
  <2>1. \/ Starting(n, e).m = BeginBoot(n)
        \/ Starting(n, e).m = Rest(n) /\ n.state = "Resolving"
    BY <1>1 DEF Starting, Refused, Did
  <2>2. Step(n, e).m = Starting(n, e).m
    BY <1>1 DEF Step
  <2> QED BY <1>0, <2>1, <2>2, MoveCounts DEF Rest, Counted, Resting
<1>2. CASE ~Starting(n, e).ok /\ Booting(n, e).ok
  <2> DEFINE noted == [n EXCEPT !.pending = e.pending]
  <2>0. noted.state = n.state /\ noted.epoch = n.epoch /\ noted.attempts = n.attempts
    BY DEF Lifecycle
  <2>1. \/ Booting(n, e).m = n
        \/ Booting(n, e).m = noted
        \/ Booting(n, e).m = Move(n, "Running", "None", "None")
        \/ Booting(n, e).m = Fail(n, e.class)
        \/ Booting(n, e).m = Wedge(n)
    BY <1>2 DEF Booting, Refused, Did
  <2>2. Step(n, e).m = Booting(n, e).m
    BY <1>2 DEF Step
  <2> HIDE DEF noted
  <2>3. CASE Booting(n, e).m = n \/ Booting(n, e).m = noted
    BY <1>0, <2>0, <2>2, <2>3 DEF Counted, Resting
  <2>4. CASE \/ Booting(n, e).m = Move(n, "Running", "None", "None")
             \/ Booting(n, e).m = Wedge(n)
    BY <1>0, <2>2, <2>4, MoveCounts DEF Wedge, Counted, Resting
  <2>5. CASE Booting(n, e).m = Fail(n, e.class)
    BY <1>0, <2>2, <2>5, MoveCounts DEF Counted, Resting
  <2> QED BY <2>1, <2>3, <2>4, <2>5
<1>3. CASE ~Starting(n, e).ok /\ ~Booting(n, e).ok
  <2> DEFINE bound == [n EXCEPT !.then = e.intent]
  <2>0. bound.state = n.state /\ bound.epoch = n.epoch /\ bound.attempts = n.attempts
    BY DEF Lifecycle
  <2>1. \/ Stopping(n, e).m = Move(n, "Draining", DrainFor(e), "None")
        \/ Stopping(n, e).m = Rest(n) /\ n.state = "Failed"
        \/ Stopping(n, e).m = n
        \/ Stopping(n, e).m = bound
        \/ Stopping(n, e).m = ExitWith(n, e.intent)
        \/ Stopping(n, e).m = Settle(n, e.released).m /\ n.state = "Draining"
    BY DEF Stopping, Refused, Did
  <2>2. Step(n, e).m = Stopping(n, e).m
    BY <1>3 DEF Step
  <2> HIDE DEF bound
  <2>3. CASE Stopping(n, e).m = n \/ Stopping(n, e).m = bound
    BY <1>0, <2>0, <2>2, <2>3 DEF Counted, Resting
  <2>4. CASE \/ Stopping(n, e).m = Move(n, "Draining", DrainFor(e), "None")
             \/ Stopping(n, e).m = ExitWith(n, e.intent)
    BY <1>0, <2>2, <2>4, MoveCounts DEF ExitWith, Counted, Resting
  <2>5. CASE Stopping(n, e).m = Rest(n) /\ n.state = "Failed"
    BY <1>0, <2>2, <2>5, MoveCounts DEF Rest, Counted, Resting
  <2>6. CASE Stopping(n, e).m = Settle(n, e.released).m /\ n.state = "Draining"
    BY <2>2, <2>6, SettleCounts
  <2> QED BY <2>1, <2>3, <2>4, <2>5, <2>6
<1> QED BY <1>1, <1>2, <1>3

\* What a step leaves of the challenges, the snapshot and the data directory:
\* a process that ended or starts has none; the machine moves and they stay;
\* the snapshot is published; a challenge is issued, or moved or dropped; only
\* a re-initialization takes the data away.
Wiped == /\ m' = AtRest /\ book' = {} /\ inflight' = {} /\ UNCHANGED data
         /\ snap'.epoch = 0 /\ ~Resting(snap'.state)
Stepped == /\ m' = m \/ \E e : m' = Step(m, e).m
           /\ UNCHANGED <<book, inflight, snap>> /\ (UNCHANGED data \/ data')
Published == /\ UNCHANGED <<m, book, inflight, data>>
             /\ snap'.state = m.state /\ snap'.epoch = m.epoch
Issued == /\ UNCHANGED <<m, inflight, snap, data>> /\ Resting(snap.state)
          /\ \E c : book' = book \cup {c} /\ c.epoch = snap.epoch /\ c.boots = m.attempts
Handled == /\ UNCHANGED <<m, snap>> /\ book' \cup inflight' \subseteq book \cup inflight
           /\ \/ UNCHANGED data
              \/ \E c \in inflight : /\ c \notin inflight'
                                     /\ data /\ ~data' => RestingIn(c)

\* Every step is one of these.
LEMMA ChallengeSteps ==
    ASSUME [Next]_vars
    PROVE  Wiped \/ Stepped \/ Published \/ Issued \/ Handled
<1>1. CASE Launch \/ Crash \/ Finish
  BY <1>1 DEF Launch, Crash, Finish, Gone, Wiped, storeVars, Resting
<1>2. CASE RequestStart \/ RequestRestart \/ RequestRetry \/ FirstEvent \/ RestartForConfig
           \/ OnProgress \/ OnDeclared \/ OnBootDone
  BY <1>2 DEF RequestStart, RequestRestart, RequestRetry, FirstEvent, RestartForConfig,
     OnProgress, OnDeclared, OnBootDone, Apply, HandlerFrame, storeVars, Stepped
<1>3. ASSUME NEW held, RequestStop(held) PROVE Stepped
  BY <1>3 DEF RequestStop, Apply, HandlerFrame, storeVars, Stepped
<1>4. ASSUME NEW i, RequestExit(i) PROVE Stepped
  BY <1>4 DEF RequestExit, Apply, HandlerFrame, storeVars, Stepped
<1>5. ASSUME NEW left, NEW now, Reconfigure(left, now) PROVE Stepped
  BY <1>5 DEF Reconfigure, Apply, HandlerFrame, storeVars, Stepped
<1>6. ASSUME NEW r, OnDrained(r) PROVE Stepped
  BY <1>6 DEF OnDrained, Apply, HandlerFrame, storeVars, Stepped
<1>7. CASE OnRetryDue \/ Resettle
  BY <1>7 DEF OnRetryDue, Resettle, Apply, HandlerFrame, storeVars, Stepped
<1>8. CASE WriteHold \/ QueueStop \/ Notify \/ LeakDrains \/ UNCHANGED vars
  BY <1>8 DEF WriteHold, QueueStop, Notify, LeakDrains, TaskFrame, storeVars, procVars, vars, Stepped
<1>9. ASSUME NEW c, EditFile(c) PROVE Stepped
  BY <1>9 DEF EditFile, storeVars, procVars, Stepped
<1>10. CASE TaskStep
  <2>1. TaskFrame
    BY <1>10 DEF TaskStep, BootCancelled, BootDigest, BootResolve, BootOpenStore, BootFailsInOpen,
       BootFailsEarly, BootFailsOpen, BootSucceeds, BootPanics, ShutdownReturns
  <2>2. UNCHANGED data \/ data'
    BY <1>10 DEF TaskStep, BootCancelled, BootDigest, BootResolve, BootOpenStore, BootFailsInOpen,
       BootFailsEarly, BootFailsOpen, BootSucceeds, BootPanics, ShutdownReturns, storeVars
  <2> QED BY <2>1, <2>2 DEF TaskFrame, Stepped
<1>11. CASE AfterTransition
  BY <1>11 DEF AfterTransition, storeVars, Published
<1>12. CASE Prepare
  <2> DEFINE new == [epoch |-> snap.epoch, boots |-> m.attempts]
  <2>1. new.epoch = snap.epoch /\ new.boots = m.attempts
    OBVIOUS
  <2>2. book' = book \cup {new} /\ Resting(snap.state) /\ UNCHANGED <<m, inflight, snap, data>>
    BY <1>12 DEF Prepare, storeVars
  <2> HIDE DEF new
  <2> QED BY <2>1, <2>2 DEF Issued
<1>13. ASSUME NEW c \in book, Withdraw(c) \/ Execute(c) PROVE Handled
  BY <1>13 DEF Withdraw, Execute, storeVars, Handled
<1>14. ASSUME NEW c \in inflight, NEW moved \in BOOLEAN, Reinitialize(c, moved) PROVE Handled
  <2>1. /\ UNCHANGED <<m, snap, book>> /\ inflight' = inflight \ {c}
        /\ data' = (data /\ ~(RestingIn(c) /\ moved))
    BY <1>14 DEF Reinitialize
  <2>2. data /\ ~data' => RestingIn(c)
    BY <2>1, Zenon
  <2>3. book' \cup inflight' \subseteq book \cup inflight /\ c \notin inflight'
    BY <2>1
  <2> QED BY <2>1, <2>2, <2>3 DEF Handled
<1> QED BY <1>1, <1>2, <1>3, <1>4, <1>5, <1>6, <1>7, <1>8, <1>9, <1>10, <1>11, <1>12, <1>13, <1>14
        DEF Next, Requests, LoopStep

\* Every step keeps the challenges in their epochs.
LEMMA ChallengesKept ==
    ASSUME m \in Lifecycle, Challenges, [Next]_vars
    PROVE  Challenges'
<1>0. m.epoch \in Nat
  BY DEF Lifecycle
<1>1. CASE Wiped
  BY <1>1 DEF Wiped, Challenges, AtRest
<1>2. CASE Stepped
  <2>1. Counted(m, m')
    <3>1. CASE m' = m
      BY <1>0, <3>1 DEF Counted
    <3> QED BY <1>2, <3>1, StepCounts DEF Stepped
  <2>2. UNCHANGED <<book, inflight, snap>>
    BY <1>2 DEF Stepped
  <2>3. ASSUME NEW c \in book \cup inflight
        PROVE  /\ c.epoch \in Nat /\ c.epoch <= m'.epoch
               /\ Resting(m'.state) /\ c.epoch = m'.epoch => c.boots = m'.attempts
    <3>1. c.epoch \in Nat /\ c.epoch <= m.epoch /\ m.state # "Resolving"
      BY DEF Challenges
    <3>2. Resting(m.state) /\ c.epoch = m.epoch => c.boots = m.attempts
      BY DEF Challenges
    <3>3. \A x, y, z \in Nat : x <= y /\ y <= z => x <= z /\ (x = z => y = z /\ x = y)
      OBVIOUS
    <3>4. m.epoch <= m'.epoch /\ m'.epoch \in Nat
      BY <2>1 DEF Counted
    <3>5. c.epoch <= m'.epoch /\ (c.epoch = m'.epoch => m'.epoch = m.epoch /\ c.epoch = m.epoch)
      BY <1>0, <3>1, <3>3, <3>4
    <3> QED BY <2>1, <3>1, <3>2, <3>5 DEF Counted
  <2>4. snap.epoch \in Nat /\ snap.epoch <= m'.epoch
    BY <1>0, <2>1 DEF Challenges, Counted
  <2> QED BY <2>1, <2>2, <2>3, <2>4 DEF Challenges, Counted
<1>3. CASE Published
  BY <1>0, <1>3 DEF Published, Challenges, Resting
<1>4. CASE Issued
  BY <1>0, <1>4 DEF Issued, Challenges
<1>5. CASE Handled
  BY <1>5 DEF Handled, Challenges
<1> QED BY <1>1, <1>2, <1>3, <1>4, <1>5, ChallengeSteps

\* A step that takes the data away does it at rest, under a challenge of this
\* very rest.
LEMMA MovedAtRest ==
    ASSUME Challenges, [Next]_vars, data, ~data'
    PROVE  /\ ~storeOpen /\ slot = "Idle"
           /\ \E c \in inflight \ inflight' : c.boots = m.attempts
<1>1. PICK c \in inflight : c \notin inflight' /\ RestingIn(c)
  BY ChallengeSteps DEF Wiped, Stepped, Published, Issued, Handled
<1>2. c.boots = m.attempts
  BY <1>1 DEF Challenges, RestingIn
<1> QED BY <1>1, <1>2 DEF RestingIn

\* In every behaviour, whatever the bounds, the data directory is moved aside
\* only with nothing in the slot, the store closed, and under a challenge that
\* no boot has been started since: reinit's resting_in compares the epoch, and
\* the machine counts it on every return to rest.
THEOREM NeverMovedAlways == Spec => NeverMovedUnderARuntime
<1>1. Init => IInv /\ Outside /\ Challenges
  BY InitKeeps DEF Init, Challenges, AtRest, Resting
<1>2. IInv /\ Outside /\ Challenges /\ [Next]_vars => (IInv /\ Outside /\ Challenges)'
  BY NextKeeps, ChallengesKept DEF IInv
<1>3. Challenges /\ [Next]_vars =>
        [data /\ ~data' => /\ ~storeOpen /\ slot = "Idle"
                           /\ \E c \in inflight \ inflight' : c.boots = m.attempts]_vars
  BY MovedAtRest
<1> QED BY <1>1, <1>2, <1>3, PTL DEF Spec, NeverMovedUnderARuntime

-----------------------------------------------------------------------------
(* The declared file.  A failure is settled against the file before the     *)
(* loop selects again, and only a boot's failure leads to Failed.           *)

\* What the handlers leave to do.
Todo == {"run", "after", "set", "clear", "push", "pushHeld", "resettle", "restart"}

\* after_transition is due.
Due == todo # <<>> /\ Head(todo) = "after"

\* A handler still owes the steps `rest`, before or after after_transition.
Owed(rest) == todo = rest \/ (Due /\ Tail(todo) = rest)

\* The rest of the handler of a failed boot.
Settling == Owed(<<"resettle">>)

\* A step put in front of others.
LEMMA Prepend ==
    ASSUME NEW S, NEW x \in S, NEW t \in Seq(S)
    PROVE  /\ <<x>> \o t \in Seq(S) /\ <<x>> \o t # <<>>
           /\ Head(<<x>> \o t) = x /\ Tail(<<x>> \o t) = t
<1>1. <<x>> \in Seq(S) /\ Len(<<x>>) = 1 /\ Len(t) \in Nat
  BY LenProperties
<1> DEFINE u == <<x>> \o t
<1>2. /\ u \in Seq(S) /\ Len(u) = Len(t) + 1
      /\ \A i \in 1..Len(u) : u[i] = (IF i <= 1 THEN <<x>>[i] ELSE t[i - 1])
  BY <1>1, ConcatProperties
<1> HIDE DEF u
<1>3. u # <<>> /\ Head(u) = x
  BY <1>1, <1>2
<1>4. Tail(u) \in Seq(S) /\ Len(Tail(u)) = Len(t) /\ \A i \in 1..Len(t) : Tail(u)[i] = u[i + 1]
  BY <1>1, <1>2, <1>3, HeadTailProperties
<1>5. \A i \in 1..Len(t) : Tail(u)[i] = t[i]
  BY <1>1, <1>2, <1>4
<1>6. Tail(u) = t
  BY <1>4, <1>5, SeqEqual
<1> QED BY <1>2, <1>3, <1>6 DEF u

\* A failed boot read the file as it is, or is about to compare, or a change
\* is on its way.
Saw ==
    /\ changes \in Nat /\ unnotified \in Nat
    /\ up /\ m.state = "Failed" /\ changes = 0 /\ unnotified = 0 /\ CanBoot =>
         boot.digest = file \/ Settling

\* Into Failed only by a failed boot, and within it only by a refusal.
LEMMA StepFailed ==
    ASSUME NEW n \in Lifecycle, NEW e, Step(n, e).m.state = "Failed"
    PROVE  \/ n.state = "Failed" /\ Step(n, e) = Refused(n) /\ e.type # "ConfigChanged"
           \/ n.state = "Booting" /\ e.type \in {"BootFailed", "Phase"} /\ Step(n, e).ok
<1>1. CASE n.state = "Failed"
  <2>1. Booting(n, e) = Refused(n)
    BY <1>1 DEF Booting
  <2>2. CASE Starting(n, e).ok
    <3>1. Starting(n, e) = Did(BeginBoot(n), "StartBoot")
      BY <1>1, <2>2 DEF Starting, Refused
    <3> QED BY <2>2, <3>1, MoveFacts, DidFacts DEF Step
  <2>3. CASE ~Starting(n, e).ok
    <3>1. Step(n, e) = Stopping(n, e)
      BY <2>1, <2>3 DEF Step, Refused
    <3>2. e.type # "ConfigChanged"
      BY <1>1, <2>3 DEF Starting, Did
    <3>3. \/ Stopping(n, e).m = Rest(n) \/ Stopping(n, e).m = ExitWith(n, e.intent)
          \/ Stopping(n, e) = Refused(n)
      BY <1>1 DEF Stopping, Did
    <3> QED BY <1>1, <3>1, <3>2, <3>3, MoveCounts DEF Rest, ExitWith
  <2> QED BY <2>2, <2>3
<1>2. CASE n.state # "Failed"
  <2>1. CASE Starting(n, e).ok
    <3>1. Starting(n, e).m = BeginBoot(n) \/ Starting(n, e).m = Rest(n)
      BY <2>1 DEF Starting, Refused, Did
    <3> QED BY <2>1, <3>1, MoveFacts DEF Step
  <2>2. CASE ~Starting(n, e).ok /\ Booting(n, e).ok
    <3> DEFINE noted == [n EXCEPT !.pending = e.pending]
    <3>0. noted.state = n.state
      BY DEF Lifecycle
    <3>1. \/ Booting(n, e).m = n \/ Booting(n, e).m = noted
          \/ Booting(n, e).m = Move(n, "Running", "None", "None") \/ Booting(n, e).m = Wedge(n)
          \/ n.state = "Booting" /\ e.type = "BootFailed"
      BY <2>2 DEF Booting, Refused, Did
    <3>2. Step(n, e) = Booting(n, e)
      BY <2>2 DEF Step
    <3> HIDE DEF noted
    <3> QED BY <1>2, <2>2, <3>0, <3>1, <3>2, MoveCounts DEF Wedge
  <2>3. CASE ~Starting(n, e).ok /\ ~Booting(n, e).ok
    <3> DEFINE bound == [n EXCEPT !.then = e.intent]
    <3>0. bound.state = n.state
      BY DEF Lifecycle
    <3>1. \/ Stopping(n, e).m = Move(n, "Draining", DrainFor(e), "None")
          \/ Stopping(n, e).m = n
          \/ Stopping(n, e).m = bound
          \/ Stopping(n, e).m = ExitWith(n, e.intent)
          \/ Stopping(n, e).m = Settle(n, e.released).m
      BY <1>2 DEF Stopping, Refused, Did
    <3>2. Step(n, e).m = Stopping(n, e).m
      BY <2>3 DEF Step
    <3> HIDE DEF bound
    <3>3. Settle(n, e.released).m.state # "Failed"
      <4>1. PICK after \in Lifecycle : after = [n EXCEPT !.epoch = @ + 1]
        BY CountType
      <4>2. \/ Settle(n, e.released).m = ExitWith(n, n.then)
            \/ Settle(n, e.released).m = Wedge(n)
            \/ Settle(n, e.released).m = Rest(after)
            \/ Settle(n, e.released).m = BeginBoot(after)
        BY <4>1 DEF Settle, Did
      <4> QED BY <4>2, MoveCounts DEF ExitWith, Wedge, Rest
    <3> QED BY <1>2, <3>0, <3>1, <3>2, <3>3, MoveCounts DEF ExitWith
  <2> QED BY <2>1, <2>2, <2>3
<1> QED BY <1>1, <1>2

\* A handler of an event other than a boot's outcome that leaves the lifecycle
\* failed found it failed, and keeps what the boot had read.
LEMMA FailedStays ==
    ASSUME IInv, NEW e, NEW rest, e.type \in CommandTypes \ {"Phase"},
           Apply(e, slot, journal, rest), m'.state = "Failed"
    PROVE  /\ m.state = "Failed" /\ m' = m /\ boot'.digest = boot.digest
           /\ e.type # "ConfigChanged"
<1>1. m.state = "Failed" /\ Step(m, e) = Refused(m) /\ e.type # "ConfigChanged"
  <2>1. m \in Lifecycle /\ Step(m, e).m.state = "Failed" /\ e.type # "BootFailed" /\ e.type # "Phase"
    BY DEF IInv, Apply, CommandTypes
  <2> QED BY <2>1, StepFailed
<1>2. slot = "Idle" /\ boot \in BootRecord
  BY <1>1 DEF IInv, SlotFollowsLifecycle
<1>3. m' = m /\ boot' = BootAfter("None", "Idle")
  BY <1>1, <1>2, DidFacts DEF Apply, Perform
<1>4. BootAfter("None", "Idle").digest = boot.digest
  BY DEF BootAfter, NoBoot
<1> QED BY <1>1, <1>3, <1>4

\* Such a handler keeps Saw when it is not settling a failure.
LEMMA SawHandled ==
    ASSUME IInv, Saw, up, ~Settling, UNCHANGED <<file, unnotified, changes>>,
           \E e, rest : e.type \in CommandTypes \ {"Phase"} /\ Apply(e, slot, journal, rest)
    PROVE  Saw'
<1>1. CASE m'.state = "Failed"
  <2>1. m.state = "Failed" /\ m' = m /\ boot'.digest = boot.digest
    BY <1>1, FailedStays
  <2> QED BY <2>1 DEF Saw, CanBoot
<1>2. CASE m'.state # "Failed"
  BY <1>2 DEF Saw
<1> QED BY <1>1, <1>2

\* And so does a change of the file, settling or not.
LEMMA SawChanged ==
    ASSUME IInv, Saw, UNCHANGED unnotified, changes' \in Nat,
           Apply([type |-> "ConfigChanged"], slot, journal, <<>>)
    PROVE  Saw'
<1>1. m'.state # "Failed"
  BY FailedStays DEF CommandTypes
<1> QED BY <1>1 DEF Saw

\* A boot that ended in a failure leaves it to be settled.
LEMMA SawBootDone ==
    ASSUME IInv, Saw, OnBootDone
    PROVE  Saw'
<1>1. m \in Lifecycle /\ slot = "Booting" /\ m' = Step(m, BootEvent(boot)).m
  BY DEF IInv, OnBootDone, Apply
<1>2. ASSUME m'.state = "Failed" PROVE Settling'
  <2>1. m.state # "Failed"
    BY <1>1 DEF IInv, SlotFollowsLifecycle
  <2>2. Step(m, BootEvent(boot)).ok
    BY <1>1, <1>2, <2>1, StepFailed
  <2>3. todo' = <<"after">> \o <<"resettle">>
    BY <1>1, <1>2, <2>2 DEF OnBootDone, Apply
  <2>4. "after" \in Todo /\ <<"resettle">> \in Seq(Todo)
    BY DEF Todo
  <2> QED BY <2>3, <2>4, Prepend, ZenonT(30) DEF Settling, Owed, Due
<1> QED BY <1>2 DEF Saw, OnBootDone, HandlerFrame, fileVars

\* Steps that leave the lifecycle, the boot and the file alone.
LEMMA SawFrame ==
    ASSUME Saw, up' = up, UNCHANGED <<m, file, changes, unnotified>>,
           m.state = "Failed" => boot'.digest = boot.digest, Settling => Settling'
    PROVE  Saw'
BY DEF Saw, CanBoot

\* Every step keeps it.
LEMMA SawKept ==
    ASSUME IInv, Saw, [Next]_vars
    PROVE  Saw'
<1>1. CASE Launch \/ Crash \/ Finish
  BY <1>1 DEF Launch, Crash, Finish, Gone, Saw, AtRest
<1>2. CASE RequestStart
  <2>1. \E e, rest : e.type = "Start" /\ Apply(e, slot, journal, rest)
    <3>1. \E rest : Apply([type |-> "Start"], slot, journal, rest)
      BY <1>2 DEF RequestStart
    <3> QED BY <3>1
  <2>2. up /\ ~Settling /\ UNCHANGED <<file, unnotified, changes>>
    BY <1>2 DEF RequestStart, Selecting, HandlerFrame, fileVars, Settling, Owed, Due
  <2> QED BY <2>1, <2>2, SawHandled DEF CommandTypes
<1>3. ASSUME NEW held, RequestStop(held) PROVE Saw'
  <2>1. \E e, rest : e.type = "Stop" /\ Apply(e, slot, journal, rest)
    <3>1. \E rest : Apply([type |-> "Stop"], slot, journal, rest)
      BY <1>3 DEF RequestStop
    <3> QED BY <3>1
  <2>2. up /\ ~Settling /\ UNCHANGED <<file, unnotified, changes>>
    BY <1>3 DEF RequestStop, Selecting, HandlerFrame, fileVars, Settling, Owed, Due
  <2> QED BY <2>1, <2>2, SawHandled DEF CommandTypes
<1>4. CASE RequestRestart \/ RequestRetry
  <2>1. \E e : e.type \in {"Restart", "Retry"} /\ Apply(e, slot, journal, <<>>)
    BY <1>4 DEF RequestRestart, RequestRetry
  <2>2. up /\ ~Settling /\ UNCHANGED <<file, unnotified, changes>>
    BY <1>4 DEF RequestRestart, RequestRetry, Selecting, HandlerFrame, fileVars, Settling, Owed, Due
  <2> QED BY <2>1, <2>2, SawHandled DEF CommandTypes
<1>5. ASSUME NEW i, RequestExit(i) PROVE Saw'
  <2>1. \E e : e.type = "Exit" /\ Apply(e, slot, journal, <<>>)
    BY <1>5 DEF RequestExit
  <2>2. up /\ ~Settling /\ UNCHANGED <<file, unnotified, changes>>
    BY <1>5 DEF RequestExit, Selecting, HandlerFrame, fileVars, Settling, Owed, Due
  <2> QED BY <2>1, <2>2, SawHandled DEF CommandTypes
<1>6. ASSUME NEW left, NEW now, Reconfigure(left, now) PROVE Saw'
  <2>1. \E e, rest : e.type \in {"ConfigApplied", "ConfigChanged"} /\ Apply(e, slot, journal, rest)
    <3>1. CASE m.state = "Running"
      <4>1. \E rest : Apply([type |-> "ConfigApplied", pending |-> left], slot, journal, rest)
        BY <1>6, <3>1 DEF Reconfigure
      <4> QED BY <4>1
    <3>2. CASE m.state # "Running"
      <4>1. Apply([type |-> "ConfigChanged"], slot, journal, <<>>)
        BY <1>6, <3>2 DEF Reconfigure
      <4> QED BY <4>1
    <3> QED BY <3>1, <3>2
  <2>2. up /\ ~Settling /\ UNCHANGED <<file, unnotified, changes>>
    BY <1>6 DEF Reconfigure, Selecting, HandlerFrame, fileVars, Settling, Owed, Due
  <2> QED BY <2>1, <2>2, SawHandled DEF CommandTypes
<1>7. CASE FirstEvent \/ RestartForConfig
  <2>1. \E e : e.type \in {"Start", "HeldAtStartup", "Restart"} /\ Apply(e, slot, journal, <<>>)
    BY <1>7 DEF FirstEvent, RestartForConfig
  <2>2. /\ <<"run">> # <<"resettle">> /\ Head(<<"run">>) # "after"
        /\ <<"restart">> # <<"resettle">> /\ Head(<<"restart">>) # "after"
    OBVIOUS
  <2>3. up /\ ~Settling /\ UNCHANGED <<file, unnotified, changes>>
    BY <1>7, <2>2 DEF FirstEvent, RestartForConfig, HandlerFrame, fileVars, Settling, Owed, Due
  <2> QED BY <2>1, <2>3, SawHandled DEF CommandTypes
<1>8. CASE OnProgress
  <2>1. m'.state # "Failed"
    <3>1. m.state \in {"Booting", "Draining"} /\ m \in Lifecycle
      BY <1>8 DEF OnProgress, IInv, SlotFollowsLifecycle, Lifecycle, States
    <3>2. m' = Step(m, [type |-> "Phase"]).m
      BY <1>8 DEF OnProgress, Apply
    <3> QED BY <3>1, <3>2, StepCommand DEF CommandTypes
  <2> QED BY <1>8, <2>1 DEF OnProgress, HandlerFrame, fileVars, Saw
<1>9. CASE OnBootDone
  BY <1>9, SawBootDone
<1>10. CASE Resettle
  <2>1. CASE boot.digest # file /\ CanBoot
    <3>1. Apply([type |-> "ConfigChanged"], slot, journal, <<>>) /\ up
          /\ UNCHANGED <<file, unnotified, changes>>
      BY <1>10, <2>1 DEF Resettle, HandlerFrame, fileVars
    <3> QED BY <3>1, SawChanged DEF Saw
  <2>2. CASE ~(boot.digest # file /\ CanBoot)
    <3>1. UNCHANGED <<m, boot, file, unnotified, changes>>
      BY <1>10, <2>2 DEF Resettle, HandlerFrame, fileVars
    <3> QED BY <2>2, <3>1 DEF Saw, CanBoot
  <2> QED BY <2>1, <2>2
<1>11. CASE OnRetryDue
  <2>1. \E e : e.type = "RetryDue" /\ Apply(e, slot, journal, <<>>)
    BY <1>11 DEF OnRetryDue
  <2>2. up /\ ~Settling /\ UNCHANGED <<file, unnotified, changes>>
    BY <1>11 DEF OnRetryDue, Selecting, fileVars, Settling, Owed, Due
  <2> QED BY <2>1, <2>2, SawHandled DEF CommandTypes
<1>12. CASE OnDeclared
  <2>1. Apply([type |-> "ConfigChanged"], slot, journal, <<>>) /\ up
        /\ UNCHANGED <<file, unnotified>> /\ changes' \in Nat
    BY <1>12 DEF OnDeclared, Selecting, HandlerFrame, fileVars, Saw
  <2> QED BY <2>1, SawChanged
<1>13. ASSUME NEW r \in BOOLEAN, OnDrained(r) PROVE Saw'
  <2>1. m'.state # "Failed"
    <3>1. m.state = "Draining" /\ m \in Lifecycle
      BY <1>13 DEF OnDrained, IInv, SlotFollowsLifecycle, Lifecycle, States
    <3>2. m' = Step(m, [type |-> "Drained", released |-> r]).m
      BY <1>13 DEF OnDrained, Apply
    <3> QED BY <3>1, <3>2, StepFailed
  <2> QED BY <1>13, <2>1 DEF OnDrained, HandlerFrame, fileVars, Saw
<1>14. CASE AfterTransition
  <2>1. Settling => Settling'
    <3>1. <<"resettle">> # <<>> /\ Head(<<"resettle">>) # "after"
      OBVIOUS
    <3> QED BY <1>14, <3>1 DEF AfterTransition, Settling, Owed
  <2> QED BY <1>14, <2>1, SawFrame DEF AfterTransition, fileVars
<1>15. CASE WriteHold \/ QueueStop
  <2>1. ~Settling
    <3>1. Head(<<"resettle">>) = "resettle"
      OBVIOUS
    <3> QED BY <1>15, <3>1 DEF WriteHold, QueueStop, Settling, Owed, Due
  <2> QED BY <1>15, <2>1, SawFrame DEF WriteHold, QueueStop, fileVars
<1>16. CASE Prepare \/ (\E c \in book : Withdraw(c) \/ Execute(c))
            \/ (\E c \in inflight, moved \in BOOLEAN : Reinitialize(c, moved))
            \/ LeakDrains \/ UNCHANGED vars
  <2>1. UNCHANGED <<up, m, boot, todo, file, changes, unnotified>>
    BY <1>16 DEF Prepare, Withdraw, Execute, Reinitialize, LeakDrains, TaskFrame, vars, procVars, fileVars
  <2> QED BY <2>1, SawFrame DEF Settling, Owed, Due
<1>17. CASE TaskStep
  <2>1. TaskFrame
    BY <1>17 DEF TaskStep, BootCancelled, BootDigest, BootResolve, BootOpenStore, BootFailsInOpen,
       BootFailsEarly, BootFailsOpen, BootSucceeds, BootPanics, ShutdownReturns
  <2>2. boot.pc \in {"enter", "resolve", "checks", "assemble"} \/ slot = "Draining"
    BY <1>17 DEF TaskStep, BootCancelled, BootDigest, BootResolve, BootOpenStore, BootFailsInOpen,
       BootFailsEarly, BootFailsOpen, BootSucceeds, BootPanics, ShutdownReturns
  <2>3. m.state # "Failed"
    BY <2>2 DEF IInv, SlotFollowsLifecycle, TaskMatchesSlot
  <2> QED BY <2>1, <2>3, SawFrame DEF TaskFrame, fileVars, Settling, Owed, Due
<1>18. ASSUME NEW c, EditFile(c) PROVE Saw'
  BY <1>18 DEF EditFile, Saw, procVars
<1>19. CASE Notify
  BY <1>19 DEF Notify, Saw
<1> QED BY <1>1, <1>2, <1>3, <1>4, <1>5, <1>6, <1>7, <1>8, <1>9, <1>10, <1>11, <1>12, <1>13, <1>14,
           <1>15, <1>16, <1>17, <1>18, <1>19
        DEF Next, Requests, LoopStep

\* In every behaviour, whatever the bounds, a failed boot the loop leaves
\* standing has read the declared file as it is, or a change is still on its
\* way: resettle_declared catches the change whose notification came while the
\* boot was running and was refused.
THEOREM FailedBootSawTheFileAlways == Spec => []FailedBootSawTheFile
<1>1. Init => IInv /\ Outside /\ Saw
  BY InitKeeps DEF Init, Saw
<1>2. IInv /\ Outside /\ Saw /\ [Next]_vars => (IInv /\ Outside /\ Saw)'
  BY NextKeeps, SawKept
<1>3. Saw => FailedBootSawTheFile
  BY DEF Saw, FailedBootSawTheFile, Settling, Owed, Due
<1> QED BY <1>1, <1>2, <1>3, PTL DEF Spec

-----------------------------------------------------------------------------
(* The control files: what the machine's steps tell about them. *)

\* A refused event changes nothing; only a boot that starts is counted.
LEMMA StepRefused ==
    ASSUME NEW n \in Lifecycle, NEW e
    PROVE  /\ ~Step(n, e).ok => Step(n, e).m = n /\ Step(n, e).effect = "None"
           /\ Step(n, e).effect # "StartBoot" => Step(n, e).m.attempts = n.attempts
<1>1. CASE Starting(n, e).ok
  <2>1. \/ Starting(n, e) = Did(BeginBoot(n), "StartBoot")
        \/ Starting(n, e) = Did(Rest(n), "None")
    BY <1>1 DEF Starting, Refused
  <2>2. Step(n, e) = Starting(n, e)
    BY <1>1 DEF Step
  <2>3. Rest(n).attempts = n.attempts
    BY MoveCounts DEF Rest
  <2> QED BY <1>1, <2>1, <2>2, <2>3, DidFacts
<1>2. CASE ~Starting(n, e).ok /\ Booting(n, e).ok
  <2> DEFINE noted == [n EXCEPT !.pending = e.pending]
  <2>0. noted.attempts = n.attempts /\ Fail(n, e.class).attempts = n.attempts
    BY DEF Fail, Move, Lifecycle
  <2>1. \/ Booting(n, e).m = n
        \/ Booting(n, e).m = noted
        \/ Booting(n, e).m = Move(n, "Running", "None", "None")
        \/ Booting(n, e).m = Fail(n, e.class)
        \/ Booting(n, e).m = Wedge(n)
    BY <1>2 DEF Booting, Refused, Did
  <2>2. Step(n, e) = Booting(n, e)
    BY <1>2 DEF Step
  <2> HIDE DEF noted
  <2> QED BY <1>2, <2>0, <2>1, <2>2, MoveCounts DEF Wedge
<1>3. CASE ~Starting(n, e).ok /\ ~Booting(n, e).ok
  <2> DEFINE bound == [n EXCEPT !.then = e.intent]
             after == [n EXCEPT !.epoch = @ + 1]
  <2>0. /\ bound.attempts = n.attempts /\ Rest(n).attempts = n.attempts
        /\ after \in Lifecycle /\ after.attempts = n.attempts /\ Rest(after).attempts = n.attempts
    <3>1. after \in Lifecycle /\ after.attempts = n.attempts /\ bound.attempts = n.attempts
      BY DEF Lifecycle
    <3> HIDE DEF after
    <3> QED BY <3>1, MoveCounts DEF Rest
  <2>1. Step(n, e) = Stopping(n, e)
    BY <1>3 DEF Step
  <2>2. \/ Stopping(n, e) = Refused(n)
        \/ Stopping(n, e).ok /\ Stopping(n, e).m = Move(n, "Draining", DrainFor(e), "None")
        \/ Stopping(n, e).ok /\ Stopping(n, e).m = Rest(n)
        \/ Stopping(n, e).ok /\ Stopping(n, e).m = n
        \/ Stopping(n, e).ok /\ Stopping(n, e).m = bound
        \/ Stopping(n, e).ok /\ Stopping(n, e).m = ExitWith(n, e.intent)
        \/ Stopping(n, e) = Settle(n, e.released)
    BY DEF Stopping, Refused, Did
  <2>3. /\ Settle(n, e.released).ok
        /\ \/ Settle(n, e.released).m = ExitWith(n, n.then)
           \/ Settle(n, e.released).m = Wedge(n)
           \/ Settle(n, e.released).m = Rest(after)
           \/ Settle(n, e.released).effect = "StartBoot"
    BY DEF Settle, Did
  <2> HIDE DEF bound, after
  <2>4. CASE Stopping(n, e) = Refused(n)
    BY <2>1, <2>4, DidFacts
  <2>5. CASE Stopping(n, e) = Settle(n, e.released)
    BY <2>0, <2>1, <2>3, <2>5, MoveCounts DEF ExitWith, Wedge
  <2> QED BY <2>0, <2>1, <2>2, <2>4, <2>5, MoveCounts DEF ExitWith
<1> QED BY <1>1, <1>2, <1>3

Idle == {"Resolving", "Stopped", "Wedged", "Exiting"}

\* Only a start boots a lifecycle that holds nothing and failed at nothing.
LEMMA StepIdle ==
    ASSUME NEW n \in Lifecycle, n.state \in Idle, NEW e, e.type \in CommandTypes \ {"Start"}
    PROVE  Step(n, e).m.state \in Idle
<1>1. CASE Starting(n, e).ok
  <2>1. Starting(n, e) = Did(Rest(n), "None")
    BY <1>1 DEF Starting, Refused, Idle
  <2> QED BY <1>1, <2>1, DidFacts, MoveFacts DEF Step, Idle
<1>2. CASE ~Starting(n, e).ok
  <2>1. Booting(n, e) = Refused(n)
    BY DEF Booting, Idle
  <2>2. Step(n, e) = Stopping(n, e)
    BY <1>2, <2>1 DEF Step, Refused
  <2>3. Stopping(n, e).m = ExitWith(n, e.intent) \/ Stopping(n, e).m = n
    BY DEF Stopping, Idle, Did, Refused
  <2> QED BY <2>2, <2>3, MoveCounts DEF ExitWith, Idle
<1> QED BY <1>1, <1>2

\* A drain that a stop or an exit asked for stays one under every command.
LEMMA StepDraining ==
    ASSUME NEW n \in Lifecycle, n.state = "Draining", n.then \in {"Stop"} \cup ExitIntents,
           NEW e, e.type \in CommandTypes, e.type = "Exit" => e.intent \in ExitIntents
    PROVE  /\ Step(n, e).m.state = "Draining"
           /\ Step(n, e).m.then \in {"Stop"} \cup ExitIntents
           /\ e.type \in {"Start", "Stop"} => ~Step(n, e).ok
<1>1. Starting(n, e) = Refused(n) /\ Booting(n, e) = Refused(n) /\ ~Refused(n).ok
  BY DEF Starting, Booting, Refused
<1>2. Step(n, e) = Stopping(n, e)
  BY <1>1 DEF Step
<1> DEFINE bound == [n EXCEPT !.then = e.intent]
<1>3. bound.state = n.state /\ bound.then = e.intent
  BY DEF Lifecycle
<1>4. \/ Stopping(n, e).m = n
      \/ Stopping(n, e).m = bound /\ e.type = "Exit"
  BY DEF Stopping, Did, Refused, CommandTypes
<1>5. e.type \in {"Start", "Stop"} => Stopping(n, e) = Refused(n)
  BY DEF Stopping
<1> HIDE DEF bound
<1> QED BY <1>1, <1>2, <1>3, <1>4, <1>5

\* An accepted start boots; an accepted stop rests or drains for a stop.
LEMMA StepAccepted ==
    ASSUME NEW n \in Lifecycle, NEW e, Step(n, e).ok
    PROVE  /\ e.type = "Start" => Step(n, e).m.state = "Booting" /\ n.state \in {"Resolving", "Stopped"}
           /\ e.type = "Stop" => \/ Step(n, e).m.state = "Stopped" /\ n.state = "Failed"
                                 \/ /\ Step(n, e).m.state = "Draining" /\ Step(n, e).m.then = "Stop"
                                    /\ n.state \in {"Booting", "Running"}
<1>0. ~Refused(n).ok
  BY DEF Refused
<1>1. ASSUME e.type = "Start"
      PROVE  Step(n, e).m.state = "Booting" /\ n.state \in {"Resolving", "Stopped"}
  <2>1. Booting(n, e) = Refused(n) /\ Stopping(n, e) = Refused(n)
    BY <1>1 DEF Booting, Stopping
  <2>2. Starting(n, e).ok /\ Step(n, e) = Starting(n, e)
    BY <1>0, <2>1 DEF Step
  <2>3. Starting(n, e) = Did(BeginBoot(n), "StartBoot") /\ n.state \in {"Resolving", "Stopped"}
    BY <1>1, <2>2 DEF Starting, Refused
  <2> QED BY <2>2, <2>3, DidFacts, MoveFacts
<1>2. ASSUME e.type = "Stop"
      PROVE  \/ Step(n, e).m.state = "Stopped" /\ n.state = "Failed"
             \/ /\ Step(n, e).m.state = "Draining" /\ Step(n, e).m.then = "Stop"
                /\ n.state \in {"Booting", "Running"}
  <2>1. Starting(n, e) = Refused(n) /\ Booting(n, e) = Refused(n)
    BY <1>2 DEF Booting, Starting
  <2>2. Step(n, e) = Stopping(n, e)
    BY <1>0, <2>1 DEF Step
  <2>3. \/ Stopping(n, e).m = Move(n, "Draining", "Stop", "None") /\ n.state \in {"Booting", "Running"}
        \/ Stopping(n, e).m = Rest(n) /\ n.state = "Failed"
        \/ Stopping(n, e) = Refused(n)
    BY <1>2 DEF Stopping, DrainFor, Did
  <2>4. Move(n, "Draining", "Stop", "None").state = "Draining"
        /\ Move(n, "Draining", "Stop", "None").then = "Stop"
    BY MoveType DEF States, Thens
  <2> QED BY <1>0, <2>2, <2>3, <2>4, MoveFacts
<1> QED BY <1>1, <1>2

\* Whatever ends a drain that a stop or an exit asked for, it does not boot.
LEMMA StepEnds ==
    ASSUME NEW n \in Lifecycle, n.state = "Draining", n.then \in {"Stop"} \cup ExitIntents,
           NEW e, e.type \in {"BootFailed", "Drained"}
    PROVE  Step(n, e).ok /\ Step(n, e).m.state \in {"Stopped", "Wedged", "Exiting"}
<1>1. Step(n, e) = Settle(n, e.released)
  BY StepOutcome
<1>2. PICK after \in Lifecycle : after = [n EXCEPT !.epoch = @ + 1]
  BY CountType
<1>3. /\ Settle(n, e.released).ok
      /\ \/ Settle(n, e.released).m = ExitWith(n, n.then)
         \/ Settle(n, e.released).m = Wedge(n)
         \/ Settle(n, e.released).m = Rest(after)
  BY <1>2 DEF Settle, Did, ExitIntents
<1> QED BY <1>1, <1>3, MoveCounts DEF ExitWith, Wedge, Rest

-----------------------------------------------------------------------------
(* The boot journal's entries. *)

Results == {"InProgress", "Succeeded", "Failed", "Cancelled"}

\* A boot that begins is the last entry, whatever the ring dropped for it.
LEMMA JournalBegins ==
    ASSUME NEW j \in Seq(Results)
    PROVE  /\ JournalBegin(j) \in Seq(Results) /\ JournalBegin(j) # <<>>
           /\ Last(JournalBegin(j)) = "InProgress"
<1> DEFINE k == IF Len(j) = JournalCap THEN Tail(j) ELSE j
<1>1. k \in Seq(Results)
  <2>1. CASE Len(j) = JournalCap
    <3>1. j # <<>>
      BY <2>1, SupervisorAssumption
    <3> QED BY <2>1, <3>1, HeadTailProperties
  <2> QED BY <2>1
<1>2. JournalBegin(j) = Append(k, "InProgress")
  BY DEF JournalBegin
<1> HIDE DEF k
<1>3. "InProgress" \in Results
  BY DEF Results
<1>4. /\ Append(k, "InProgress") \in Seq(Results)
      /\ Len(Append(k, "InProgress")) = Len(k) + 1
      /\ Append(k, "InProgress")[Len(k) + 1] = "InProgress"
  BY <1>1, <1>3, AppendProperties
<1>5. Len(k) \in Nat
  BY <1>1, LenProperties
<1> QED BY <1>2, <1>4, <1>5 DEF Last

\* A boot that ended is not in progress.
LEMMA JournalCloses ==
    ASSUME NEW j \in Seq(Results), NEW r \in Results \ {"InProgress"}
    PROVE  /\ JournalClose(j, r) \in Seq(Results)
           /\ j # <<>> => JournalClose(j, r) # <<>> /\ Last(JournalClose(j, r)) # "InProgress"
<1>1. CASE j # <<>> /\ Last(j) = "InProgress"
  <2>1. JournalClose(j, r) = [j EXCEPT ![Len(j)] = r]
    BY <1>1 DEF JournalClose, ReplaceAt
  <2>2. Len(j) \in Nat /\ Len(j) > 0 /\ j \in [1..Len(j) -> Results]
    BY <1>1, LenProperties, EmptySeq
  <2> DEFINE k == [j EXCEPT ![Len(j)] = r]
  <2>3. k \in [1..Len(j) -> Results] /\ k[Len(j)] = r
    BY <2>2
  <2>4. k \in Seq(Results) /\ Len(k) = Len(j)
    BY <2>2, <2>3, SeqDef
  <2> HIDE DEF k
  <2>5. k # <<>> /\ Last(k) = r
    BY <2>2, <2>3, <2>4 DEF Last
  <2> QED BY <2>1, <2>4, <2>5 DEF k
<1>2. CASE ~(j # <<>> /\ Last(j) = "InProgress")
  BY <1>2 DEF JournalClose
<1> QED BY <1>1, <1>2

\* How a boot's outcome is recorded.
LEMMA ResultCloses == ResultOf(boot) \in Results \ {"InProgress"}
BY DEF ResultOf, Results

-----------------------------------------------------------------------------
(* A control file. *)

Holds == {"None", "AcrossRelaunch"}
Live == {"Booting", "Running", "Draining"}
Markers == {"None", "Released"} \cup Live

File(T) == [own: T, disk: T, last: {"written", "failed"}]

\* A file whose last write took says what was meant.
Kept(f) == f.last = "written" => f.disk = f.own

\* A write ends in one of two ways.
LEMMA FateKinds == \A name : Fates(name) \subseteq {"written", "failed"}
BY DEF Fates

\* Whatever became of a write, the process goes on with what it meant.
LEMMA SavedFacts ==
    ASSUME NEW T, NEW f \in File(T), NEW v \in T, NEW fate \in {"written", "failed"}
    PROVE  /\ Saved(f, v, fate) \in File(T)
           /\ Saved(f, v, fate).own = v
           /\ Kept(Saved(f, v, fate))
BY DEF Saved, File, Kept

\* A file just read, or never written.
LEMMA WrittenFacts ==
    ASSUME NEW T, NEW v \in T
    PROVE  Written(v) \in File(T) /\ Written(v).own = v /\ Kept(Written(v))
BY DEF Written, File, Kept

-----------------------------------------------------------------------------
(* The control files: the invariant. *)

\* A stop was accepted and is not queued yet.
StopTaken ==
    /\ ~promised /\ stops = <<>>
    /\ m.state = "Stopped" \/ (m.state = "Draining" /\ m.then = "Stop")

Rests == {<<>>, <<"restart">>, <<"resettle">>, <<"clear">>, <<"set", "pushHeld">>, <<"clear", "push">>}

\* What can be left to do, and what is so while a start clears the hold and
\* while a stop writes it and queues its reply.
Agenda ==
    /\ todo \in Seq(Todo)
    /\ \/ Due /\ Tail(todo) \in Rests
       \/ todo \in Rests \cup {<<"run">>, <<"push">>, <<"pushHeld">>}
    /\ Owed(<<"clear">>) => m.state = "Booting" /\ ~promised /\ stops = <<>>
    /\ Owed(<<"set", "pushHeld">>) \/ Owed(<<"clear", "push">>) => StopTaken
    /\ todo = <<"push">> \/ todo = <<"pushHeld">> => StopTaken
    /\ todo = <<"pushHeld">> => hold.own = "AcrossRelaunch"

\* At most one stop waits; one that is to hold has asked for its marker; and
\* what it waits for is a drain that will not boot again, or the answer.
StopsWait ==
    /\ stops = <<>> \/ (stops = <<TRUE>> /\ hold.own = "AcrossRelaunch") \/ stops = <<FALSE>>
    /\ stops # <<>> => \/ m.state = "Draining" /\ m.then \in {"Stop"} \cup ExitIntents
                       \/ Due /\ Tail(todo) = <<>> /\ m.state \in {"Stopped", "Wedged", "Exiting"}

\* A promise to stay stopped was asked of the disk, and unless the disk failed
\* it nothing is booting.
PromiseKept ==
    promised /\ hold.last = "written" => hold.own = "AcrossRelaunch" /\ m.state \in Idle

\* The run marker is ahead of the store: live before anything opens it and as
\* long as a wedge may hold it, Released only once it is free.
MarkerAhead ==
    up => /\ slot = "Wedged" => marker.own \in Live
          /\ m.state \in Live => marker.own \in Live \/ Due
          /\ marker.own = "Released" /\ ~Due => Free

\* The journal's last entry is in progress exactly while a boot runs.
JournalFollows ==
    up /\ m.attempts > 0 =>
        journal.own # <<>> /\ (slot = "Booting" <=> Last(journal.own) = "InProgress")

\* The three files.
FilesKept ==
    /\ hold \in File(Holds) /\ Kept(hold)
    /\ marker \in File(Markers) /\ Kept(marker)
    /\ journal \in File(Seq(Results)) /\ Kept(journal)

Control == Agenda /\ StopsWait /\ PromiseKept /\ MarkerAhead /\ JournalFollows /\ FilesKept

\* sync_run_marker: what the process has asked for.
LEMMA SyncFacts ==
    ASSUME m \in Lifecycle, marker \in File(Markers), Kept(marker), SyncRunMarker
    PROVE  /\ marker' \in File(Markers) /\ Kept(marker')
           /\ KeepsMarker => marker' = marker
           /\ ~KeepsMarker => marker'.own = MarkerWanted
<1>1. MarkerWanted \in Markers
  BY DEF MarkerWanted, Markers, Live
<1>2. CASE UNCHANGED marker /\ (KeepsMarker \/ MarkerWanted = marker.own)
  BY <1>2
<1>3. CASE ~KeepsMarker /\ \E fate \in Fates("run") : marker' = Saved(marker, MarkerWanted, fate)
  <2>1. PICK fate \in {"written", "failed"} : marker' = Saved(marker, MarkerWanted, fate)
    BY <1>3, FateKinds
  <2> QED BY <1>1, <1>3, <2>1, SavedFacts
<1> QED BY <1>2, <1>3 DEF SyncRunMarker

\* The pieces of the loop's agenda, taken apart once.
LEMMA AgendaPieces ==
    /\ Rests \subseteq Seq(Todo) /\ "after" \in Todo
    /\ Tail(<<"clear">>) = <<>> /\ Tail(<<"set", "pushHeld">>) = <<"pushHeld">>
    /\ Tail(<<"clear", "push">>) = <<"push">> /\ Tail(<<"push">>) = <<>> /\ Tail(<<"pushHeld">>) = <<>>
    /\ Head(<<"clear">>) = "clear" /\ Head(<<"set", "pushHeld">>) = "set"
    /\ Head(<<"clear", "push">>) = "clear" /\ Head(<<"push">>) = "push"
    /\ Head(<<"pushHeld">>) = "pushHeld" /\ Head(<<"restart">>) = "restart"
    /\ Head(<<"resettle">>) = "resettle" /\ Head(<<"run">>) = "run"
<1>1. /\ <<>> \in Seq(Todo) /\ <<"restart">> \in Seq(Todo) /\ <<"resettle">> \in Seq(Todo)
      /\ <<"clear">> \in Seq(Todo)
  BY DEF Todo
<1>2. <<"set", "pushHeld">> \in Seq(Todo) /\ <<"clear", "push">> \in Seq(Todo)
  BY DEF Todo
<1>3. Rests \subseteq Seq(Todo) /\ "after" \in Todo
  BY <1>1, <1>2 DEF Rests, Todo
<1>4. /\ Tail(<<"clear">>) = <<>> /\ Tail(<<"set", "pushHeld">>) = <<"pushHeld">>
      /\ Tail(<<"clear", "push">>) = <<"push">> /\ Tail(<<"push">>) = <<>> /\ Tail(<<"pushHeld">>) = <<>>
  OBVIOUS
<1>5. /\ Head(<<"clear">>) = "clear" /\ Head(<<"set", "pushHeld">>) = "set"
      /\ Head(<<"clear", "push">>) = "clear" /\ Head(<<"push">>) = "push"
      /\ Head(<<"pushHeld">>) = "pushHeld" /\ Head(<<"restart">>) = "restart"
      /\ Head(<<"resettle">>) = "resettle" /\ Head(<<"run">>) = "run"
  OBVIOUS
<1> QED BY <1>3, <1>4, <1>5

\* No two of them are the same.
LEMMA AgendaDistinct ==
    /\ <<"clear">> # <<"set", "pushHeld">> /\ <<"clear">> # <<"clear", "push">>
    /\ <<"clear">> # <<"push">> /\ <<"clear">> # <<"pushHeld">> /\ <<"clear">> # <<>>
    /\ <<"clear">> # <<"restart">> /\ <<"clear">> # <<"resettle">> /\ <<"clear">> # <<"run">>
    /\ <<"set", "pushHeld">> # <<"clear", "push">> /\ <<"push">> # <<"pushHeld">>
    /\ <<"push">> # <<>> /\ <<"pushHeld">> # <<>> /\ <<"run">> # <<>> /\ <<"restart">> # <<>>
    /\ <<"resettle">> # <<>> /\ <<"set", "pushHeld">> # <<>> /\ <<"clear", "push">> # <<>>
OBVIOUS

\* What apply leaves to do: nothing when the event was refused.
LEMMA ApplyTodo ==
    ASSUME NEW e, NEW s, NEW j, NEW rest \in Rests, Apply(e, s, j, rest),
           rest # <<>> => Step(m, e).ok
    PROVE  /\ todo' \in Seq(Todo)
           /\ Step(m, e).ok => Due' /\ Tail(todo') = rest
           /\ ~Step(m, e).ok => todo' = <<>>
<1>1. rest \in Seq(Todo) /\ "after" \in Todo
  BY AgendaPieces
<1>2. CASE Step(m, e).ok
  <2>1. todo' = <<"after">> \o rest
    BY <1>2 DEF Apply
  <2> QED BY <1>1, <1>2, <2>1, Prepend DEF Due
<1>3. CASE ~Step(m, e).ok
  <2>1. todo' = <<>> \o rest /\ rest = <<>>
    BY <1>3 DEF Apply
  <2> QED BY <1>1, <1>3, <2>1, ConcatEmptySeq
<1> QED BY <1>2, <1>3

\* begin: whatever became of the write, the last entry is in progress.
LEMMA JournalBegun ==
    ASSUME NEW j \in File(Seq(Results)),
           \E fate \in Fates("journal") : journal' = Saved(j, JournalBegin(j.own), fate)
    PROVE  /\ journal' \in File(Seq(Results)) /\ Kept(journal')
           /\ journal'.own # <<>> /\ Last(journal'.own) = "InProgress"
<1>1. PICK fate \in {"written", "failed"} : journal' = Saved(j, JournalBegin(j.own), fate)
  BY FateKinds
<1>2. j.own \in Seq(Results)
  BY DEF File
<1>3. /\ JournalBegin(j.own) \in Seq(Results) /\ JournalBegin(j.own) # <<>>
      /\ Last(JournalBegin(j.own)) = "InProgress"
  BY <1>2, JournalBegins
<1> QED BY <1>1, <1>3, SavedFacts

\* A list with after_transition in front is none of the shorter ones.
LEMMA DueFirst ==
    ASSUME NEW t, t # <<>>, Head(t) = "after"
    PROVE  t \notin Rests \cup {<<"run">>, <<"push">>, <<"pushHeld">>}
BY AgendaPieces DEF Rests

\* The handler of a command: what it leaves alone, what it leaves to do, and
\* what it may do to a promise; `j` is the journal, or the journal persisted
\* again.
Commanded(e, j, rest) ==
    /\ j \in File(Seq(Results)) /\ Kept(j) /\ j.own = journal.own
    /\ e.type \in CommandTypes
    /\ e.type = "Exit" => e.intent \in ExitIntents
    /\ e.type = "ConfigApplied" => e.pending \in BOOLEAN
    /\ Apply(e, slot, j, rest) /\ rest \in Rests
    /\ rest # <<>> => Step(m, e).ok
    /\ ~Due /\ UNCHANGED <<up, stops, storeOpen, leaked, hold, marker>>
    /\ promised' => /\ promised
                    /\ e.type = "Start" => \/ hold.last # "written" \/ hold.own = "None"
                                           \/ ~Step(m, e).ok
    /\ rest = <<"clear">> => e.type = "Start" /\ ~promised'
    /\ rest \in {<<"set", "pushHeld">>, <<"clear", "push">>} => e.type = "Stop" /\ ~promised'

\* The loop's agenda after a command.
LEMMA CommandAgenda ==
    ASSUME IInv, Control, NEW e, NEW j, NEW rest, Commanded(e, j, rest)
    PROVE  Agenda'
<1>0. m \in Lifecycle /\ m' = Step(m, e).m /\ UNCHANGED stops
  BY DEF IInv, Commanded, Apply
<1>1. /\ todo' \in Seq(Todo)
      /\ Step(m, e).ok => Due' /\ Tail(todo') = rest
      /\ ~Step(m, e).ok => todo' = <<>>
  BY ApplyTodo DEF Commanded
<1>2. CASE ~Step(m, e).ok
  <2>1. todo' = <<>>
    BY <1>1, <1>2
  <2> QED BY <1>1, <2>1, AgendaDistinct DEF Agenda, Owed, Due, Rests
<1>3. CASE Step(m, e).ok
  <2>1. Due' /\ Tail(todo') = rest /\ rest \in Rests
    BY <1>1, <1>3 DEF Commanded
  <2>2. todo' \notin Rests \cup {<<"run">>, <<"push">>, <<"pushHeld">>}
    BY <2>1, DueFirst DEF Due
  <2>3. m.state # "Draining" => stops = <<>>
    BY DEF Control, StopsWait, Commanded
  <2>4. ASSUME rest = <<"clear">>
        PROVE  m'.state = "Booting" /\ ~promised' /\ stops' = <<>>
    <3>1. e.type = "Start" /\ ~promised'
      BY <2>4 DEF Commanded
    <3>2. m'.state = "Booting" /\ m.state # "Draining"
      BY <1>0, <1>3, <3>1, StepAccepted
    <3> QED BY <1>0, <2>3, <3>1, <3>2
  <2>5. ASSUME rest \in {<<"set", "pushHeld">>, <<"clear", "push">>}
        PROVE  StopTaken'
    <3>1. e.type = "Stop" /\ ~promised'
      BY <2>5 DEF Commanded
    <3>2. /\ m'.state = "Stopped" \/ (m'.state = "Draining" /\ m'.then = "Stop")
          /\ m.state # "Draining"
      BY <1>0, <1>3, <3>1, StepAccepted
    <3> QED BY <1>0, <2>3, <3>1, <3>2 DEF StopTaken
  <2>6. /\ Owed(<<"clear">>)' => rest = <<"clear">>
        /\ Owed(<<"set", "pushHeld">>)' => rest = <<"set", "pushHeld">>
        /\ Owed(<<"clear", "push">>)' => rest = <<"clear", "push">>
    BY <2>1, <2>2 DEF Owed, Rests
  <2>7. todo' # <<"push">> /\ todo' # <<"pushHeld">>
    BY <2>2
  <2> QED BY <1>1, <2>1, <2>4, <2>5, <2>6, <2>7 DEF Agenda
<1> QED BY <1>2, <1>3

\* The stops, the promise, the marker and the journal after a command.
LEMMA CommandControl ==
    ASSUME IInv, Control, NEW e, NEW j, NEW rest, Commanded(e, j, rest)
    PROVE  Control'
<1> DEFINE f == Step(m, e).effect
<1>0. m \in Lifecycle /\ m' = Step(m, e).m /\ UNCHANGED <<up, stops, hold, marker, storeOpen, leaked>> /\ ~Due
  BY DEF IInv, Commanded, Apply
<1>1. /\ slot' = SlotAfter(f, slot)
      /\ IF f = "StartBoot" /\ slot = "Idle"
         THEN \E fate \in Fates("journal") : journal' = Saved(j, JournalBegin(j.own), fate)
         ELSE journal' = j
  BY DEF Commanded, Apply, Perform
<1>2. /\ Step(m, e).ok => Due'
      /\ ~Step(m, e).ok => todo' = <<>> /\ m' = m /\ f = "None"
  BY <1>0, ApplyTodo, StepRefused DEF Commanded
<1>3. /\ f = "StartBoot" => m.state \in {"Resolving", "Stopped", "Failed"}
      /\ f # "StartBoot" => m'.attempts = m.attempts
  BY <1>0, StepCommand, StepRefused DEF Commanded
<1> HIDE DEF f
<1>4. Agenda'
  BY CommandAgenda
<1>5. StopsWait'
  <2>1. stops # <<>> => m.state = "Draining" /\ m.then \in {"Stop"} \cup ExitIntents
    BY <1>0 DEF Control, StopsWait
  <2>2. stops # <<>> => m'.state = "Draining" /\ m'.then \in {"Stop"} \cup ExitIntents
    BY <1>0, <2>1, StepDraining DEF Commanded
  <2> QED BY <1>0, <2>2 DEF Control, StopsWait
<1>6. PromiseKept'
  <2> SUFFICES ASSUME promised', hold.last = "written"
               PROVE  hold.own = "AcrossRelaunch" /\ m'.state \in Idle
    BY <1>0 DEF PromiseKept
  <2>1. promised /\ (e.type = "Start" => hold.own = "None" \/ ~Step(m, e).ok)
    BY DEF Commanded
  <2>2. hold.own = "AcrossRelaunch" /\ m.state \in Idle
    BY <2>1 DEF Control, PromiseKept
  <2>3. CASE e.type = "Start"
    BY <1>2, <2>1, <2>2, <2>3
  <2>4. CASE e.type # "Start"
    BY <1>0, <2>2, <2>4, StepIdle DEF Commanded
  <2> QED BY <2>2, <2>3, <2>4
<1>7. MarkerAhead'
  <2>1. slot' = "Wedged" => slot = "Wedged"
    BY <1>1 DEF SlotAfter
  <2>2. CASE Step(m, e).ok
    BY <1>0, <1>2, <2>1, <2>2 DEF Control, MarkerAhead
  <2>3. CASE ~Step(m, e).ok
    BY <1>0, <1>2, <2>1, <2>3 DEF Control, MarkerAhead, Due, Free
  <2> QED BY <2>2, <2>3
<1>8. JournalFollows' /\ journal' \in File(Seq(Results)) /\ Kept(journal')
  <2>0. j \in File(Seq(Results)) /\ Kept(j) /\ j.own = journal.own
    BY DEF Commanded
  <2>1. CASE f = "StartBoot"
    <3>1. slot = "Idle"
      BY <1>3, <2>1 DEF IInv, SlotFollowsLifecycle
    <3>2. slot' = "Booting" /\ \E fate \in Fates("journal") : journal' = Saved(j, JournalBegin(j.own), fate)
      BY <1>1, <2>1, <3>1 DEF SlotAfter
    <3> QED BY <2>0, <3>2, JournalBegun DEF JournalFollows
  <2>2. CASE f # "StartBoot"
    <3>1. journal' = j /\ (slot' = "Booting" <=> slot = "Booting") /\ m'.attempts = m.attempts
      BY <1>1, <1>3, <2>2 DEF SlotAfter
    <3> QED BY <1>0, <2>0, <3>1 DEF Control, JournalFollows
  <2> QED BY <2>1, <2>2
<1>9. FilesKept'
  BY <1>0, <1>8 DEF Control, FilesKept
<1> QED BY <1>4, <1>5, <1>6, <1>7, <1>8, <1>9 DEF Control

\* The handler of a task's outcome.
LEMMA OutcomeControl ==
    ASSUME IInv, Control, NEW e, NEW s \in {"Idle", "Up", "Wedged"},
           NEW j \in File(Seq(Results)), Kept(j),
           NEW rest \in {<<>>, <<"resettle">>}, up, todo = <<>>, m.state \in {"Booting", "Draining"},
           Apply(e, s, j, rest), Step(m, e).ok, Step(m, e).effect = "StartBoot" => s = "Idle",
           rest # <<>> => m'.state = "Failed",
           m.attempts > 0 => j.own # <<>> /\ Last(j.own) # "InProgress",
           UNCHANGED <<up, stops, promised, hold, marker, storeOpen, leaked>>,
           m.state = "Draining" /\ m.then \in {"Stop"} \cup ExitIntents =>
             m' = m \/ m'.state \in {"Stopped", "Wedged", "Exiting"}
    PROVE  Control'
<1> DEFINE f == Step(m, e).effect
<1>1. /\ m \in Lifecycle /\ m' = Step(m, e).m /\ slot' = SlotAfter(f, s)
      /\ IF f = "StartBoot" /\ s = "Idle"
         THEN \E fate \in Fates("journal") : journal' = Saved(j, JournalBegin(j.own), fate)
         ELSE journal' = j
  BY DEF IInv, Apply, Perform
<1>2. rest \in Rests
  BY DEF Rests
<1>3. todo' \in Seq(Todo) /\ Due' /\ Tail(todo') = rest
  BY <1>2, ApplyTodo
<1>4. f # "StartBoot" => m'.attempts = m.attempts
  BY <1>1, StepRefused
<1>5. todo' \notin Rests \cup {<<"run">>, <<"push">>, <<"pushHeld">>}
  BY <1>3, DueFirst DEF Due
<1>6. ~Due
  BY DEF Due
<1> HIDE DEF f
<1>7. Agenda'
  BY <1>2, <1>3, <1>5, AgendaDistinct, AgendaPieces DEF Agenda, Owed, Rests
<1>8. StopsWait'
  <2>1. stops # <<>> => m.state = "Draining" /\ m.then \in {"Stop"} \cup ExitIntents
    BY <1>6 DEF Control, StopsWait
  <2>2. m'.state \in {"Stopped", "Wedged", "Exiting"} => Due' /\ Tail(todo') = <<>>
    BY <1>3
  <2> QED BY <2>1, <2>2 DEF Control, StopsWait
<1>9. PromiseKept'
  BY DEF Control, PromiseKept, Idle
<1>10. MarkerAhead'
  <2>1. marker.own \in Live
    BY <1>6 DEF Control, MarkerAhead, Live
  <2> QED BY <1>3, <2>1 DEF MarkerAhead
<1>11. JournalFollows' /\ journal' \in File(Seq(Results)) /\ Kept(journal')
  <2>1. CASE f = "StartBoot"
    <3>1. s = "Idle"
      BY <2>1 DEF f
    <3>2. slot' = "Booting" /\ \E fate \in Fates("journal") : journal' = Saved(j, JournalBegin(j.own), fate)
      BY <1>1, <2>1, <3>1 DEF SlotAfter
    <3> QED BY <3>2, JournalBegun DEF JournalFollows
  <2>2. CASE f # "StartBoot"
    <3>1. journal' = j /\ slot' # "Booting" /\ m'.attempts = m.attempts
      BY <1>1, <1>4, <2>2 DEF SlotAfter
    <3> QED BY <3>1 DEF JournalFollows
  <2> QED BY <2>1, <2>2
<1>12. FilesKept'
  BY <1>11 DEF Control, FilesKept
<1> QED BY <1>7, <1>8, <1>9, <1>10, <1>11, <1>12 DEF Control

\* after_transition: the stops are answered, the marker is brought up to date.
LEMMA AfterControl ==
    ASSUME IInv, Control, AfterTransition
    PROVE  Control'
<1>0. UNCHANGED <<up, m, slot, hold, journal, storeOpen, leaked>> /\ Due /\ todo' = Tail(todo)
  BY DEF AfterTransition, storeVars, Due
<1>1. Tail(todo) \in Rests
  BY <1>0, DueFirst DEF Control, Agenda, Due
<1>2. ~Due'
  BY <1>0, <1>1, AgendaPieces DEF Due, Rests
<1>3. /\ m.state = "Draining" => stops' = stops /\ promised' = promised
      /\ m.state # "Draining" => stops' = <<>>
      /\ stops = <<>> => promised' = promised /\ stops' = <<>>
      /\ m.state # "Draining" /\ stops # <<>> => promised' = Last(stops)
  BY DEF AfterTransition, AnswerStops, Answered
<1>4. Agenda'
  <2>1. todo' \in Seq(Todo) /\ todo' \in Rests
    BY <1>0, <1>1, AgendaPieces
  <2>2. /\ Owed(<<"clear">>)' => Owed(<<"clear">>)
        /\ Owed(<<"set", "pushHeld">>)' => Owed(<<"set", "pushHeld">>)
        /\ Owed(<<"clear", "push">>)' => Owed(<<"clear", "push">>)
    BY <1>0, <1>2 DEF Owed
  <2>3. todo' # <<"push">> /\ todo' # <<"pushHeld">>
    BY <2>1 DEF Rests
  <2>4. Owed(<<"clear">>)' => m'.state = "Booting" /\ ~promised' /\ stops' = <<>>
    BY <1>0, <1>3, <2>2 DEF Control, Agenda
  <2>5. Owed(<<"set", "pushHeld">>)' \/ Owed(<<"clear", "push">>)' => StopTaken'
    BY <1>0, <1>3, <2>2 DEF Control, Agenda, StopTaken
  <2> QED BY <2>1, <2>3, <2>4, <2>5 DEF Agenda
<1>5. StopsWait'
  BY <1>0, <1>3 DEF Control, StopsWait
<1>6. PromiseKept'
  <2>1. CASE m.state = "Draining" \/ stops = <<>>
    BY <1>0, <1>3, <2>1 DEF Control, PromiseKept
  <2>2. CASE m.state # "Draining" /\ stops # <<>>
    <3>1. /\ m.state \in {"Stopped", "Wedged", "Exiting"}
          /\ (stops = <<TRUE>> /\ hold.own = "AcrossRelaunch") \/ stops = <<FALSE>>
      BY <2>2 DEF Control, StopsWait
    <3>2. Last(<<FALSE>>) = FALSE
      BY DEF Last
    <3>3. promised' => hold.own = "AcrossRelaunch"
      BY <1>3, <2>2, <3>1, <3>2
    <3> QED BY <1>0, <3>1, <3>3 DEF PromiseKept, Idle
  <2> QED BY <2>1, <2>2
<1>7. MarkerAhead'
  <2>0. /\ KeepsMarker => marker' = marker
        /\ ~KeepsMarker => marker'.own = MarkerWanted
    BY SyncFacts DEF AfterTransition, IInv, Control, FilesKept
  <2>1. CASE m.state \in Live
    <3>1. marker'.own = m.state
      BY <2>0, <2>1 DEF KeepsMarker, MarkerWanted, Live
    <3> QED BY <1>0, <2>1, <3>1 DEF MarkerAhead, Live
  <2>2. CASE KeepsMarker
    <3>1. marker' = marker
      BY <2>0, <2>2
    <3>2. slot = "Wedged"
      BY <2>2 DEF KeepsMarker, IInv, SlotFollowsLifecycle
    <3> QED BY <1>0, <2>2, <3>1, <3>2 DEF Control, MarkerAhead, Live
  <2>3. CASE m.state \notin Live /\ ~KeepsMarker
    <3>1. slot = "Idle"
      BY <2>3 DEF IInv, SlotFollowsLifecycle, Lifecycle, States, KeepsMarker, Live
    <3>2. Free'
      BY <1>0, <3>1 DEF IInv, StoreAccounted, Free
    <3> QED BY <1>0, <2>3, <3>1, <3>2 DEF MarkerAhead
  <2> QED BY <2>1, <2>2, <2>3
<1>8. JournalFollows'
  BY <1>0 DEF Control, JournalFollows
<1>9. FilesKept'
  BY <1>0, SyncFacts DEF AfterTransition, IInv, Control, FilesKept
<1> QED BY <1>4, <1>5, <1>6, <1>7, <1>8, <1>9 DEF Control

\* write_hold: nothing was promised yet, and what is promised next is asked of
\* the disk.
LEMMA WriteHoldControl ==
    ASSUME Control, WriteHold
    PROVE  Control'
<1>0. /\ UNCHANGED <<up, m, slot, stops, promised, marker, journal, storeOpen, leaked>>
      /\ todo' = Tail(todo) /\ todo # <<>> /\ Head(todo) \in {"set", "clear"} /\ ~Due
  BY DEF WriteHold, storeVars, Due
<1>1. todo \in {<<"clear">>, <<"set", "pushHeld">>, <<"clear", "push">>}
  BY <1>0, AgendaPieces DEF Control, Agenda, Rests
<1>2. /\ hold' \in File(Holds) /\ Kept(hold')
      /\ todo = <<"set", "pushHeld">> => hold'.own = "AcrossRelaunch"
  <2> DEFINE v == IF Head(todo) = "set" THEN "AcrossRelaunch" ELSE "None"
  <2>1. PICK fate \in {"written", "failed"} : hold' = Saved(hold, v, fate)
    BY FateKinds DEF WriteHold
  <2>2. v \in Holds /\ (todo = <<"set", "pushHeld">> => v = "AcrossRelaunch")
    BY AgendaPieces DEF Holds
  <2> HIDE DEF v
  <2> QED BY <2>1, <2>2, SavedFacts DEF Control, FilesKept
<1>3. /\ ~promised /\ stops = <<>>
      /\ todo # <<"clear">> => StopTaken
  BY <1>1 DEF Control, Agenda, Owed, StopTaken
<1>4. /\ todo = <<"clear">> => todo' = <<>>
      /\ todo = <<"set", "pushHeld">> => todo' = <<"pushHeld">>
      /\ todo = <<"clear", "push">> => todo' = <<"push">>
  BY <1>0, AgendaPieces
<1>5. ~Due' /\ todo' \in Seq(Todo) /\ todo' \in {<<>>, <<"pushHeld">>, <<"push">>}
  <2>1. <<>> \in Seq(Todo) /\ <<"push">> \in Seq(Todo) /\ <<"pushHeld">> \in Seq(Todo)
    BY DEF Todo
  <2> QED BY <1>1, <1>4, <2>1, AgendaPieces DEF Due
<1>6. Agenda'
  <2>1. ~Owed(<<"clear">>)' /\ ~Owed(<<"set", "pushHeld">>)' /\ ~Owed(<<"clear", "push">>)'
    BY <1>5, AgendaPieces, AgendaDistinct DEF Owed
  <2>2. todo' # <<>> => StopTaken'
    BY <1>0, <1>1, <1>3, <1>4 DEF StopTaken
  <2>3. todo' = <<"pushHeld">> => hold'.own = "AcrossRelaunch"
    BY <1>1, <1>2, <1>4, AgendaDistinct
  <2> QED BY <1>5, <2>1, <2>2, <2>3, AgendaDistinct DEF Agenda, Rests
<1>7. StopsWait' /\ PromiseKept'
  BY <1>0, <1>3 DEF StopsWait, PromiseKept
<1>8. MarkerAhead'
  BY <1>0, <1>5 DEF Control, MarkerAhead, Free
<1>9. JournalFollows' /\ FilesKept'
  BY <1>0, <1>2 DEF Control, JournalFollows, FilesKept
<1> QED BY <1>6, <1>7, <1>8, <1>9 DEF Control

\* pending_stops.push and its answer.
LEMMA QueueStopControl ==
    ASSUME Control, QueueStop
    PROVE  Control'
<1>0. /\ UNCHANGED <<up, m, slot, hold, marker, journal, storeOpen, leaked>>
      /\ todo' = Tail(todo) /\ todo # <<>> /\ Head(todo) \in {"push", "pushHeld"} /\ ~Due
  BY DEF QueueStop, storeVars, diskVars, Due
<1>1. todo \in {<<"push">>, <<"pushHeld">>}
  BY <1>0, AgendaPieces DEF Control, Agenda, Rests
<1>2. StopTaken /\ (todo = <<"pushHeld">> => hold.own = "AcrossRelaunch")
  BY <1>1 DEF Control, Agenda
<1>3. todo' = <<>> /\ ~Due'
  BY <1>0, <1>1, AgendaPieces DEF Due
<1>4. PICK b \in BOOLEAN : b = (Head(todo) = "pushHeld") /\ (b => hold.own = "AcrossRelaunch")
  <2>1. (Head(todo) = "pushHeld") => hold.own = "AcrossRelaunch"
    BY <1>1, <1>2, AgendaPieces
  <2> QED BY <2>1, Zenon
<1>5. Append(stops, b) = <<b>> /\ Last(<<b>>) = b
  BY <1>2 DEF StopTaken, Last
<1>6. /\ stops' = IF m.state = "Draining" THEN <<b>> ELSE <<>>
      /\ promised' = IF m.state = "Draining" THEN promised ELSE b
  BY <1>4, <1>5 DEF QueueStop
<1>7. Agenda'
  BY <1>3, AgendaDistinct, AgendaPieces DEF Agenda, Owed, Rests
<1>8. StopsWait'
  <2>1. <<b>> = <<FALSE>> \/ (<<b>> = <<TRUE>> /\ hold.own = "AcrossRelaunch")
    BY <1>4
  <2> QED BY <1>0, <1>2, <1>6, <2>1 DEF StopsWait, StopTaken
<1>9. PromiseKept'
  <2>1. CASE m.state = "Draining"
    BY <1>2, <1>6, <2>1 DEF PromiseKept, StopTaken
  <2>2. CASE m.state # "Draining"
    <3>1. promised' = b /\ m.state = "Stopped"
      BY <1>2, <1>6, <2>2 DEF StopTaken
    <3> QED BY <1>0, <1>4, <3>1, Zenon DEF PromiseKept, Idle
  <2> QED BY <2>1, <2>2
<1>10. MarkerAhead'
  BY <1>0, <1>3 DEF Control, MarkerAhead, Free
<1>11. JournalFollows' /\ FilesKept'
  BY <1>0 DEF Control, JournalFollows, FilesKept
<1> QED BY <1>7, <1>8, <1>9, <1>10, <1>11 DEF Control

\* A step beside the loop: the store is free afterwards, or as it was, or a
\* boot or a shutdown is under way.
LEMMA BesideControl ==
    ASSUME Control, UNCHANGED <<up, m, slot, todo, stops, hold, marker, journal, promised>>,
           Free' \/ UNCHANGED <<storeOpen, leaked>> \/ m.state \in {"Booting", "Draining"}
    PROVE  Control'
<1>1. Agenda' = Agenda
  BY DEF Agenda, Owed, Due, StopTaken
<1>2. StopsWait' = StopsWait
  BY DEF StopsWait, Due
<1>3. PromiseKept' = PromiseKept
  BY DEF PromiseKept
<1>4. JournalFollows' = JournalFollows
  BY DEF JournalFollows
<1>5. FilesKept' = FilesKept
  BY DEF FilesKept
<1>6. MarkerAhead'
  BY DEF Control, MarkerAhead, Due, Free, Live
<1> QED BY <1>1, <1>2, <1>3, <1>4, <1>5, <1>6 DEF Control

\* A process that is gone, or newly launched.
LEMMA ResetControl ==
    ASSUME Control, m' = AtRest, slot' = "Idle", stops' = <<>>, UNCHANGED <<hold, promised>>,
           marker' \in File(Markers), Kept(marker'), journal' \in File(Seq(Results)), Kept(journal'),
           todo' \in {<<>>, <<"run">>}, up' => Free'
    PROVE  Control'
<1>1. AtRest.state = "Resolving" /\ AtRest.attempts = 0
  BY DEF AtRest
<1>2. todo' \in Seq(Todo) /\ ~Due'
  <2>1. <<>> \in Seq(Todo) /\ <<"run">> \in Seq(Todo)
    BY DEF Todo
  <2> QED BY <2>1, AgendaPieces DEF Due
<1>3. Agenda'
  BY <1>2, AgendaDistinct, AgendaPieces DEF Agenda, Owed, Rests
<1>4. StopsWait' /\ PromiseKept'
  BY <1>1 DEF Control, StopsWait, PromiseKept, Idle
<1>5. MarkerAhead' /\ JournalFollows' /\ FilesKept'
  BY <1>1 DEF Control, MarkerAhead, JournalFollows, FilesKept, Live
<1> QED BY <1>3, <1>4, <1>5 DEF Control

\* The handlers that are commands.
LEMMA HandlersCommand ==
    ASSUME Control,
           \/ RequestStart \/ RequestRestart \/ RequestRetry \/ FirstEvent \/ RestartForConfig
           \/ OnProgress \/ OnRetryDue \/ OnDeclared
           \/ \E held \in BOOLEAN : RequestStop(held)
           \/ \E i \in ExitIntents : RequestExit(i)
           \/ \E left, now \in BOOLEAN : Reconfigure(left, now)
           \/ Resettle /\ boot.digest # file /\ CanBoot
    PROVE  \E e, j, rest : Commanded(e, j, rest)
<1>0. <<>> \in Rests /\ <<"restart">> \in Rests /\ <<"clear">> \in Rests
      /\ <<"set", "pushHeld">> \in Rests /\ <<"clear", "push">> \in Rests
  BY DEF Rests
<1>J. journal \in File(Seq(Results)) /\ Kept(journal)
  BY DEF Control, FilesKept
<1>1. \A e : /\ e.type \in {"Restart", "Retry", "HeldAtStartup", "Phase", "RetryDue", "ConfigChanged"}
             /\ Apply(e, slot, journal, <<>>) /\ ~Due
             /\ UNCHANGED <<up, stops, storeOpen, leaked, hold, marker, promised>>
             => Commanded(e, journal, <<>>)
  BY <1>J, <1>0, AgendaDistinct DEF Commanded, CommandTypes
<1>2. CASE RequestRestart \/ RequestRetry \/ RestartForConfig
  <2>1. \E e : e.type \in {"Restart", "Retry"} /\ Apply(e, slot, journal, <<>>)
    BY <1>2 DEF RequestRestart, RequestRetry, RestartForConfig
  <2>2. ~Due /\ UNCHANGED <<up, stops, storeOpen, leaked, hold, marker, promised>>
    BY <1>2, AgendaPieces DEF RequestRestart, RequestRetry, RestartForConfig,
       Selecting, HandlerFrame, storeVars, Due
  <2> QED BY <1>1, <2>1, <2>2
<1>10. CASE OnProgress
  <2> DEFINE e == [type |-> "Phase"]
  <2>1. e.type = "Phase"
    OBVIOUS
  <2>2. PICK fate \in {"written", "failed"} : Apply(e, slot, Saved(journal, journal.own, fate), <<>>)
    BY <1>10, FateKinds DEF OnProgress
  <2>3. ~Due /\ UNCHANGED <<up, stops, storeOpen, leaked, hold, marker, promised>>
    BY <1>10 DEF OnProgress, Selecting, HandlerFrame, storeVars, Due
  <2>4. PICK j : j = Saved(journal, journal.own, fate)
    OBVIOUS
  <2>5. journal.own \in Seq(Results)
    BY <1>J DEF File
  <2>6. j \in File(Seq(Results)) /\ Kept(j) /\ j.own = journal.own
    BY <1>J, <2>4, <2>5, SavedFacts
  <2>7. Apply(e, slot, j, <<>>)
    BY <2>2, <2>4
  <2> HIDE DEF e
  <2>8. Commanded(e, j, <<>>)
    BY <1>0, <2>1, <2>3, <2>6, <2>7, AgendaDistinct DEF Commanded, CommandTypes
  <2> QED BY <2>8
<1>3. CASE OnRetryDue \/ OnDeclared
  <2>1. \E e : e.type \in {"RetryDue", "ConfigChanged"} /\ Apply(e, slot, journal, <<>>)
    BY <1>3 DEF OnRetryDue, OnDeclared
  <2>2. ~Due /\ UNCHANGED <<up, stops, storeOpen, leaked, hold, marker, promised>>
    BY <1>3 DEF OnRetryDue, OnDeclared, Selecting, HandlerFrame, storeVars, Due
  <2> QED BY <1>1, <2>1, <2>2
<1>4. CASE Resettle /\ boot.digest # file /\ CanBoot
  <2>1. \E e : e.type = "ConfigChanged" /\ Apply(e, slot, journal, <<>>)
    BY <1>4 DEF Resettle
  <2>2. ~Due /\ UNCHANGED <<up, stops, storeOpen, leaked, hold, marker, promised>>
    BY <1>4, AgendaPieces DEF Resettle, HandlerFrame, storeVars, Due
  <2> QED BY <1>1, <2>1, <2>2
<1>5. CASE RequestStart
  <2> DEFINE e == [type |-> "Start"]
             rest == IF Step(m, e).ok THEN <<"clear">> ELSE <<>>
  <2>1. e.type = "Start"
    OBVIOUS
  <2>2. Apply(e, slot, journal, rest) /\ ~Due /\ UNCHANGED <<up, stops, storeOpen, leaked, hold, marker>>
    BY <1>5 DEF RequestStart, Selecting, HandlerFrame, storeVars, Due
  <2>3. promised' = (promised /\ ~Step(m, e).ok)
    BY <1>5 DEF RequestStart
  <2>4. /\ rest \in Rests /\ (rest # <<>> => Step(m, e).ok)
        /\ rest \notin {<<"set", "pushHeld">>, <<"clear", "push">>}
    BY <1>0, AgendaDistinct
  <2> HIDE DEF e, rest
  <2>5. /\ promised' => promised /\ ~Step(m, e).ok
        /\ Step(m, e).ok => ~promised'
    BY <2>3, Zenon
  <2>6. rest = <<"clear">> => e.type = "Start" /\ ~promised'
    BY <2>1, <2>4, <2>5, AgendaDistinct
  <2>7. Commanded(e, journal, rest)
    BY <1>J, <2>1, <2>2, <2>4, <2>5, <2>6 DEF Commanded, CommandTypes
  <2> QED BY <2>7
<1>6. ASSUME NEW held \in BOOLEAN, RequestStop(held)
      PROVE  \E e, j, rest : Commanded(e, j, rest)
  <2> DEFINE e == [type |-> "Stop"]
             rest == IF Step(m, e).ok
                     THEN IF held THEN <<"set", "pushHeld">> ELSE <<"clear", "push">> ELSE <<>>
  <2>1. e.type = "Stop"
    OBVIOUS
  <2>2. Apply(e, slot, journal, rest) /\ ~Due /\ UNCHANGED <<up, stops, storeOpen, leaked, hold, marker>>
    BY <1>6 DEF RequestStop, Selecting, HandlerFrame, storeVars, Due
  <2>3. promised' = (promised /\ ~Step(m, e).ok)
    BY <1>6 DEF RequestStop
  <2>4. rest \in Rests /\ (rest # <<>> => Step(m, e).ok) /\ rest # <<"clear">>
    BY <1>0, AgendaDistinct
  <2> HIDE DEF e, rest
  <2>5. /\ promised' => promised /\ ~Step(m, e).ok
        /\ Step(m, e).ok => ~promised'
    BY <2>3, Zenon
  <2>6. rest \in {<<"set", "pushHeld">>, <<"clear", "push">>} => e.type = "Stop" /\ ~promised'
    BY <2>1, <2>4, <2>5, AgendaDistinct
  <2>7. Commanded(e, journal, rest)
    BY <1>J, <2>1, <2>2, <2>4, <2>5, <2>6 DEF Commanded, CommandTypes
  <2> QED BY <2>7
<1>7. ASSUME NEW i \in ExitIntents, RequestExit(i)
      PROVE  \E e, j, rest : Commanded(e, j, rest)
  <2> DEFINE e == [type |-> "Exit", intent |-> i]
  <2>1. e.type = "Exit" /\ e.intent \in ExitIntents
    OBVIOUS
  <2>2. /\ Apply(e, slot, journal, <<>>) /\ ~Due
        /\ UNCHANGED <<up, stops, storeOpen, leaked, hold, marker, promised>>
    BY <1>7 DEF RequestExit, Selecting, HandlerFrame, storeVars, Due
  <2> HIDE DEF e
  <2>3. Commanded(e, journal, <<>>)
    BY <1>J, <1>0, <2>1, <2>2, AgendaDistinct DEF Commanded, CommandTypes
  <2> QED BY <2>3
<1>8. ASSUME NEW left \in BOOLEAN, NEW now \in BOOLEAN, Reconfigure(left, now)
      PROVE  \E e, j, rest : Commanded(e, j, rest)
  <2>1. ~Due /\ UNCHANGED <<up, stops, storeOpen, leaked, hold, marker, promised>>
    BY <1>8 DEF Reconfigure, Selecting, HandlerFrame, storeVars, Due
  <2>2. CASE m.state = "Running"
    <3> DEFINE e == [type |-> "ConfigApplied", pending |-> left]
               rest == IF now /\ left THEN <<"restart">> ELSE <<>>
    <3>1. e.type = "ConfigApplied" /\ e.pending \in BOOLEAN
      OBVIOUS
    <3>2. Apply(e, slot, journal, rest)
      BY <1>8, <2>2 DEF Reconfigure
    <3>3. /\ rest \in Rests /\ rest # <<"clear">>
          /\ rest \notin {<<"set", "pushHeld">>, <<"clear", "push">>}
      BY <1>0, AgendaDistinct
    <3> HIDE DEF e, rest
    <3>4. Step(m, e).ok
      <4>1. Starting(m, e) = Refused(m)
        BY <3>1 DEF Starting
      <4>2. Booting(m, e).ok
        BY <2>2, <3>1 DEF Booting, Did
      <4> QED BY <4>1, <4>2 DEF Step, Refused
    <3>5. Commanded(e, journal, rest)
      BY <1>J, <2>1, <3>1, <3>2, <3>3, <3>4 DEF Commanded, CommandTypes
    <3> QED BY <3>5
  <2>3. CASE m.state # "Running"
    <3>1. \E e : e.type = "ConfigChanged" /\ Apply(e, slot, journal, <<>>)
      BY <1>8, <2>3 DEF Reconfigure
    <3> QED BY <1>1, <2>1, <3>1
  <2> QED BY <2>2, <2>3
<1>9. CASE FirstEvent
  <2>1. ~Due /\ UNCHANGED <<up, stops, storeOpen, leaked, hold, marker, promised>>
    BY <1>9, AgendaPieces DEF FirstEvent, HandlerFrame, storeVars, Due
  <2>2. CASE hold.disk # "None"
    <3>1. \E e : e.type = "HeldAtStartup" /\ Apply(e, slot, journal, <<>>)
      BY <1>9, <2>2 DEF FirstEvent
    <3> QED BY <1>1, <2>1, <3>1
  <2>3. CASE hold.disk = "None"
    <3>1. PICK e : e.type = "Start" /\ Apply(e, slot, journal, <<>>)
      BY <1>9, <2>3 DEF FirstEvent
    <3>2. hold.last # "written" \/ hold.own = "None"
      BY <2>3 DEF Control, FilesKept, Kept
    <3>3. Commanded(e, journal, <<>>)
      BY <1>J, <1>0, <2>1, <3>1, <3>2, AgendaDistinct DEF Commanded, CommandTypes
    <3> QED BY <3>3
  <2> QED BY <2>2, <2>3
<1> QED BY <1>2, <1>3, <1>4, <1>5, <1>6, <1>7, <1>8, <1>9, <1>10

\* on_boot_done closes the entry its boot opened.
LEMMA BootDoneControl ==
    ASSUME IInv, Control, OnBootDone
    PROVE  Control'
<1> DEFINE e == BootEvent(boot)
           s == SlotOf(boot.outcome)
           rest == IF Step(m, e).m.state = "Failed" THEN <<"resettle">> ELSE <<>>
<1>0. PICK fate \in {"written", "failed"} :
        Apply(e, s, Saved(journal, JournalClose(journal.own, ResultOf(boot)), fate), rest)
  BY FateKinds DEF OnBootDone
<1> DEFINE j == Saved(journal, JournalClose(journal.own, ResultOf(boot)), fate)
<1>1. /\ up /\ todo = <<>> /\ slot = "Booting"
      /\ Apply(e, s, j, rest) /\ m' = Step(m, e).m
      /\ UNCHANGED <<up, stops, promised, hold, marker, storeOpen, leaked>>
  BY <1>0 DEF OnBootDone, Selecting, Apply, HandlerFrame, storeVars
<1>2. m.state \in {"Booting", "Draining"} /\ m \in Lifecycle
  BY <1>1 DEF IInv, SlotFollowsLifecycle, Lifecycle, States
<1>3. /\ s \in {"Idle", "Up", "Wedged"}
      /\ boot.outcome = "ok" => s = "Up" /\ e = [type |-> "Booted"]
      /\ boot.outcome # "ok" =>
           \E r, c : /\ e = [type |-> "BootFailed", released |-> r, class |-> c]
                     /\ r = (boot.outcome \in {"never", "released"})
                     /\ c \in {"Backoff", "Hold"}
  BY DEF SlotOf, BootEvent
<1>4. /\ boot.outcome = "ok" => s = "Up" /\ e.type = "Booted"
      /\ boot.outcome # "ok" => e.type = "BootFailed"
  BY <1>3
<1>5. boot.outcome # "ok" => /\ s = (IF e.released THEN "Idle" ELSE "Wedged")
                             /\ e.released \in BOOLEAN /\ e.class \in {"Backoff", "Hold"}
  <2> SUFFICES ASSUME boot.outcome # "ok"
               PROVE  /\ s = (IF e.released THEN "Idle" ELSE "Wedged")
                      /\ e.released \in BOOLEAN /\ e.class \in {"Backoff", "Hold"}
    OBVIOUS
  <2>1. PICK r, c : /\ e = [type |-> "BootFailed", released |-> r, class |-> c]
                    /\ r = (boot.outcome \in {"never", "released"})
                    /\ c \in {"Backoff", "Hold"}
    BY <1>3
  <2>2. e.released = r /\ e.class = c
    BY <2>1
  <2>3. boot.outcome \in {"never", "released"} => s = "Idle"
    BY DEF SlotOf
  <2>4. boot.outcome \notin {"never", "released"} => s = "Wedged"
    BY DEF SlotOf
  <2> HIDE DEF e, s
  <2>5. CASE boot.outcome \in {"never", "released"}
    <3>1. r = TRUE
      BY <2>1, <2>5
    <3> QED BY <2>1, <2>2, <2>3, <2>5, <3>1
  <2>6. CASE boot.outcome \notin {"never", "released"}
    <3>0. (boot.outcome \in {"never", "released"}) = FALSE
      BY <2>6
    <3>1. r = FALSE
      BY <2>1, <3>0, Zenon
    <3> QED BY <2>1, <2>2, <2>4, <2>6, <3>1
  <2> QED BY <2>5, <2>6
<1> HIDE DEF e, s
<1>6. /\ Step(m, e).ok
      /\ Step(m, e).effect = "StartBoot" => s = "Idle"
      /\ m.state = "Draining" /\ m.then \in {"Stop"} \cup ExitIntents =>
           m' = m \/ m'.state \in {"Stopped", "Wedged", "Exiting"}
  <2>0. ~Refused(m).ok
    BY DEF Refused
  <2>1. CASE boot.outcome = "ok"
    <3>1. e.type = "Booted"
      BY <1>4, <2>1
    <3>2. Step(m, e).effect # "StartBoot" /\ (m.state = "Draining" => m' = m)
      BY <1>1, <1>2, <3>1, StepOutcome
    <3>3. Step(m, e).ok
      BY <1>2, <3>1 DEF Step, Starting, Booting, Stopping, Did, Refused
    <3> QED BY <3>2, <3>3
  <2>2. CASE boot.outcome # "ok"
    <3>1. e.type = "BootFailed" /\ s = (IF e.released THEN "Idle" ELSE "Wedged")
          /\ e.released \in BOOLEAN /\ e.class \in {"Backoff", "Hold"}
      BY <1>4, <1>5, <2>2
    <3>2. CASE m.state = "Booting"
      <4>1. Step(m, e).effect = "None"
        BY <1>2, <3>1, <3>2, StepOutcome
      <4>2. Step(m, e).ok
        BY <3>1, <3>2 DEF Step, Starting, Booting, Did, Refused
      <4> QED BY <3>2, <4>1, <4>2
    <3>3. CASE m.state = "Draining"
      <4>1. Step(m, e) = Settle(m, e.released)
        BY <1>2, <3>1, <3>3, StepOutcome
      <4>2. Step(m, e).effect = "StartBoot" => e.released
        BY <1>2, <3>1, <4>1, SettleFacts
      <4>3. Step(m, e).ok
        BY <4>1 DEF Settle, Did
      <4>4. m.then \in {"Stop"} \cup ExitIntents => m'.state \in {"Stopped", "Wedged", "Exiting"}
        BY <1>1, <1>2, <3>1, <3>3, StepEnds
      <4> QED BY <3>1, <4>2, <4>3, <4>4
    <3> QED BY <1>2, <3>2, <3>3
  <2> QED BY <2>1, <2>2
<1>7. /\ j \in File(Seq(Results)) /\ Kept(j)
      /\ m.attempts > 0 => j.own # <<>> /\ Last(j.own) # "InProgress"
  <2>1. /\ journal \in File(Seq(Results)) /\ journal.own \in Seq(Results)
        /\ m.attempts > 0 => journal.own # <<>>
    BY <1>1 DEF Control, JournalFollows, FilesKept, File
  <2>2. PICK k : k = JournalClose(journal.own, ResultOf(boot))
    OBVIOUS
  <2>3. k \in Seq(Results) /\ (m.attempts > 0 => k # <<>> /\ Last(k) # "InProgress")
    BY <2>1, <2>2, JournalCloses, ResultCloses
  <2>4. j = Saved(journal, k, fate)
    BY <2>2
  <2> HIDE DEF j
  <2>5. PICK T : T = Seq(Results)
    OBVIOUS
  <2>6. journal \in File(T) /\ k \in T
    BY <2>1, <2>3, <2>5
  <2>7. j \in File(T) /\ Kept(j) /\ j.own = k
    BY <2>4, <2>6, SavedFacts
  <2> QED BY <2>3, <2>5, <2>7
<1>8. rest \in {<<>>, <<"resettle">>} /\ (rest # <<>> => m'.state = "Failed")
  BY <1>1
<1> HIDE DEF j, rest
<1> QED BY <1>1, <1>2, <1>3, <1>6, <1>7, <1>8, OutcomeControl

\* on_drained leaves the journal to the boot it may start.
LEMMA DrainedControl ==
    ASSUME IInv, Control, NEW r \in BOOLEAN, OnDrained(r)
    PROVE  Control'
<1> DEFINE e == [type |-> "Drained", released |-> r]
           s == IF r THEN "Idle" ELSE "Wedged"
<1>1. /\ up /\ todo = <<>> /\ slot = "Draining"
      /\ Apply(e, s, journal, <<>>) /\ m' = Step(m, e).m
      /\ UNCHANGED <<up, stops, promised, hold, marker, storeOpen, leaked>>
  BY DEF OnDrained, Selecting, Apply, HandlerFrame, storeVars
<1>2. m.state = "Draining" /\ m \in Lifecycle
  BY <1>1 DEF IInv, SlotFollowsLifecycle, Lifecycle, States
<1>3. e.type = "Drained" /\ e.released = r /\ s \in {"Idle", "Up", "Wedged"}
  OBVIOUS
<1> HIDE DEF e
<1>4. Step(m, e) = Settle(m, r)
  BY <1>2, <1>3, StepOutcome
<1>5. Step(m, e).ok /\ (Step(m, e).effect = "StartBoot" => s = "Idle")
  <2>1. Step(m, e).ok
    BY <1>4 DEF Settle, Did
  <2>2. Step(m, e).effect = "StartBoot" => r
    BY <1>2, <1>4, SettleFacts
  <2> QED BY <2>1, <2>2
<1>6. m.then \in {"Stop"} \cup ExitIntents => m'.state \in {"Stopped", "Wedged", "Exiting"}
  BY <1>1, <1>2, <1>3, StepEnds
<1>7. /\ journal \in File(Seq(Results)) /\ Kept(journal)
      /\ m.attempts > 0 => journal.own # <<>> /\ Last(journal.own) # "InProgress"
  BY <1>1 DEF Control, JournalFollows, FilesKept
<1> HIDE DEF s
<1> QED BY <1>1, <1>2, <1>3, <1>5, <1>6, <1>7, OutcomeControl

\* Every step keeps the control files' invariant.
LEMMA ControlKept ==
    ASSUME IInv, Outside, Control, [Next]_vars
    PROVE  Control'
<1>1. CASE \/ RequestStart \/ RequestRestart \/ RequestRetry \/ FirstEvent \/ RestartForConfig
           \/ OnProgress \/ OnRetryDue \/ OnDeclared
           \/ \E held \in BOOLEAN : RequestStop(held)
           \/ \E i \in ExitIntents : RequestExit(i)
           \/ \E left, now \in BOOLEAN : Reconfigure(left, now)
           \/ Resettle /\ boot.digest # file /\ CanBoot
  BY <1>1, HandlersCommand, CommandControl
<1>2. CASE Resettle /\ ~(boot.digest # file /\ CanBoot)
  <2>1. /\ todo' = <<>> /\ todo = <<"resettle">>
        /\ UNCHANGED <<up, m, slot, stops, hold, marker, journal, promised, storeOpen, leaked>>
    BY <1>2 DEF Resettle, HandlerFrame, storeVars
  <2>2. ~Due /\ ~Due' /\ todo' \in Seq(Todo)
    BY <2>1, AgendaPieces DEF Due, Rests
  <2>3. Agenda'
    BY <2>1, <2>2, AgendaDistinct DEF Agenda, Owed, Rests
  <2>4. StopsWait' /\ PromiseKept' /\ JournalFollows' /\ FilesKept'
    BY <2>1, <2>2 DEF Control, StopsWait, PromiseKept, JournalFollows, FilesKept
  <2>5. MarkerAhead'
    BY <2>1, <2>2 DEF Control, MarkerAhead, Free
  <2> QED BY <2>3, <2>4, <2>5 DEF Control
<1>3. CASE OnBootDone \/ \E r \in BOOLEAN : OnDrained(r)
  BY <1>3, BootDoneControl, DrainedControl
<1>4. CASE AfterTransition \/ WriteHold \/ QueueStop
  BY <1>4, AfterControl, WriteHoldControl, QueueStopControl
<1>5. CASE Launch \/ Crash \/ Finish
  <2>1. /\ m' = AtRest /\ slot' = "Idle" /\ stops' = <<>> /\ UNCHANGED <<hold, promised>>
        /\ todo' \in {<<>>, <<"run">>}
    BY <1>5 DEF Launch, Crash, Finish, Gone, diskVars
  <2>2. up' => Free'
    <3>1. CASE Launch
      BY <3>1 DEF Launch, storeVars, Free, Outside, IInv, StoreAccounted
    <3>2. CASE Crash \/ Finish
      BY <3>2 DEF Crash, Finish, Gone
    <3> QED BY <1>5, <3>1, <3>2
  <2>3. /\ marker \in File(Markers) /\ Kept(marker) /\ journal \in File(Seq(Results)) /\ Kept(journal)
        /\ journal.own \in Seq(Results) /\ journal.disk \in Seq(Results)
        /\ "Released" \in Markers
    BY DEF Control, FilesKept, File, Markers
  <2>4. marker' \in File(Markers) /\ Kept(marker')
    <3>1. CASE Launch
      <4>1. PICK fate \in {"written", "failed"} : marker' = Saved(marker, "Released", fate)
        BY <3>1, FateKinds DEF Launch
      <4> QED BY <2>3, <4>1, SavedFacts
    <3>2. CASE Crash
      BY <2>3, <3>2 DEF Crash, diskVars
    <3>3. CASE Finish
      BY <2>3, <3>3, SyncFacts DEF Finish, IInv
    <3> QED BY <1>5, <3>1, <3>2, <3>3
  <2>5. journal' \in File(Seq(Results)) /\ Kept(journal')
    <3>1. CASE Launch
      BY <2>3, <3>1, WrittenFacts DEF Launch
    <3>2. CASE Crash
      BY <2>3, <3>2 DEF Crash, diskVars
    <3>3. CASE Finish
      <4>1. PICK fate \in {"written", "failed"} : journal' = Saved(journal, journal.own, fate)
        BY <3>3, FateKinds DEF Finish
      <4> QED BY <2>3, <4>1, SavedFacts
    <3> QED BY <1>5, <3>1, <3>2, <3>3
  <2> QED BY <2>1, <2>2, <2>4, <2>5, ResetControl
<1>6. CASE TaskStep
  <2>1. TaskFrame
    BY <1>6 DEF TaskStep, BootCancelled, BootDigest, BootResolve, BootOpenStore, BootFailsInOpen,
       BootFailsEarly, BootFailsOpen, BootSucceeds, BootPanics, ShutdownReturns
  <2>2. boot.pc \in {"enter", "resolve", "checks", "assemble"} \/ slot = "Draining"
    BY <1>6 DEF TaskStep, BootCancelled, BootDigest, BootResolve, BootOpenStore, BootFailsInOpen,
       BootFailsEarly, BootFailsOpen, BootSucceeds, BootPanics, ShutdownReturns
  <2>3. slot \in {"Booting", "Draining"}
    BY <2>2 DEF IInv, TaskMatchesSlot
  <2>4. m.state \in {"Booting", "Draining"}
    BY <2>3 DEF IInv, SlotFollowsLifecycle, Lifecycle, States
  <2> QED BY <2>1, <2>4, BesideControl DEF TaskFrame, diskVars
<1>7. CASE LeakDrains
  BY <1>7, BesideControl DEF LeakDrains, TaskFrame, diskVars, Free
<1>8. CASE Prepare \/ (\E c \in book : Withdraw(c) \/ Execute(c))
           \/ (\E c \in inflight, moved \in BOOLEAN : Reinitialize(c, moved))
           \/ (\E c \in Contents : EditFile(c)) \/ Notify \/ UNCHANGED vars
  <2>1. UNCHANGED <<up, m, slot, todo, stops, hold, marker, journal, promised, storeOpen, leaked>>
    BY <1>8 DEF Prepare, Withdraw, Execute, Reinitialize, EditFile, Notify, vars, procVars, storeVars,
       diskVars
  <2> QED BY <2>1, BesideControl
<1> QED BY <1>1, <1>2, <1>3, <1>4, <1>5, <1>6, <1>7, <1>8 DEF Next, Requests, LoopStep

-----------------------------------------------------------------------------
(* The control files: types, and the theorem. *)

Challenge == [epoch: Nat, boots: Nat]
Snapshot == [state: States, epoch: Nat]

Types ==
    /\ up \in BOOLEAN /\ timer \in Nat /\ snap \in Snapshot
    /\ book \subseteq Challenge /\ inflight \subseteq Challenge
    /\ storeOpen \in BOOLEAN /\ leaked \in BOOLEAN /\ data \in BOOLEAN
    /\ promised \in BOOLEAN /\ file \in Contents

\* A handler writes the timer and the promise, nothing else of these.
LEMMA TypesHandler ==
    ASSUME Types, timer' \in Nat, promised' \in BOOLEAN,
           UNCHANGED <<up, snap, book, inflight, storeOpen, leaked, data, file>>
    PROVE  Types'
BY DEF Types

\* The handlers of events.
LEMMA TypesEvents ==
    ASSUME Types,
           \/ RequestStart \/ RequestRestart \/ RequestRetry \/ FirstEvent \/ RestartForConfig
           \/ OnProgress \/ OnRetryDue \/ OnDeclared \/ Resettle \/ OnBootDone
           \/ \E held \in BOOLEAN : RequestStop(held)
           \/ \E i \in ExitIntents : RequestExit(i)
           \/ \E left, now \in BOOLEAN : Reconfigure(left, now)
           \/ \E r \in BOOLEAN : OnDrained(r)
    PROVE  Types'
<1>1. UNCHANGED <<up, snap, book, inflight, storeOpen, leaked, data, file>>
  BY DEF RequestStart, RequestRestart, RequestRetry, FirstEvent, RestartForConfig, OnProgress,
     OnRetryDue, OnDeclared, Resettle, OnBootDone, RequestStop, RequestExit, Reconfigure, OnDrained,
     HandlerFrame, storeVars, fileVars
<1>2. timer' = timer \/ timer' = 0
  BY DEF RequestStart, RequestRestart, RequestRetry, FirstEvent, RestartForConfig, OnProgress,
     OnRetryDue, OnDeclared, Resettle, OnBootDone, RequestStop, RequestExit, Reconfigure, OnDrained,
     HandlerFrame
<1>3. promised' \in BOOLEAN
  <2>1. CASE RequestStart
    <3>1. promised' = (promised /\ ~Step(m, [type |-> "Start"]).ok)
      BY <2>1 DEF RequestStart
    <3> QED BY <3>1, Zenon
  <2>2. ASSUME NEW held, RequestStop(held) PROVE promised' \in BOOLEAN
    <3>1. promised' = (promised /\ ~Step(m, [type |-> "Stop"]).ok)
      BY <2>2 DEF RequestStop
    <3> QED BY <3>1, Zenon
  <2>3. \/ RequestStart \/ \E held \in BOOLEAN : RequestStop(held)
        \/ UNCHANGED promised
    BY DEF RequestRestart, RequestRetry, FirstEvent, RestartForConfig, OnProgress,
       OnRetryDue, OnDeclared, Resettle, OnBootDone, RequestExit, Reconfigure, OnDrained
  <2> QED BY <2>1, <2>2, <2>3 DEF Types
<1> QED BY <1>1, <1>2, <1>3, TypesHandler DEF Types

\* The rest of a handler.
LEMMA TypesRest ==
    ASSUME m \in Lifecycle, Control, Types, AfterTransition \/ WriteHold \/ QueueStop
    PROVE  Types'
<1>0. m.attempts \in Nat /\ m.epoch \in Nat /\ m.state \in States
  BY DEF Lifecycle
<1>1. CASE AfterTransition
  <2>1. timer' \in Nat /\ snap' \in Snapshot
    BY <1>0, <1>1 DEF AfterTransition, Types, Snapshot
  <2>2. promised' \in BOOLEAN
    <3>1. promised' = promised \/ (stops # <<>> /\ promised' = Last(stops))
      BY <1>1 DEF AfterTransition, AnswerStops, Answered
    <3>2. stops = <<>> \/ stops = <<TRUE>> \/ stops = <<FALSE>>
      BY DEF Control, StopsWait
    <3>3. Last(<<TRUE>>) = TRUE /\ Last(<<FALSE>>) = FALSE
      BY DEF Last
    <3> QED BY <3>1, <3>2, <3>3 DEF Types
  <2>3. UNCHANGED <<up, book, inflight, storeOpen, leaked, data, file>>
    BY <1>1 DEF AfterTransition, storeVars, fileVars
  <2> QED BY <2>1, <2>2, <2>3 DEF Types
<1>2. CASE WriteHold
  <2>1. UNCHANGED <<up, timer, snap, book, inflight, storeOpen, leaked, data, file, promised>>
    BY <1>2 DEF WriteHold, storeVars, fileVars
  <2> QED BY <2>1 DEF Types
<1>3. CASE QueueStop
  <2>1. UNCHANGED <<up, timer, snap, book, inflight, storeOpen, leaked, data, file>>
    BY <1>3 DEF QueueStop, storeVars, fileVars, diskVars
  <2>2. promised' \in BOOLEAN
    <3>1. PICK b \in BOOLEAN : b = (Head(todo) = "pushHeld")
      BY Zenon
    <3>2. promised' = promised \/ promised' = Last(Append(stops, b))
      BY <1>3, <3>1 DEF QueueStop
    <3>3. stops \in Seq(BOOLEAN)
      <4>1. <<>> \in Seq(BOOLEAN) /\ <<TRUE>> \in Seq(BOOLEAN) /\ <<FALSE>> \in Seq(BOOLEAN)
        OBVIOUS
      <4> QED BY <4>1 DEF Control, StopsWait
    <3>4. Last(Append(stops, b)) = b
      <4>1. Len(Append(stops, b)) = Len(stops) + 1 /\ Append(stops, b)[Len(stops) + 1] = b
        BY <3>3, AppendProperties
      <4> QED BY <4>1 DEF Last
    <3> QED BY <3>1, <3>2, <3>4 DEF Types
  <2> QED BY <2>1, <2>2, TypesHandler DEF Types
<1> QED BY <1>1, <1>2, <1>3

\* The tasks.
LEMMA TypesTasks ==
    ASSUME Types, TaskStep \/ LeakDrains
    PROVE  Types'
<1>1. TaskFrame
  BY DEF TaskStep, BootCancelled, BootDigest, BootResolve, BootOpenStore, BootFailsInOpen,
     BootFailsEarly, BootFailsOpen, BootSucceeds, BootPanics, ShutdownReturns, LeakDrains
<1>2. UNCHANGED <<up, timer, snap, book, inflight, promised, file>>
  BY <1>1 DEF TaskFrame, diskVars, fileVars
<1>3. storeOpen' \in BOOLEAN
  <2>1. ASSUME NEW class, NEW r \in BOOLEAN, BootFailsOpen(class, r) PROVE storeOpen' \in BOOLEAN
    BY <2>1, Zenon DEF BootFailsOpen
  <2>2. ASSUME NEW r \in BOOLEAN, ShutdownReturns(r) PROVE storeOpen' \in BOOLEAN
    BY <2>2, Zenon DEF ShutdownReturns
  <2>3. \/ storeOpen' = storeOpen \/ storeOpen' = TRUE \/ storeOpen' = FALSE
        \/ \E class, r : r \in BOOLEAN /\ BootFailsOpen(class, r)
        \/ \E r \in BOOLEAN : ShutdownReturns(r)
    BY DEF TaskStep, BootCancelled, BootDigest, BootResolve, BootOpenStore, BootFailsInOpen,
       BootFailsEarly, BootSucceeds, BootPanics, LeakDrains, storeVars
  <2> QED BY <2>1, <2>2, <2>3 DEF Types
<1>4. leaked' \in BOOLEAN /\ data' \in BOOLEAN
  <2>1. leaked' = leaked \/ leaked' = TRUE \/ leaked' = FALSE
    BY DEF TaskStep, BootCancelled, BootDigest, BootResolve, BootOpenStore, BootFailsInOpen,
       BootFailsEarly, BootFailsOpen, BootSucceeds, BootPanics, ShutdownReturns, LeakDrains, storeVars
  <2>2. data' = data \/ data' = TRUE
    BY DEF TaskStep, BootCancelled, BootDigest, BootResolve, BootOpenStore, BootFailsInOpen,
       BootFailsEarly, BootFailsOpen, BootSucceeds, BootPanics, ShutdownReturns, LeakDrains, storeVars
  <2> QED BY <2>1, <2>2 DEF Types
<1> QED BY <1>2, <1>3, <1>4 DEF Types

\* Every step keeps the types.
LEMMA TypesKept ==
    ASSUME IInv, Control, Types, [Next]_vars
    PROVE  Types'
<1>0. m \in Lifecycle /\ m.attempts \in Nat
  BY DEF IInv, Lifecycle
<1>1. CASE \/ RequestStart \/ RequestRestart \/ RequestRetry \/ FirstEvent \/ RestartForConfig
           \/ OnProgress \/ OnRetryDue \/ OnDeclared \/ Resettle \/ OnBootDone
           \/ \E held \in BOOLEAN : RequestStop(held)
           \/ \E i \in ExitIntents : RequestExit(i)
           \/ \E left, now \in BOOLEAN : Reconfigure(left, now)
           \/ \E r \in BOOLEAN : OnDrained(r)
  BY <1>1, TypesEvents
<1>2. CASE AfterTransition \/ WriteHold \/ QueueStop
  BY <1>0, <1>2, TypesRest
<1>3. CASE TaskStep \/ LeakDrains
  BY <1>3, TypesTasks
<1>4. CASE Launch \/ Crash \/ Finish
  <2>1. /\ up' \in BOOLEAN /\ timer' = 0 /\ snap' = [state |-> "Resolving", epoch |-> 0]
        /\ book' = {} /\ inflight' = {} /\ UNCHANGED <<data, promised, file>>
    BY <1>4 DEF Launch, Crash, Finish, Gone, storeVars, diskVars
  <2>2. storeOpen' \in BOOLEAN /\ leaked' \in BOOLEAN
    BY <1>4 DEF Launch, Crash, Finish, Gone, storeVars, Types
  <2>3. snap' \in Snapshot
    BY <2>1 DEF Snapshot, States
  <2> QED BY <2>1, <2>2, <2>3 DEF Types
<1>5. CASE Prepare
  <2>1. [epoch |-> snap.epoch, boots |-> m.attempts] \in Challenge
    BY <1>0 DEF Types, Snapshot, Challenge
  <2> QED BY <1>5, <2>1 DEF Prepare, storeVars, diskVars, fileVars, Types
<1>6. ASSUME NEW c \in book, Withdraw(c) \/ Execute(c) PROVE Types'
  <2>1. book' \subseteq book /\ inflight' \subseteq inflight \cup book
    BY <1>6 DEF Withdraw, Execute
  <2>2. UNCHANGED <<up, timer, snap, storeOpen, leaked, data, promised, file>>
    BY <1>6 DEF Withdraw, Execute, storeVars, diskVars, fileVars
  <2> QED BY <2>1, <2>2 DEF Types
<1>7. ASSUME NEW c \in inflight, NEW moved \in BOOLEAN, Reinitialize(c, moved) PROVE Types'
  <2>1. data' = (data /\ ~(RestingIn(c) /\ moved)) /\ inflight' \subseteq inflight
    BY <1>7 DEF Reinitialize
  <2>2. data' \in BOOLEAN
    BY <2>1, Zenon
  <2>3. UNCHANGED <<up, timer, snap, book, storeOpen, leaked, promised, file>>
    BY <1>7 DEF Reinitialize, diskVars, fileVars
  <2> QED BY <2>1, <2>2, <2>3 DEF Types
<1>8. ASSUME NEW c \in Contents, EditFile(c) PROVE Types'
  BY <1>8 DEF EditFile, procVars, storeVars, diskVars, Types
<1>9. CASE Notify \/ UNCHANGED vars
  BY <1>9 DEF Notify, vars, procVars, storeVars, diskVars, fileVars, Types
<1> QED BY <1>1, <1>2, <1>3, <1>4, <1>5, <1>6, <1>7, <1>8, <1>9 DEF Next, Requests, LoopStep

\* The parts say what the property does.
LEMMA ControlTells ==
    ASSUME IInv, Saw, Control, Types
    PROVE  ControlFilesTellUnlessUnwritten
<1>1. TypeOK
  <2>1. stops \in Seq(BOOLEAN)
    <3>1. <<>> \in Seq(BOOLEAN) /\ <<TRUE>> \in Seq(BOOLEAN) /\ <<FALSE>> \in Seq(BOOLEAN)
      OBVIOUS
    <3> QED BY <3>1 DEF Control, StopsWait
  <2>2. todo \in Seq(Todo)
    BY DEF Control, Agenda
  <2>3. m \in Lifecycle /\ slot \in {"Idle", "Booting", "Up", "Draining", "Wedged"} /\ boot \in BootRecord
    BY DEF IInv
  <2>4. {changes, unnotified} \subseteq Nat
    BY DEF Saw
  <2>5. {storeOpen, leaked, data, promised} \subseteq BOOLEAN
    BY Zenon DEF Types
  <2>6. book \cup inflight \subseteq [epoch: Nat, boots: Nat] /\ snap \in [state: States, epoch: Nat]
    BY DEF Types, Challenge, Snapshot
  <2>7. /\ up \in BOOLEAN /\ timer \in Nat /\ file \in Contents
    BY DEF Types
  <2>8. {hold.own, hold.disk} \subseteq Holds /\ {marker.own, marker.disk} \subseteq Markers
    BY DEF Control, FilesKept, File
  <2>9. {journal.own, journal.disk} \subseteq Seq(Results)
    BY DEF Control, FilesKept, File
  <2>10. {hold.last, marker.last, journal.last} \subseteq {"written", "failed"}
    BY DEF Control, FilesKept, File
  <2>11. /\ Holds = {"None", "AcrossRelaunch"}
         /\ Markers = {"None", "Released", "Booting", "Running", "Draining"}
    BY DEF Holds, Markers, Live
  <2> QED BY <2>1, <2>2, <2>3, <2>4, <2>5, <2>6, <2>7, <2>8, <2>9, <2>10, <2>11 DEF TypeOK, BootRecord, Todo, Results
<1>2. HeldStaysStopped
  BY DEF Control, PromiseKept, FilesKept, Kept, HeldStaysStopped, Idle
<1>3. RunMarkerHonest
  BY DEF Control, MarkerAhead, FilesKept, Kept, RunMarkerHonest, Due, Free
<1>4. JournalTells
  BY DEF Control, JournalFollows, FilesKept, Kept, JournalTells
<1> QED BY <1>1, <1>2, <1>3, <1>4 DEF ControlFilesTellUnlessUnwritten

\* In every behaviour, whatever the bounds, whichever writes fail and however
\* often the process is killed and launched: the state is well typed; a stop
\* that was answered as held is on disk and nothing boots, if write_hold's last
\* write took; a run marker that says Released is true between handlers, if
\* sync_run_marker's last write took; and the journal's last entry is in
\* progress exactly while this process runs a boot, in memory always and on
\* disk if persist_journal's last write took.
THEOREM ControlFilesTellAlways == Spec => []ControlFilesTellUnlessUnwritten
<1>1. Init => IInv /\ Outside /\ Saw /\ Control /\ Types
  <2> SUFFICES ASSUME Init PROVE IInv /\ Outside /\ Saw /\ Control /\ Types
    OBVIOUS
  <2>1. IInv /\ Outside /\ Saw
    BY InitKeeps DEF Init, Saw
  <2>2. Control
    <3>1. todo = <<>> /\ stops = <<>> /\ ~up /\ ~promised
      BY DEF Init
    <3>2. <<>> \in Seq(Todo) /\ <<>> \in Seq(Results)
      OBVIOUS
    <3>3. "None" \in Holds /\ "None" \in Markers
      BY DEF Holds, Markers
    <3>4. FilesKept
      BY <3>2, <3>3, WrittenFacts DEF Init, FilesKept
    <3> QED BY <3>1, <3>2, <3>4, AgendaDistinct
            DEF Control, Agenda, StopsWait, PromiseKept, MarkerAhead, JournalFollows, Owed, Due, Rests
  <2>3. snap \in Snapshot
    BY DEF Init, Snapshot, States
  <2>4. Types
    BY <2>3 DEF Init, Types
  <2> QED BY <2>1, <2>2, <2>4
<1>2. IInv /\ Outside /\ Saw /\ Control /\ Types /\ [Next]_vars
        => (IInv /\ Outside /\ Saw /\ Control /\ Types)'
  BY NextKeeps, SawKept, ControlKept, TypesKept
<1>3. IInv /\ Saw /\ Control /\ Types => ControlFilesTellUnlessUnwritten
  BY ControlTells
<1> QED BY <1>1, <1>2, <1>3, PTL DEF Spec

=============================================================================
