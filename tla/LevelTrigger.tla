---------------------------- MODULE LevelTrigger ----------------------------
(***************************************************************************)
(* What a driver promises the controller it runs, and its watchers of the  *)
(* cluster: one sweep at a time, and every change is followed by a sweep   *)
(* that began after it and succeeded.  Nothing is said of how the driver   *)
(* learns of the change.                                                   *)
(***************************************************************************)
EXTENDS Naturals

VARIABLES head,   \* changes the controller has to see
          at,     \* the change the last sweep began after
          seen,   \* the change the last successful sweep began after
          phase   \* "idle", "sweeping", or "dead" after a fatal panic

vars == <<head, at, seen, phase>>

Init == head \in Nat /\ at = 0 /\ seen = 0 /\ phase = "idle"

Change == head' = head + 1 /\ UNCHANGED <<at, seen, phase>>

Begin == phase = "idle" /\ phase' = "sweeping" /\ at' = head /\ UNCHANGED <<head, seen>>

Finish == phase = "sweeping" /\ phase' = "idle" /\ seen' = at /\ UNCHANGED <<head, at>>

Abandon == phase = "sweeping" /\ phase' = "idle" /\ UNCHANGED <<head, at, seen>>

Stop == phase = "sweeping" /\ phase' = "dead" /\ UNCHANGED <<head, at, seen>>

Next == Change \/ Begin \/ Finish \/ Abandon \/ Stop

\* A sweep is owed while a change is not covered; sweeps do not fail forever.
Spec == Init /\ [][Next]_vars /\ WF_vars(seen < head /\ Begin) /\ SF_vars(Finish)
=============================================================================
