---------------------------- MODULE PodLifecycle ----------------------------
(***************************************************************************)
(* The kubelet's pure decisions about containers and pods                  *)
(* (engenho-kubelet/src/lifecycle.rs).                                     *)
(*                                                                         *)
(* An exit is "ok" (an observed code 0), "bad" (any other observed end) or *)
(* "unknown" (down, and nobody saw how).  A status entry says of one       *)
(* container whether it is waiting, running or ended, and which run: its   *)
(* id and its restart count.                                               *)
(***************************************************************************)
EXTENDS Naturals

Policies == {"Always", "OnFailure", "Never"}
Exits == {"ok", "bad", "unknown"}

\* Names no run.
NoId == <<0, 0>>

\* The entry of a container that has not started.
Waiting == [state |-> "waiting", id |-> NoId, count |-> 0, exit |-> "unknown"]

RunningEntry(id, count) ==
  [state |-> "running", id |-> id, count |-> count, exit |-> "unknown"]

\* Held off between two runs: the entry still names the run that is down.
BackingOff(id, count) == [RunningEntry(id, count) EXCEPT !.state = "waiting"]

EndedEntry(id, count, exit) ==
  [state |-> "ended", id |-> id, count |-> count, exit |-> exit]

ShouldRestart(policy, exit) ==
  \/ policy = "Always"
  \/ policy = "OnFailure" /\ exit # "ok"

\* Mutant: the last poll is believed.
KnownAfterLastPoll(earlier, polled) == polled

\* An exit once observed is not turned into an unobserved one by a later poll.
KnownAfter(earlier, polled) ==
  IF earlier \in {"ok", "bad"} /\ polled = "unknown" THEN earlier ELSE polled

\* Mutant: only an observed failure spoils the pod.
AllSucceededUnlessBad(obs) ==
  \A c \in DOMAIN obs : obs[c].state = "ended" /\ obs[c].exit # "bad"

\* Every container ended, and every end was seen and was 0.
AllSucceeded(obs) ==
  \A c \in DOMAIN obs : obs[c].state = "ended" /\ obs[c].exit = "ok"

\* The phase of a pod whose entries are obs; started are the containers the
\* kubelet has a record of.
ReconcilePodPhase(policy, obs, started) ==
  LET Some(s) == \E c \in DOMAIN obs : obs[c].state = s
      restartable == \E c \in DOMAIN obs :
                        obs[c].state = "ended" /\ ShouldRestart(policy, obs[c].exit)
      pending == \E c \in DOMAIN obs \ started : obs[c].state = "waiting"
      live == (Some("waiting") /\ policy # "Never") \/ restartable \/ Some("running")
  IN CASE DOMAIN obs = {} \/ pending -> "Pending"
       [] DOMAIN obs # {} /\ ~pending /\ live -> "Running"
       [] DOMAIN obs # {} /\ ~pending /\ ~live ->
            IF AllSucceeded(obs) THEN "Succeeded" ELSE "Failed"

Terminal == {"Succeeded", "Failed"}

\* A terminal phase, once published, is published again whatever is computed.
PhaseToPublish(published, computed) ==
  IF published \in Terminal THEN published ELSE computed

(***************************************************************************)
(* The init sequence: regular init containers run to completion one after  *)
(* the other; a sidecar only has to have started, and is started again     *)
(* whenever it is down.                                                    *)
(***************************************************************************)
\* Mutant: an init container only has to have ended.
BlockingUntilEnded(inits, obs) ==
  {i \in DOMAIN inits : ~inits[i].sidecar /\ obs[i].state # "ended"}

\* The regular init containers that have not succeeded.
Blocking(inits, obs) ==
  {i \in DOMAIN inits : /\ ~inits[i].sidecar
                        /\ ~(obs[i].state = "ended" /\ obs[i].exit = "ok")}

NextInitAction(policy, inits, obs) ==
  LET blocking == Blocking(inits, obs)
      reached == {i \in DOMAIN inits : \A b \in blocking : i <= b}
      first == reached \intersect blocking
      sidecars == {i \in reached : /\ inits[i].sidecar
                                   /\ obs[i].id = NoId \/ obs[i].state = "ended"}
      active == {i \in first : \/ obs[i].state = "waiting"
                               \/ /\ obs[i].state = "ended"
                                  /\ ShouldRestart(policy, obs[i].exit)}
      failed == \E i \in first : /\ obs[i].state = "ended"
                                 /\ ~ShouldRestart(policy, obs[i].exit)
  IN [failed |-> failed, start |-> sidecars \union active, blocked |-> first # {}]

(***************************************************************************)
(* Re-adoption: what the stored status says a lost kubelet had started.    *)
(***************************************************************************)
StoredUp(entry) ==
  \/ entry.state = "running"
  \/ entry.state = "waiting" /\ entry.id # NoId

\* Mutant: what the status says was up is not looked at.
ReconcileLostPodForgets(policy, stored) == "NothingLost"

ReconcileLostPod(policy, stored) ==
  IF ~ \E c \in DOMAIN stored : StoredUp(stored[c]) THEN "NothingLost"
  ELSE IF ShouldRestart(policy, "unknown") THEN "Restart" ELSE "Failed"

\* The entry of a container in a lost pod that will not run again.
LostStatus(entry) ==
  IF StoredUp(entry) THEN EndedEntry(entry.id, entry.count, "unknown") ELSE entry

\* Mutant: every start by a kubelet without a record is a first start.
StartedAsFresh(entry, id, adopts) == 0

\* The restart count of a container started as id over the stored entry.
StartedAs(entry, id, adopts) ==
  IF entry.id = NoId THEN 0
  ELSE IF adopts /\ entry.id = id THEN entry.count
  ELSE entry.count + 1

=============================================================================
