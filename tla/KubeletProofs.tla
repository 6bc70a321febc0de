---------------------------- MODULE KubeletProofs ---------------------------
(***************************************************************************)
(* For every pod, restart policy and runtime, and any number of failures,  *)
(* crashes and pods created under the name: the kubelet's records agree    *)
(* with the containers the runtime has, what it publishes of a pod is      *)
(* true, a run that was seen to end stays ended, restarts are counted, and *)
(* app containers wait for the init sequence.                              *)
(*                                                                         *)
(* The inductive invariant says, container by container, how the runtime,  *)
(* the record and the published entry relate (RunOK, RecOK, Told); of a    *)
(* published status, why it stays true (StatusOK); and of the pass, what   *)
(* it may rely on at each of its steps (PassOK, WriteOK).  A step changes  *)
(* the containers in one of five ways: one of them ends, some decay (are   *)
(* stopped, removed or noted as down), one is started, one is adopted, or  *)
(* the record is dropped; each part of the invariant is shown to survive   *)
(* these five, and the passes are then argued step by step.                *)
(***************************************************************************)
EXTENDS Kubelet, TLAPS, SequenceTheorems, NaturalsInduction, WellFoundedInduction

RunIds == Nat \X Nat
Phases == {"Pending", "Running"} \cup Terminal
Held == [id: RunIds, run: {"up", "stopping", "gone"} \cup Ended]
Record == [id: RunIds, count: Nat, down: {"none"} \cup Exits, owed: BOOLEAN]
Entry == [state: {"waiting", "running", "ended"}, id: RunIds, count: Nat, exit: Exits]
Entries == {e \in Entry : e.state # "waiting" => e.id # NoId}
Steps == {"idle", "clean", "cleanInits", "drive", "readopt", "init", "initStart", "initEnd",
          "apps", "mount", "start", "observe", "write"}

LocalType == [known: BOOLEAN, uid: Nat, done: BOOLEAN, recs: [Names -> Record]]
PodType == [uid: Nat, term: BOOLEAN, phase: Phases, apps: [Apps -> Entries],
            inits: [Inits -> RunIds]]
OutType == [phase: Phases, apps: [Apps -> Entries], inits: [Inits -> RunIds]]
PassType == [at: Steps, seen: PodType, fresh: BOOLEAN, todo: SUBSET Nat, blocked: BOOLEAN,
             obs: [Apps -> Entries], unseen: BOOLEAN, out: OutType]

Types ==
  /\ setup \in Setups /\ born \in Nat /\ events \in 0..MaxEvents
  /\ pod \in PodType
  /\ held \in [Names -> Held]
  /\ starts \in [Uids -> [Names -> Nat]]
  /\ local \in LocalType
  /\ pass \in PassType
  /\ penalty \subseteq Uids \X Names
  /\ taken \subseteq Uids
  /\ pass.fresh => Exists(pod) /\ pod = pass.seen

-----------------------------------------------------------------------------
(***************************************************************************)
(* One container: h is what the runtime has under its name, r its record,  *)
(* e an entry of a published status; st and cl are the runs started and    *)
(* the runs that exited 0.                                                 *)
(***************************************************************************)
Lives(h) == h.run \in {"up", "stopping"}

Started(c, id, st) == id[1] \in DOMAIN st /\ id[2] \in 1..st[id[1]][c]

\* A run exits 0 once and for good.
RunOK(c, h, st, cl) ==
  /\ h.run = "gone" <=> h = Gone
  /\ h.run # "gone" => Started(c, h.id, st)
  /\ <<c, h.id>> \in cl <=> h.run = "ok"

\* A record follows the run the runtime has, or one it no longer has; what it
\* notes of its end is how it ended.
RecOK(c, h, r, st, cl) ==
  /\ r.id # NoId => Started(c, r.id, st) /\ h.id \in {NoId, r.id}
  /\ r.id = NoId => r.down = "none"
  /\ r.down = "ok" => <<c, r.id>> \in cl
  /\ r.down # "none" /\ h.id = r.id => h.run = r.down

\* What the store says of c names a run there was; one it says has ended is not
\* up; and the record does not contradict it.
Told(e, c, h, r, st) ==
  /\ e.id # NoId => Started(c, e.id, st)
  /\ e.state = "ended" /\ Lives(h) => h.id # e.id
  /\ r.id # NoId /\ e.id # NoId =>
       /\ r.id = e.id => r.count = e.count
       /\ r.id # e.id => r.count > e.count
       /\ r.id = e.id /\ e.state = "ended" /\ e.exit \in Ended => r.down = e.exit

\* h2 is h, maybe stopping or gone by now; r2 is r, maybe with its end noted.
Aged(h, h2) ==
  \/ h2 = h
  \/ h2 = Gone
  \/ Lives(h) /\ h2.id = h.id /\ h2.run = "stopping"

NotedDown(h, r) ==
  IF r.id = NoId \/ (h.id = r.id /\ Lives(h)) THEN r.down
  ELSE KnownAfter(r.down, IF h.id # r.id THEN "unknown" ELSE h.run)

Kept(h, r, r2) ==
  /\ r2.id = r.id /\ r2.count = r.count
  /\ r2.down = r.down \/ r2.down = NotedDown(h, r)

\* What a poll notes of a container is its end, and an end is noted once.
LEMMA NotedIsTheEnd ==
  ASSUME NEW c, NEW st, NEW cl, NEW h \in Held, NEW r \in Record,
         RunOK(c, h, st, cl), RecOK(c, h, r, st, cl)
  PROVE  /\ NotedDown(h, r) \in {"none"} \cup Exits
         /\ r.down # "none" => NotedDown(h, r) = r.down
         /\ r.id = NoId => NotedDown(h, r) = "none"
         /\ r.id # NoId /\ ~(h.id = r.id /\ Lives(h)) => NotedDown(h, r) \in Exits
         /\ NotedDown(h, r) # "none" /\ h.id = r.id => h.run = NotedDown(h, r)
         /\ NotedDown(h, r) = "ok" => <<c, r.id>> \in cl
<1>1. h.run \in {"up", "stopping", "gone", "ok", "bad"} /\ r.down \in {"none", "ok", "bad", "unknown"}
  BY DEF Held, Record, Ended, Exits
<1>2. h.run = "gone" => h.id = NoId
  BY DEF RunOK, Gone
<1>. QED  BY <1>1, <1>2 DEF RunOK, RecOK, NotedDown, KnownAfter, Lives, Exits

\* Decay keeps the run and its record in agreement.
LEMMA DecayKeepsContainer ==
  ASSUME NEW c, NEW st, NEW cl, NEW h \in Held, NEW r \in Record, NEW h2 \in Held, NEW r2 \in Record,
         \A x \in cl : Started(x[1], x[2], st),
         RunOK(c, h, st, cl), RecOK(c, h, r, st, cl), Aged(h, h2), Kept(h, r, r2)
  PROVE  RunOK(c, h2, st, cl) /\ RecOK(c, h2, r2, st, cl)
<1>1. Gone.id = NoId /\ Gone.run = "gone" /\ NoId[1] = 0 /\ NoId[2] = 0
  BY DEF Gone, NoId
<1>2. <<c, NoId>> \notin cl
  BY <1>1 DEF Started
<1>3. Started(c, NoId, st) => FALSE
  BY <1>1 DEF Started
<1>4. h2.run \in {"up", "stopping", "gone", "ok", "bad"}
  BY DEF Held, Ended
<1>5. RunOK(c, h2, st, cl)
  <2>1. CASE h2 = h  BY <2>1
  <2>2. CASE h2 = Gone  BY <1>1, <1>2, <2>2 DEF RunOK
  <2>3. CASE Lives(h) /\ h2.id = h.id /\ h2.run = "stopping"
    BY <1>1, <2>3 DEF RunOK, Lives
  <2>. QED  BY <2>1, <2>2, <2>3 DEF Aged
<1>6. r2.id = r.id /\ r2.down \in {r.down, NotedDown(h, r)}
  BY DEF Kept
<1>7. r2.down = "ok" => <<c, r2.id>> \in cl
  BY <1>6, NotedIsTheEnd DEF RecOK
<1>8. r2.id = NoId => r2.down = "none"
  BY <1>6, NotedIsTheEnd DEF RecOK
<1>9. r2.id # NoId => Started(c, r2.id, st) /\ h2.id \in {NoId, r2.id}
  BY <1>1, <1>6 DEF RecOK, Aged
<1>10. ASSUME r2.down # "none", h2.id = r2.id  PROVE h2.run = r2.down
  <2>1. r.id # NoId
    BY <1>6, <1>8, <1>10
  <2>2. h2 # Gone /\ h2.id = h.id
    BY <1>1, <1>6, <1>10, <2>1 DEF Aged
  <2>3. h.id = r.id
    BY <1>6, <1>10, <2>2
  <2>4. h.run = r2.down
    BY <1>6, <1>10, <2>3, NotedIsTheEnd DEF RecOK
  <2>5. ~Lives(h)
    <3>1. r2.down \in Exits
      BY <1>10 DEF Record
    <3>. QED  BY <2>4, <3>1 DEF Lives, Exits
  <2>. QED  BY <2>2, <2>4, <2>5 DEF Aged
<1>. QED  BY <1>5, <1>7, <1>8, <1>9, <1>10 DEF RecOK

\* Decay contradicts nothing that was told.
LEMMA DecayKeepsTold ==
  ASSUME NEW c, NEW st, NEW cl, NEW h \in Held, NEW r \in Record, NEW h2 \in Held, NEW r2 \in Record,
         NEW e \in Entries, RunOK(c, h, st, cl), RecOK(c, h, r, st, cl),
         Aged(h, h2), Kept(h, r, r2), Told(e, c, h, r, st)
  PROVE  Told(e, c, h2, r2, st)
<1>1. Lives(h2) => Lives(h) /\ h2.id = h.id
  BY DEF Aged, Lives, Gone
<1>2. r2.id = r.id /\ r2.count = r.count /\ r2.down \in {r.down, NotedDown(h, r)}
  BY DEF Kept
<1>3. ASSUME r.down \in Ended  PROVE r2.down = r.down
  BY <1>2, <1>3, NotedIsTheEnd DEF Ended
<1>4. ASSUME r.id # NoId, e.id # NoId, r.id = e.id, e.state = "ended", e.exit \in Ended
      PROVE  r2.down = e.exit
  BY <1>3, <1>4 DEF Told
<1>. QED  BY <1>1, <1>2, <1>4 DEF Told

\* The record is dropped, of a container that may be stopped or gone.
LEMMA DropKeepsContainer ==
  ASSUME NEW c, NEW st, NEW cl, NEW h \in Held, NEW r \in Record, NEW h2 \in Held,
         \A x \in cl : Started(x[1], x[2], st),
         RunOK(c, h, st, cl), RecOK(c, h, r, st, cl), Aged(h, h2)
  PROVE  RunOK(c, h2, st, cl) /\ RecOK(c, h2, NoRecord, st, cl)
<1>1. RunOK(c, h2, st, cl)
  BY DecayKeepsContainer DEF Kept
<1>2. NoRecord.id = NoId /\ NoRecord.down = "none"
  BY DEF NoRecord
<1>. QED  BY <1>1, <1>2 DEF RecOK

LEMMA DropKeepsTold ==
  ASSUME NEW c, NEW st, NEW h \in Held, NEW r \in Record, NEW h2 \in Held,
         NEW e \in Entries, Aged(h, h2), Told(e, c, h, r, st)
  PROVE  Told(e, c, h2, NoRecord, st)
<1>1. Lives(h2) => Lives(h) /\ h2.id = h.id
  BY DEF Aged, Lives, Gone
<1>2. NoRecord.id = NoId
  BY DEF NoRecord
<1>. QED  BY <1>1, <1>2 DEF Told

\* The run of c ends: cl2 are the runs that have exited 0 after it.
EndsAs(c, h, h2, cl, cl2) ==
  /\ Lives(h) /\ h2.id = h.id /\ h2.run \in Ended
  /\ cl2 = IF h2.run = "ok" THEN cl \cup {<<c, h.id>>} ELSE cl

LEMMA EndKeepsContainer ==
  ASSUME NEW c, NEW st, NEW cl, NEW cl2, NEW h \in Held, NEW r \in Record, NEW h2 \in Held,
         RunOK(c, h, st, cl), RecOK(c, h, r, st, cl), EndsAs(c, h, h2, cl, cl2)
  PROVE  RunOK(c, h2, st, cl2) /\ RecOK(c, h2, r, st, cl2)
<1>1. Gone.run = "gone" /\ h2.run \in {"ok", "bad"} /\ h.run \in {"up", "stopping"}
  BY DEF EndsAs, Ended, Gone, Lives
<1>2. r.down \in {"none", "ok", "bad", "unknown"}
  BY DEF Record, Exits
<1>3. RunOK(c, h2, st, cl2)
  BY <1>1 DEF EndsAs, RunOK
<1>4. r.down # "none" => h.id # r.id
  BY <1>1, <1>2 DEF RecOK
<1>. QED  BY <1>3, <1>4 DEF EndsAs, RecOK

LEMMA EndKeepsTold ==
  ASSUME NEW c, NEW st, NEW cl, NEW cl2, NEW h \in Held, NEW r \in Record, NEW h2 \in Held,
         NEW e \in Entries, EndsAs(c, h, h2, cl, cl2), Told(e, c, h, r, st)
  PROVE  Told(e, c, h2, r, st)
<1>1. ~Lives(h2)
  BY DEF EndsAs, Lives, Ended
<1>. QED  BY <1>1 DEF Told

LEMMA EndKeepsOthers ==
  ASSUME NEW c, NEW d, d # c, NEW st, NEW cl, NEW cl2, NEW h \in Held, NEW h2 \in Held,
         NEW g \in Held, NEW r \in Record,
         RunOK(d, g, st, cl), RecOK(d, g, r, st, cl), EndsAs(c, h, h2, cl, cl2)
  PROVE  RunOK(d, g, st, cl2) /\ RecOK(d, g, r, st, cl2)
<1>1. \A id : <<d, id>> \in cl2 <=> <<d, id>> \in cl
  BY DEF EndsAs
<1>. QED  BY <1>1 DEF RunOK, RecOK

\* More runs started: nothing that was started is undone.
Grows(st, st2) ==
  /\ DOMAIN st2 = DOMAIN st
  /\ \A u \in DOMAIN st : DOMAIN st2[u] = DOMAIN st[u]
  /\ \A u \in DOMAIN st : \A c \in DOMAIN st[u] :
       st[u][c] \in Nat /\ st2[u][c] \in Nat /\ st[u][c] <= st2[u][c]

LEMMA StartedStays ==
  ASSUME NEW st, NEW st2, Grows(st, st2), NEW c, NEW id,
         Started(c, id, st), c \in DOMAIN st[id[1]]
  PROVE  Started(c, id, st2)
<1>1. /\ id[1] \in DOMAIN st /\ id[2] \in 1..st[id[1]][c]
  BY DEF Started
<1>2. st[id[1]][c] \in Nat /\ st2[id[1]][c] \in Nat /\ st[id[1]][c] <= st2[id[1]][c]
      /\ DOMAIN st2 = DOMAIN st
  BY <1>1 DEF Grows
<1>3. id[2] \in 1..st2[id[1]][c]
  BY <1>1, <1>2
<1>. QED  BY <1>1, <1>2, <1>3 DEF Started

LEMMA GrowthKeeps ==
  ASSUME NEW st, NEW st2, Grows(st, st2), NEW c, \A u \in DOMAIN st : c \in DOMAIN st[u],
         NEW cl, NEW h \in Held, NEW r \in Record
  PROVE  /\ RunOK(c, h, st, cl) => RunOK(c, h, st2, cl)
         /\ RecOK(c, h, r, st, cl) => RecOK(c, h, r, st2, cl)
         /\ \A e \in Entries : Told(e, c, h, r, st) => Told(e, c, h, r, st2)
<1>1. \A id : Started(c, id, st) => Started(c, id, st2)
  <2>. SUFFICES ASSUME NEW id, Started(c, id, st) PROVE Started(c, id, st2)
    OBVIOUS
  <2>1. c \in DOMAIN st[id[1]]
    BY DEF Started
  <2>. QED  BY <2>1, StartedStays
<1>2. RunOK(c, h, st, cl) => RunOK(c, h, st2, cl)
  BY <1>1 DEF RunOK
<1>3. RecOK(c, h, r, st, cl) => RecOK(c, h, r, st2, cl)
  BY <1>1 DEF RecOK
<1>4. \A e \in Entries : Told(e, c, h, r, st) => Told(e, c, h, r, st2)
  BY <1>1 DEF Told
<1>. QED  BY <1>2, <1>3, <1>4

\* A run of c that is started is none of those before it.
LEMMA FreshKeepsContainer ==
  ASSUME NEW c, NEW u, NEW st, NEW cl, NEW r2 \in Record, NEW h2 \in Held,
         u \in Nat \ {0}, u \in DOMAIN st, st \in [DOMAIN st -> [DOMAIN st[u] -> Nat]],
         c \in DOMAIN st[u],
         \A x \in cl : Started(x[1], x[2], st),
         h2 = [id |-> <<u, st[u][c] + 1>>, run |-> "up"],
         r2.id = h2.id, r2.down = "none",
         NEW st2, st2 = [st EXCEPT ![u][c] = @ + 1]
  PROVE  RunOK(c, h2, st2, cl) /\ RecOK(c, h2, r2, st2, cl) /\ Grows(st, st2)
<1>. DEFINE n == st[u][c] + 1
<1>1. n \in Nat \ {0} /\ st[u][c] \in Nat
  OBVIOUS
<1>2. /\ DOMAIN st2 = DOMAIN st /\ st2[u][c] = n
      /\ \A v \in DOMAIN st : DOMAIN st2[v] = DOMAIN st[v]
      /\ \A v \in DOMAIN st : \A d \in DOMAIN st[u] :
           st2[v][d] = IF v = u /\ d = c THEN n ELSE st[v][d]
  OBVIOUS
<1>3. Grows(st, st2)
  BY <1>1, <1>2 DEF Grows
<1>4. <<u, n>>[1] = u /\ <<u, n>>[2] = n /\ <<u, n>> # NoId
  BY <1>1 DEF NoId
<1>5. Started(c, <<u, n>>, st2)
  BY <1>1, <1>2, <1>4 DEF Started
<1>6. <<c, <<u, n>>>> \notin cl
  BY <1>1, <1>4 DEF Started
<1>7. h2.id = <<u, n>> /\ h2.run = "up" /\ Gone.run = "gone"
  BY DEF Gone
<1>8. RunOK(c, h2, st2, cl)
  <2>. HIDE DEF n
  <2>. QED  BY <1>5, <1>6, <1>7 DEF RunOK
<1>9. RecOK(c, h2, r2, st2, cl)
  <2>. HIDE DEF n
  <2>. QED  BY <1>4, <1>5, <1>7 DEF RecOK
<1>. QED  BY <1>3, <1>8, <1>9

LEMMA FreshKeepsTold ==
  ASSUME NEW c, NEW u, NEW st, NEW st2, Grows(st, st2), NEW r, NEW h, NEW r2 \in Record, NEW h2 \in Held,
         NEW e \in Entries, Told(e, c, h, r, st),
         u \in DOMAIN st, c \in DOMAIN st[u], \A v \in DOMAIN st : c \in DOMAIN st[v],
         h2.id = <<u, st[u][c] + 1>>, r2.id = h2.id,
         e.id # NoId => r2.count > e.count
  PROVE  Told(e, c, h2, r2, st2)
<1>1. e.id # NoId => Started(c, e.id, st) /\ Started(c, e.id, st2)
  <2>1. e.id # NoId => Started(c, e.id, st)
    BY DEF Told
  <2>. QED  BY <2>1, StartedStays DEF Started
<1>2. st[u][c] \in Nat
  BY DEF Grows
<1>3. e.id # NoId => e.id # h2.id
  BY <1>1, <1>2 DEF Started
<1>4. e.state = "ended" => e.id # NoId
  BY DEF Entries
<1>. QED  BY <1>1, <1>3, <1>4 DEF Told

\* A container that runs is adopted by a kubelet without a record of it.
LEMMA AdoptKeepsContainer ==
  ASSUME NEW c, NEW st, NEW cl, NEW h \in Held, NEW r2 \in Record,
         RunOK(c, h, st, cl), Lives(h), r2.id = h.id, r2.down = "none"
  PROVE  RecOK(c, h, r2, st, cl) /\ h.id # NoId
<1>1. Started(c, h.id, st)
  BY DEF RunOK, Lives
<1>2. h.id # NoId
  BY <1>1 DEF Started, NoId
<1>. QED  BY <1>1, <1>2 DEF RecOK

LEMMA AdoptKeepsTold ==
  ASSUME NEW c, NEW st, NEW h \in Held, NEW r \in Record, NEW r2 \in Record, NEW e \in Entries,
         Told(e, c, h, r, st), Lives(h), r2.id = h.id,
         e.id # NoId /\ e.id = h.id => r2.count = e.count,
         e.id # NoId /\ e.id # h.id => r2.count > e.count
  PROVE  Told(e, c, h, r2, st)
BY DEF Told

-----------------------------------------------------------------------------
(***************************************************************************)
(* A status: s is the setup, loc the kubelet's record, cl the runs that    *)
(* exited 0.                                                               *)
(***************************************************************************)
AllTold(apps, h, loc, st) == \A c \in DOMAIN apps : Told(apps[c], c, h[c], loc.recs[c], st)

\* Every app container ended as published, and none is to be restarted.
Finished(apps, phase, s, loc) ==
  /\ s.inits = <<>> \/ loc.done
  /\ \A c \in DOMAIN apps :
       /\ apps[c].state = "ended" /\ apps[c].id # NoId
       /\ loc.recs[c].id = apps[c].id /\ loc.recs[c].down = apps[c].exit
       /\ ~ShouldRestart(s.policy, apps[c].exit)
       /\ phase = "Succeeded" => apps[c].exit = "ok"

\* The first init container that has not succeeded has failed for good.
Doomed(s, loc) ==
  /\ s.inits # <<>> /\ ~loc.done
  /\ \E b \in DOMAIN s.inits :
       /\ ~s.inits[b].sidecar
       /\ loc.recs[s.inits[b].name].down \in {"bad", "unknown"}
       /\ ~ShouldRestart(s.policy, loc.recs[s.inits[b].name].down)
       /\ \A i \in DOMAIN s.inits :
            i < b /\ ~s.inits[i].sidecar => loc.recs[s.inits[i].name].down = "ok"

Unstarted(apps) == \A c \in DOMAIN apps : apps[c].id = NoId

Settled(apps, phase, s, loc) ==
  \/ Finished(apps, phase, s, loc)
  \/ Doomed(s, loc) /\ phase = "Failed" /\ Unstarted(apps)

\* No run that a final status names is up, and Succeeded is true.
Final(apps, phase, cl) ==
  /\ \A c \in DOMAIN apps : apps[c].state = "ended" \/ apps[c].id = NoId
  /\ phase = "Succeeded" => \A c \in DOMAIN apps : <<c, apps[c].id>> \in cl

Mine(u, loc) == loc.known /\ loc.uid = u
OneRun(s) == s.policy = "Never" /\ ~s.adopts

\* Why the status of the pod with uid u stays true.
Standing(u, phase, apps, s, loc, cl) ==
  /\ \A c \in DOMAIN apps : apps[c].id[1] \in {0, u}
  /\ phase \in Terminal => Final(apps, phase, cl)
  /\ phase \in Terminal /\ Mine(u, loc) => Settled(apps, phase, s, loc)
  /\ OneRun(s) /\ Mine(u, loc) =>
       \A c \in DOMAIN apps : StoredUp(apps[c]) => loc.recs[c].id # NoId

StatusOK(u, phase, apps, s, loc, h, st, cl, tk) ==
  /\ AllTold(apps, h, loc, st)
  /\ u \notin tk => Standing(u, phase, apps, s, loc, cl)

\* The entry new may replace old in the status of one pod.
Follows(old, new) ==
  /\ old.id # NoId /\ new.id # NoId =>
       IF new.id = old.id THEN new.count = old.count ELSE new.count > old.count
  /\ old.state = "ended" /\ old.exit \in Ended /\ new.state = "ended" /\ new.id = old.id =>
       new.exit = old.exit

\* What a poll found of a container, against its record.
Observed(e, r, s) ==
  \/ r.id = NoId /\ e = Waiting
  \/ /\ r.id # NoId /\ e.id = r.id /\ e.count = r.count
     /\ \/ e.state = "running" /\ r.down = "none"
        \/ e.state = "ended" /\ r.down # "none" /\ e.exit = r.down
        \/ e.state = "waiting" /\ r.down # "none" /\ ShouldRestart(s.policy, r.down)

-----------------------------------------------------------------------------
(***************************************************************************)
(* The inductive invariant.                                                *)
(***************************************************************************)
Driving == pass.at \notin {"idle", "clean", "cleanInits"}
Going == pass.at \in {"init", "initStart", "initEnd", "apps", "mount", "start", "observe"}

\* The pod the pass is about still is the one in the store.
Same == Exists(pod) /\ pod.uid = pass.seen.uid

\* Uids only grow: from the record's to the pass's to the store's.
UidsOK ==
  /\ born <= setup.pods
  /\ pod.uid \in {0, born}
  /\ Driving => pass.seen.uid \in 1..born
  /\ ~Driving => pass.seen.uid = 0
  /\ local.known => local.uid \in 1..born
  /\ Driving /\ local.known => local.uid <= pass.seen.uid
  /\ \A t \in taken : t <= born
  /\ Driving => \A t \in taken : t <= pass.seen.uid

Containers ==
  \A c \in Names : /\ RunOK(c, held[c], starts, clean)
                   /\ RecOK(c, held[c], local.recs[c], starts, clean)

CleanOK == \A x \in clean : x[1] \in Names /\ Started(x[1], x[2], starts)

\* The init containers ran for the pod with uid u.
InitsRan(u, inits, sidecars, st, cl) ==
  \A c \in inits : /\ c \in sidecars => st[u][c] > 0
                   /\ c \notin sidecars => \E n \in 1..st[u][c] : <<c, <<u, n>>>> \in cl

Spoiled(u) == \E t \in taken : u <= t

\* The record names runs of the pod it was made for, until a later pod of the
\* name is given them; done is said once its init containers have run.
LocalOK ==
  /\ \A c \in Names : Recorded(c) => local.known
  /\ ~local.known => ~local.done
  /\ local.known /\ ~Spoiled(local.uid) =>
       /\ \A c \in Names : Recorded(c) => local.recs[c].id[1] = local.uid
       /\ local.done => InitsRan(local.uid, Inits, Sidecars, starts, clean)

PenaltyOK ==
  /\ pass.at # "idle" => \A p \in penalty : p[1] = pass.seen.uid
  /\ \A c \in Apps : Recorded(c) /\ Up(c) => <<local.uid, c>> \notin penalty

PodOK == StatusOK(pod.uid, pod.phase, pod.apps, setup, local, held, starts, clean, taken)

SeenOK ==
  Driving => /\ Same => pod.apps = pass.seen.apps /\ pod.phase = pass.seen.phase
             /\ ~Same => Unstarted(pod.apps) /\ pod.phase = "Pending"

CleaningOK ==
  pass.at = "cleanInits" => \A c \in Apps : held[c] = Gone \/ held[c].id # local.recs[c].id

ReadoptOK ==
  pass.at = "readopt" =>
    /\ ~local.known /\ pass.seen.phase \notin Terminal
    /\ \A c \in Apps : held[c] = Gone \/ held[c].id # pass.seen.apps[c].id

GoingOK ==
  Going =>
    /\ local.known => local.uid = pass.seen.uid \/ pass.seen.uid \in taken
    /\ ~local.known => pass.seen.phase \notin Terminal
    /\ ~local.known /\ OneRun(setup) => \A c \in Apps : ~StoredUp(pass.seen.apps[c])

\* The init sequence is under way, of a pod that has not failed yet.
InitOK ==
  /\ pass.at \in {"init", "initStart", "initEnd"} => setup.inits # <<>> /\ ~local.done
  /\ pass.at \in {"initStart", "initEnd"} =>
       /\ Same => pass.seen.uid \in taken \/ pass.seen.phase \notin Terminal
       /\ pass.todo \subseteq DOMAIN setup.inits
       /\ pass.at = "initStart" => pass.todo # {}
       /\ ~pass.blocked => \A i \in DOMAIN setup.inits : ~setup.inits[i].sidecar =>
            local.recs[setup.inits[i].name].down = "ok" /\ i \notin pass.todo

PastInitsOK ==
  pass.at \in {"apps", "mount", "start", "observe"} =>
    setup.inits = <<>> \/ (local.known /\ local.done)

StartOK ==
  pass.at \in {"mount", "start"} =>
    /\ pass.todo # {} /\ pass.todo \subseteq DOMAIN setup.apps
    /\ \A i \in pass.todo : /\ ~Recorded(setup.apps[i])
                            /\ <<pass.seen.uid, setup.apps[i]>> \notin penalty

ObserveOK ==
  pass.at = "observe" =>
    /\ pass.todo \subseteq DOMAIN setup.apps
    /\ pass.unseen \/ \A i \in DOMAIN setup.apps \ pass.todo :
          Observed(pass.obs[setup.apps[i]], local.recs[setup.apps[i]], setup)

WriteOK ==
  pass.at = "write" /\ Same =>
    /\ \A c \in Apps : Follows(pass.seen.apps[c], pass.out.apps[c])
    /\ StatusOK(pod.uid, PhaseToPublish(pass.seen.phase, pass.out.phase), pass.out.apps,
                setup, local, held, starts, clean, taken)

World == Containers /\ CleanOK /\ LocalOK /\ NothingForgotten
PassOK == CleaningOK /\ ReadoptOK /\ GoingOK /\ InitOK /\ PastInitsOK /\ StartOK /\ ObserveOK

IInv == Types /\ UidsOK /\ World /\ PenaltyOK /\ PodOK /\ SeenOK /\ PassOK /\ WriteOK

-----------------------------------------------------------------------------
(***************************************************************************)
(* The pod and its names, which no step changes.                           *)
(***************************************************************************)
LEMMA SetupFacts ==
  ASSUME setup \in Setups
  PROVE  /\ setup.policy \in Policies /\ setup.adopts \in BOOLEAN /\ setup.pods \in Nat \ {0}
         /\ DOMAIN setup.apps = 1..Len(setup.apps) /\ Len(setup.apps) \in Nat \ {0}
         /\ DOMAIN setup.inits = 1..Len(setup.inits) /\ Len(setup.inits) \in Nat
         /\ \A i \in DOMAIN setup.inits : setup.inits[i].sidecar \in BOOLEAN
         /\ \A i, j \in DOMAIN setup.apps : setup.apps[i] = setup.apps[j] => i = j
         /\ \A i, j \in DOMAIN setup.inits : setup.inits[i].name = setup.inits[j].name => i = j
<1>1. /\ setup.apps \in Seq(STRING) /\ Len(setup.apps) > 0
      /\ setup.inits \in Seq([name: STRING, sidecar: BOOLEAN])
  BY SetupsAssumption
<1>2. /\ DOMAIN setup.apps = 1..Len(setup.apps) /\ Len(setup.apps) \in Nat \ {0}
      /\ DOMAIN setup.inits = 1..Len(setup.inits) /\ Len(setup.inits) \in Nat
  BY <1>1
<1>3. \A i \in DOMAIN setup.inits : setup.inits[i] \in [name: STRING, sidecar: BOOLEAN]
  <2>. DEFINE R == [name: STRING, sidecar: BOOLEAN]
  <2>1. setup.inits \in Seq(R)
    BY <1>1
  <2>. HIDE DEF R
  <2>2. \A i \in 1..Len(setup.inits) : setup.inits[i] \in R
    BY <2>1, ElementOfSeq
  <2>. QED  BY <1>2, <2>2 DEF R
<1>. QED  BY <1>2, <1>3, SetupsAssumption

LEMMA NameFacts ==
  ASSUME setup \in Setups
  PROVE  /\ \A i \in DOMAIN setup.apps : setup.apps[i] \in Apps
         /\ \A i \in DOMAIN setup.inits : setup.inits[i].name \in Inits
         /\ Apps \subseteq Names /\ Inits \subseteq Names /\ Sidecars \subseteq Inits
         /\ \A c \in Names : c \in Apps <=> c \notin Inits
         /\ \A c \in Apps : \E i \in DOMAIN setup.apps : c = setup.apps[i]
         /\ \A c \in Inits : \E i \in DOMAIN setup.inits : c = setup.inits[i].name
         /\ \A i \in DOMAIN setup.inits : setup.inits[i].name \in Sidecars <=> setup.inits[i].sidecar
         /\ Apps # {}
         /\ setup.inits = <<>> => Inits = {}
<1>0. \A i, j \in DOMAIN setup.inits : setup.inits[i].name = setup.inits[j].name => i = j
  BY SetupFacts
<1>1. \A i \in DOMAIN setup.apps, j \in DOMAIN setup.inits : setup.apps[i] # setup.inits[j].name
  BY SetupsAssumption
<1>2. /\ \A i \in DOMAIN setup.apps : setup.apps[i] \in Apps
      /\ \A i \in DOMAIN setup.inits : setup.inits[i].name \in Inits
      /\ Apps \subseteq Names /\ Inits \subseteq Names /\ Sidecars \subseteq Inits
      /\ \A c \in Apps : \E i \in DOMAIN setup.apps : c = setup.apps[i]
      /\ \A c \in Inits : \E i \in DOMAIN setup.inits : c = setup.inits[i].name
  BY DEF Apps, Inits, Names, Sidecars
<1>3. \A c \in Names : c \in Apps <=> c \notin Inits
  BY <1>1, <1>2 DEF Names
<1>4. ASSUME NEW i \in DOMAIN setup.inits
      PROVE  setup.inits[i].name \in Sidecars <=> setup.inits[i].sidecar
  <2>1. ASSUME setup.inits[i].name \in Sidecars  PROVE setup.inits[i].sidecar
    <3>1. PICK j \in DOMAIN setup.inits : setup.inits[j].sidecar /\ setup.inits[i].name = setup.inits[j].name
      BY <2>1, Zenon DEF Sidecars
    <3>2. i = j
      BY <1>0, <3>1
    <3>. QED  BY <3>1, <3>2
  <2>2. ASSUME setup.inits[i].sidecar  PROVE setup.inits[i].name \in Sidecars
    BY <2>2, Zenon DEF Sidecars
  <2>. QED  BY <2>1, <2>2
<1>5. Apps # {}
  <2>1. 1 \in DOMAIN setup.apps
    BY SetupFacts
  <2>. QED  BY <2>1, <1>2
<1>6. setup.inits = <<>> => Inits = {}
  BY <1>2
<1>. QED  BY <1>2, <1>3, <1>4, <1>5, <1>6

LEMMA SetupStays ==
  ASSUME setup' = setup
  PROVE  /\ Apps' = Apps /\ Inits' = Inits /\ Sidecars' = Sidecars /\ Names' = Names
         /\ Uids' = Uids /\ LocalType' = LocalType /\ PodType' = PodType
         /\ OutType' = OutType /\ PassType' = PassType
         /\ NoPod' = NoPod /\ EmptyLocal' = EmptyLocal /\ Idle' = Idle
<1>1. Apps' = Apps /\ Inits' = Inits /\ Sidecars' = Sidecars /\ Uids' = Uids
  BY DEF Apps, Inits, Sidecars, Uids
<1>2. Names' = Names
  BY <1>1 DEF Names
<1>3. LocalType' = LocalType /\ EmptyLocal' = EmptyLocal
  BY <1>2 DEF LocalType, EmptyLocal
<1>4. PodType' = PodType /\ OutType' = OutType /\ NoPod' = NoPod
  BY <1>1 DEF PodType, OutType, NoPod
<1>5. PassType' = PassType /\ Idle' = Idle
  BY <1>1, <1>4 DEF PassType, Idle
<1>. QED  BY <1>1, <1>2, <1>3, <1>4, <1>5

-----------------------------------------------------------------------------
(***************************************************************************)
(* The five ways a step changes the containers and the records.            *)
(***************************************************************************)
SameHeader == local'.known = local.known /\ local'.uid = local.uid /\ local'.done = local.done

Decay ==
  /\ UNCHANGED <<setup, starts, clean, orphans>> /\ SameHeader
  /\ taken \subseteq taken'
  /\ \A c \in Names : /\ Aged(held[c], held'[c])
                      /\ Kept(held[c], local.recs[c], local'.recs[c])

OneEnds(c) ==
  /\ UNCHANGED <<setup, starts, orphans, local, taken>>
  /\ c \in Names /\ EndsAs(c, held[c], held'[c], clean, clean')
  /\ \A d \in Names \ {c} : held'[d] = held[d]

\* A launch of c leaves the other containers alone.
Launching(c, u) ==
  /\ UNCHANGED <<setup, clean, orphans>>
  /\ c \in Names /\ u \in Uids
  /\ local'.known /\ local'.done = local.done
  /\ local'.uid = IF local.known THEN local.uid ELSE u
  /\ local'.recs[c].id = held'[c].id /\ local'.recs[c].down = "none"
  /\ \A d \in Names \ {c} : held'[d] = held[d] /\ local'.recs[d] = local.recs[d]

Fresh(c, u) ==
  /\ Launching(c, u) /\ taken' = taken
  /\ starts' = [starts EXCEPT ![u][c] = @ + 1]
  /\ held'[c] = [id |-> <<u, starts[u][c] + 1>>, run |-> "up"]

Adopt(c, u) ==
  /\ Launching(c, u)
  /\ taken' = IF held[c].id[1] = u THEN taken ELSE taken \cup {u}
  /\ starts' = starts
  /\ held'[c] = held[c] /\ Up(c) /\ ~Recorded(c)

Drop ==
  /\ UNCHANGED <<setup, starts, clean, taken>>
  /\ local' = EmptyLocal
  /\ \A c \in Names : Aged(held[c], held'[c])

\* The types a lemma about one container needs.
LEMMA ContainerTypes ==
  ASSUME Types, NEW c \in Names
  PROVE  held[c] \in Held /\ local.recs[c] \in Record
BY DEF Types, LocalType

LEMMA ContainerTypesNext ==
  ASSUME Types', setup' = setup, NEW c \in Names
  PROVE  held'[c] \in Held /\ local'.recs[c] \in Record
<1>1. Names' = Names /\ LocalType' = LocalType
  BY SetupStays
<1>2. held' \in [Names -> Held] /\ local' \in LocalType
  BY <1>1 DEF Types
<1>. QED  BY <1>2 DEF LocalType

LEMMA CleanStarted ==
  ASSUME CleanOK
  PROVE  \A x \in clean : Started(x[1], x[2], starts)
BY DEF CleanOK

LEMMA DecayContainers ==
  ASSUME Types, Types', Containers, CleanOK, Decay
  PROVE  Containers' /\ CleanOK'
<1>1. Names' = Names /\ setup' = setup /\ starts' = starts /\ clean' = clean
  BY SetupStays DEF Decay
<1>2. ASSUME NEW c \in Names
      PROVE  /\ RunOK(c, held'[c], starts', clean')
             /\ RecOK(c, held'[c], local'.recs[c], starts', clean')
  <2>1. held[c] \in Held /\ local.recs[c] \in Record /\ held'[c] \in Held /\ local'.recs[c] \in Record
    BY <1>1, ContainerTypes, ContainerTypesNext
  <2>2. Aged(held[c], held'[c]) /\ Kept(held[c], local.recs[c], local'.recs[c])
    BY DEF Decay
  <2>3. RunOK(c, held[c], starts, clean) /\ RecOK(c, held[c], local.recs[c], starts, clean)
    BY DEF Containers
  <2>. QED  BY <1>1, <2>1, <2>2, <2>3, CleanStarted, DecayKeepsContainer
<1>3. Containers'
  BY <1>1, <1>2 DEF Containers
<1>4. CleanOK'
  BY <1>1 DEF CleanOK
<1>. QED  BY <1>3, <1>4

\* Later starts and exits do not undo what the init containers did.
LEMMA InitsRanStays ==
  ASSUME NEW u, NEW inits, NEW sidecars, NEW st, NEW st2, NEW cl, NEW cl2,
         u \in DOMAIN st, inits \subseteq DOMAIN st[u], Grows(st, st2), cl \subseteq cl2,
         InitsRan(u, inits, sidecars, st, cl)
  PROVE  InitsRan(u, inits, sidecars, st2, cl2)
<1>. SUFFICES ASSUME NEW c \in inits
              PROVE  /\ c \in sidecars => st2[u][c] > 0
                     /\ c \notin sidecars => \E n \in 1..st2[u][c] : <<c, <<u, n>>>> \in cl2
  BY DEF InitsRan
<1>1. st[u][c] \in Nat /\ st2[u][c] \in Nat /\ st[u][c] <= st2[u][c]
  BY DEF Grows
<1>2. c \in sidecars => st2[u][c] > 0
  BY <1>1 DEF InitsRan
<1>3. ASSUME c \notin sidecars  PROVE \E n \in 1..st2[u][c] : <<c, <<u, n>>>> \in cl2
  <2>1. PICK n \in 1..st[u][c] : <<c, <<u, n>>>> \in cl
    BY <1>3 DEF InitsRan
  <2>2. n \in 1..st2[u][c]
    BY <1>1
  <2>. QED  BY <2>1, <2>2
<1>. QED  BY <1>2, <1>3

LEMMA StartsFacts ==
  ASSUME Types
  PROVE  /\ DOMAIN starts = Uids
         /\ \A u \in Uids : DOMAIN starts[u] = Names /\ \A c \in Names : starts[u][c] \in Nat
         /\ Grows(starts, starts)
BY DEF Types, Grows

\* The record's pod is one of those created.
LEMMA LocalUid ==
  ASSUME Types, UidsOK, local.known
  PROVE  local.uid \in Uids
<1>1. setup.pods \in Nat
  BY SetupFacts DEF Types
<1>2. local.uid \in 1..born /\ born <= setup.pods /\ born \in Nat
  BY DEF UidsOK, Types
<1>. QED  BY <1>1, <1>2 DEF Uids

LEMMA DecayWorld ==
  ASSUME Types, Types', UidsOK, World, Decay
  PROVE  World'
<1>1. /\ Names' = Names /\ Inits' = Inits /\ Sidecars' = Sidecars
      /\ setup' = setup /\ starts' = starts /\ clean' = clean /\ orphans' = orphans
  BY SetupStays DEF Decay
<1>2. Containers' /\ CleanOK'
  BY DecayContainers DEF World
<1>3. \A c \in Names : /\ local'.recs[c].id = local.recs[c].id
                       /\ Aged(held[c], held'[c])
  BY DEF Decay, Kept
<1>4. /\ local'.known = local.known /\ local'.uid = local.uid /\ local'.done = local.done
      /\ taken \subseteq taken'
  BY DEF Decay, SameHeader
<1>5. LocalOK'
  <2>1. \A c \in Names : local'.recs[c].id # NoId => local'.known
    BY <1>3, <1>4 DEF World, LocalOK, Recorded
  <2>2. ~local'.known => ~local'.done
    BY <1>4 DEF World, LocalOK
  <2>3. ASSUME local'.known, ~ \E t \in taken' : local'.uid <= t
        PROVE  /\ \A c \in Names : local'.recs[c].id # NoId => local'.recs[c].id[1] = local'.uid
               /\ local'.done => InitsRan(local'.uid, Inits, Sidecars, starts, clean)
    <3>1. local.known /\ ~Spoiled(local.uid)
      BY <1>4, <2>3 DEF Spoiled
    <3>. QED  BY <1>3, <1>4, <3>1 DEF World, LocalOK, Recorded
  <2>. QED  BY <1>1, <2>1, <2>2, <2>3 DEF LocalOK, Recorded, Spoiled
<1>6. NothingForgotten'
  <2>1. ASSUME NEW c \in Names, held'[c] # Gone
        PROVE  held'[c].id = local'.recs[c].id \/ <<c, held'[c].id>> \in orphans'
    <3>1. held[c] # Gone /\ held'[c].id = held[c].id
      <4>1. CASE held'[c] = held[c]  BY <2>1, <4>1
      <4>2. CASE Lives(held[c]) /\ held'[c].id = held[c].id
        BY <4>2 DEF Lives, Gone
      <4>. QED  BY <1>3, <2>1, <4>1, <4>2 DEF Aged
    <3>. QED  BY <1>1, <1>3, <3>1 DEF World, NothingForgotten
  <2>. QED  BY <1>1, <2>1 DEF NothingForgotten
<1>. QED  BY <1>2, <1>5, <1>6 DEF World

LEMMA EndContainers ==
  ASSUME Types, Types', Containers, CleanOK, NEW c, OneEnds(c)
  PROVE  Containers' /\ CleanOK'
<1>1. Names' = Names /\ setup' = setup /\ starts' = starts /\ local' = local /\ c \in Names
  BY SetupStays DEF OneEnds
<1>2. held[c] \in Held /\ held'[c] \in Held /\ EndsAs(c, held[c], held'[c], clean, clean')
  BY <1>1, ContainerTypes, ContainerTypesNext DEF OneEnds
<1>3. ASSUME NEW d \in Names
      PROVE  /\ RunOK(d, held'[d], starts', clean')
             /\ RecOK(d, held'[d], local'.recs[d], starts', clean')
  <2>1. held[d] \in Held /\ local.recs[d] \in Record
    BY ContainerTypes
  <2>2. RunOK(d, held[d], starts, clean) /\ RecOK(d, held[d], local.recs[d], starts, clean)
    BY DEF Containers
  <2>3. CASE d = c
    BY <1>1, <1>2, <2>1, <2>2, <2>3, EndKeepsContainer
  <2>4. CASE d # c
    <3>1. held'[d] = held[d]
      BY <2>4 DEF OneEnds
    <3>. QED  BY <1>1, <1>2, <2>1, <2>2, <2>4, <3>1, EndKeepsOthers
  <2>. QED  BY <2>3, <2>4
<1>4. Containers'
  BY <1>1, <1>3 DEF Containers
<1>5. CleanOK'
  <2>1. Started(c, held[c].id, starts)
    BY <1>1, <1>2 DEF Containers, RunOK, EndsAs, Lives
  <2>2. \A x \in clean' : x \in clean \/ x = <<c, held[c].id>>
    BY <1>2 DEF EndsAs
  <2>. QED  BY <1>1, <2>1, <2>2 DEF CleanOK
<1>. QED  BY <1>4, <1>5

LEMMA EndWorld ==
  ASSUME Types, Types', UidsOK, World, NEW c, OneEnds(c)
  PROVE  World' /\ clean \subseteq clean'
<1>1. /\ Names' = Names /\ Inits' = Inits /\ Sidecars' = Sidecars /\ c \in Names
      /\ setup' = setup /\ starts' = starts /\ local' = local /\ orphans' = orphans /\ taken' = taken
  BY SetupStays DEF OneEnds
<1>2. Containers' /\ CleanOK'
  BY EndContainers DEF World
<1>3. EndsAs(c, held[c], held'[c], clean, clean') /\ \A d \in Names \ {c} : held'[d] = held[d]
  BY DEF OneEnds
<1>4. clean \subseteq clean'
  BY <1>3 DEF EndsAs
<1>5. LocalOK'
  <2>1. ASSUME local.known, ~Spoiled(local.uid), local.done
        PROVE  InitsRan(local.uid, Inits, Sidecars, starts, clean')
    <3>1. InitsRan(local.uid, Inits, Sidecars, starts, clean)
      BY <2>1 DEF World, LocalOK
    <3>2. local.uid \in DOMAIN starts /\ Inits \subseteq DOMAIN starts[local.uid] /\ Grows(starts, starts)
      BY <2>1, LocalUid, StartsFacts, NameFacts DEF Types
    <3>. QED  BY <1>4, <3>1, <3>2, InitsRanStays
  <2>. QED  BY <1>1, <2>1 DEF World, LocalOK, Recorded, Spoiled
<1>6. NothingForgotten'
  <2>1. ASSUME NEW d \in Names, held'[d] # Gone
        PROVE  held'[d].id = local'.recs[d].id \/ <<d, held'[d].id>> \in orphans'
    <3>1. held[d] # Gone /\ held'[d].id = held[d].id
      BY <1>3, <2>1 DEF EndsAs, Lives, Gone
    <3>. QED  BY <1>1, <3>1 DEF World, NothingForgotten
  <2>. QED  BY <1>1, <2>1 DEF NothingForgotten
<1>. QED  BY <1>2, <1>4, <1>5, <1>6 DEF World

\* A pass launches for its own pod: the record is that pod's, or the pod has been
\* given the containers of an earlier one.
LaunchedFor(u) == local.known => local.uid <= u /\ (local.uid = u \/ u \in taken)

\* The record's names are its own after a launch for u.
LEMMA LaunchLocal ==
  ASSUME Types, Types', UidsOK, World, NEW c, NEW u, Launching(c, u), LaunchedFor(u),
         Grows(starts, starts'), taken \subseteq taken', held'[c].id # NoId,
         held'[c].id[1] = u \/ u \in taken'
  PROVE  LocalOK'
<1>1. /\ Names' = Names /\ Inits' = Inits /\ Sidecars' = Sidecars
      /\ setup' = setup /\ clean' = clean /\ c \in Names /\ u \in Uids
  BY SetupStays DEF Launching
<1>2. /\ local'.known /\ local'.done = local.done
      /\ local'.uid = IF local.known THEN local.uid ELSE u
      /\ local'.recs[c].id = held'[c].id
      /\ \A d \in Names \ {c} : local'.recs[d] = local.recs[d]
  BY DEF Launching
<1>3. \A x \in Uids : x <= x
  BY DEF Uids
<1>4. ASSUME ~ \E t \in taken' : local'.uid <= t
      PROVE  /\ \A d \in Names : local'.recs[d].id # NoId => local'.recs[d].id[1] = local'.uid
             /\ local'.done => InitsRan(local'.uid, Inits, Sidecars, starts', clean)
  <2>1. CASE local.known
    <3>1. local'.uid = local.uid /\ ~Spoiled(local.uid)
      BY <1>2, <1>4, <2>1 DEF Spoiled
    <3>2. local.uid = u /\ u \notin taken'
      BY <1>1, <1>3, <1>4, <2>1, <3>1 DEF LaunchedFor
    <3>3. \A d \in Names : local'.recs[d].id # NoId => local'.recs[d].id[1] = local'.uid
      <4>1. \A d \in Names : local.recs[d].id # NoId => local.recs[d].id[1] = local.uid
        BY <2>1, <3>1 DEF World, LocalOK, Recorded
      <4>2. held'[c].id[1] = u
        BY <3>2
      <4>. QED  BY <1>2, <3>1, <3>2, <4>1, <4>2
    <3>4. ASSUME local'.done  PROVE InitsRan(local'.uid, Inits, Sidecars, starts', clean)
      <4>1. InitsRan(local.uid, Inits, Sidecars, starts, clean)
        BY <1>2, <2>1, <3>1, <3>4 DEF World, LocalOK
      <4>2. local.uid \in DOMAIN starts /\ Inits \subseteq DOMAIN starts[local.uid]
        BY <2>1, LocalUid, StartsFacts, NameFacts DEF Types
      <4>. QED  BY <3>1, <4>1, <4>2, InitsRanStays
    <3>. QED  BY <3>3, <3>4
  <2>2. CASE ~local.known
    <3>1. local'.uid = u /\ ~local.done /\ \A d \in Names : local.recs[d].id = NoId
      BY <1>2, <2>2 DEF World, LocalOK, Recorded
    <3>2. held'[c].id[1] = u
      BY <1>1, <1>3, <1>4, <3>1
    <3>. QED  BY <1>2, <3>1, <3>2
  <2>. QED  BY <2>1, <2>2
<1>. QED  BY <1>1, <1>2, <1>4 DEF LocalOK, Recorded, Spoiled

LEMMA FreshWorld ==
  ASSUME Types, Types', UidsOK, World, NEW c, NEW u, Fresh(c, u), LaunchedFor(u)
  PROVE  World' /\ Grows(starts, starts')
<1>1. /\ Names' = Names /\ setup' = setup /\ clean' = clean /\ orphans' = orphans /\ taken' = taken
      /\ c \in Names /\ u \in Uids /\ Launching(c, u)
  BY SetupStays DEF Fresh, Launching
<1>2. /\ starts' = [starts EXCEPT ![u][c] = @ + 1]
      /\ held'[c] = [id |-> <<u, starts[u][c] + 1>>, run |-> "up"]
      /\ local'.recs[c].id = held'[c].id /\ local'.recs[c].down = "none"
      /\ \A d \in Names \ {c} : held'[d] = held[d] /\ local'.recs[d] = local.recs[d]
  BY DEF Fresh, Launching
<1>3. /\ held'[c] \in Held /\ local'.recs[c] \in Record
      /\ u \in Nat \ {0} /\ u \in DOMAIN starts /\ c \in DOMAIN starts[u]
      /\ starts \in [DOMAIN starts -> [DOMAIN starts[u] -> Nat]]
  <2>1. starts \in [Uids -> [Names -> Nat]]
    BY DEF Types
  <2>2. DOMAIN starts = Uids /\ DOMAIN starts[u] = Names
    BY <1>1, <2>1
  <2>3. u \in Nat \ {0}
    BY <1>1 DEF Uids
  <2>. QED  BY <1>1, <2>1, <2>2, <2>3, ContainerTypesNext
<1>4. /\ RunOK(c, held'[c], starts', clean) /\ RecOK(c, held'[c], local'.recs[c], starts', clean)
      /\ Grows(starts, starts')
  <2>1. \A x \in clean : Started(x[1], x[2], starts)
    BY CleanStarted DEF World
  <2>. QED  BY <1>2, <1>3, <2>1, FreshKeepsContainer
<1>5. \A v \in DOMAIN starts : DOMAIN starts[v] = Names
  BY StartsFacts
<1>6. ASSUME NEW d \in Names, d # c
      PROVE  RunOK(d, held'[d], starts', clean) /\ RecOK(d, held'[d], local'.recs[d], starts', clean)
  <2>1. held'[d] = held[d] /\ local'.recs[d] = local.recs[d]
    BY <1>2, <1>6
  <2>2. held[d] \in Held /\ local.recs[d] \in Record /\ \A v \in DOMAIN starts : d \in DOMAIN starts[v]
    BY <1>5, ContainerTypes
  <2>3. RunOK(d, held[d], starts, clean) /\ RecOK(d, held[d], local.recs[d], starts, clean)
    BY DEF World, Containers
  <2>. QED  BY <1>4, <2>1, <2>2, <2>3, GrowthKeeps
<1>7. Containers'
  BY <1>1, <1>4, <1>6 DEF Containers
<1>8. CleanOK'
  <2>1. ASSUME NEW x \in clean  PROVE x[1] \in Names /\ Started(x[1], x[2], starts')
    <3>1. x[1] \in Names /\ Started(x[1], x[2], starts)
      BY DEF World, CleanOK
    <3>2. x[1] \in DOMAIN starts[x[2][1]]
      BY <1>5, <3>1 DEF Started
    <3>. QED  BY <1>4, <3>1, <3>2, StartedStays
  <2>. QED  BY <1>1, <2>1 DEF CleanOK
<1>9. held'[c].id # NoId /\ held'[c].id[1] = u
  BY <1>2, <1>3 DEF NoId
<1>10. LocalOK'
  BY <1>1, <1>4, <1>9, LaunchLocal
<1>11. NothingForgotten'
  <2>1. ASSUME NEW d \in Names, held'[d] # Gone
        PROVE  held'[d].id = local'.recs[d].id \/ <<d, held'[d].id>> \in orphans'
    BY <1>1, <1>2, <2>1 DEF World, NothingForgotten
  <2>. QED  BY <1>1, <2>1 DEF NothingForgotten
<1>. QED  BY <1>4, <1>7, <1>8, <1>10, <1>11 DEF World

LEMMA AdoptWorld ==
  ASSUME Types, Types', UidsOK, World, NEW c, NEW u, Adopt(c, u), LaunchedFor(u)
  PROVE  World'
<1>1. /\ Names' = Names /\ setup' = setup /\ clean' = clean /\ orphans' = orphans /\ starts' = starts
      /\ c \in Names /\ u \in Uids /\ Launching(c, u)
  BY SetupStays DEF Adopt, Launching
<1>2. /\ held'[c] = held[c] /\ Lives(held[c])
      /\ local'.recs[c].id = held'[c].id /\ local'.recs[c].down = "none"
      /\ \A d \in Names \ {c} : held'[d] = held[d] /\ local'.recs[d] = local.recs[d]
  BY DEF Adopt, Launching, Up, Lives
<1>3. held[c] \in Held /\ local'.recs[c] \in Record
  BY <1>1, ContainerTypes, ContainerTypesNext
<1>4. RunOK(c, held[c], starts, clean)
  BY <1>1 DEF World, Containers
<1>5. RecOK(c, held[c], local'.recs[c], starts, clean) /\ held[c].id # NoId
  BY <1>2, <1>3, <1>4, AdoptKeepsContainer
<1>6. Containers'
  <2>1. ASSUME NEW d \in Names
        PROVE  RunOK(d, held'[d], starts, clean) /\ RecOK(d, held'[d], local'.recs[d], starts, clean)
    BY <1>2, <1>4, <1>5 DEF World, Containers
  <2>. QED  BY <1>1, <2>1 DEF Containers
<1>7. CleanOK'
  BY <1>1 DEF World, CleanOK
<1>8. LocalOK'
  <2>1. taken \subseteq taken' /\ (held[c].id[1] = u \/ u \in taken')
    BY DEF Adopt
  <2>2. Grows(starts, starts')
    BY <1>1, StartsFacts
  <2>. QED  BY <1>1, <1>2, <1>5, <2>1, <2>2, LaunchLocal
<1>9. NothingForgotten'
  <2>1. ASSUME NEW d \in Names, held'[d] # Gone
        PROVE  held'[d].id = local'.recs[d].id \/ <<d, held'[d].id>> \in orphans'
    BY <1>1, <1>2, <2>1 DEF World, NothingForgotten
  <2>. QED  BY <1>1, <2>1 DEF NothingForgotten
<1>. QED  BY <1>6, <1>7, <1>8, <1>9 DEF World

\* The record is dropped once everything it names is gone, or left behind.
LEMMA DropWorld ==
  ASSUME Types, Types', World, Drop,
         \A c \in Names : held'[c] = Gone \/ <<c, held'[c].id>> \in orphans'
  PROVE  World'
<1>1. Names' = Names /\ setup' = setup /\ clean' = clean /\ starts' = starts
  BY SetupStays DEF Drop
<1>2. /\ ~local'.known /\ ~local'.done
      /\ \A c \in Names : local'.recs[c] = NoRecord
  BY DEF Drop, EmptyLocal
<1>3. NoRecord.id = NoId
  BY DEF NoRecord
<1>4. Containers'
  <2>1. ASSUME NEW c \in Names
        PROVE  RunOK(c, held'[c], starts, clean) /\ RecOK(c, held'[c], NoRecord, starts, clean)
    <3>1. held[c] \in Held /\ local.recs[c] \in Record /\ held'[c] \in Held
      BY <1>1, ContainerTypes, ContainerTypesNext
    <3>2. RunOK(c, held[c], starts, clean) /\ RecOK(c, held[c], local.recs[c], starts, clean)
          /\ Aged(held[c], held'[c])
      BY DEF World, Containers, Drop
    <3>. QED  BY <3>1, <3>2, CleanStarted, DropKeepsContainer DEF World
  <2>. QED  BY <1>1, <1>2, <2>1 DEF Containers
<1>5. CleanOK'
  BY <1>1 DEF World, CleanOK
<1>6. LocalOK'
  BY <1>1, <1>2, <1>3 DEF LocalOK, Recorded
<1>7. NothingForgotten'
  BY <1>1 DEF NothingForgotten
<1>. QED  BY <1>4, <1>5, <1>6, <1>7 DEF World

-----------------------------------------------------------------------------
(***************************************************************************)
(* What the five do to a status.                                           *)
(***************************************************************************)
LEMMA DecayTold ==
  ASSUME Types, Types', World, Decay, NEW apps \in [Apps -> Entries],
         AllTold(apps, held, local, starts)
  PROVE  AllTold(apps, held', local', starts')
<1>1. setup' = setup /\ starts' = starts /\ DOMAIN apps = Apps /\ Apps \subseteq Names
  BY NameFacts DEF Decay, Types
<1>2. ASSUME NEW c \in Apps  PROVE Told(apps[c], c, held'[c], local'.recs[c], starts)
  <2>1. /\ held[c] \in Held /\ local.recs[c] \in Record
        /\ held'[c] \in Held /\ local'.recs[c] \in Record /\ apps[c] \in Entries
    BY <1>1, ContainerTypes, ContainerTypesNext
  <2>2. /\ Aged(held[c], held'[c]) /\ Kept(held[c], local.recs[c], local'.recs[c])
        /\ RunOK(c, held[c], starts, clean) /\ RecOK(c, held[c], local.recs[c], starts, clean)
        /\ Told(apps[c], c, held[c], local.recs[c], starts)
    BY <1>1 DEF Decay, World, Containers, AllTold
  <2>. QED  BY <2>1, <2>2, DecayKeepsTold
<1>. QED  BY <1>1, <1>2 DEF AllTold

LEMMA EndTold ==
  ASSUME Types, Types', NEW d, OneEnds(d), NEW apps \in [Apps -> Entries],
         AllTold(apps, held, local, starts)
  PROVE  AllTold(apps, held', local', starts')
<1>1. /\ setup' = setup /\ starts' = starts /\ local' = local /\ DOMAIN apps = Apps
      /\ Apps \subseteq Names
  BY NameFacts DEF OneEnds, Types
<1>2. ASSUME NEW c \in Apps  PROVE Told(apps[c], c, held'[c], local.recs[c], starts)
  <2>1. held[c] \in Held /\ local.recs[c] \in Record /\ held'[c] \in Held /\ apps[c] \in Entries
    BY <1>1, ContainerTypes, ContainerTypesNext
  <2>2. Told(apps[c], c, held[c], local.recs[c], starts)
    BY <1>1 DEF AllTold
  <2>3. CASE c = d
    <3>1. EndsAs(c, held[c], held'[c], clean, clean')
      BY <2>3 DEF OneEnds
    <3>. QED  BY <2>1, <2>2, <3>1, EndKeepsTold
  <2>4. CASE c # d
    <3>1. held'[c] = held[c]
      BY <1>1, <2>4 DEF OneEnds
    <3>. QED  BY <2>2, <3>1
  <2>. QED  BY <2>3, <2>4
<1>. QED  BY <1>1, <1>2 DEF AllTold

LEMMA DropTold ==
  ASSUME Types, Types', Drop, NEW apps \in [Apps -> Entries], AllTold(apps, held, local, starts)
  PROVE  AllTold(apps, held', local', starts')
<1>1. setup' = setup /\ starts' = starts /\ DOMAIN apps = Apps /\ Apps \subseteq Names
  BY NameFacts DEF Drop, Types
<1>2. ASSUME NEW c \in Apps  PROVE Told(apps[c], c, held'[c], local'.recs[c], starts)
  <2>1. /\ held[c] \in Held /\ local.recs[c] \in Record /\ held'[c] \in Held
        /\ apps[c] \in Entries /\ c \in Names
    BY <1>1, ContainerTypes, ContainerTypesNext
  <2>2. /\ Aged(held[c], held'[c]) /\ Told(apps[c], c, held[c], local.recs[c], starts)
        /\ local'.recs[c] = NoRecord
    BY <1>1, <2>1 DEF Drop, AllTold, EmptyLocal
  <2>. QED  BY <2>1, <2>2, DropKeepsTold
<1>. QED  BY <1>1, <1>2 DEF AllTold

\* A container launched as id with count restarts follows what the store says.
Counted(e, id, count) ==
  e.id # NoId => /\ e.id = id => count = e.count
                 /\ e.id # id => count > e.count

LEMMA FreshTold ==
  ASSUME Types, Types', World, NEW d, NEW u, Fresh(d, u), Grows(starts, starts'),
         NEW apps \in [Apps -> Entries], AllTold(apps, held, local, starts),
         d \in Apps => (apps[d].id # NoId => local'.recs[d].count > apps[d].count)
  PROVE  AllTold(apps, held', local', starts')
<1>1. /\ setup' = setup /\ DOMAIN apps = Apps /\ Apps \subseteq Names
      /\ DOMAIN starts = Uids /\ \A v \in Uids : DOMAIN starts[v] = Names
      /\ u \in Uids /\ d \in Names
  BY NameFacts, StartsFacts DEF Fresh, Launching, Types
<1>2. ASSUME NEW c \in Apps  PROVE Told(apps[c], c, held'[c], local'.recs[c], starts')
  <2>1. /\ held[c] \in Held /\ local.recs[c] \in Record /\ held'[c] \in Held
        /\ local'.recs[c] \in Record /\ apps[c] \in Entries
    BY <1>1, ContainerTypes, ContainerTypesNext
  <2>2. Told(apps[c], c, held[c], local.recs[c], starts)
    BY <1>1 DEF AllTold
  <2>3. \A v \in DOMAIN starts : c \in DOMAIN starts[v]
    BY <1>1
  <2>4. CASE c = d
    <3>1. held'[c] = [id |-> <<u, starts[u][c] + 1>>, run |-> "up"] /\ local'.recs[c].id = held'[c].id
      BY <2>4 DEF Fresh, Launching
    <3>2. held'[c].id = <<u, starts[u][c] + 1>>
      BY <3>1
    <3>3. apps[c].id # NoId => local'.recs[c].count > apps[c].count
      BY <2>4
    <3>. QED  BY <1>1, <2>1, <2>2, <2>3, <2>4, <3>1, <3>2, <3>3, FreshKeepsTold
  <2>5. CASE c # d
    <3>1. held'[c] = held[c] /\ local'.recs[c] = local.recs[c]
      BY <1>1, <2>5 DEF Fresh, Launching
    <3>. QED  BY <2>1, <2>2, <2>3, <3>1, GrowthKeeps
  <2>. QED  BY <2>4, <2>5
<1>. QED  BY <1>1, <1>2 DEF AllTold

LEMMA AdoptTold ==
  ASSUME Types, Types', World, NEW d, NEW u, Adopt(d, u),
         NEW apps \in [Apps -> Entries], AllTold(apps, held, local, starts),
         d \in Apps => Counted(apps[d], held[d].id, local'.recs[d].count)
  PROVE  AllTold(apps, held', local', starts')
<1>1. /\ setup' = setup /\ starts' = starts /\ DOMAIN apps = Apps /\ Apps \subseteq Names
      /\ d \in Names
  BY NameFacts DEF Adopt, Launching, Types
<1>2. ASSUME NEW c \in Apps  PROVE Told(apps[c], c, held'[c], local'.recs[c], starts)
  <2>1. /\ held[c] \in Held /\ local.recs[c] \in Record
        /\ local'.recs[c] \in Record /\ apps[c] \in Entries
    BY <1>1, ContainerTypes, ContainerTypesNext
  <2>2. Told(apps[c], c, held[c], local.recs[c], starts)
    BY <1>1 DEF AllTold
  <2>3. CASE c = d
    <3>1. held'[c] = held[c] /\ Lives(held[c]) /\ local'.recs[c].id = held[c].id
      BY <2>3 DEF Adopt, Launching, Up, Lives
    <3>2. Counted(apps[c], held[c].id, local'.recs[c].count)
      BY <2>3
    <3>. QED  BY <2>1, <2>2, <3>1, <3>2, AdoptKeepsTold DEF Counted
  <2>4. CASE c # d
    <3>1. held'[c] = held[c] /\ local'.recs[c] = local.recs[c]
      BY <1>1, <2>4 DEF Adopt, Launching
    <3>. QED  BY <2>2, <3>1
  <2>. QED  BY <2>3, <2>4
<1>. QED  BY <1>1, <1>2 DEF AllTold

\* Records that keep their run, and their end once noted.
Steady(names, loc, loc2) ==
  /\ loc2.known = loc.known /\ loc2.uid = loc.uid /\ loc2.done = loc.done
  /\ \A c \in names : /\ loc2.recs[c].id = loc.recs[c].id
                      /\ loc.recs[c].down # "none" => loc2.recs[c].down = loc.recs[c].down

LEMMA DecaySteady ==
  ASSUME Types, World, Decay
  PROVE  Steady(Names, local, local')
<1>1. ASSUME NEW c \in Names
      PROVE  /\ local'.recs[c].id = local.recs[c].id
             /\ local.recs[c].down # "none" => local'.recs[c].down = local.recs[c].down
  <2>1. held[c] \in Held /\ local.recs[c] \in Record
    BY ContainerTypes
  <2>2. RunOK(c, held[c], starts, clean) /\ RecOK(c, held[c], local.recs[c], starts, clean)
    BY DEF World, Containers
  <2>3. Kept(held[c], local.recs[c], local'.recs[c])
    BY DEF Decay
  <2>4. local.recs[c].down # "none" => NotedDown(held[c], local.recs[c]) = local.recs[c].down
    BY <2>1, <2>2, NotedIsTheEnd
  <2>. QED  BY <2>3, <2>4 DEF Kept
<1>. QED  BY <1>1 DEF Decay, SameHeader, Steady

LEMMA SteadyFinished ==
  ASSUME NEW names, NEW apps, NEW phase, NEW s, NEW loc, NEW loc2, Steady(names, loc, loc2),
         DOMAIN apps \subseteq names, \A c \in DOMAIN apps : apps[c] \in Entries,
         Finished(apps, phase, s, loc)
  PROVE  Finished(apps, phase, s, loc2)
<1>1. ASSUME NEW c \in DOMAIN apps
      PROVE  loc2.recs[c].id = apps[c].id /\ loc2.recs[c].down = apps[c].exit
  <2>1. apps[c].exit # "none"
    BY DEF Entries, Entry, Exits
  <2>. QED  BY <2>1 DEF Steady, Finished
<1>2. s.inits = <<>> \/ loc2.done
  BY DEF Steady, Finished
<1>. QED  BY <1>1, <1>2 DEF Finished

LEMMA SteadyDoomed ==
  ASSUME NEW names, NEW s, NEW loc, NEW loc2, Steady(names, loc, loc2),
         \A i \in DOMAIN s.inits : s.inits[i].name \in names,
         Doomed(s, loc)
  PROVE  Doomed(s, loc2)
<1>1. PICK b \in DOMAIN s.inits :
        /\ ~s.inits[b].sidecar
        /\ loc.recs[s.inits[b].name].down \in {"bad", "unknown"}
        /\ ~ShouldRestart(s.policy, loc.recs[s.inits[b].name].down)
        /\ \A i \in DOMAIN s.inits :
             i < b /\ ~s.inits[i].sidecar => loc.recs[s.inits[i].name].down = "ok"
  BY DEF Doomed
<1>2. loc2.recs[s.inits[b].name].down = loc.recs[s.inits[b].name].down
  BY <1>1 DEF Steady
<1>3. \A i \in DOMAIN s.inits :
        i < b /\ ~s.inits[i].sidecar => loc2.recs[s.inits[i].name].down = "ok"
  BY <1>1 DEF Steady
<1>4. s.inits # <<>> /\ ~loc2.done
  BY DEF Steady, Doomed
<1>. QED  BY <1>1, <1>2, <1>3, <1>4 DEF Doomed

LEMMA FinalStays ==
  ASSUME NEW apps, NEW phase, NEW cl, NEW cl2, cl \subseteq cl2, Final(apps, phase, cl)
  PROVE  Final(apps, phase, cl2)
BY DEF Final

LEMMA SteadyStanding ==
  ASSUME NEW names, NEW u, NEW apps, NEW phase, NEW s, NEW loc, NEW loc2, NEW cl, NEW cl2,
         Steady(names, loc, loc2), cl \subseteq cl2,
         \A i \in DOMAIN s.inits : s.inits[i].name \in names,
         DOMAIN apps \subseteq names, \A c \in DOMAIN apps : apps[c] \in Entries,
         Standing(u, phase, apps, s, loc, cl)
  PROVE  Standing(u, phase, apps, s, loc2, cl2)
<1>1. Mine(u, loc2) <=> Mine(u, loc)
  BY DEF Mine, Steady
<1>2. Settled(apps, phase, s, loc) => Settled(apps, phase, s, loc2)
  BY SteadyFinished, SteadyDoomed DEF Settled
<1>3. \A c \in DOMAIN apps : loc2.recs[c].id = loc.recs[c].id
  BY DEF Steady
<1>4. phase \in Terminal => Final(apps, phase, cl2)
  BY FinalStays DEF Standing
<1>5. OneRun(s) /\ Mine(u, loc2) => \A c \in DOMAIN apps : StoredUp(apps[c]) => loc2.recs[c].id # NoId
  BY <1>1, <1>3 DEF Standing
<1>6. phase \in Terminal /\ Mine(u, loc2) => Settled(apps, phase, s, loc2)
  BY <1>1, <1>2 DEF Standing
<1>7. \A c \in DOMAIN apps : apps[c].id[1] \in {0, u}
  BY DEF Standing
<1>. QED  BY <1>4, <1>5, <1>6, <1>7 DEF Standing

\* A status of a pod that has no record.
LEMMA UnownedStanding ==
  ASSUME NEW u, NEW apps, NEW phase, NEW s, NEW loc, NEW loc2, NEW cl, NEW cl2,
         cl \subseteq cl2, ~Mine(u, loc2), Standing(u, phase, apps, s, loc, cl)
  PROVE  Standing(u, phase, apps, s, loc2, cl2)
BY FinalStays DEF Standing

-----------------------------------------------------------------------------
(***************************************************************************)
(* Steps that start nothing.                                               *)
(***************************************************************************)
Calm == Decay \/ \E c \in Names : OneEnds(c)

LEMMA CalmFacts ==
  ASSUME Types, World, Calm
  PROVE  /\ setup' = setup /\ starts' = starts /\ orphans' = orphans /\ SameHeader
         /\ taken \subseteq taken' /\ clean \subseteq clean'
         /\ Steady(Names, local, local')
         /\ \A c \in Names : /\ Lives(held'[c]) => Lives(held[c]) /\ held'[c].id = held[c].id
                             /\ held'[c] = Gone \/ (held[c] # Gone /\ held'[c].id = held[c].id)
                                \/ held'[c] = held[c]
<1>1. CASE Decay
  <2>1. ASSUME NEW c \in Names
        PROVE  /\ Lives(held'[c]) => Lives(held[c]) /\ held'[c].id = held[c].id
               /\ held'[c] = Gone \/ (held[c] # Gone /\ held'[c].id = held[c].id)
                  \/ held'[c] = held[c]
    <3>1. Aged(held[c], held'[c])
      BY <1>1 DEF Decay
    <3>2. Lives(held[c]) => held[c] # Gone
      BY DEF Lives, Gone
    <3>3. ~Lives(Gone)
      BY DEF Lives, Gone
    <3>. QED  BY <3>1, <3>2, <3>3 DEF Aged
  <2>2. Steady(Names, local, local')
    BY <1>1, DecaySteady
  <2>. QED  BY <1>1, <2>1, <2>2 DEF Decay
<1>2. CASE \E c \in Names : OneEnds(c)
  <2>1. PICK d \in Names : OneEnds(d)
    BY <1>2
  <2>2. EndsAs(d, held[d], held'[d], clean, clean') /\ \A c \in Names \ {d} : held'[c] = held[c]
    BY <2>1 DEF OneEnds
  <2>3. clean \subseteq clean'
    BY <2>2 DEF EndsAs
  <2>4. ASSUME NEW c \in Names
        PROVE  /\ Lives(held'[c]) => Lives(held[c]) /\ held'[c].id = held[c].id
               /\ held'[c] = Gone \/ (held[c] # Gone /\ held'[c].id = held[c].id)
                  \/ held'[c] = held[c]
    <3>1. Lives(held[d]) => held[d] # Gone
      BY DEF Lives, Gone
    <3>. QED  BY <2>2, <3>1 DEF EndsAs, Lives
  <2>5. Steady(Names, local, local') /\ SameHeader
    BY <2>1 DEF OneEnds, Steady, SameHeader
  <2>. QED  BY <2>1, <2>3, <2>4, <2>5 DEF OneEnds
<1>. QED  BY <1>1, <1>2 DEF Calm

LEMMA CalmWorld ==
  ASSUME Types, Types', UidsOK, World, Calm
  PROVE  World'
BY DecayWorld, EndWorld DEF Calm

\* A status that was true stays true when nothing is started.
LEMMA CalmStatus ==
  ASSUME Types, Types', World, Calm, NEW u, NEW phase, NEW apps \in [Apps -> Entries],
         StatusOK(u, phase, apps, setup, local, held, starts, clean, taken)
  PROVE  StatusOK(u, phase, apps, setup', local', held', starts', clean', taken')
<1>1. /\ setup' = setup /\ taken \subseteq taken' /\ clean \subseteq clean'
      /\ Steady(Names, local, local')
  BY CalmFacts
<1>2. AllTold(apps, held', local', starts')
  BY DecayTold, EndTold DEF Calm, StatusOK
<1>3. ASSUME u \notin taken'  PROVE Standing(u, phase, apps, setup, local', clean')
  <2>1. Standing(u, phase, apps, setup, local, clean)
    BY <1>1, <1>3 DEF StatusOK
  <2>2. /\ \A i \in DOMAIN setup.inits : setup.inits[i].name \in Names
        /\ DOMAIN apps \subseteq Names /\ \A c \in DOMAIN apps : apps[c] \in Entries
    BY NameFacts DEF Types
  <2>. QED  BY <1>1, <2>1, <2>2, SteadyStanding
<1>. QED  BY <1>1, <1>2, <1>3 DEF StatusOK

LEMMA DropStatus ==
  ASSUME Types, Types', Drop, NEW u, NEW phase, NEW apps \in [Apps -> Entries],
         StatusOK(u, phase, apps, setup, local, held, starts, clean, taken)
  PROVE  StatusOK(u, phase, apps, setup', local', held', starts', clean', taken')
<1>1. setup' = setup /\ taken' = taken /\ clean' = clean /\ ~Mine(u, local')
  BY DEF Drop, Mine, EmptyLocal
<1>2. AllTold(apps, held', local', starts')
  BY DropTold DEF StatusOK
<1>3. ASSUME u \notin taken'  PROVE Standing(u, phase, apps, setup, local', clean')
  <2>1. Standing(u, phase, apps, setup, local, clean)
    BY <1>1, <1>3 DEF StatusOK
  <2>2. clean \subseteq clean'
    BY <1>1
  <2>. QED  BY <1>1, <2>1, <2>2, UnownedStanding
<1>. QED  BY <1>1, <1>2, <1>3 DEF StatusOK

\* A status that names no run.
LEMMA UnstartedStatus ==
  ASSUME NEW u, NEW phase, NEW apps, NEW s, NEW loc, NEW h, NEW st, NEW cl, NEW tk,
         phase \notin Terminal, \A c \in DOMAIN apps : apps[c] = Waiting
  PROVE  StatusOK(u, phase, apps, s, loc, h, st, cl, tk)
<1>1. Waiting.id = NoId /\ Waiting.state = "waiting" /\ NoId[1] = 0
  BY DEF Waiting, NoId
<1>2. \A c \in DOMAIN apps : ~StoredUp(apps[c])
  BY <1>1 DEF StoredUp
<1>3. AllTold(apps, h, loc, st)
  BY <1>1 DEF AllTold, Told
<1>4. Standing(u, phase, apps, s, loc, cl)
  BY <1>1, <1>2 DEF Standing
<1>. QED  BY <1>3, <1>4 DEF StatusOK

(***************************************************************************)
(* Steps of the others while the kubelet is anywhere in its pass.          *)
(***************************************************************************)
SamePass ==
  /\ pass'.at = pass.at /\ pass'.seen = pass.seen /\ pass'.todo = pass.todo
  /\ pass'.blocked = pass.blocked /\ pass'.obs = pass.obs /\ pass'.unseen = pass.unseen
  /\ pass'.out = pass.out

SameNotes ==
  \A c \in Names : /\ local'.recs[c].id = local.recs[c].id
                   /\ local'.recs[c].count = local.recs[c].count
                   /\ local'.recs[c].down = local.recs[c].down

Outside ==
  /\ Calm /\ SamePass /\ SameNotes
  /\ penalty' \subseteq penalty /\ taken' = taken

LEMMA OutsideFacts ==
  ASSUME Types, World, Outside
  PROVE  /\ setup' = setup /\ Apps' = Apps /\ Names' = Names /\ taken' = taken
         /\ local'.known = local.known /\ local'.uid = local.uid /\ local'.done = local.done
         /\ Apps \subseteq Names /\ Inits \subseteq Names
         /\ \A i \in DOMAIN setup.apps : setup.apps[i] \in Names
         /\ \A i \in DOMAIN setup.inits : setup.inits[i].name \in Names
<1>1. setup' = setup /\ SameHeader /\ taken' = taken
  BY CalmFacts DEF Outside
<1>2. setup \in Setups
  BY DEF Types
<1>. QED  BY <1>1, <1>2, SetupStays, NameFacts DEF SameHeader

LEMMA OutsidePass ==
  ASSUME Types, World, Outside, PassOK, Same' => Same
  PROVE  PassOK'
<1>1. /\ setup' = setup /\ Apps' = Apps /\ taken' = taken
      /\ local'.known = local.known /\ local'.uid = local.uid /\ local'.done = local.done
      /\ Apps \subseteq Names
      /\ \A i \in DOMAIN setup.apps : setup.apps[i] \in Names
      /\ \A i \in DOMAIN setup.inits : setup.inits[i].name \in Names
  BY OutsideFacts
<1>2. /\ pass'.at = pass.at /\ pass'.seen = pass.seen /\ pass'.todo = pass.todo
      /\ pass'.blocked = pass.blocked /\ pass'.obs = pass.obs /\ pass'.unseen = pass.unseen
  BY DEF Outside, SamePass
<1>3. \A c \in Names : /\ local'.recs[c].id = local.recs[c].id
                       /\ local'.recs[c].count = local.recs[c].count
                       /\ local'.recs[c].down = local.recs[c].down
  BY DEF Outside, SameNotes
<1>4. \A c \in Names : \/ held'[c] = Gone
                       \/ held[c] # Gone /\ held'[c].id = held[c].id
                       \/ held'[c] = held[c]
  BY CalmFacts DEF Outside
<1>5. CleaningOK'
  BY <1>1, <1>2, <1>3, <1>4 DEF PassOK, CleaningOK
<1>6. ReadoptOK'
  BY <1>1, <1>2, <1>4 DEF PassOK, ReadoptOK
<1>7. GoingOK'
  <2>1. Going' <=> Going
    BY <1>2 DEF Going
  <2>. QED  BY <1>1, <1>2, <2>1 DEF PassOK, GoingOK
<1>8. InitOK'
  <2>1. pass.at \in {"init", "initStart", "initEnd"} => setup.inits # <<>> /\ ~local'.done
    BY <1>1 DEF PassOK, InitOK
  <2>2. ASSUME pass.at \in {"initStart", "initEnd"}
        PROVE  /\ Same' => pass.seen.uid \in taken \/ pass.seen.phase \notin Terminal
               /\ pass.todo \subseteq DOMAIN setup.inits
               /\ pass.at = "initStart" => pass.todo # {}
               /\ ~pass.blocked => \A i \in DOMAIN setup.inits : ~setup.inits[i].sidecar =>
                    local'.recs[setup.inits[i].name].down = "ok" /\ i \notin pass.todo
    BY <1>1, <1>3, <2>2 DEF PassOK, InitOK
  <2>. QED  BY <1>1, <1>2, <2>1, <2>2 DEF InitOK
<1>9. PastInitsOK'
  BY <1>1, <1>2 DEF PassOK, PastInitsOK
<1>10. StartOK'
  <2>1. penalty' \subseteq penalty
    BY DEF Outside
  <2>. QED  BY <1>1, <1>2, <1>3, <2>1 DEF PassOK, StartOK, Recorded
<1>11. ObserveOK'
  <2>1. ASSUME NEW i \in DOMAIN setup.apps
        PROVE  Observed(pass.obs[setup.apps[i]], local.recs[setup.apps[i]], setup) =>
               Observed(pass.obs[setup.apps[i]], local'.recs[setup.apps[i]], setup)
    BY <1>1, <1>3 DEF Observed
  <2>. QED  BY <1>1, <1>2, <2>1 DEF PassOK, ObserveOK
<1>. QED  BY <1>5, <1>6, <1>7, <1>8, <1>9, <1>10, <1>11 DEF PassOK

LEMMA OutsideWrite ==
  ASSUME Types, Types', World, Outside, WriteOK, Same' => Same /\ pod'.uid = pod.uid
  PROVE  WriteOK'
<1>1. setup' = setup /\ Apps' = Apps
  BY OutsideFacts
<1>2. pass'.at = pass.at /\ pass'.seen = pass.seen /\ pass'.out = pass.out
  BY DEF Outside, SamePass
<1>3. pass.out.apps \in [Apps -> Entries]
  BY DEF Types, PassType, OutType
<1>. SUFFICES ASSUME pass.at = "write", Same'
              PROVE  /\ \A c \in Apps : Follows(pass.seen.apps[c], pass.out.apps[c])
                     /\ StatusOK(pod.uid, PhaseToPublish(pass.seen.phase, pass.out.phase),
                                 pass.out.apps, setup', local', held', starts', clean', taken')
  BY <1>1, <1>2 DEF WriteOK
<1>4. StatusOK(pod.uid, PhaseToPublish(pass.seen.phase, pass.out.phase), pass.out.apps,
               setup, local, held, starts, clean, taken)
  BY DEF WriteOK
<1>5. \A c \in Apps : Follows(pass.seen.apps[c], pass.out.apps[c])
  BY DEF WriteOK
<1>. QED  BY <1>3, <1>4, <1>5, CalmStatus DEF Outside

\* The penalty's half that concerns the records, for a step that starts nothing.
LEMMA CalmPenalty ==
  ASSUME Types, World, Calm, penalty' \subseteq penalty, PenaltyOK
  PROVE  \A c \in Apps : Recorded(c)' /\ Up(c)' => <<local'.uid, c>> \notin penalty'
<1>1. /\ SameHeader /\ Steady(Names, local, local') /\ Apps \subseteq Names
      /\ \A c \in Names : Lives(held'[c]) => Lives(held[c])
  BY CalmFacts, NameFacts DEF Types
<1>2. ASSUME NEW c \in Apps, local'.recs[c].id # NoId, Lives(held'[c])
      PROVE  <<local'.uid, c>> \notin penalty'
  <2>1. Recorded(c) /\ Up(c) /\ local'.uid = local.uid
    BY <1>1, <1>2 DEF Recorded, Up, Lives, Steady
  <2>. QED  BY <2>1 DEF PenaltyOK
<1>. QED  BY <1>2 DEF Recorded, Up, Lives

LEMMA OutsidePenalty ==
  ASSUME Types, World, Outside, PenaltyOK
  PROVE  PenaltyOK'
<1>1. Apps' = Apps /\ pass'.at = pass.at /\ pass'.seen = pass.seen /\ penalty' \subseteq penalty
  BY OutsideFacts DEF Outside, SamePass
<1>2. \A c \in Apps : Recorded(c)' /\ Up(c)' => <<local'.uid, c>> \notin penalty'
  BY CalmPenalty DEF Outside
<1>3. pass'.at # "idle" => \A p \in penalty' : p[1] = pass'.seen.uid
  BY <1>1 DEF PenaltyOK
<1>. QED  BY <1>1, <1>2, <1>3 DEF PenaltyOK, Recorded, Up

LEMMA PodStatus ==
  ASSUME Types, PodOK
  PROVE  pod.apps \in [Apps -> Entries]
BY DEF Types, PodType

LEMMA CalmPod ==
  ASSUME Types, Types', World, PodOK, Calm, pod' = pod
  PROVE  PodOK'
BY PodStatus, CalmStatus DEF PodOK

LEMMA OutsideStep ==
  ASSUME IInv, Types', Outside, pod' = pod, born' = born
  PROVE  IInv'
<1>1. setup' = setup /\ local'.known = local.known /\ local'.uid = local.uid /\ taken' = taken
  BY OutsideFacts DEF IInv
<1>2. pass'.at = pass.at /\ pass'.seen = pass.seen
  BY DEF Outside, SamePass
<1>3. (Same' <=> Same) /\ (Driving' <=> Driving)
  BY <1>2 DEF Same, Exists, Driving
<1>4. World'
  BY CalmWorld DEF IInv, Outside
<1>5. UidsOK'
  BY <1>1, <1>2, <1>3 DEF IInv, UidsOK
<1>6. PenaltyOK'
  BY OutsidePenalty DEF IInv
<1>7. PodOK'
  BY CalmPod DEF IInv, Outside
<1>8. SeenOK'
  BY <1>2, <1>3 DEF IInv, SeenOK
<1>9. PassOK'
  BY <1>3, OutsidePass DEF IInv
<1>10. WriteOK'
  BY <1>3, OutsideWrite DEF IInv
<1>. QED  BY <1>4, <1>5, <1>6, <1>7, <1>8, <1>9, <1>10 DEF IInv

\* A step that leaves the containers and the records alone.
Still == UNCHANGED <<setup, held, starts, clean, local, orphans>> /\ taken \subseteq taken'

LEMMA StillIsDecay ==
  ASSUME Still
  PROVE  Decay /\ Calm /\ SameNotes
<1>1. \A c \in Names : Aged(held[c], held'[c]) /\ Kept(held[c], local.recs[c], local'.recs[c])
  BY DEF Still, Aged, Kept
<1>. QED  BY <1>1 DEF Still, Decay, Calm, SameHeader, SameNotes

LEMMA WaitingTyped == Waiting \in Entries /\ NoId \in RunIds
BY DEF Waiting, Entries, Entry, NoId, RunIds, Exits

LEMMA NoPodTyped ==
  /\ NoPod \in PodType /\ NoPod.uid = 0 /\ NoPod.phase = "Pending" /\ NoPod.phase \notin Terminal
  /\ NoPod.term \in BOOLEAN
  /\ \A c \in Apps : NoPod.apps[c] = Waiting
  /\ DOMAIN NoPod.apps = Apps
BY WaitingTyped DEF NoPod, PodType, Phases, Terminal

LEMMA IdleTyped == Idle \in PassType /\ Idle.at = "idle" /\ Idle.seen = NoPod /\ Idle.fresh = FALSE
BY NoPodTyped, WaitingTyped DEF Idle, PassType, OutType, Steps, Phases

LEMMA StaleTyped ==
  ASSUME pass \in PassType, pass' = [pass EXCEPT !.fresh = FALSE]
  PROVE  pass' \in PassType /\ SamePass /\ pass'.fresh = FALSE
BY DEF PassType, SamePass

\* The pod in the store changes, or goes, under the pass.
LEMMA CreateStep ==
  ASSUME IInv, Create
  PROVE  IInv'
<1>1. /\ Still /\ taken' = taken /\ penalty' = penalty /\ events' = events /\ setup' = setup
      /\ ~Exists(pod) /\ born < setup.pods /\ born' = born + 1
      /\ pod' = [NoPod EXCEPT !.uid = born'] /\ pass' = [pass EXCEPT !.fresh = FALSE]
  BY DEF Create, Still
<1>2. pass \in PassType /\ born \in Nat /\ setup.pods \in Nat
  BY SetupFacts DEF IInv, Types
<1>3. /\ pod' \in PodType /\ pod'.uid = born + 1 /\ pod'.phase = "Pending"
      /\ pod'.apps = NoPod.apps
  BY <1>1, <1>2, NoPodTyped DEF PodType
<1>4. pass' \in PassType /\ SamePass /\ pass'.fresh = FALSE
  BY <1>1, <1>2, StaleTyped
<1>5. Types'
  <2>1. Names' = Names /\ Uids' = Uids /\ LocalType' = LocalType /\ PodType' = PodType
        /\ PassType' = PassType
    BY <1>1, SetupStays
  <2>2. born' \in Nat
    BY <1>1, <1>2
  <2>. QED  BY <1>1, <1>3, <1>4, <2>1, <2>2 DEF IInv, Types, Still
<1>6. Outside
  BY <1>1, <1>4, StillIsDecay DEF Outside
<1>7. pass'.at = pass.at /\ pass'.seen = pass.seen /\ (Driving' <=> Driving)
  BY <1>4 DEF SamePass, Driving
<1>8. ~Same'
  <2>1. pass.seen.uid \in 0..born
    <3>1. CASE Driving  BY <1>2, <3>1 DEF IInv, UidsOK
    <3>2. CASE ~Driving  BY <1>2, <3>2 DEF IInv, UidsOK
    <3>. QED  BY <3>1, <3>2
  <2>2. pod'.uid # pass'.seen.uid
    BY <1>2, <1>3, <1>7, <2>1
  <2>. QED  BY <2>2 DEF Same
<1>9. World'
  BY <1>5, <1>6, CalmWorld DEF IInv, Outside
<1>10. UidsOK'
  <2>1. local' = local
    BY <1>1 DEF Still
  <2>2. born' <= setup'.pods /\ pod'.uid \in {0, born'}
    BY <1>1, <1>2, <1>3
  <2>3. Driving => pass.seen.uid \in 1..born'
    BY <1>1, <1>2 DEF IInv, UidsOK
  <2>4. local.known => local.uid \in 1..born'
    BY <1>1, <1>2 DEF IInv, UidsOK
  <2>5. \A t \in taken' : t <= born'
    <3>1. \A t \in taken : t \in Nat /\ t <= born
      BY DEF IInv, UidsOK, Types, Uids
    <3>. QED  BY <1>1, <1>2, <3>1
  <2>. QED  BY <1>1, <1>7, <2>1, <2>2, <2>3, <2>4, <2>5 DEF IInv, UidsOK
<1>11. PenaltyOK'
  BY <1>6, OutsidePenalty DEF IInv
<1>12. \A c \in DOMAIN pod'.apps : pod'.apps[c] = Waiting
  BY <1>3, NoPodTyped
<1>13. PodOK'
  <2>1. pod'.phase \notin Terminal
    BY <1>3 DEF Terminal
  <2>. QED  BY <1>12, <2>1, UnstartedStatus DEF PodOK
<1>14. SeenOK'
  <2>1. Unstarted(pod'.apps)
    BY <1>12 DEF Unstarted, Waiting
  <2>. QED  BY <1>3, <1>8, <2>1 DEF SeenOK
<1>15. PassOK'
  BY <1>6, <1>8, OutsidePass DEF IInv
<1>16. WriteOK'
  BY <1>8 DEF WriteOK
<1>. QED  BY <1>5, <1>9, <1>10, <1>11, <1>13, <1>14, <1>15, <1>16 DEF IInv

LEMMA DeleteStep ==
  ASSUME IInv, Delete
  PROVE  IInv'
<1>1. /\ Still /\ taken' = taken /\ penalty' = penalty /\ events' = events /\ setup' = setup
      /\ Exists(pod) /\ born' = born /\ pass' = [pass EXCEPT !.fresh = FALSE]
      /\ pod' = NoPod \/ pod' = [pod EXCEPT !.term = TRUE]
  BY DEF Delete, Still, steady
<1>2. pass \in PassType /\ pod \in PodType
  BY DEF IInv, Types
<1>3. /\ pod' \in PodType
      /\ \/ pod' = NoPod
         \/ pod'.uid = pod.uid /\ pod'.phase = pod.phase /\ pod'.apps = pod.apps
  BY <1>1, <1>2, NoPodTyped DEF PodType
<1>4. pass' \in PassType /\ SamePass /\ pass'.fresh = FALSE
  BY <1>1, <1>2, StaleTyped
<1>5. Types'
  <2>1. Names' = Names /\ Uids' = Uids /\ LocalType' = LocalType /\ PodType' = PodType
        /\ PassType' = PassType
    BY <1>1, SetupStays
  <2>. QED  BY <1>1, <1>3, <1>4, <2>1 DEF IInv, Types, Still
<1>6. Outside
  BY <1>1, <1>4, StillIsDecay DEF Outside
<1>7. pass'.at = pass.at /\ pass'.seen = pass.seen /\ (Driving' <=> Driving)
  BY <1>4 DEF SamePass, Driving
<1>8. pod'.uid \in {0, pod.uid} /\ (Same' => Same /\ pod'.uid = pod.uid)
  BY <1>1, <1>3, <1>7, NoPodTyped DEF Same, Exists
<1>9. World'
  BY <1>5, <1>6, CalmWorld DEF IInv, Outside
<1>10. UidsOK'
  <2>1. local' = local
    BY <1>1 DEF Still
  <2>. QED  BY <1>1, <1>7, <1>8, <2>1 DEF IInv, UidsOK
<1>11. PenaltyOK'
  BY <1>6, OutsidePenalty DEF IInv
<1>12. ASSUME pod' = NoPod  PROVE PodOK' /\ SeenOK'
  <2>1. \A c \in DOMAIN pod'.apps : pod'.apps[c] = Waiting
    BY <1>12, NoPodTyped
  <2>2. pod'.phase = "Pending" /\ pod'.phase \notin Terminal /\ ~Same'
    BY <1>12, NoPodTyped DEF Same, Exists
  <2>3. Unstarted(pod'.apps)
    BY <2>1 DEF Unstarted, Waiting
  <2>4. PodOK'
    BY <2>1, <2>2, UnstartedStatus DEF PodOK
  <2>5. SeenOK'
    BY <2>2, <2>3 DEF SeenOK
  <2>. QED  BY <2>4, <2>5
<1>13. ASSUME pod'.uid = pod.uid, pod'.phase = pod.phase, pod'.apps = pod.apps
       PROVE  PodOK' /\ SeenOK'
  <2>1. PodOK'
    <3>1. StatusOK(pod.uid, pod.phase, pod.apps, setup', local', held', starts', clean', taken')
      BY <1>5, <1>6, PodStatus, CalmStatus DEF IInv, PodOK, Outside
    <3>. QED  BY <1>13, <3>1 DEF PodOK
  <2>2. SeenOK'
    BY <1>7, <1>13 DEF IInv, SeenOK, Same, Exists
  <2>. QED  BY <2>1, <2>2
<1>14. PassOK'
  BY <1>6, <1>8, OutsidePass DEF IInv
<1>15. WriteOK'
  BY <1>5, <1>6, <1>8, OutsideWrite DEF IInv
<1>. QED  BY <1>3, <1>5, <1>9, <1>10, <1>11, <1>12, <1>13, <1>14, <1>15 DEF IInv

\* The types after a step that touches neither the store nor the pass.
LEMMA OutsideTypes ==
  ASSUME Types, UNCHANGED <<setup, pod, born, starts, pass, taken>>,
         held' \in [Names -> Held], local' \in LocalType, penalty' \subseteq penalty,
         events' \in 0..MaxEvents
  PROVE  Types'
<1>1. Names' = Names /\ Uids' = Uids /\ LocalType' = LocalType /\ PodType' = PodType
      /\ PassType' = PassType
  BY SetupStays
<1>2. penalty' \subseteq Uids \X Names
  BY DEF Types
<1>. QED  BY <1>1, <1>2 DEF Types, Exists

LEMMA Spent ==
  ASSUME Types, NEW n \in Nat, Spend(n)
  PROVE  events' \in 0..MaxEvents
BY BoundsAssumption DEF Types, Spend

LEMMA PassUnchanged ==
  ASSUME pass' = pass
  PROVE  SamePass
BY DEF SamePass

LEMMA EditStep ==
  ASSUME IInv, Edit
  PROVE  IInv'
<1>1. /\ Still /\ taken' = taken /\ penalty' = penalty /\ setup' = setup /\ pod' = pod
      /\ born' = born /\ pass' = [pass EXCEPT !.fresh = FALSE] /\ Spend(1)
  BY DEF Edit, Still, steady
<1>2. pass' \in PassType /\ SamePass /\ pass'.fresh = FALSE
  BY <1>1, StaleTyped DEF IInv, Types
<1>3. events' \in 0..MaxEvents
  BY <1>1, Spent DEF IInv
<1>4. Types'
  <2>1. Names' = Names /\ Uids' = Uids /\ LocalType' = LocalType /\ PodType' = PodType
        /\ PassType' = PassType
    BY <1>1, SetupStays
  <2>. QED  BY <1>1, <1>2, <1>3, <2>1 DEF IInv, Types, Still
<1>. QED  BY <1>1, <1>2, <1>4, StillIsDecay, OutsideStep DEF Outside

LEMMA EndsStep ==
  ASSUME IInv, NEW c \in Names, Up(c), NEW exit \in Ended, Ends(c, exit),
         events' \in 0..MaxEvents
  PROVE  IInv'
<1>1. /\ held' = [held EXCEPT ![c].run = exit]
      /\ clean' = IF exit = "ok" THEN clean \cup {<<c, held[c].id>>} ELSE clean
      /\ UNCHANGED <<setup, born, orphans, pod, starts, local, penalty, pass, taken>>
  BY DEF Ends, steady
<1>2. held \in [Names -> Held] /\ held[c] \in Held /\ local \in LocalType
  BY DEF IInv, Types
<1>3. held'[c].id = held[c].id /\ held'[c].run = exit /\ held' \in [Names -> Held]
      /\ \A d \in Names \ {c} : held'[d] = held[d]
  BY <1>1, <1>2 DEF Held
<1>4. OneEnds(c)
  BY <1>1, <1>3 DEF OneEnds, EndsAs, Up, Lives
<1>5. Types'
  BY <1>1, <1>2, <1>3, OutsideTypes DEF IInv
<1>6. Outside
  BY <1>1, <1>4, PassUnchanged DEF Outside, Calm, SameNotes
<1>. QED  BY <1>1, <1>5, <1>6, OutsideStep

LEMMA ExitSteps ==
  ASSUME IInv, NEW c \in Names, Exit(c) \/ InitExit(c) \/ Reaped(c)
  PROVE  IInv'
<1>0. events \in 0..MaxEvents
  BY DEF IInv, Types
<1>1. CASE Exit(c)
  <2>1. Up(c) /\ events' \in 0..MaxEvents
    BY <1>1, Spent DEF Exit, Up, IInv
  <2>2. PICK exit \in {"ok", "bad"} : Ends(c, exit)
    BY <1>1 DEF Exit
  <2>. QED  BY <2>1, <2>2, EndsStep DEF Ended
<1>2. CASE InitExit(c)
  <2>1. Up(c) /\ events' = events /\ Ends(c, "ok")
    BY <1>2 DEF InitExit, Up
  <2>. QED  BY <1>0, <2>1, EndsStep DEF Ended
<1>3. CASE Reaped(c)
  <2>1. Up(c) /\ events' = events
    BY <1>3 DEF Reaped, Up
  <2>2. PICK exit \in {"ok", "bad"} : Ends(c, exit)
    BY <1>3 DEF Reaped
  <2>. QED  BY <1>0, <2>1, <2>2, EndsStep DEF Ended
<1>. QED  BY <1>1, <1>2, <1>3

LEMMA GoneTyped == Gone \in Held
BY WaitingTyped DEF Gone, Held

LEMMA VanishStep ==
  ASSUME IInv, NEW c \in Names, Vanish(c)
  PROVE  IInv'
<1>1. /\ held' = [held EXCEPT ![c] = Gone] /\ Spend(1)
      /\ UNCHANGED <<setup, born, orphans, pod, starts, clean, local, penalty, pass, taken>>
  BY DEF Vanish, steady
<1>2. held \in [Names -> Held] /\ local \in LocalType
  BY DEF IInv, Types
<1>3. held' \in [Names -> Held] /\ \A d \in Names : held'[d] = Gone \/ held'[d] = held[d]
  BY <1>1, <1>2, GoneTyped
<1>4. Decay /\ SameNotes
  BY <1>1, <1>3 DEF Decay, SameNotes, SameHeader, Aged, Kept
<1>5. Types'
  BY <1>1, <1>2, <1>3, Spent, OutsideTypes DEF IInv
<1>6. Outside
  BY <1>1, <1>4, PassUnchanged DEF Outside, Calm
<1>. QED  BY <1>1, <1>5, <1>6, OutsideStep

LEMMA CurveElapsesStep ==
  ASSUME IInv, CurveElapses
  PROVE  IInv'
<1>1. /\ Still /\ penalty' \subseteq penalty
      /\ UNCHANGED <<setup, born, pod, starts, pass, taken, held, local, events>>
  BY DEF CurveElapses, Still, steady
<1>2. held' \in [Names -> Held] /\ local' \in LocalType /\ events' \in 0..MaxEvents
  BY <1>1 DEF IInv, Types
<1>3. Types'
  BY <1>1, <1>2, OutsideTypes DEF IInv
<1>. QED  BY <1>1, <1>3, StillIsDecay, PassUnchanged, OutsideStep DEF Outside

LEMMA PenaltyServedStep ==
  ASSUME IInv, NEW c \in Names, PenaltyServed(c)
  PROVE  IInv'
<1>1. /\ local' = [local EXCEPT !.recs[c].owed = FALSE]
      /\ UNCHANGED <<setup, born, orphans, pod, held, starts, clean, penalty, pass, taken, events>>
  BY DEF PenaltyServed, steady
<1>2. /\ held \in [Names -> Held] /\ local \in LocalType /\ events \in 0..MaxEvents
  BY DEF IInv, Types
<1>3. /\ local' \in LocalType /\ SameHeader
      /\ \A d \in Names : /\ local'.recs[d].id = local.recs[d].id
                          /\ local'.recs[d].count = local.recs[d].count
                          /\ local'.recs[d].down = local.recs[d].down
  BY <1>1, <1>2 DEF LocalType, Record, SameHeader
<1>4. Decay /\ SameNotes
  BY <1>1, <1>3 DEF Decay, SameNotes, Aged, Kept
<1>5. Types'
  BY <1>1, <1>2, <1>3, OutsideTypes DEF IInv
<1>6. Outside
  BY <1>1, <1>4, PassUnchanged DEF Outside, Calm
<1>. QED  BY <1>1, <1>5, <1>6, OutsideStep

LEMMA StutterStep ==
  ASSUME IInv, UNCHANGED vars
  PROVE  IInv'
<1>1. /\ Still /\ penalty' \subseteq penalty
      /\ UNCHANGED <<setup, born, pod, starts, pass, taken, held, local, events>>
  BY DEF vars, Still
<1>2. held' \in [Names -> Held] /\ local' \in LocalType /\ events' \in 0..MaxEvents
  BY <1>1 DEF IInv, Types
<1>3. Types'
  BY <1>1, <1>2, OutsideTypes DEF IInv
<1>. QED  BY <1>1, <1>3, StillIsDecay, PassUnchanged, OutsideStep DEF Outside

-----------------------------------------------------------------------------
(***************************************************************************)
(* Steps that end the pass.                                                *)
(***************************************************************************)
LEMMA RestStep ==
  ASSUME IInv, Types', World', PodOK', setup' = setup, born' = born, pass' = Idle,
         pod'.uid = pod.uid, taken' = taken,
         local'.known => local'.uid \in 1..born,
         \A c \in Apps : Recorded(c)' /\ Up(c)' => <<local'.uid, c>> \notin penalty'
  PROVE  IInv'
<1>1. pass'.at = "idle" /\ pass'.seen.uid = 0 /\ Apps' = Apps /\ ~Driving'
  BY IdleTyped, NoPodTyped, SetupStays DEF Driving
<1>2. UidsOK'
  BY <1>1 DEF IInv, UidsOK
<1>3. PenaltyOK'
  BY <1>1 DEF PenaltyOK, Recorded, Up
<1>4. SeenOK'
  BY <1>1 DEF SeenOK
<1>5. PassOK'
  BY <1>1 DEF PassOK, CleaningOK, ReadoptOK, GoingOK, Going, InitOK, PastInitsOK, StartOK, ObserveOK
<1>6. WriteOK'
  BY <1>1 DEF WriteOK
<1>. QED  BY <1>2, <1>3, <1>4, <1>5, <1>6 DEF IInv

LEMMA CalmRest ==
  ASSUME IInv, Types', Calm, UNCHANGED <<pod, born, taken>>, pass' = Idle, penalty' \subseteq penalty
  PROVE  IInv'
<1>1. setup' = setup /\ SameHeader
  BY CalmFacts DEF IInv
<1>2. World' /\ PodOK'
  BY CalmWorld, CalmPod DEF IInv
<1>3. local'.known => local'.uid \in 1..born
  BY <1>1 DEF SameHeader, IInv, UidsOK
<1>4. \A c \in Apps : Recorded(c)' /\ Up(c)' => <<local'.uid, c>> \notin penalty'
  BY CalmPenalty DEF IInv
<1>. QED  BY <1>1, <1>2, <1>3, <1>4, RestStep

\* The types after a step of the pass that writes nothing to the store.
LEMMA PassTypes ==
  ASSUME Types, UNCHANGED <<setup, pod, born>>,
         held' \in [Names -> Held], local' \in LocalType, pass' \in PassType,
         starts' \in [Uids -> [Names -> Nat]],
         penalty' \subseteq Uids \X Names, taken' \subseteq Uids, events' \in 0..MaxEvents,
         pass'.fresh => pass.fresh /\ pass'.seen = pass.seen
  PROVE  Types'
<1>1. Names' = Names /\ Uids' = Uids /\ LocalType' = LocalType /\ PodType' = PodType
      /\ PassType' = PassType
  BY SetupStays
<1>2. pass'.fresh => Exists(pod) /\ pod = pass'.seen
  BY DEF Types
<1>. QED  BY <1>1, <1>2 DEF Types, Exists

LEMMA EmptyTyped == EmptyLocal \in LocalType
BY WaitingTyped DEF EmptyLocal, LocalType, NoRecord, Record

LEMMA CrashStep ==
  ASSUME IInv, Crash
  PROVE  IInv'
<1>1. /\ Spend(1) /\ local' = EmptyLocal /\ penalty' = {} /\ pass' = Idle
      /\ held' \in {held} \cup (IF setup.adopts THEN {} ELSE {[c \in Names |-> Gone]})
      /\ orphans' = orphans \cup {<<c, held[c].id>> : c \in {d \in Names : held[d] # Gone}}
      /\ UNCHANGED <<setup, born, pod, starts, clean, taken>>
  BY DEF Crash
<1>2. held \in [Names -> Held] /\ starts \in [Uids -> [Names -> Nat]] /\ taken \subseteq Uids
  BY DEF IInv, Types
<1>3. held' = held \/ held' = [c \in Names |-> Gone]
  BY <1>1
<1>4. held' \in [Names -> Held] /\ \A c \in Names : held'[c] = held[c] \/ held'[c] = Gone
  BY <1>2, <1>3, GoneTyped
<1>5. Types'
  <2>1. events' \in 0..MaxEvents
    BY <1>1, Spent DEF IInv
  <2>2. Types
    BY DEF IInv
  <2>. QED  BY <1>1, <1>2, <1>4, <2>1, <2>2, EmptyTyped, IdleTyped, PassTypes
<1>6. Drop
  BY <1>1, <1>4 DEF Drop, Aged
<1>7. \A c \in Names : held'[c] = Gone \/ <<c, held'[c].id>> \in orphans'
  BY <1>1, <1>4
<1>8. World'
  BY <1>5, <1>6, <1>7, DropWorld DEF IInv
<1>9. PodOK'
  BY <1>1, <1>5, <1>6, PodStatus, DropStatus DEF IInv, PodOK
<1>10. ~local'.known
  BY <1>1 DEF EmptyLocal
<1>. QED  BY <1>1, <1>5, <1>8, <1>9, <1>10, RestStep

\* What cleanup_group leaves of the containers.
LEMMA GroupDownAges ==
  ASSUME Types, NEW names \in SUBSET Names, NEW ids, GroupDown(names, ids)
  PROVE  /\ held' \in [Names -> Held] /\ events' \in 0..MaxEvents
         /\ \A c \in Names : Aged(held[c], held'[c])
         /\ \A c \in Names \ names : held'[c] = held[c]
<1>. DEFINE mine == {c \in names : held[c] # Gone /\ held[c].id = ids[c]}
            up == {c \in mine : Up(c)}
            Stopping(cs, gone) ==
              [c \in Names |-> IF c \in gone THEN Gone
                               ELSE IF c \in cs THEN [held[c] EXCEPT !.run = "stopping"]
                               ELSE held[c]]
<1>1. held \in [Names -> Held]
  BY DEF Types
<1>2. ASSUME NEW cs \in SUBSET up, NEW gone \in SUBSET mine, held' = Stopping(cs, gone)
      PROVE  /\ held' \in [Names -> Held]
             /\ \A c \in Names : Aged(held[c], held'[c])
             /\ \A c \in Names \ names : held'[c] = held[c]
  <2>1. ASSUME NEW c \in Names
        PROVE  held'[c] \in Held /\ Aged(held[c], held'[c]) /\ (c \notin names => held'[c] = held[c])
    <3>1. held[c] \in Held
      BY <1>1
    <3>2. CASE c \in gone
      BY <1>2, <3>2, GoneTyped DEF Aged
    <3>3. CASE c \notin gone /\ c \in cs
      <4>1. held'[c] = [held[c] EXCEPT !.run = "stopping"]
        BY <1>2, <3>3
      <4>2. held'[c] \in Held /\ held'[c].id = held[c].id /\ held'[c].run = "stopping"
        BY <3>1, <4>1 DEF Held
      <4>. QED  BY <1>2, <3>3, <4>2 DEF Aged, Lives, Up
    <3>4. CASE c \notin gone /\ c \notin cs
      BY <1>2, <3>1, <3>4 DEF Aged
    <3>. QED  BY <3>2, <3>3, <3>4
  <2>2. DOMAIN held' = Names /\ held' = [c \in Names |-> held'[c]]
    BY <1>2
  <2>. QED  BY <2>1, <2>2
<1>3. CASE /\ up # {} /\ Spend(1)
           /\ \E cs \in SUBSET up : held' = Stopping(cs, {})
  <2>1. {} \in SUBSET mine /\ events' \in 0..MaxEvents
    BY <1>3, Spent
  <2>2. PICK cs \in SUBSET up : held' = Stopping(cs, {})
    BY <1>3
  <2>. QED  BY <1>2, <2>1, <2>2
<1>4. CASE \E gone \in SUBSET mine :
              /\ Spend(IF mine \ gone \subseteq up THEN 0 ELSE 1)
              /\ held' = Stopping(up, gone)
  <2>1. PICK gone \in SUBSET mine : /\ Spend(IF mine \ gone \subseteq up THEN 0 ELSE 1)
                                    /\ held' = Stopping(up, gone)
    BY <1>4
  <2>2. events' \in 0..MaxEvents
    <3>1. (IF mine \ gone \subseteq up THEN 0 ELSE 1) \in Nat
      OBVIOUS
    <3>. QED  BY <2>1, <3>1, Spent
  <2>. QED  BY <1>2, <2>1, <2>2
<1>. QED  BY <1>3, <1>4 DEF GroupDown

LEMMA CleanAppsStep ==
  ASSUME IInv, CleanApps
  PROVE  IInv'
<1>1. /\ pass.at = "clean" /\ GroupDown(Apps, Ids)
      /\ pass' = IF AllDown(Apps, Ids) THEN [pass EXCEPT !.at = "cleanInits"] ELSE Idle
      /\ UNCHANGED <<setup, born, orphans, pod, starts, clean, local, penalty, taken>>
  BY DEF CleanApps, steady
<1>2. Types /\ setup \in Setups /\ pass \in PassType /\ local \in LocalType
      /\ starts \in [Uids -> [Names -> Nat]]
      /\ penalty \subseteq Uids \X Names /\ taken \subseteq Uids
  BY DEF IInv, Types
<1>3. /\ held' \in [Names -> Held] /\ events' \in 0..MaxEvents
      /\ \A c \in Names : Aged(held[c], held'[c])
  <2>1. Apps \in SUBSET Names
    BY <1>2, NameFacts
  <2>. QED  BY <1>1, <1>2, <2>1, GroupDownAges
<1>4. Decay /\ Calm
  BY <1>1, <1>3 DEF Decay, Calm, SameHeader, Kept
<1>5. CASE ~AllDown(Apps, Ids)
  <2>1. pass' = Idle
    BY <1>1, <1>5
  <2>2. Types'
    BY <1>1, <1>2, <1>3, <2>1, IdleTyped, PassTypes
  <2>. QED  BY <1>1, <1>4, <2>1, <2>2, CalmRest
<1>6. CASE AllDown(Apps, Ids)
  <2>1. pass' = [pass EXCEPT !.at = "cleanInits"]
    BY <1>1, <1>6
  <2>2. pass' \in PassType /\ pass'.at = "cleanInits" /\ pass'.seen = pass.seen
        /\ pass'.fresh = pass.fresh
    BY <1>2, <2>1 DEF PassType, Steps
  <2>3. Types'
    BY <1>1, <1>2, <1>3, <2>2, PassTypes
  <2>4. World' /\ PodOK'
    BY <1>1, <1>4, <2>3, CalmWorld, CalmPod DEF IInv
  <2>5. Apps' = Apps /\ ~Driving' /\ ~Driving
    BY <1>1, <2>2, SetupStays DEF Driving
  <2>6. UidsOK'
    BY <1>1, <2>2, <2>5 DEF IInv, UidsOK
  <2>7. PenaltyOK'
    <3>1. \A c \in Apps : Recorded(c)' /\ Up(c)' => <<local'.uid, c>> \notin penalty'
      BY <1>1, <1>4, CalmPenalty DEF IInv
    <3>. QED  BY <1>1, <2>2, <2>5, <3>1 DEF IInv, PenaltyOK, Recorded, Up
  <2>8. SeenOK' /\ WriteOK'
    BY <2>2, <2>5 DEF SeenOK, WriteOK
  <2>9. CleaningOK'
    <3>1. \A c \in Apps : Ids[c] = local.recs[c].id
      BY <1>2, NameFacts DEF Ids
    <3>. QED  BY <1>1, <1>6, <2>5, <3>1 DEF AllDown, CleaningOK
  <2>10. PassOK'
    BY <2>2, <2>9 DEF PassOK, ReadoptOK, GoingOK, Going, InitOK, PastInitsOK, StartOK, ObserveOK
  <2>. QED  BY <2>3, <2>4, <2>6, <2>7, <2>8, <2>10 DEF IInv
<1>. QED  BY <1>5, <1>6

LEMMA CleanInitsStep ==
  ASSUME IInv, CleanInits
  PROVE  IInv'
<1>1. /\ pass.at = "cleanInits" /\ GroupDown(Inits, Ids) /\ pass' = Idle
      /\ local' = IF AllDown(Inits, Ids) THEN EmptyLocal ELSE local
      /\ UNCHANGED <<setup, born, orphans, pod, starts, clean, penalty, taken>>
  BY DEF CleanInits, steady
<1>2. Types /\ setup \in Setups /\ pass \in PassType /\ local \in LocalType
      /\ starts \in [Uids -> [Names -> Nat]]
      /\ penalty \subseteq Uids \X Names /\ taken \subseteq Uids
  BY DEF IInv, Types
<1>3. /\ held' \in [Names -> Held] /\ events' \in 0..MaxEvents
      /\ \A c \in Names : Aged(held[c], held'[c])
      /\ \A c \in Names \ Inits : held'[c] = held[c]
  <2>1. Inits \in SUBSET Names
    BY <1>2, NameFacts
  <2>. QED  BY <1>1, <1>2, <2>1, GroupDownAges
<1>4. Types'
  <2>1. local' \in LocalType
    BY <1>1, <1>2, EmptyTyped
  <2>. QED  BY <1>1, <1>2, <1>3, <2>1, IdleTyped, PassTypes
<1>5. CASE ~AllDown(Inits, Ids)
  <2>1. Calm
    BY <1>1, <1>3, <1>5 DEF Decay, Calm, SameHeader, Kept
  <2>. QED  BY <1>1, <1>4, <2>1, CalmRest
<1>6. CASE AllDown(Inits, Ids)
  <2>1. Drop
    BY <1>1, <1>3, <1>6 DEF Drop
  <2>2. \A c \in Names : held'[c] = Gone \/ <<c, held'[c].id>> \in orphans'
    <3>. SUFFICES ASSUME NEW c \in Names, held'[c] # Gone
                  PROVE  <<c, held'[c].id>> \in orphans
      BY <1>1
    <3>1. held[c] # Gone /\ held'[c].id = held[c].id
      BY <1>3 DEF Aged, Lives, Gone
    <3>2. held[c].id # local.recs[c].id
      <4>1. CASE c \in Inits
        BY <1>1, <1>6, <3>1, <4>1 DEF AllDown, Ids
      <4>2. CASE c \notin Inits
        BY <1>1, <1>2, <3>1, <4>2, NameFacts DEF IInv, PassOK, CleaningOK
      <4>. QED  BY <4>1, <4>2
    <3>. QED  BY <3>1, <3>2 DEF IInv, World, NothingForgotten
  <2>3. World'
    BY <1>4, <2>1, <2>2, DropWorld DEF IInv
  <2>4. PodOK'
    BY <1>1, <1>4, <2>1, PodStatus, DropStatus DEF IInv, PodOK
  <2>5. ~local'.known
    BY <1>1, <1>6 DEF EmptyLocal
  <2>6. \A c \in Apps : ~Recorded(c)'
    BY <1>1, <1>2, <1>6, SetupStays, NameFacts DEF EmptyLocal, Recorded, NoRecord
  <2>. QED  BY <1>1, <1>4, <2>3, <2>4, <2>5, <2>6, RestStep
<1>. QED  BY <1>5, <1>6

LEMMA TickStep ==
  ASSUME IInv, Tick
  PROVE  IInv'
<1>1. /\ pass.at = "idle" /\ (Exists(pod) \/ local.known)
      /\ pass' = [Idle EXCEPT !.at = IF Exists(pod) THEN "drive" ELSE "clean", !.seen = pod,
                              !.fresh = Exists(pod)]
      /\ penalty' = {p \in penalty : p[1] = pod.uid}
      /\ UNCHANGED <<setup, born, orphans, pod, held, starts, clean, local, taken, events>>
  BY DEF Tick, steady
<1>2. Types /\ setup \in Setups /\ pod \in PodType
  BY DEF IInv, Types
<1>3. /\ pass'.at = IF Exists(pod) THEN "drive" ELSE "clean"
      /\ pass'.seen = pod /\ (pass'.fresh <=> Exists(pod))
  BY <1>1 DEF Idle
<1>4. pass' \in PassType
  <2>1. Exists(pod) \in BOOLEAN
    BY DEF Exists
  <2>2. (IF Exists(pod) THEN "drive" ELSE "clean") \in Steps
    BY DEF Steps
  <2>3. Idle \in PassType
    BY IdleTyped
  <2>. QED  BY <1>1, <1>2, <2>1, <2>2, <2>3 DEF PassType
<1>5. Types'
  <2>1. Names' = Names /\ Uids' = Uids /\ LocalType' = LocalType /\ PodType' = PodType
        /\ PassType' = PassType
    BY <1>1, SetupStays
  <2>. QED  BY <1>1, <1>2, <1>3, <1>4, <2>1 DEF Types, Exists
<1>6. Still
  BY <1>1 DEF Still
<1>7. World' /\ PodOK'
  BY <1>1, <1>2, <1>5, <1>6, StillIsDecay, CalmWorld, CalmPod DEF IInv
<1>8. Driving' <=> Exists(pod)
  BY <1>3 DEF Driving
<1>9. UidsOK'
  <2>1. born \in Nat /\ pod.uid \in {0, born} /\ (Exists(pod) => pod.uid = born /\ born \in 1..born)
    BY <1>2 DEF IInv, UidsOK, Types, Exists
  <2>. QED  BY <1>1, <1>3, <1>8, <2>1 DEF IInv, UidsOK, Exists
<1>10. PenaltyOK'
  <2>1. \A c \in Apps : Recorded(c)' /\ Up(c)' => <<local'.uid, c>> \notin penalty'
    BY <1>1, <1>6, StillIsDecay, CalmPenalty DEF IInv
  <2>2. Apps' = Apps
    BY <1>1, SetupStays
  <2>. QED  BY <1>1, <1>3, <2>1, <2>2 DEF PenaltyOK, Recorded, Up
<1>11. SeenOK'
  BY <1>1, <1>3, <1>8 DEF SeenOK, Same, Exists
<1>12. PassOK' /\ WriteOK'
  BY <1>3 DEF PassOK, CleaningOK, ReadoptOK, GoingOK, Going, InitOK, PastInitsOK, StartOK, ObserveOK,
              WriteOK
<1>. QED  BY <1>5, <1>7, <1>9, <1>10, <1>11, <1>12 DEF IInv

-----------------------------------------------------------------------------
(***************************************************************************)
(* Steps of the pass over a pod.                                           *)
(***************************************************************************)
LEMMA AdvanceStep ==
  ASSUME IInv, Types', World', PodOK', PassOK', WriteOK', UNCHANGED <<setup, pod, born>>,
         Driving, Driving', pass'.seen = pass.seen, taken' \subseteq taken \cup {pass.seen.uid},
         local'.known => local'.uid \in 1..born /\ local'.uid <= pass.seen.uid,
         \A p \in penalty' : p[1] = pass.seen.uid,
         \A c \in Apps : Recorded(c)' /\ Up(c)' => <<local'.uid, c>> \notin penalty'
  PROVE  IInv'
<1>1. Apps' = Apps /\ (Same' <=> Same)
  BY SetupStays DEF Same, Exists
<1>2. born \in Nat /\ pass.seen.uid \in 1..born
  BY DEF IInv, Types, UidsOK
<1>3. \A t \in taken' : t <= pass.seen.uid /\ t <= born
  BY <1>2 DEF IInv, UidsOK
<1>4. UidsOK'
  BY <1>2, <1>3 DEF IInv, UidsOK
<1>5. PenaltyOK'
  BY <1>1 DEF PenaltyOK, Recorded, Up
<1>6. SeenOK'
  BY <1>1 DEF IInv, SeenOK
<1>. QED  BY <1>4, <1>5, <1>6 DEF IInv

LEMMA CalmAdvance ==
  ASSUME IInv, Types', PassOK', WriteOK', Calm, UNCHANGED <<pod, born>>, penalty' \subseteq penalty,
         Driving, Driving', pass'.seen = pass.seen, taken' \subseteq taken \cup {pass.seen.uid}
  PROVE  IInv'
<1>1. setup' = setup /\ SameHeader
  BY CalmFacts DEF IInv
<1>2. World' /\ PodOK'
  BY CalmWorld, CalmPod DEF IInv
<1>3. local'.known => local'.uid \in 1..born /\ local'.uid <= pass.seen.uid
  BY <1>1 DEF SameHeader, IInv, UidsOK
<1>4. \A c \in Apps : Recorded(c)' /\ Up(c)' => <<local'.uid, c>> \notin penalty'
  BY CalmPenalty DEF IInv
<1>5. \A p \in penalty' : p[1] = pass.seen.uid
  BY DEF Driving, IInv, PenaltyOK
<1>. QED  BY <1>1, <1>2, <1>3, <1>4, <1>5, AdvanceStep

\* Which parts of PassOK speak of which step of the pass.
LEMMA AtWrite ==
  ASSUME pass'.at = "write"
  PROVE  PassOK' /\ Driving'
BY DEF PassOK, CleaningOK, ReadoptOK, GoingOK, Going, InitOK, PastInitsOK, StartOK, ObserveOK, Driving

LEMMA AtGoing ==
  ASSUME Going', GoingOK', InitOK', PastInitsOK', StartOK', ObserveOK'
  PROVE  PassOK' /\ WriteOK' /\ Driving'
BY DEF PassOK, CleaningOK, ReadoptOK, Going, WriteOK, Driving

LEMMA GoingStays ==
  ASSUME Going, GoingOK, setup' = setup, pass'.seen = pass.seen, taken \subseteq taken', SameHeader
  PROVE  GoingOK'
<1>1. Apps' = Apps /\ (OneRun(setup') <=> OneRun(setup))
  BY SetupStays
<1>. QED  BY <1>1 DEF GoingOK, SameHeader

LEMMA WritesTyped ==
  ASSUME Types, NEW phase \in Phases, NEW apps \in [Apps -> Entries], NEW inits \in [Inits -> RunIds],
         NEW p, p = Writes(pass, phase, apps, inits)
  PROVE  /\ p \in PassType /\ p.at = "write" /\ p.seen = pass.seen /\ p.fresh = pass.fresh
         /\ p.out.phase = phase /\ p.out.apps = apps /\ p.out.inits = inits
<1>1. pass \in PassType
  BY DEF Types
<1>2. [phase |-> phase, apps |-> apps, inits |-> inits] \in OutType
  BY DEF OutType
<1>. QED  BY <1>1, <1>2 DEF Writes, PassType, Steps

LEMMA PathTyped ==
  ASSUME Types, NEW p, p \in {StartPath(pass), ObservePath(pass)}
  PROVE  /\ p \in PassType /\ p.at \in {"init", "mount", "observe"}
         /\ p.seen = pass.seen /\ p.fresh = pass.fresh
         /\ p.at = "init" => setup.inits # <<>> /\ ~local.done
         /\ p.at # "init" => setup.inits = <<>> \/ local.done
         /\ p.at = "observe" => p.todo = DOMAIN setup.apps
         /\ p.at = "mount" => p.todo = {i \in DOMAIN setup.apps :
                                          /\ ~Recorded(setup.apps[i])
                                          /\ <<pass.seen.uid, setup.apps[i]>> \notin penalty}
                              /\ p.todo # {}
<1>. DEFINE due == {i \in DOMAIN setup.apps : /\ ~Recorded(setup.apps[i])
                                             /\ <<pass.seen.uid, setup.apps[i]>> \notin penalty}
<1>1. pass \in PassType /\ DOMAIN setup.apps \in SUBSET Nat
  BY SetupFacts DEF Types
<1>2. due \in SUBSET Nat
  BY <1>1
<1>3. CASE setup.inits # <<>> /\ ~local.done
  <2>1. p = [pass EXCEPT !.at = "init"]
    BY <1>3 DEF StartPath, ObservePath
  <2>. QED  BY <1>1, <1>3, <2>1 DEF PassType, Steps
<1>4. CASE ~(setup.inits # <<>> /\ ~local.done)
  <2>1. \/ p = [pass EXCEPT !.at = "observe", !.todo = DOMAIN setup.apps]
        \/ due # {} /\ p = [pass EXCEPT !.at = "mount", !.todo = due]
    <3>1. StartPath(pass) = [pass EXCEPT !.at = IF due = {} THEN "observe" ELSE "mount",
                                         !.todo = IF due = {} THEN DOMAIN setup.apps ELSE due]
      BY <1>4 DEF StartPath
    <3>2. ObservePath(pass) = [pass EXCEPT !.at = "observe", !.todo = DOMAIN setup.apps]
      BY <1>4 DEF ObservePath
    <3>. HIDE DEF due
    <3>. QED  BY <3>1, <3>2
  <2>2. CASE p = [pass EXCEPT !.at = "observe", !.todo = DOMAIN setup.apps]
    BY <1>1, <1>4, <2>2 DEF PassType, Steps
  <2>3. CASE due # {} /\ p = [pass EXCEPT !.at = "mount", !.todo = due]
    <3>1. p \in PassType /\ p.at = "mount" /\ p.todo = due /\ p.seen = pass.seen
          /\ p.fresh = pass.fresh
      <4>. HIDE DEF due
      <4>. QED  BY <1>1, <1>2, <2>3 DEF PassType, Steps
    <3>. QED  BY <1>4, <2>3, <3>1
  <2>. QED  BY <2>1, <2>2, <2>3
<1>. QED  BY <1>3, <1>4

\* Into the init sequence, the starts or the polls.
LEMMA PathStep ==
  ASSUME IInv, Driving, GoingOK', pass' \in {StartPath(pass), ObservePath(pass)},
         UNCHANGED <<setup, born, orphans, pod, held, starts, clean, local, penalty, events>>,
         taken' \in {taken, taken \cup {pass.seen.uid}}
  PROVE  IInv'
<1>1. Types /\ setup \in Setups /\ pass \in PassType /\ local \in LocalType
      /\ starts \in [Uids -> [Names -> Nat]] /\ held \in [Names -> Held]
      /\ penalty \subseteq Uids \X Names /\ taken \subseteq Uids /\ events \in 0..MaxEvents
  BY DEF IInv, Types
<1>2. pass.seen.uid \in Uids
  BY <1>1, SetupFacts DEF IInv, UidsOK, Types, Uids
<1>3. /\ pass' \in PassType /\ pass'.at \in {"init", "mount", "observe"}
      /\ pass'.seen = pass.seen /\ pass'.fresh = pass.fresh
      /\ pass'.at = "init" => setup.inits # <<>> /\ ~local.done
      /\ pass'.at # "init" => setup.inits = <<>> \/ local.done
      /\ pass'.at = "observe" => pass'.todo = DOMAIN setup.apps
      /\ pass'.at = "mount" => pass'.todo = {i \in DOMAIN setup.apps :
                                          /\ ~Recorded(setup.apps[i])
                                          /\ <<pass.seen.uid, setup.apps[i]>> \notin penalty}
                              /\ pass'.todo # {}
  BY <1>1, PathTyped
<1>4. Types'
  BY <1>1, <1>2, <1>3, PassTypes
<1>5. InitOK' /\ ObserveOK'
  BY <1>3 DEF InitOK, ObserveOK
<1>6. PastInitsOK'
  BY <1>3 DEF PastInitsOK, IInv, World, LocalOK
<1>7. StartOK'
  BY <1>3 DEF StartOK, Recorded
<1>8. Going'
  BY <1>3 DEF Going
<1>9. PassOK' /\ WriteOK' /\ Driving'
  BY <1>5, <1>6, <1>7, <1>8, AtGoing
<1>10. Calm
  BY StillIsDecay DEF Still
<1>. QED  BY <1>3, <1>4, <1>9, <1>10, CalmAdvance

LEMMA IdleStep ==
  ASSUME IInv, Calm, pass' = Idle, penalty' \subseteq penalty,
         held' \in [Names -> Held], local' \in LocalType, events' \in 0..MaxEvents,
         UNCHANGED <<born, pod, starts, taken>>
  PROVE  IInv'
<1>1. Types /\ setup' = setup
  BY CalmFacts DEF IInv
<1>2. starts \in [Uids -> [Names -> Nat]] /\ penalty \subseteq Uids \X Names /\ taken \subseteq Uids
  BY <1>1 DEF Types
<1>3. Types'
  BY <1>1, <1>2, IdleTyped, PassTypes
<1>. QED  BY <1>3, CalmRest

\* A pod without a record: it is left alone, or the pass goes on to start it.
LEMMA DriveUnknownStep ==
  ASSUME IInv, DriveUnknown
  PROVE  IInv'
<1>1. /\ pass.at = "drive" /\ ~local.known /\ (setup.adopts \/ pass.seen.phase \in Terminal)
      /\ pass' = IF pass.seen.phase \in Terminal \/ pass.seen.term THEN Idle ELSE StartPath(pass)
      /\ UNCHANGED <<setup, born, orphans, pod, held, starts, clean, local, penalty, taken, events>>
  BY DEF DriveUnknown, steady
<1>2. Types
  BY DEF IInv
<1>3. Calm
  BY <1>1, StillIsDecay DEF Still
<1>4. CASE pass' = Idle
  BY <1>1, <1>2, <1>3, <1>4, IdleStep DEF Types
<1>5. CASE pass.seen.phase \notin Terminal /\ pass' = StartPath(pass)
  <2>1. pass'.seen = pass.seen
    BY <1>2, <1>5, PathTyped
  <2>2. GoingOK'
    BY <1>1, <1>5, <2>1 DEF GoingOK, OneRun
  <2>3. Driving
    BY <1>1 DEF Driving
  <2>. QED  BY <1>1, <1>5, <2>2, <2>3, PathStep
<1>. QED  BY <1>1, <1>4, <1>5

\* A record, whoever's it is: the pod is started or observed under it.
LEMMA DriveKnownStep ==
  ASSUME IInv, DriveKnown
  PROVE  IInv'
<1>1. /\ pass.at = "drive" /\ local.known
      /\ pass' \in {StartPath(pass), ObservePath(pass)}
      /\ taken' = IF local.uid = pass.seen.uid THEN taken ELSE taken \cup {pass.seen.uid}
      /\ UNCHANGED <<setup, born, orphans, pod, held, starts, clean, local, penalty, events>>
  BY DEF DriveKnown, steady
<1>2. pass'.seen = pass.seen
  BY <1>1, PathTyped DEF IInv
<1>3. GoingOK'
  BY <1>1, <1>2 DEF GoingOK
<1>4. Driving
  BY <1>1 DEF Driving
<1>. QED  BY <1>1, <1>3, <1>4, PathStep

LEMMA ReapStep ==
  ASSUME IInv, Reap
  PROVE  IInv'
<1>1. /\ pass.at = "drive" /\ ~local.known
      /\ ~setup.adopts /\ pass.seen.phase \notin Terminal
      /\ pass' = IF AllDown(Names, StoredIds) THEN [pass EXCEPT !.at = "readopt"] ELSE Idle
      /\ UNCHANGED <<setup, born, orphans, pod, starts, clean, local, penalty, taken>>
  BY DEF Reap, steady
<1>2. PICK n \in 0..Len(Lost) : \E run \in {"refused", "stopping"} :
                /\ run = "stopping" => n < Len(Lost) /\ Up(Lost[n + 1])
                /\ Spend(IF n < Len(Lost) /\ run = "refused" THEN 1 ELSE 0)
                /\ held' = [c \in Names |->
                      IF \E i \in 1..n : Lost[i] = c THEN Gone
                      ELSE IF run = "stopping" /\ Lost[n + 1] = c
                      THEN [held[c] EXCEPT !.run = "stopping"]
                      ELSE held[c]]
  BY DEF Reap
<1>3. PICK run \in {"refused", "stopping"} :
                /\ run = "stopping" => n < Len(Lost) /\ Up(Lost[n + 1])
                /\ Spend(IF n < Len(Lost) /\ run = "refused" THEN 1 ELSE 0)
                /\ held' = [c \in Names |->
                      IF \E i \in 1..n : Lost[i] = c THEN Gone
                      ELSE IF run = "stopping" /\ Lost[n + 1] = c
                      THEN [held[c] EXCEPT !.run = "stopping"]
                      ELSE held[c]]
  BY <1>2
<1>4. Types /\ setup \in Setups /\ pass \in PassType /\ local \in LocalType
      /\ starts \in [Uids -> [Names -> Nat]] /\ held \in [Names -> Held]
      /\ penalty \subseteq Uids \X Names /\ taken \subseteq Uids
  BY DEF IInv, Types
<1>5. events' \in 0..MaxEvents
  <2>1. (IF n < Len(Lost) /\ run = "refused" THEN 1 ELSE 0) \in Nat
    OBVIOUS
  <2>. QED  BY <1>3, <1>4, <2>1, Spent
<1>6. ASSUME NEW c \in Names
      PROVE  held'[c] \in Held /\ Aged(held[c], held'[c])
  <2>1. held[c] \in Held
    BY <1>4
  <2>2. \/ held'[c] = Gone
        \/ held'[c] = held[c]
        \/ Up(c) /\ held'[c] = [held[c] EXCEPT !.run = "stopping"]
    BY <1>3
  <2>3. CASE held'[c] = Gone
    BY <2>3, GoneTyped DEF Aged
  <2>4. CASE held'[c] = held[c]
    BY <2>1, <2>4 DEF Aged
  <2>5. CASE Up(c) /\ held'[c] = [held[c] EXCEPT !.run = "stopping"]
    <3>1. held'[c] \in Held /\ held'[c].id = held[c].id /\ held'[c].run = "stopping"
      BY <2>1, <2>5 DEF Held
    <3>. QED  BY <2>5, <3>1 DEF Aged, Lives, Up
  <2>. QED  BY <2>2, <2>3, <2>4, <2>5
<1>7. held' \in [Names -> Held]
  <2>1. DOMAIN held' = Names /\ held' = [c \in Names |-> held'[c]]
    BY <1>3
  <2>. QED  BY <1>6, <2>1
<1>8. Calm
  BY <1>1, <1>6 DEF Decay, Calm, SameHeader, Kept
<1>9. CASE ~AllDown(Names, StoredIds)
  BY <1>1, <1>4, <1>5, <1>7, <1>8, <1>9, IdleStep
<1>10. CASE AllDown(Names, StoredIds)
  <2>1. pass' = [pass EXCEPT !.at = "readopt"]
    BY <1>1, <1>10
  <2>2. /\ pass' \in PassType /\ pass'.at = "readopt" /\ pass'.seen = pass.seen
        /\ pass'.fresh = pass.fresh
    BY <1>4, <2>1 DEF PassType, Steps
  <2>3. Types'
    BY <1>1, <1>4, <1>5, <1>7, <2>2, PassTypes
  <2>4. ReadoptOK'
    <3>1. \A c \in Apps : StoredIds[c] = pass.seen.apps[c].id /\ c \in Names
      BY <1>4, NameFacts DEF StoredIds
    <3>2. Apps' = Apps
      BY <1>1, SetupStays
    <3>3. \A c \in Apps : held'[c] = Gone \/ held'[c].id # pass.seen.apps[c].id
      BY <1>10, <3>1 DEF AllDown
    <3>. QED  BY <1>1, <2>2, <3>2, <3>3 DEF ReadoptOK
  <2>5. PassOK' /\ WriteOK' /\ Driving /\ Driving'
    BY <1>1, <2>2, <2>4 DEF PassOK, CleaningOK, GoingOK, Going, InitOK, PastInitsOK, StartOK, ObserveOK,
                            WriteOK, Driving
  <2>. QED  BY <1>1, <1>8, <2>2, <2>3, <2>5, CalmAdvance
<1>. QED  BY <1>9, <1>10

\* What was lost under Never is published as ended, and none of it is up.
LEMMA LostEntry ==
  ASSUME NEW e \in Entries, NEW c, NEW h, NEW r, NEW st, Told(e, c, h, r, st),
         h = Gone \/ h.id # e.id, r.id = NoId
  PROVE  /\ LostStatus(e) \in Entries /\ Told(LostStatus(e), c, h, r, st)
         /\ LostStatus(e).id = e.id
         /\ LostStatus(e).state = "ended" \/ LostStatus(e).id = NoId
         /\ Follows(e, LostStatus(e))
<1>1. e \in Entry /\ (e.state # "waiting" => e.id # NoId)
  BY DEF Entries
<1>2. CASE StoredUp(e)
  <2>1. LostStatus(e) = [state |-> "ended", id |-> e.id, count |-> e.count, exit |-> "unknown"]
    BY <1>2 DEF LostStatus, EndedEntry
  <2>2. e.id # NoId /\ e.state # "ended"
    BY <1>1, <1>2 DEF StoredUp, Entry
  <2>3. LostStatus(e) \in Entries
    BY <1>1, <2>1, <2>2 DEF Entries, Entry, Exits
  <2>4. Lives(h) => h.id # e.id
    BY DEF Lives, Gone
  <2>. QED  BY <2>1, <2>2, <2>3, <2>4 DEF Told, Follows
<1>3. CASE ~StoredUp(e)
  <2>1. LostStatus(e) = e
    BY <1>3 DEF LostStatus
  <2>2. e.state \in {"waiting", "running", "ended"}
    BY <1>1 DEF Entry
  <2>. QED  BY <1>1, <1>3, <2>1, <2>2 DEF StoredUp, Follows
<1>. QED  BY <1>2, <1>3

LEMMA ReadoptStep ==
  ASSUME IInv, Readopt
  PROVE  IInv'
<1>. DEFINE lost == [c \in Apps |-> LostStatus(pass.seen.apps[c])]
<1>1. /\ pass.at = "readopt"
      /\ pass' = IF ReconcileLostPod(setup.policy, pass.seen.apps) = "Failed"
                 THEN Writes(pass, "Failed", lost, pass.seen.inits)
                 ELSE IF pass.seen.term THEN Idle
                 ELSE StartPath(pass)
      /\ UNCHANGED <<setup, born, orphans, pod, held, starts, clean, local, penalty, taken, events>>
  BY DEF Readopt, steady
<1>2. Types /\ setup \in Setups /\ pass \in PassType /\ pass.seen \in PodType
  BY DEF IInv, Types, PassType
<1>3. Calm /\ Driving
  BY <1>1, StillIsDecay DEF Still, Driving
<1>4. ~local.known /\ pass.seen.phase \notin Terminal
  BY <1>1 DEF IInv, PassOK, ReadoptOK
<1>5. CASE ReconcileLostPod(setup.policy, pass.seen.apps) = "Failed"
  <2>1. pass' = Writes(pass, "Failed", lost, pass.seen.inits)
    BY <1>1, <1>5
  <2>2. ASSUME Same, NEW c \in Apps
        PROVE  /\ Told(lost[c], c, held[c], local.recs[c], starts)
               /\ lost[c].id = pod.apps[c].id
               /\ lost[c].state = "ended" \/ lost[c].id = NoId
               /\ Follows(pass.seen.apps[c], lost[c])
    <3>1. pod.apps[c] = pass.seen.apps[c] /\ pass.seen.apps[c] \in Entries /\ DOMAIN pod.apps = Apps
      BY <1>2, <1>3, <2>2 DEF IInv, SeenOK, PodType, Types
    <3>2. Told(pod.apps[c], c, held[c], local.recs[c], starts)
      BY <3>1 DEF IInv, PodOK, StatusOK, AllTold
    <3>3. local.recs[c].id = NoId
      BY <1>2, <1>4, NameFacts DEF IInv, World, LocalOK, Recorded
    <3>4. held[c] = Gone \/ held[c].id # pass.seen.apps[c].id
      BY <1>1 DEF IInv, PassOK, ReadoptOK
    <3>. QED  BY <3>1, <3>2, <3>3, <3>4, LostEntry
  <2>3. lost \in [Apps -> Entries]
    <3>1. ASSUME NEW e \in Entries PROVE LostStatus(e) \in Entries
      <4>1. e \in Entry /\ (e.state # "waiting" => e.id # NoId)
        BY DEF Entries
      <4>2. CASE StoredUp(e)
        <5>1. LostStatus(e) = [state |-> "ended", id |-> e.id, count |-> e.count, exit |-> "unknown"]
          BY <4>2 DEF LostStatus, EndedEntry
        <5>2. e.id # NoId
          BY <4>1, <4>2 DEF StoredUp, Entry
        <5>. QED  BY <4>1, <5>1, <5>2 DEF Entries, Entry, Exits
      <4>3. CASE ~StoredUp(e)
        BY <4>3 DEF LostStatus
      <4>. QED  BY <4>2, <4>3
    <3>. QED  BY <1>2, <3>1 DEF PodType
  <2>4. /\ pass' \in PassType /\ pass'.at = "write" /\ pass'.seen = pass.seen
        /\ pass'.fresh = pass.fresh /\ pass'.out.phase = "Failed" /\ pass'.out.apps = lost
    <3>1. "Failed" \in Phases /\ pass.seen.inits \in [Inits -> RunIds]
      BY <1>2 DEF Phases, Terminal, PodType
    <3>. HIDE DEF lost
    <3>. QED  BY <1>2, <2>1, <2>3, <3>1, WritesTyped
  <2>5. Types'
    BY <1>1, <1>2, <2>4, PassTypes DEF Types
  <2>6. PhaseToPublish(pass.seen.phase, "Failed") = "Failed"
    BY <1>4 DEF PhaseToPublish
  <2>7. ASSUME Same
        PROVE  StatusOK(pod.uid, "Failed", lost, setup, local, held, starts, clean, taken)
    <3>1. AllTold(lost, held, local, starts)
      BY <2>2, <2>7 DEF AllTold
    <3>2. ASSUME pod.uid \notin taken
          PROVE  Standing(pod.uid, "Failed", lost, setup, local, clean)
      <4>1. \A c \in Apps : lost[c].id[1] \in {0, pod.uid}
        <5>1. Standing(pod.uid, pod.phase, pod.apps, setup, local, clean)
          BY <3>2 DEF IInv, PodOK, StatusOK
        <5>2. DOMAIN pod.apps = Apps
          BY <1>2, PodStatus DEF IInv
        <5>. QED  BY <2>2, <2>7, <5>1, <5>2 DEF Standing
      <4>2. Final(lost, "Failed", clean)
        BY <2>2, <2>7 DEF Final
      <4>3. ~Mine(pod.uid, local)
        BY <1>4 DEF Mine
      <4>4. DOMAIN lost = Apps
        OBVIOUS
      <4>. HIDE DEF lost
      <4>. QED  BY <4>1, <4>2, <4>3, <4>4 DEF Standing
    <3>. HIDE DEF lost
    <3>. QED  BY <3>1, <3>2 DEF StatusOK
  <2>8. WriteOK'
    <3>1. Apps' = Apps /\ (Same' <=> Same)
      BY <1>1, <2>4, SetupStays DEF Same, Exists
    <3>2. \A c \in Apps : Same => Follows(pass.seen.apps[c], lost[c])
      BY <2>2
    <3>. HIDE DEF lost
    <3>. QED  BY <1>1, <2>4, <2>6, <2>7, <3>1, <3>2 DEF WriteOK
  <2>. QED  BY <1>1, <1>3, <2>4, <2>5, <2>8, AtWrite, CalmAdvance
<1>6. CASE pass' = Idle
  BY <1>1, <1>2, <1>3, <1>6, IdleStep DEF Types
<1>7. CASE /\ ReconcileLostPod(setup.policy, pass.seen.apps) # "Failed"
           /\ pass' = StartPath(pass)
  <2>1. pass'.seen = pass.seen
    BY <1>2, <1>7, PathTyped
  <2>2. ASSUME OneRun(setup), NEW c \in Apps PROVE ~StoredUp(pass.seen.apps[c])
    <3>1. ~ShouldRestart(setup.policy, "unknown")
      BY <2>2 DEF OneRun, ShouldRestart
    <3>2. c \in DOMAIN pass.seen.apps
      BY <1>2 DEF PodType
    <3>. QED  BY <1>7, <3>1, <3>2 DEF ReconcileLostPod
  <2>3. Apps' = Apps
    BY <1>1, SetupStays
  <2>4. GoingOK'
    BY <1>1, <1>4, <2>1, <2>2, <2>3 DEF GoingOK
  <2>. QED  BY <1>1, <1>3, <1>7, <2>4, PathStep
<1>. QED  BY <1>1, <1>5, <1>6, <1>7

\* The pass is about the newest pod that the record can be of.
LEMMA MineIsSame ==
  ASSUME IInv, Driving, Mine(pod.uid, local)
  PROVE  Same
<1>1. born \in Nat /\ pod.uid \in {0, born} /\ pass.seen.uid \in 1..born
      /\ local.uid \in 1..born /\ local.uid <= pass.seen.uid /\ local.uid = pod.uid
  BY DEF IInv, Types, UidsOK, Mine
<1>. QED  BY <1>1 DEF Same, Exists

\* A pod that is driven although its phase is final has a record that explains it.
LEMMA SeenSettled ==
  ASSUME IInv, Going, Same, pass.seen.phase \in Terminal, pod.uid \notin taken
  PROVE  /\ Mine(pod.uid, local) /\ Settled(pod.apps, pod.phase, setup, local)
         /\ pod.phase = pass.seen.phase /\ pod.apps = pass.seen.apps
<1>1. Driving /\ pod.uid = pass.seen.uid
  BY DEF Going, Driving, Same
<1>2. pod.phase = pass.seen.phase /\ pod.apps = pass.seen.apps
  BY <1>1 DEF IInv, SeenOK
<1>3. Mine(pod.uid, local)
  BY <1>1 DEF IInv, PassOK, GoingOK, Mine
<1>4. Standing(pod.uid, pod.phase, pod.apps, setup, local, clean)
  BY DEF IInv, PodOK, StatusOK
<1>. QED  BY <1>2, <1>3, <1>4 DEF Standing

\* A status that says nothing was started is true of a pod that is not final, or
\* that failed in its init sequence.
LEMMA NotStartedStatus ==
  ASSUME NEW u, NEW phase, NEW apps, NEW s, NEW loc, NEW h, NEW st, NEW cl, NEW tk,
         \A c \in DOMAIN apps : apps[c] = Waiting,
         phase \in Terminal /\ u \notin tk => phase = "Failed" /\ (Mine(u, loc) => Doomed(s, loc))
  PROVE  StatusOK(u, phase, apps, s, loc, h, st, cl, tk)
<1>1. \A c \in DOMAIN apps : apps[c].id = NoId /\ apps[c].state = "waiting" /\ apps[c].id[1] = 0
  BY DEF Waiting, NoId
<1>2. AllTold(apps, h, loc, st)
  BY <1>1 DEF AllTold, Told
<1>3. CASE phase \notin Terminal \/ u \in tk
  <2>1. phase \notin Terminal => StatusOK(u, phase, apps, s, loc, h, st, cl, tk)
    BY UnstartedStatus
  <2>. QED  BY <1>2, <1>3, <2>1 DEF StatusOK
<1>4. CASE phase \in Terminal /\ u \notin tk
  <2>1. phase = "Failed" /\ (Mine(u, loc) => Doomed(s, loc))
    BY <1>4
  <2>2. Final(apps, phase, cl) /\ (Mine(u, loc) => Settled(apps, phase, s, loc))
    BY <1>1, <2>1 DEF Final, Settled, Unstarted
  <2>3. \A c \in DOMAIN apps : ~StoredUp(apps[c])
    BY <1>1 DEF StoredUp
  <2>. QED  BY <1>1, <1>2, <2>2, <2>3 DEF StatusOK, Standing
<1>. QED  BY <1>3, <1>4

LEMMA NoneStartedFacts ==
  /\ NoneStarted \in [Apps -> Entries] /\ DOMAIN NoneStarted = Apps
  /\ \A c \in Apps : NoneStarted[c] = Waiting
BY WaitingTyped DEF NoneStarted

LEMMA WaitingFollows ==
  ASSUME NEW e
  PROVE  Follows(e, Waiting)
BY DEF Follows, Waiting

\* The pass goes to publish that nothing was started.
LEMMA NoneStartedWrite ==
  ASSUME IInv, Types', Calm, UNCHANGED <<pod, born, taken>>, penalty' \subseteq penalty,
         Going, NEW phase \in Phases, NEW inits \in [Inits -> RunIds],
         pass' = Writes(pass, phase, NoneStarted, inits),
         phase \in Terminal => phase = "Failed" /\ Doomed(setup, local'),
         Same /\ pod.uid \notin taken /\ pass.seen.phase \in Terminal =>
           Doomed(setup, local) /\ pass.seen.phase = "Failed"
  PROVE  IInv'
<1>1. setup' = setup /\ SameHeader /\ Steady(Names, local, local')
  BY CalmFacts DEF IInv
<1>2. /\ pass'.at = "write" /\ pass'.seen = pass.seen
      /\ pass'.out.phase = phase /\ pass'.out.apps = NoneStarted
  BY NoneStartedFacts, WritesTyped DEF IInv
<1>3. Driving /\ Driving' /\ PassOK'
  BY <1>2, AtWrite DEF Going, Driving
<1>. DEFINE out == PhaseToPublish(pass.seen.phase, phase)
<1>4. ASSUME Same
      PROVE  StatusOK(pod.uid, out, NoneStarted, setup', local', held', starts', clean', taken')
  <2>1. ASSUME out \in Terminal, pod.uid \notin taken
        PROVE  out = "Failed" /\ Doomed(setup, local')
    <3>1. CASE pass.seen.phase \in Terminal
      <4>1. Doomed(setup, local) /\ out = "Failed"
        BY <1>4, <2>1, <3>1 DEF PhaseToPublish
      <4>2. \A i \in DOMAIN setup.inits : setup.inits[i].name \in Names
        BY NameFacts DEF IInv, Types
      <4>. QED  BY <1>1, <4>1, <4>2, SteadyDoomed
    <3>2. CASE pass.seen.phase \notin Terminal
      BY <2>1, <3>2 DEF PhaseToPublish
    <3>. QED  BY <3>1, <3>2
  <2>2. \A c \in DOMAIN NoneStarted : NoneStarted[c] = Waiting
    BY NoneStartedFacts
  <2>3. out \in Terminal /\ pod.uid \notin taken => out = "Failed" /\ (Mine(pod.uid, local') => Doomed(setup, local'))
    BY <2>1
  <2>. HIDE DEF out
  <2>. QED  BY <1>1, <2>2, <2>3, NotStartedStatus
<1>5. WriteOK'
  <2>1. Apps' = Apps /\ (Same' <=> Same)
    BY <1>1, <1>2, SetupStays DEF Same, Exists
  <2>2. \A c \in Apps : Follows(pass.seen.apps[c], NoneStarted[c])
    BY NoneStartedFacts, WaitingFollows
  <2>. QED  BY <1>2, <1>4, <2>1, <2>2 DEF WriteOK
<1>. QED  BY <1>2, <1>3, <1>5, CalmAdvance

\* No app container has a record at mount that the status could be final with.
LEMMA SeenAtInit ==
  ASSUME IInv, pass.at \in {"init", "mount", "initEnd"}, Same, pod.uid \notin taken,
         pass.seen.phase \in Terminal
  PROVE  pass.at = "init" /\ Doomed(setup, local) /\ pass.seen.phase = "Failed"
<1>1. Going
  BY DEF Going
<1>2. Settled(pod.apps, pod.phase, setup, local) /\ pod.phase = pass.seen.phase
      /\ Mine(pod.uid, local)
  BY <1>1, SeenSettled
<1>3. pass.at # "initEnd"
  BY DEF IInv, PassOK, InitOK, Same
<1>4. CASE pass.at = "init"
  <2>1. setup.inits # <<>> /\ ~local.done
    BY <1>4 DEF IInv, PassOK, InitOK
  <2>2. ~Finished(pod.apps, pod.phase, setup, local)
    BY <2>1 DEF Finished
  <2>. QED  BY <1>2, <1>4, <2>2 DEF Settled
<1>5. CASE pass.at = "mount"
  <2>1. ~Doomed(setup, local)
    BY <1>5 DEF IInv, PassOK, PastInitsOK, Doomed
  <2>2. Finished(pod.apps, pod.phase, setup, local)
    BY <1>2, <2>1 DEF Settled
  <2>3. PICK i \in pass.todo : i \in DOMAIN setup.apps /\ ~Recorded(setup.apps[i])
    BY <1>5 DEF IInv, PassOK, StartOK
  <2>4. setup.apps[i] \in DOMAIN pod.apps
    BY <2>3, NameFacts, PodStatus DEF IInv, Types
  <2>. QED  BY <2>2, <2>3, <2>4 DEF Finished, Recorded
<1>. QED  BY <1>3, <1>4, <1>5

LEMMA InitsTyped ==
  ASSUME Types
  PROVE  RecordedInits \in [Inits -> RunIds] /\ pass.seen.inits \in [Inits -> RunIds]
<1>1. local.recs \in [Names -> Record] /\ Inits \subseteq Names
  BY NameFacts DEF Types, LocalType
<1>2. pass.seen \in PodType
  BY DEF Types, PassType
<1>. QED  BY <1>1, <1>2 DEF RecordedInits, Record, PodType

LEMMA UnmountedStep ==
  ASSUME IInv, Unmounted
  PROVE  IInv'
<1>1. /\ pass.at \in {"init", "mount"} /\ Spend(1)
      /\ pass' = Writes(pass, "Pending", NoneStarted, pass.seen.inits)
      /\ UNCHANGED <<setup, born, orphans, pod, held, starts, clean, local, penalty, taken>>
  BY DEF Unmounted, steady
<1>2. Types /\ Calm /\ Going /\ "Pending" \in Phases /\ "Pending" \notin Terminal
  BY <1>1, StillIsDecay DEF Still, IInv, Going, Phases, Terminal
<1>3. pass.seen.inits \in [Inits -> RunIds]
  BY <1>2, InitsTyped
<1>4. Types'
  <2>1. pass' \in PassType /\ pass'.seen = pass.seen /\ pass'.fresh = pass.fresh
    BY <1>1, <1>2, <1>3, NoneStartedFacts, WritesTyped
  <2>2. events' \in 0..MaxEvents
    BY <1>1, <1>2, Spent
  <2>. QED  BY <1>1, <1>2, <2>1, <2>2, PassTypes DEF Types
<1>5. Same /\ pod.uid \notin taken /\ pass.seen.phase \in Terminal =>
           Doomed(setup, local) /\ pass.seen.phase = "Failed"
  BY <1>1, SeenAtInit
<1>. QED  BY <1>1, <1>2, <1>3, <1>4, <1>5, NoneStartedWrite

LEMMA InitPendingStep ==
  ASSUME IInv, InitPending
  PROVE  IInv'
<1>1. /\ pass.at = "initEnd" 
      /\ \/ pass' = Writes(pass, "Pending", NoneStarted, RecordedInits) /\ events' = events
         \/ Spend(1) /\ pass' = Idle
      /\ UNCHANGED <<setup, born, orphans, pod, held, starts, clean, local, penalty, taken>>
  BY DEF InitPending, steady
<1>2. Types /\ Calm /\ Going /\ "Pending" \in Phases /\ "Pending" \notin Terminal
  BY <1>1, StillIsDecay DEF Still, IInv, Going, Phases, Terminal
<1>3. events' \in 0..MaxEvents
  BY <1>1, <1>2, Spent DEF Types
<1>4. CASE pass' = Writes(pass, "Pending", NoneStarted, RecordedInits)
  <2>1. RecordedInits \in [Inits -> RunIds]
    BY <1>2, InitsTyped
  <2>2. Types'
    <3>1. pass' \in PassType /\ pass'.seen = pass.seen /\ pass'.fresh = pass.fresh
      BY <1>2, <1>4, <2>1, NoneStartedFacts, WritesTyped
    <3>. QED  BY <1>1, <1>2, <1>3, <3>1, PassTypes DEF Types
  <2>3. ~(Same /\ pod.uid \notin taken /\ pass.seen.phase \in Terminal)
    BY <1>1, SeenAtInit
  <2>. QED  BY <1>1, <1>2, <1>4, <2>1, <2>2, <2>3, NoneStartedWrite
<1>5. CASE pass' = Idle
  BY <1>1, <1>2, <1>3, <1>5, IdleStep DEF Types
<1>. QED  BY <1>1, <1>4, <1>5

LEMMA SkipStartStep ==
  ASSUME IInv, SkipStart
  PROVE  IInv'
<1>1. /\ Spend(1) /\ pass' = Idle
      /\ UNCHANGED <<setup, born, orphans, pod, held, starts, clean, local, penalty, taken>>
  BY DEF SkipStart, steady
<1>2. Types /\ Calm /\ events' \in 0..MaxEvents
  BY <1>1, StillIsDecay, Spent DEF Still, IInv
<1>. QED  BY <1>1, <1>2, IdleStep DEF Types

LEMMA MountedStep ==
  ASSUME IInv, Mounted
  PROVE  IInv'
<1>1. /\ pass.at = "mount" /\ pass' = [pass EXCEPT !.at = "start"]
      /\ UNCHANGED <<setup, born, orphans, pod, held, starts, clean, local, penalty, taken, events>>
  BY DEF Mounted, steady
<1>2. Types /\ Calm /\ Going /\ Driving /\ pass \in PassType
  BY <1>1, StillIsDecay DEF Still, IInv, Going, Driving, Types
<1>3. /\ pass' \in PassType /\ pass'.at = "start" /\ pass'.seen = pass.seen /\ pass'.fresh = pass.fresh
      /\ pass'.todo = pass.todo
  BY <1>1, <1>2 DEF PassType, Steps
<1>4. Types'
  BY <1>1, <1>2, <1>3, PassTypes DEF Types
<1>5. GoingOK'
  BY <1>1, <1>2, <1>3, GoingStays DEF IInv, PassOK, SameHeader
<1>6. InitOK' /\ PastInitsOK' /\ StartOK' /\ ObserveOK'
  BY <1>1, <1>3 DEF IInv, PassOK, InitOK, PastInitsOK, StartOK, ObserveOK, Recorded
<1>7. PassOK' /\ WriteOK' /\ Driving'
  <2>1. Going'
    BY <1>3 DEF Going
  <2>. QED  BY <1>5, <1>6, <2>1, AtGoing
<1>. QED  BY <1>1, <1>2, <1>3, <1>4, <1>7, CalmAdvance

LEMMA StartAppsStep ==
  ASSUME IInv, StartApps
  PROVE  IInv'
<1>1. /\ pass.at = "apps" /\ pass' = StartPath(pass)
      /\ UNCHANGED <<setup, born, orphans, pod, held, starts, clean, local, penalty, taken, events>>
  BY DEF StartApps, steady
<1>2. Types /\ Going /\ Driving
  BY <1>1 DEF IInv, Going, Driving
<1>3. pass'.seen = pass.seen
  BY <1>1, <1>2, PathTyped
<1>4. GoingOK'
  BY <1>1, <1>2, <1>3, GoingStays DEF IInv, PassOK, SameHeader
<1>. QED  BY <1>1, <1>2, <1>4, PathStep

\* A nonempty set of naturals has a least element: what NextTodo picks.
LEMMA LeastNatural ==
  ASSUME NEW T \in SUBSET Nat, T # {}
  PROVE  \E n \in T : \A m \in T : n <= m
<1>. DEFINE R == {ss \in Nat \X Nat : ss[1] < ss[2]}
<1>0. IsWellFoundedOn(R, Nat)
  BY NatLessThanWellFounded DEF OpToRel
<1>1. PICK n \in T : \A m \in T : ~(<<m, n>> \in R)
  <2>. HIDE DEF R
  <2>. QED  BY <1>0, WFMin
<1>2. ASSUME NEW m \in T  PROVE n <= m
  <2>1. m \in Nat /\ n \in Nat
    OBVIOUS
  <2>2. <<m, n>> \in Nat \X Nat /\ <<m, n>>[1] = m /\ <<m, n>>[2] = n
    BY <2>1
  <2>3. ~(m < n)
    BY <1>1, <2>2
  <2>. QED  BY <2>1, <2>3
<1>. QED  BY <1>2

LEMMA NextTodoFacts ==
  ASSUME Types, pass.todo # {}
  PROVE  NextTodo \in pass.todo
<1>1. pass.todo \in SUBSET Nat
  BY DEF Types, PassType
<1>2. \E i \in pass.todo : \A j \in pass.todo : i <= j
  BY <1>1, LeastNatural
<1>. QED  BY <1>2 DEF NextTodo

\* What Noted makes of a record.
LEMMA NotedRecord ==
  ASSUME Types, World, NEW c \in Names
  PROVE  /\ Noted(c) \in Record /\ Noted(c).id = local.recs[c].id
         /\ Noted(c).count = local.recs[c].count /\ Noted(c).owed = local.recs[c].owed
         /\ Noted(c).down = NotedDown(held[c], local.recs[c])
         /\ Noted(c).down # "none" <=> Recorded(c) /\ Polled(c, local.recs[c].id) # "up"
         /\ Noted(c).down = "none" => Noted(c) = local.recs[c]
         /\ local.recs[c].down # "none" => Noted(c).down = local.recs[c].down
<1>. DEFINE h == held[c]  r == local.recs[c]
<1>1. h \in Held /\ r \in Record
  BY ContainerTypes
<1>2. RunOK(c, h, starts, clean) /\ RecOK(c, h, r, starts, clean)
  BY DEF World, Containers
<1>3. /\ NotedDown(h, r) \in {"none"} \cup Exits
      /\ r.id = NoId => NotedDown(h, r) = "none"
      /\ r.id # NoId /\ ~(h.id = r.id /\ Lives(h)) => NotedDown(h, r) \in Exits
      /\ r.down # "none" => NotedDown(h, r) = r.down
  BY <1>1, <1>2, NotedIsTheEnd
<1>4. r.id # NoId /\ h.id = r.id /\ Lives(h) => r.down = "none"
  BY <1>1, <1>2 DEF RecOK, Lives, Record, Exits
<1>5. Polled(c, r.id) = "up" <=> h.id = r.id /\ Lives(h)
  BY DEF Polled, Up, Lives
<1>6. CASE r.id = NoId \/ (h.id = r.id /\ Lives(h))
  <2>1. Noted(c) = r
    BY <1>5, <1>6 DEF Noted, Recorded
  <2>2. NotedDown(h, r) = r.down
    BY <1>6 DEF NotedDown
  <2>3. r.down = "none"
    BY <1>2, <1>4, <1>6 DEF RecOK
  <2>. QED  BY <1>1, <1>5, <1>6, <2>1, <2>2, <2>3 DEF Recorded
<1>7. CASE ~(r.id = NoId \/ (h.id = r.id /\ Lives(h)))
  <2>1. Noted(c) = [r EXCEPT !.down = KnownAfter(r.down, Polled(c, r.id))]
    BY <1>1, <1>5, <1>7 DEF Noted, Recorded
  <2>2. Polled(c, r.id) = IF h.id # r.id THEN "unknown" ELSE h.run
    BY <1>7 DEF Polled, Up, Lives
  <2>3. NotedDown(h, r) = KnownAfter(r.down, Polled(c, r.id))
    BY <1>7, <2>2 DEF NotedDown
  <2>4. Noted(c) = [r EXCEPT !.down = NotedDown(h, r)]
    BY <2>1, <2>3
  <2>5. NotedDown(h, r) \in Exits /\ NotedDown(h, r) # "none"
    BY <1>3, <1>7 DEF Exits
  <2>6. /\ Noted(c) \in Record /\ Noted(c).id = r.id /\ Noted(c).count = r.count
        /\ Noted(c).owed = r.owed /\ Noted(c).down = NotedDown(h, r)
    BY <1>1, <2>4, <2>5 DEF Record
  <2>. QED  BY <1>3, <1>5, <1>7, <2>5, <2>6 DEF Recorded
<1>. QED  BY <1>6, <1>7

\* Noting ends in the record is a decay.
LEMMA NotingIsCalm ==
  ASSUME Types, World, UNCHANGED <<setup, starts, clean, orphans>>, taken \subseteq taken', SameHeader,
         \A c \in Names : Aged(held[c], held'[c]) /\ local'.recs[c] \in {local.recs[c], Noted(c)}
  PROVE  Decay /\ Calm
<1>1. \A c \in Names : Kept(held[c], local.recs[c], local'.recs[c])
  BY NotedRecord DEF Kept
<1>. QED  BY <1>1 DEF Decay, Calm

LEMMA InitsNotedFacts ==
  ASSUME Types, World, NEW n \in 0..Len(setup.inits), NEW l, l = InitsNoted(n)
  PROVE  /\ l \in LocalType /\ l.known = local.known /\ l.uid = local.uid /\ l.done = local.done
         /\ \A c \in Names : l.recs[c] \in {local.recs[c], Noted(c)}
         /\ \A i \in 1..n : l.recs[setup.inits[i].name] = Noted(setup.inits[i].name)
<1>1. local \in LocalType /\ local.recs \in [Names -> Record]
  BY DEF Types, LocalType
<1>. DEFINE recs == [c \in Names |-> IF \E i \in 1..n : setup.inits[i].name = c THEN Noted(c)
                                    ELSE local.recs[c]]
<1>2. l = [local EXCEPT !.recs = recs]
  BY <1>1 DEF InitsNoted, LocalType
<1>3. recs \in [Names -> Record] /\ \A c \in Names : recs[c] \in {local.recs[c], Noted(c)}
  BY <1>1, NotedRecord
<1>4. \A i \in 1..n : setup.inits[i].name \in Names
  BY SetupFacts, NameFacts DEF Types
<1>5. \A i \in 1..n : recs[setup.inits[i].name] = Noted(setup.inits[i].name)
  BY <1>4
<1>. HIDE DEF recs
<1>. QED  BY <1>1, <1>2, <1>3, <1>5 DEF LocalType

LEMMA InitUnseenStep ==
  ASSUME IInv, InitUnseen
  PROVE  IInv'
<1>1. /\ Spend(1) /\ pass' = Idle
      /\ UNCHANGED <<setup, born, orphans, pod, held, starts, clean, penalty, taken>>
  BY DEF InitUnseen, steady
<1>2. PICK n \in DOMAIN setup.inits : local' = InitsNoted(n - 1)
  BY DEF InitUnseen
<1>3. Types /\ World /\ n - 1 \in 0..Len(setup.inits)
  BY <1>2, SetupFacts DEF IInv, Types
<1>4. /\ local' \in LocalType /\ SameHeader
      /\ \A c \in Names : local'.recs[c] \in {local.recs[c], Noted(c)}
  BY <1>2, <1>3, InitsNotedFacts DEF SameHeader
<1>5. Calm
  BY <1>1, <1>3, <1>4, NotingIsCalm DEF Aged
<1>6. held' \in [Names -> Held] /\ events' \in 0..MaxEvents
  BY <1>1, <1>3, Spent DEF Types
<1>. QED  BY <1>1, <1>4, <1>5, <1>6, IdleStep

\* The sequencer sees of an init container what is noted in its record.
LEMMA InitObsFacts ==
  ASSUME Types, World, NEW i \in DOMAIN setup.inits
  PROVE  /\ InitObs[i].state = "ended" <=> Noted(setup.inits[i].name).down # "none"
         /\ InitObs[i].state = "ended" => InitObs[i].exit = Noted(setup.inits[i].name).down
<1>. DEFINE c == setup.inits[i].name
<1>1. c \in Names
  BY NameFacts DEF Types
<1>2. InitObs[i] = IF ~Recorded(c) THEN Waiting
                   ELSE IF Polled(c, local.recs[c].id) = "up"
                   THEN RunningEntry(local.recs[c].id, local.recs[c].count)
                   ELSE EndedEntry(local.recs[c].id, local.recs[c].count, Noted(c).down)
  BY DEF InitObs
<1>3. Noted(c).down # "none" <=> Recorded(c) /\ Polled(c, local.recs[c].id) # "up"
  BY <1>1, NotedRecord
<1>. HIDE DEF c
<1>4. CASE ~Recorded(c)
  BY <1>2, <1>3, <1>4 DEF Waiting, c
<1>5. CASE Recorded(c) /\ Polled(c, local.recs[c].id) = "up"
  BY <1>2, <1>3, <1>5 DEF RunningEntry, c
<1>6. CASE Recorded(c) /\ Polled(c, local.recs[c].id) # "up"
  BY <1>2, <1>3, <1>6 DEF EndedEntry, c
<1>. QED  BY <1>4, <1>5, <1>6

\* What the sequencer decides, of the first init container that has not succeeded.
LEMMA InitActionFacts ==
  ASSUME NEW policy, NEW inits, NEW obs, NEW act, act = NextInitAction(policy, inits, obs),
         DOMAIN inits \in SUBSET Nat
  PROVE  /\ act.failed <=> \E b \in Blocking(inits, obs) :
                             /\ \A j \in Blocking(inits, obs) : b <= j
                             /\ obs[b].state = "ended" /\ ~ShouldRestart(policy, obs[b].exit)
         /\ act.start \subseteq DOMAIN inits
         /\ act.blocked \in BOOLEAN
         /\ ~act.blocked => /\ Blocking(inits, obs) = {}
                            /\ \A i \in act.start : inits[i].sidecar
<1>. DEFINE blocking == Blocking(inits, obs)
            reached == {i \in DOMAIN inits : \A b \in blocking : i <= b}
            first == reached \cap blocking
            sidecars == {i \in reached : /\ inits[i].sidecar
                                         /\ obs[i].id = NoId \/ obs[i].state = "ended"}
            active == {i \in first : \/ obs[i].state = "waiting"
                                     \/ /\ obs[i].state = "ended"
                                        /\ ShouldRestart(policy, obs[i].exit)}
            failed == \E i \in first : /\ obs[i].state = "ended"
                                       /\ ~ShouldRestart(policy, obs[i].exit)
<1>1. act = [failed |-> failed, start |-> sidecars \cup active, blocked |-> first # {}]
  BY Zenon DEF NextInitAction
<1>2. (act.failed <=> failed) /\ act.start = sidecars \cup active /\ act.blocked \in BOOLEAN
      /\ (act.blocked <=> first # {})
  <2>. HIDE DEF failed, sidecars, active, first
  <2>1. act.start = sidecars \cup active
    BY <1>1
  <2>2. act.failed <=> failed
    BY <1>1
  <2>3. act.blocked = (first # {})
    BY <1>1
  <2>. QED  BY <2>1, <2>2, <2>3
<1>3. blocking \subseteq DOMAIN inits
  BY DEF Blocking
<1>4. first = {b \in blocking : \A j \in blocking : b <= j}
  <2>. HIDE DEF blocking
  <2>. QED  BY <1>3
<1>5. act.failed <=> \E b \in blocking : /\ \A j \in blocking : b <= j
                                         /\ obs[b].state = "ended" /\ ~ShouldRestart(policy, obs[b].exit)
  <2>. HIDE DEF blocking
  <2>. QED  BY <1>2, <1>4
<1>6. sidecars \cup active \subseteq DOMAIN inits /\ \A i \in sidecars : inits[i].sidecar
  <2>. HIDE DEF blocking
  <2>. QED  BY <1>3
<1>7. ASSUME first = {}
      PROVE  blocking = {} /\ active = {}
  <2>1. blocking \in SUBSET Nat
    BY <1>3
  <2>. HIDE DEF blocking
  <2>. QED  BY <1>4, <1>7, <2>1, LeastNatural
<1>. HIDE DEF failed, sidecars, active, first, reached
<1>. QED  BY <1>2, <1>5, <1>6, <1>7

LEMMA InitDecideStep ==
  ASSUME IInv, InitDecide
  PROVE  IInv'
<1>. DEFINE act == NextInitAction(setup.policy, setup.inits, InitObs)
            name(i) == setup.inits[i].name
            blocking == Blocking(setup.inits, InitObs)
<1>1. /\ pass.at = "init" /\ local' = InitsNoted(Len(setup.inits))
      /\ pass' = IF act.failed
                 THEN Writes(pass, "Failed", NoneStarted, RecordedInits)
                 ELSE [pass EXCEPT !.at = IF act.start = {} THEN "initEnd" ELSE "initStart",
                                   !.todo = act.start, !.blocked = act.blocked]
      /\ UNCHANGED <<setup, born, orphans, pod, held, starts, clean, penalty, taken, events>>
  BY DEF InitDecide, steady
<1>2. Types /\ World /\ setup \in Setups /\ pass \in PassType
      /\ DOMAIN setup.inits = 1..Len(setup.inits) /\ Len(setup.inits) \in Nat
  BY SetupFacts DEF IInv, Types
<1>3. /\ local' \in LocalType /\ SameHeader
      /\ \A c \in Names : local'.recs[c] \in {local.recs[c], Noted(c)}
      /\ \A i \in DOMAIN setup.inits : local'.recs[name(i)] = Noted(name(i))
  <2>1. Len(setup.inits) \in 0..Len(setup.inits)
    BY <1>2
  <2>. QED  BY <1>1, <1>2, <2>1, InitsNotedFacts DEF SameHeader
<1>4. Calm
  BY <1>1, <1>2, <1>3, NotingIsCalm DEF Aged
<1>5. Going /\ Driving /\ setup.inits # <<>> /\ ~local.done
  BY <1>1 DEF Going, Driving, IInv, PassOK, InitOK
<1>6. \A i \in DOMAIN setup.inits :
        /\ InitObs[i].state = "ended" <=> Noted(name(i)).down # "none"
        /\ InitObs[i].state = "ended" => InitObs[i].exit = Noted(name(i)).down
        /\ Noted(name(i)).down \in {"none", "ok", "bad", "unknown"}
  <2>1. \A i \in DOMAIN setup.inits : Noted(name(i)) \in Record
    BY <1>2, NameFacts, NotedRecord
  <2>2. \A i \in DOMAIN setup.inits : Noted(name(i)).down \in {"none", "ok", "bad", "unknown"}
    BY <2>1 DEF Record, Exits
  <2>. QED  BY <1>2, <2>2, InitObsFacts
<1>7. \A i \in DOMAIN setup.inits : i \in blocking <=>
         ~setup.inits[i].sidecar /\ Noted(name(i)).down # "ok"
  BY <1>6 DEF Blocking
<1>8. blocking \subseteq DOMAIN setup.inits
  BY DEF Blocking
<1>9. /\ act.failed <=> \E b \in blocking :
                            /\ \A j \in blocking : b <= j
                            /\ InitObs[b].state = "ended" /\ ~ShouldRestart(setup.policy, InitObs[b].exit)
      /\ act.start \subseteq DOMAIN setup.inits
      /\ act.blocked \in BOOLEAN
      /\ ~act.blocked => blocking = {} /\ \A i \in act.start : setup.inits[i].sidecar
  <2>1. DOMAIN setup.inits \in SUBSET Nat
    BY <1>2
  <2>. HIDE DEF act
  <2>2. act = NextInitAction(setup.policy, setup.inits, InitObs)
    BY DEF act
  <2>. QED  BY <2>1, <2>2, InitActionFacts
<1>. HIDE DEF act, blocking
<1>10. ~local'.done
  BY <1>3, <1>5 DEF SameHeader
<1>11. ASSUME act.failed  PROVE Doomed(setup, local')
  <2>1. PICK b \in blocking : /\ \A j \in blocking : b <= j
                              /\ InitObs[b].state = "ended"
                              /\ ~ShouldRestart(setup.policy, InitObs[b].exit)
    BY <1>9, <1>11
  <2>2. b \in DOMAIN setup.inits
    BY <1>8
  <2>3. /\ ~setup.inits[b].sidecar /\ local'.recs[name(b)].down \in {"bad", "unknown"}
        /\ ~ShouldRestart(setup.policy, local'.recs[name(b)].down)
    BY <1>3, <1>6, <1>7, <2>1, <2>2
  <2>4. \A i \in DOMAIN setup.inits : i < b /\ ~setup.inits[i].sidecar => local'.recs[name(i)].down = "ok"
    <3>. SUFFICES ASSUME NEW i \in DOMAIN setup.inits, i < b, ~setup.inits[i].sidecar
                  PROVE  local'.recs[name(i)].down = "ok"
      OBVIOUS
    <3>1. i \notin blocking
      BY <1>2, <2>1, <2>2
    <3>. QED  BY <1>3, <1>7, <3>1
  <2>. QED  BY <1>5, <1>10, <2>2, <2>3, <2>4 DEF Doomed
<1>12. ASSUME Doomed(setup, local')  PROVE act.failed
  <2>1. PICK b \in DOMAIN setup.inits :
          /\ ~setup.inits[b].sidecar
          /\ local'.recs[name(b)].down \in {"bad", "unknown"}
          /\ ~ShouldRestart(setup.policy, local'.recs[name(b)].down)
          /\ \A i \in DOMAIN setup.inits :
               i < b /\ ~setup.inits[i].sidecar => local'.recs[name(i)].down = "ok"
    BY <1>12 DEF Doomed
  <2>2. b \in blocking /\ InitObs[b].state = "ended" /\ ~ShouldRestart(setup.policy, InitObs[b].exit)
    BY <1>3, <1>6, <1>7, <2>1
  <2>3. \A j \in blocking : b <= j
    <3>. SUFFICES ASSUME NEW j \in blocking, ~(b <= j) PROVE FALSE
      OBVIOUS
    <3>1. j \in DOMAIN setup.inits /\ j < b /\ ~setup.inits[j].sidecar
      BY <1>2, <1>7, <1>8
    <3>2. Noted(name(j)).down = "ok"
      BY <1>3, <2>1, <3>1
    <3>. QED  BY <1>7, <3>1, <3>2
  <2>. QED  BY <1>9, <2>2, <2>3
<1>13. ASSUME Same, pod.uid \notin taken, pass.seen.phase \in Terminal
       PROVE  Doomed(setup, local) /\ pass.seen.phase = "Failed" /\ Doomed(setup, local')
  <2>1. Doomed(setup, local) /\ pass.seen.phase = "Failed"
    BY <1>1, <1>13, SeenAtInit
  <2>2. Steady(Names, local, local')
    BY <1>2, <1>4, CalmFacts
  <2>3. \A i \in DOMAIN setup.inits : setup.inits[i].name \in Names
    BY <1>2, NameFacts
  <2>. QED  BY <2>1, <2>2, <2>3, SteadyDoomed
<1>14. held' \in [Names -> Held] /\ events' \in 0..MaxEvents /\ penalty' \subseteq Uids \X Names
       /\ taken' \subseteq Uids /\ starts' \in [Uids -> [Names -> Nat]]
  BY <1>1, <1>2 DEF Types
<1>15. CASE act.failed
  <2>1. pass' = Writes(pass, "Failed", NoneStarted, RecordedInits)
    BY <1>1, <1>15
  <2>2. "Failed" \in Phases /\ RecordedInits \in [Inits -> RunIds]
    BY <1>2, InitsTyped DEF Phases, Terminal
  <2>3. pass' \in PassType /\ pass'.seen = pass.seen /\ pass'.fresh = pass.fresh
    BY <1>2, <2>1, <2>2, NoneStartedFacts, WritesTyped
  <2>4. Types'
    BY <1>1, <1>2, <1>3, <1>14, <2>3, PassTypes
  <2>. QED  BY <1>1, <1>4, <1>5, <1>11, <1>13, <1>15, <2>1, <2>2, <2>4, NoneStartedWrite
<1>16. CASE ~act.failed
  <2>1. pass' = [pass EXCEPT !.at = IF act.start = {} THEN "initEnd" ELSE "initStart",
                             !.todo = act.start, !.blocked = act.blocked]
    BY <1>1, <1>16
  <2>2. act.start \in SUBSET Nat
    BY <1>2, <1>9
  <2>3. /\ pass' \in PassType /\ pass'.seen = pass.seen /\ pass'.fresh = pass.fresh
        /\ pass'.at = IF act.start = {} THEN "initEnd" ELSE "initStart"
        /\ pass'.todo = act.start /\ pass'.blocked = act.blocked
    BY <1>2, <1>9, <2>1, <2>2 DEF PassType, Steps
  <2>4. Types'
    BY <1>1, <1>2, <1>3, <1>14, <2>3, PassTypes
  <2>5. GoingOK'
    BY <1>1, <1>3, <1>5, <2>3, GoingStays DEF IInv, PassOK
  <2>6. InitOK'
    <3>1. Same' => pass'.seen.uid \in taken' \/ pass'.seen.phase \notin Terminal
      <4>1. Same' <=> Same
        BY <1>1, <2>3 DEF Same, Exists
      <4>. QED  BY <1>1, <1>12, <1>13, <1>16, <2>3, <4>1 DEF Same
    <3>2. ~pass'.blocked => \A i \in DOMAIN setup.inits : ~setup.inits[i].sidecar =>
            local'.recs[setup.inits[i].name].down = "ok" /\ i \notin pass'.todo
      BY <1>3, <1>7, <1>9, <2>3
    <3>. QED  BY <1>1, <1>5, <1>9, <1>10, <2>3, <3>1, <3>2 DEF InitOK
  <2>7. PastInitsOK' /\ StartOK' /\ ObserveOK' /\ Going'
    BY <2>3 DEF PastInitsOK, StartOK, ObserveOK, Going
  <2>8. PassOK' /\ WriteOK' /\ Driving'
    BY <2>5, <2>6, <2>7, AtGoing
  <2>. QED  BY <1>1, <1>4, <1>5, <2>3, <2>4, <2>8, CalmAdvance
<1>. QED  BY <1>15, <1>16

\* The init sequence is over: its containers ran, for the pod the record is of.
LEMMA InitFinishStep ==
  ASSUME IInv, InitFinish
  PROVE  IInv'
<1>1. /\ pass.at = "initEnd" /\ ~pass.blocked /\ \A c \in Inits : Recorded(c)
      /\ local' = [local EXCEPT !.done = TRUE] /\ pass' = [pass EXCEPT !.at = "apps"]
      /\ UNCHANGED <<setup, born, orphans, pod, held, starts, clean, penalty, taken, events>>
  BY DEF InitFinish, steady
<1>2. Types /\ World /\ setup \in Setups /\ pass \in PassType /\ local \in LocalType
  BY DEF IInv, Types
<1>3. /\ local' \in LocalType /\ local'.known = local.known /\ local'.uid = local.uid /\ local'.done
      /\ local'.recs = local.recs
  BY <1>1, <1>2 DEF LocalType
<1>4. /\ pass' \in PassType /\ pass'.at = "apps" /\ pass'.seen = pass.seen /\ pass'.fresh = pass.fresh
  BY <1>1, <1>2 DEF PassType, Steps
<1>5. Types'
  BY <1>1, <1>2, <1>3, <1>4, PassTypes DEF Types
<1>6. Going /\ Driving /\ setup.inits # <<>> /\ ~local.done
  BY <1>1 DEF Going, Driving, IInv, PassOK, InitOK
<1>7. local.known
  <2>1. PICK i \in DOMAIN setup.inits : TRUE
    <3>1. setup.inits \in Seq([name: STRING, sidecar: BOOLEAN])
      BY <1>2, SetupsAssumption
    <3>2. Len(setup.inits) # 0
      BY <1>6, <3>1, EmptySeq
    <3>. QED  BY <1>2, <3>2, SetupFacts
  <2>2. Recorded(setup.inits[i].name) /\ setup.inits[i].name \in Names
    BY <1>1, <1>2, <2>1, NameFacts
  <2>. QED  BY <2>2 DEF IInv, World, LocalOK
<1>8. ASSUME ~Spoiled(local.uid)
      PROVE  InitsRan(local.uid, Inits, Sidecars, starts, clean)
  <2>. SUFFICES ASSUME NEW c \in Inits
                PROVE  /\ c \in Sidecars => starts[local.uid][c] > 0
                       /\ c \notin Sidecars => \E n \in 1..starts[local.uid][c] : <<c, <<local.uid, n>>>> \in clean
    BY DEF InitsRan
  <2>. DEFINE r == local.recs[c]
  <2>1. c \in Names /\ r \in Record /\ Recorded(c) /\ r.id # NoId
    BY <1>1, <1>2, NameFacts, ContainerTypes DEF Recorded
  <2>2. r.id[1] = local.uid
    BY <1>7, <1>8, <2>1 DEF World, LocalOK, IInv
  <2>3. RecOK(c, held[c], r, starts, clean)
    BY <2>1 DEF IInv, World, Containers
  <2>4. r.id[2] \in 1..starts[local.uid][c]
    BY <2>1, <2>2, <2>3 DEF RecOK, Started
  <2>5. starts[local.uid][c] \in Nat
    <3>1. local.uid \in Uids
      BY <1>2, <1>7, LocalUid DEF IInv
    <3>. QED  BY <1>2, <2>1, <3>1, StartsFacts
  <2>6. ASSUME c \notin Sidecars  PROVE <<c, <<local.uid, r.id[2]>>>> \in clean
    <3>1. PICK i \in DOMAIN setup.inits : c = setup.inits[i].name
      BY <1>2, NameFacts
    <3>2. ~setup.inits[i].sidecar
      BY <1>2, <2>6, <3>1, NameFacts
    <3>3. r.down = "ok"
      BY <1>1, <3>1, <3>2 DEF IInv, PassOK, InitOK
    <3>4. <<c, r.id>> \in clean
      BY <2>3, <3>3 DEF RecOK
    <3>5. r.id = <<local.uid, r.id[2]>>
      BY <2>1, <2>2 DEF Record, RunIds
    <3>. QED  BY <3>4, <3>5
  <2>. HIDE DEF r
  <2>. QED  BY <2>4, <2>5, <2>6
<1>9. World'
  <2>1. /\ Names' = Names /\ Inits' = Inits /\ Sidecars' = Sidecars
        /\ (Spoiled(local.uid)' <=> Spoiled(local.uid))
    BY <1>1, <1>3, SetupStays DEF Spoiled
  <2>2. LocalOK'
    BY <1>1, <1>2, <1>3, <1>7, <1>8, <2>1 DEF World, LocalOK, Recorded, Spoiled
  <2>3. Containers' /\ CleanOK' /\ NothingForgotten'
    BY <1>1, <1>2, <1>3, <2>1 DEF World, Containers, CleanOK, NothingForgotten
  <2>. QED  BY <2>2, <2>3 DEF World
<1>10. PodOK'
  <2>1. AllTold(pod.apps, held, local', starts)
    BY <1>3 DEF IInv, PodOK, StatusOK, AllTold
  <2>2. ASSUME pod.uid \notin taken
        PROVE  Standing(pod.uid, pod.phase, pod.apps, setup, local', clean)
    <3>1. Standing(pod.uid, pod.phase, pod.apps, setup, local, clean)
      BY <2>2 DEF IInv, PodOK, StatusOK
    <3>2. CASE ~Mine(pod.uid, local)
      <4>1. ~Mine(pod.uid, local')
        BY <1>3, <3>2 DEF Mine
      <4>. QED  BY <3>1, <4>1, UnownedStanding
    <3>3. CASE Mine(pod.uid, local)
      <4>1. Same
        BY <1>6, <3>3, MineIsSame
      <4>2. pod.phase \notin Terminal
        BY <1>1, <1>6, <2>2, <4>1 DEF IInv, PassOK, InitOK, SeenOK, Same
      <4>3. Mine(pod.uid, local') <=> Mine(pod.uid, local)
        BY <1>3 DEF Mine
      <4>. QED  BY <1>3, <3>1, <4>2, <4>3 DEF Standing
    <3>. QED  BY <3>2, <3>3
  <2>. QED  BY <1>1, <2>1, <2>2 DEF PodOK, StatusOK
<1>11. PassOK' /\ WriteOK' /\ Driving'
  <2>1. GoingOK'
    BY <1>1, <1>3, <1>4, <1>6, SetupStays DEF IInv, PassOK, GoingOK
  <2>2. InitOK' /\ PastInitsOK' /\ StartOK' /\ ObserveOK' /\ Going'
    BY <1>1, <1>3, <1>4, <1>7 DEF InitOK, PastInitsOK, StartOK, ObserveOK, Going
  <2>. QED  BY <2>1, <2>2, AtGoing
<1>12. local'.known => local'.uid \in 1..born /\ local'.uid <= pass.seen.uid
  BY <1>3, <1>6 DEF IInv, UidsOK
<1>13. \A p \in penalty' : p[1] = pass.seen.uid
  BY <1>1, <1>6 DEF IInv, PenaltyOK, Driving
<1>14. \A c \in Apps : Recorded(c)' /\ Up(c)' => <<local'.uid, c>> \notin penalty'
  BY <1>1, <1>3 DEF IInv, PenaltyOK, Recorded, Up
<1>. QED  BY <1>1, <1>4, <1>5, <1>6, <1>9, <1>10, <1>11, <1>12, <1>13, <1>14, AdvanceStep

-----------------------------------------------------------------------------
(***************************************************************************)
(* Starts.                                                                 *)
(***************************************************************************)
LEMMA SeenUid ==
  ASSUME Types, UidsOK, Driving
  PROVE  pass.seen.uid \in Uids /\ pass.seen.uid \in Nat \ {0}
BY SetupFacts DEF UidsOK, Types, Uids

\* A launch fails, starts a run, or adopts the one that is up.
\* r is what a launch of c for uid u over the containers h came to: refused, a
\* new run, or the run that was there.
LaunchResult(c, u, h, r) ==
  \/ r.id = NoId /\ r.held = h /\ r.starts = starts /\ r.cost = 1
  \/ /\ r.id = <<u, starts[u][c] + 1>> /\ r.id # NoId /\ r.id \in RunIds
     /\ r.held = [h EXCEPT ![c] = [id |-> r.id, run |-> "up"]]
     /\ r.starts = [starts EXCEPT ![u][c] = @ + 1] /\ r.cost = 0
  \/ /\ setup.adopts /\ Up(c) /\ h[c] = held[c]
     /\ r.id = held[c].id /\ r.id # NoId /\ r.id \in RunIds
     /\ r.held = h /\ r.starts = starts /\ r.cost = 0

LEMMA LaunchOutcome ==
  ASSUME Types, World, NEW c \in Names, NEW u \in Uids, u \in Nat \ {0}, NEW h,
         h = held \/ h = [held EXCEPT ![c] = Gone], NEW r \in Launch(c, u, h)
  PROVE  LaunchResult(c, u, h, r)
<1>. DEFINE id == <<u, starts[u][c] + 1>>
            adopted == setup.adopts /\ h[c].run \in {"up", "stopping"}
<1>1. \/ r = [id |-> NoId, held |-> h, starts |-> starts, cost |-> 1]
      \/ adopted /\ r = [id |-> h[c].id, held |-> h, starts |-> starts, cost |-> 0]
      \/ r = [id |-> id, held |-> [h EXCEPT ![c] = [id |-> id, run |-> "up"]],
              starts |-> [starts EXCEPT ![u][c] = @ + 1], cost |-> 0]
  BY DEF Launch
<1>2. CASE r = [id |-> NoId, held |-> h, starts |-> starts, cost |-> 1]
  BY <1>2 DEF LaunchResult
<1>3. CASE adopted /\ r = [id |-> h[c].id, held |-> h, starts |-> starts, cost |-> 0]
  <2>1. held \in [Names -> Held] /\ held[c] \in Held
    BY DEF Types
  <2>2. h[c] = held[c]
    BY <1>3, <2>1 DEF Gone
  <2>3. Up(c)
    BY <1>3, <2>2 DEF Up
  <2>4. Started(c, held[c].id, starts)
    BY <2>3 DEF Up, World, Containers, RunOK
  <2>5. held[c].id # NoId /\ held[c].id \in RunIds
    BY <2>1, <2>4 DEF Started, NoId, Held
  <2>6. r.id = held[c].id /\ r.held = h /\ r.starts = starts /\ r.cost = 0
    BY <1>3, <2>2
  <2>. QED  BY <1>3, <2>2, <2>3, <2>5, <2>6 DEF LaunchResult
<1>4. CASE r = [id |-> id, held |-> [h EXCEPT ![c] = [id |-> id, run |-> "up"]],
                starts |-> [starts EXCEPT ![u][c] = @ + 1], cost |-> 0]
  <2>1. starts[u][c] \in Nat
    BY StartsFacts
  <2>2. id # NoId /\ id \in RunIds
    BY <2>1 DEF NoId, RunIds
  <2>3. /\ r.id = id /\ r.held = [h EXCEPT ![c] = [id |-> r.id, run |-> "up"]]
        /\ r.starts = [starts EXCEPT ![u][c] = @ + 1] /\ r.cost = 0
    BY <1>4
  <2>. QED  BY <2>2, <2>3 DEF LaunchResult
<1>. QED  BY <1>1, <1>2, <1>3, <1>4

\* stop and remove: once it has worked nothing is left under the name.
LEMMA ClearOutcome ==
  ASSUME Types, World, NEW c \in Names, Recorded(c), NEW k \in Clear(c, local.recs[c].id)
  PROVE  /\ k.held \in [Names -> Held] /\ k.cost \in {0, 1}
         /\ \A d \in Names : Aged(held[d], k.held[d])
         /\ k.ok => k.held = [held EXCEPT ![c] = Gone] /\ k.cost = 0
<1>. DEFINE h == held[c]  id == local.recs[c].id
<1>1. held \in [Names -> Held] /\ h \in Held /\ local.recs[c] \in Record
  BY ContainerTypes DEF Types
<1>2. id # NoId /\ h.id \in {NoId, id} /\ (h.run = "gone" <=> h = Gone)
      /\ (h.run # "gone" => Started(c, h.id, starts))
  BY DEF Recorded, World, Containers, RunOK, RecOK
<1>3. h.id = NoId => h = Gone
  BY <1>2 DEF Started, NoId
<1>4. CASE h.id # id
  <2>1. h = Gone
    BY <1>2, <1>3, <1>4
  <2>2. held = [held EXCEPT ![c] = Gone]
    BY <1>1, <2>1
  <2>3. k = [ok |-> TRUE, held |-> held, cost |-> 0]
    BY <1>4 DEF Clear
  <2>4. k.held = held /\ k.cost = 0
    BY <2>3
  <2>. QED  BY <1>1, <2>2, <2>4 DEF Aged
<1>5. CASE h.id = id
  <2>1. \/ k = [ok |-> TRUE, held |-> [held EXCEPT ![c] = Gone], cost |-> 0]
        \/ k = [ok |-> FALSE, held |-> held, cost |-> 1]
        \/ Up(c) /\ k = [ok |-> FALSE, held |-> [held EXCEPT ![c].run = "stopping"], cost |-> 0]
    BY <1>5 DEF Clear
  <2>2. CASE k = [ok |-> TRUE, held |-> [held EXCEPT ![c] = Gone], cost |-> 0]
    <3>1. k.held = [held EXCEPT ![c] = Gone] /\ k.cost = 0
      BY <2>2
    <3>. QED  BY <1>1, <3>1, GoneTyped DEF Aged
  <2>3. CASE k = [ok |-> FALSE, held |-> held, cost |-> 1]
    <3>1. k.held = held /\ k.cost = 1 /\ k.ok = FALSE
      BY <2>3
    <3>. QED  BY <1>1, <3>1 DEF Aged
  <2>4. CASE Up(c) /\ k = [ok |-> FALSE, held |-> [held EXCEPT ![c].run = "stopping"], cost |-> 0]
    <3>1. k.held = [held EXCEPT ![c].run = "stopping"] /\ k.cost = 0 /\ k.ok = FALSE
      BY <2>4
    <3>2. k.held[c] = [h EXCEPT !.run = "stopping"] /\ \A d \in Names \ {c} : k.held[d] = held[d]
      BY <1>1, <3>1
    <3>3. k.held[c] \in Held /\ k.held[c].id = h.id /\ k.held[c].run = "stopping"
      BY <1>1, <3>2 DEF Held
    <3>4. k.held \in [Names -> Held]
      BY <1>1, <3>1, <3>2, <3>3
    <3>5. Aged(held[c], k.held[c])
      BY <2>4, <3>3 DEF Aged, Lives, Up
    <3>. QED  BY <3>1, <3>2, <3>4, <3>5 DEF Aged
  <2>. QED  BY <2>1, <2>2, <2>3, <2>4
<1>. QED  BY <1>4, <1>5

\* A pass launches only what its pod's status lets it.
LEMMA GoingLaunches ==
  ASSUME IInv, Going
  PROVE  LaunchedFor(pass.seen.uid) /\ Driving
BY DEF IInv, Going, Driving, UidsOK, PassOK, GoingOK, LaunchedFor

LEMMA LaunchGoing ==
  ASSUME IInv, Going, NEW c, Launching(c, pass.seen.uid), taken \subseteq taken',
         pass'.seen = pass.seen
  PROVE  GoingOK'
BY DEF IInv, PassOK, GoingOK, Launching

LEMMA LaunchStanding ==
  ASSUME IInv, Going, NEW c, Launching(c, pass.seen.uid), taken \subseteq taken',
         held'[c].id # NoId, pod.uid \notin taken',
         ~(Same /\ pod.uid \notin taken /\ pass.seen.phase \in Terminal)
  PROVE  Standing(pod.uid, pod.phase, pod.apps, setup, local', clean)
<1>1. Standing(pod.uid, pod.phase, pod.apps, setup, local, clean)
  BY DEF IInv, PodOK, StatusOK
<1>2. Driving /\ pass.seen.uid \in Nat \ {0} /\ DOMAIN pod.apps = Apps /\ Apps \subseteq Names
  BY GoingLaunches, SeenUid, NameFacts, PodStatus DEF IInv, Types
<1>3. CASE ~Mine(pod.uid, local')
  BY <1>1, <1>3, UnownedStanding
<1>4. CASE Mine(pod.uid, local')
  <2>1. Same
    <3>1. CASE local.known
      <4>1. Mine(pod.uid, local)
        BY <1>4, <3>1 DEF Mine, Launching
      <4>. QED  BY <1>2, <4>1, MineIsSame
    <3>2. CASE ~local.known
      BY <1>2, <1>4, <3>2 DEF Mine, Launching, Same, Exists
    <3>. QED  BY <3>1, <3>2
  <2>2. pod.phase = pass.seen.phase /\ pod.apps = pass.seen.apps
    BY <1>2, <2>1 DEF IInv, SeenOK
  <2>3. pod.phase \notin Terminal
    BY <2>1, <2>2
  <2>4. ASSUME OneRun(setup), NEW d \in Apps, StoredUp(pod.apps[d])
        PROVE  local'.recs[d].id # NoId
    <3>1. CASE d = c
      BY <3>1 DEF Launching
    <3>2. CASE d # c
      <4>1. local'.recs[d] = local.recs[d]
        BY <1>2, <3>2 DEF Launching
      <4>2. local.known
        BY <2>2, <2>4 DEF IInv, PassOK, GoingOK
      <4>3. Mine(pod.uid, local)
        BY <1>4, <4>2 DEF Mine, Launching
      <4>. QED  BY <1>1, <1>2, <2>4, <4>1, <4>3 DEF Standing
    <3>. QED  BY <3>1, <3>2
  <2>. QED  BY <1>1, <1>2, <2>3, <2>4 DEF Standing
<1>. QED  BY <1>3, <1>4

LEMMA LaunchPenalty ==
  ASSUME IInv, Going, NEW c, Launching(c, pass.seen.uid), penalty' = penalty,
         <<pass.seen.uid, c>> \notin penalty
  PROVE  /\ \A p \in penalty' : p[1] = pass.seen.uid
         /\ \A d \in Apps : Recorded(d)' /\ Up(d)' => <<local'.uid, d>> \notin penalty'
<1>1. \A p \in penalty : p[1] = pass.seen.uid
  BY DEF IInv, PenaltyOK, Going
<1>2. ASSUME NEW d \in Apps, Recorded(d)', Up(d)', <<local'.uid, d>> \in penalty
      PROVE  FALSE
  <2>1. <<local'.uid, d>>[1] = local'.uid
    OBVIOUS
  <2>2. local'.uid = pass.seen.uid
    BY <1>1, <1>2, <2>1
  <2>3. d # c /\ d \in Names
    BY <1>2, <2>2, NameFacts DEF IInv, Types
  <2>4. Recorded(d) /\ Up(d)
    BY <1>2, <2>3 DEF Launching, Recorded, Up
  <2>5. local.known
    BY <2>3, <2>4 DEF IInv, World, LocalOK
  <2>6. local'.uid = local.uid
    BY <2>5 DEF Launching
  <2>. QED  BY <1>2, <2>4, <2>6 DEF IInv, PenaltyOK
<1>. QED  BY <1>1, <1>2

LEMMA LaunchUid ==
  ASSUME IInv, Going, NEW c, Launching(c, pass.seen.uid)
  PROVE  local'.known => local'.uid \in 1..born /\ local'.uid <= pass.seen.uid
<1>1. born \in Nat /\ pass.seen.uid \in 1..born
  BY GoingLaunches DEF IInv, UidsOK, Types
<1>. QED  BY <1>1, GoingLaunches DEF IInv, UidsOK, Launching

\* The pass starts a run of c.
LEMMA FreshAdvance ==
  ASSUME IInv, Types', PassOK', WriteOK', Going, Driving', NEW c, Fresh(c, pass.seen.uid),
         UNCHANGED <<pod, born, penalty>>, pass'.seen = pass.seen, <<pass.seen.uid, c>> \notin penalty,
         ~(Same /\ pod.uid \notin taken /\ pass.seen.phase \in Terminal),
         c \in Apps => (pod.apps[c].id # NoId => local'.recs[c].count > pod.apps[c].count)
  PROVE  IInv'
<1>1. Launching(c, pass.seen.uid) /\ taken' = taken /\ setup' = setup /\ clean' = clean
  BY DEF Fresh, Launching
<1>2. LaunchedFor(pass.seen.uid) /\ Driving
  BY GoingLaunches
<1>3. World' /\ Grows(starts, starts')
  BY <1>2, FreshWorld DEF IInv
<1>4. held'[c].id # NoId
  <2>1. pass.seen.uid \in Nat \ {0}
    BY <1>2, SeenUid DEF IInv
  <2>. QED  BY <2>1 DEF Fresh, NoId
<1>5. PodOK'
  <2>1. AllTold(pod.apps, held', local', starts')
    <3>1. pod.apps \in [Apps -> Entries] /\ AllTold(pod.apps, held, local, starts)
      BY PodStatus DEF IInv, PodOK, StatusOK
    <3>. QED  BY <1>3, <3>1, FreshTold DEF IInv
  <2>2. pod.uid \notin taken' => Standing(pod.uid, pod.phase, pod.apps, setup, local', clean)
    BY <1>1, <1>4, LaunchStanding
  <2>. QED  BY <1>1, <2>1, <2>2 DEF PodOK, StatusOK
<1>6. local'.known => local'.uid \in 1..born /\ local'.uid <= pass.seen.uid
  BY <1>1, LaunchUid
<1>7. /\ \A p \in penalty' : p[1] = pass.seen.uid
      /\ \A d \in Apps : Recorded(d)' /\ Up(d)' => <<local'.uid, d>> \notin penalty'
  BY <1>1, LaunchPenalty
<1>. QED  BY <1>1, <1>2, <1>3, <1>5, <1>6, <1>7, AdvanceStep

\* The pass adopts the run of c that is up.
LEMMA AdoptAdvance ==
  ASSUME IInv, Types', PassOK', WriteOK', Going, Driving', NEW c, Adopt(c, pass.seen.uid),
         UNCHANGED <<pod, born, penalty>>, pass'.seen = pass.seen, <<pass.seen.uid, c>> \notin penalty,
         ~(Same /\ pod.uid \notin taken /\ pass.seen.phase \in Terminal),
         c \in Apps => Counted(pod.apps[c], held[c].id, local'.recs[c].count)
  PROVE  IInv'
<1>1. /\ Launching(c, pass.seen.uid) /\ taken \subseteq taken' /\ setup' = setup /\ clean' = clean
      /\ taken' \subseteq taken \cup {pass.seen.uid} /\ c \in Names
  BY DEF Adopt, Launching
<1>2. LaunchedFor(pass.seen.uid) /\ Driving
  BY GoingLaunches
<1>3. World'
  BY <1>2, AdoptWorld DEF IInv
<1>4. held'[c].id # NoId
  <2>1. held'[c] = held[c] /\ Up(c)
    BY DEF Adopt
  <2>2. Started(c, held[c].id, starts)
    BY <1>1, <2>1 DEF Up, IInv, World, Containers, RunOK
  <2>. QED  BY <2>1, <2>2 DEF Started, NoId
<1>5. PodOK'
  <2>1. AllTold(pod.apps, held', local', starts')
    <3>1. pod.apps \in [Apps -> Entries] /\ AllTold(pod.apps, held, local, starts)
      BY PodStatus DEF IInv, PodOK, StatusOK
    <3>. QED  BY <3>1, AdoptTold DEF IInv
  <2>2. pod.uid \notin taken' => Standing(pod.uid, pod.phase, pod.apps, setup, local', clean)
    BY <1>1, <1>4, LaunchStanding
  <2>. QED  BY <1>1, <2>1, <2>2 DEF PodOK, StatusOK
<1>6. local'.known => local'.uid \in 1..born /\ local'.uid <= pass.seen.uid
  BY <1>1, LaunchUid
<1>7. /\ \A p \in penalty' : p[1] = pass.seen.uid
      /\ \A d \in Apps : Recorded(d)' /\ Up(d)' => <<local'.uid, d>> \notin penalty'
  BY <1>1, LaunchPenalty
<1>. QED  BY <1>1, <1>2, <1>3, <1>5, <1>6, <1>7, AdvanceStep

\* A start fails, which costs the container a wait.
LEMMA FailAdvance ==
  ASSUME IInv, Types', PassOK', WriteOK', Calm, Going, Driving', NEW c,
         UNCHANGED <<pod, born, taken>>, pass'.seen = pass.seen,
         penalty' = penalty \cup {<<pass.seen.uid, c>>},
         ~(c \in Apps /\ Recorded(c)' /\ Up(c)')
  PROVE  IInv'
<1>1. setup' = setup /\ SameHeader /\ Steady(Names, local, local')
      /\ \A d \in Names : Lives(held'[d]) => Lives(held[d])
  BY CalmFacts DEF IInv
<1>2. World' /\ PodOK' /\ Driving
  BY CalmWorld, CalmPod, GoingLaunches DEF IInv
<1>3. local'.known => local'.uid \in 1..born /\ local'.uid <= pass.seen.uid
  BY <1>1, <1>2 DEF SameHeader, IInv, UidsOK
<1>4. \A d \in Apps : Recorded(d)' /\ Up(d)' => <<local'.uid, d>> \notin penalty'
  <2>. SUFFICES ASSUME NEW d \in Apps, Recorded(d)', Up(d)'
                PROVE  <<local'.uid, d>> \notin penalty'
    OBVIOUS
  <2>1. d \in Names /\ d # c
    BY NameFacts DEF IInv, Types
  <2>2. Recorded(d) /\ Up(d)
    BY <1>1, <2>1 DEF Recorded, Up, Steady, Lives
  <2>. QED  BY <1>1, <2>1, <2>2 DEF IInv, PenaltyOK, SameHeader
<1>5. \A p \in penalty' : p[1] = pass.seen.uid
  BY DEF Going, IInv, PenaltyOK
<1>. QED  BY <1>1, <1>2, <1>3, <1>4, <1>5, AdvanceStep

\* What Launched makes of the state, by the outcome of the launch.
LEMMA LaunchedEffects ==
  ASSUME IInv, Going, NEW c \in Names, NEW count \in Nat, NEW h,
         h = held \/ h = [held EXCEPT ![c] = Gone],
         Recorded(c) => h = [held EXCEPT ![c] = Gone],
         NEW r \in Launch(c, pass.seen.uid, h), Launched(c, r, count),
         UNCHANGED <<setup, born, orphans, pod, clean>>
  PROVE  /\ held' \in [Names -> Held] /\ starts' \in [Uids -> [Names -> Nat]] /\ local' \in LocalType
         /\ penalty' \subseteq Uids \X Names /\ taken' \subseteq Uids /\ events' \in 0..MaxEvents
         /\ taken \subseteq taken'
         /\ \/ /\ Decay /\ local' = local /\ taken' = taken /\ held' = h
               /\ penalty' = penalty \cup {<<pass.seen.uid, c>>}
            \/ /\ Fresh(c, pass.seen.uid) /\ local'.recs[c].count = count /\ penalty' = penalty
               /\ r.id = <<pass.seen.uid, starts[pass.seen.uid][c] + 1>>
            \/ /\ setup.adopts /\ Adopt(c, pass.seen.uid) /\ local'.recs[c].count = count
               /\ penalty' = penalty /\ r.id = held[c].id
<1>. DEFINE u == pass.seen.uid
<1>1. Types /\ World /\ u \in Uids /\ u \in Nat \ {0}
  BY GoingLaunches, SeenUid DEF IInv
<1>2. /\ held \in [Names -> Held] /\ starts \in [Uids -> [Names -> Nat]] /\ local \in LocalType
      /\ penalty \subseteq Uids \X Names /\ taken \subseteq Uids
  BY <1>1 DEF Types
<1>3. h \in [Names -> Held] /\ \A d \in Names \ {c} : h[d] = held[d]
  BY <1>2, GoneTyped
<1>4. /\ held' = r.held /\ starts' = r.starts /\ Spend(r.cost)
      /\ penalty' = IF r.id = NoId THEN penalty \cup {<<u, c>>} ELSE penalty
      /\ taken' = IF r.id = NoId \/ r.id[1] = u THEN taken ELSE taken \cup {u}
      /\ local' = IF r.id = NoId THEN local
                  ELSE [local EXCEPT !.known = TRUE,
                                     !.uid = IF local.known THEN @ ELSE u,
                                     !.recs[c] = NewRecord(r.id, count)]
  BY DEF Launched
<1>5. \/ r.id = NoId /\ r.held = h /\ r.starts = starts /\ r.cost = 1
      \/ /\ r.id = <<u, starts[u][c] + 1>> /\ r.id # NoId /\ r.id \in RunIds
         /\ r.held = [h EXCEPT ![c] = [id |-> r.id, run |-> "up"]]
         /\ r.starts = [starts EXCEPT ![u][c] = @ + 1] /\ r.cost = 0
      \/ /\ setup.adopts /\ Up(c) /\ h[c] = held[c]
         /\ r.id = held[c].id /\ r.id # NoId /\ r.id \in RunIds
         /\ r.held = h /\ r.starts = starts /\ r.cost = 0
  <2>1. LaunchResult(c, u, h, r)
    BY <1>1, LaunchOutcome
  <2>. QED  BY <2>1 DEF LaunchResult
<1>6. penalty' \subseteq Uids \X Names /\ taken' \subseteq Uids /\ taken \subseteq taken'
  BY <1>1, <1>2, <1>4
<1>7. events' \in 0..MaxEvents
  BY <1>1, <1>4, <1>5, Spent
<1>8. ASSUME r.id # NoId, r.id \in RunIds
      PROVE  /\ local' \in LocalType /\ local'.known /\ local'.done = local.done
             /\ local'.uid = IF local.known THEN local.uid ELSE u
             /\ local'.recs[c].id = r.id /\ local'.recs[c].down = "none"
             /\ local'.recs[c].count = count
             /\ \A d \in Names \ {c} : local'.recs[d] = local.recs[d]
  <2>. DEFINE rec == NewRecord(r.id, count)
  <2>1. rec \in Record /\ rec.id = r.id /\ rec.down = "none" /\ rec.count = count
    BY <1>8 DEF NewRecord, NoRecord, Record
  <2>2. local' = [local EXCEPT !.known = TRUE, !.uid = IF local.known THEN @ ELSE u, !.recs[c] = rec]
    BY <1>4, <1>8
  <2>. HIDE DEF rec
  <2>. QED  BY <1>1, <1>2, <2>1, <2>2 DEF LocalType
<1>9. CASE r.id = NoId /\ r.held = h /\ r.starts = starts /\ r.cost = 1
  <2>1. local' = local /\ taken' = taken /\ held' = h /\ starts' = starts
        /\ penalty' = penalty \cup {<<u, c>>}
    BY <1>4, <1>9
  <2>2. \A d \in Names : Aged(held[d], held'[d])
    BY <1>2, <2>1 DEF Aged
  <2>3. Decay
    BY <2>1, <2>2 DEF Decay, SameHeader, Kept
  <2>. QED  BY <1>2, <1>3, <1>6, <1>7, <2>1, <2>3
<1>10. CASE /\ r.id = <<u, starts[u][c] + 1>> /\ r.id # NoId /\ r.id \in RunIds
            /\ r.held = [h EXCEPT ![c] = [id |-> r.id, run |-> "up"]]
            /\ r.starts = [starts EXCEPT ![u][c] = @ + 1] /\ r.cost = 0
  <2>1. [id |-> r.id, run |-> "up"] \in Held
    BY <1>10 DEF Held
  <2>2. /\ held' \in [Names -> Held] /\ held'[c] = [id |-> r.id, run |-> "up"]
        /\ \A d \in Names \ {c} : held'[d] = held[d]
    BY <1>3, <1>4, <1>10, <2>1
  <2>3. starts' = [starts EXCEPT ![u][c] = @ + 1] /\ starts' \in [Uids -> [Names -> Nat]]
    BY <1>1, <1>2, <1>4, <1>10
  <2>4. taken' = taken /\ penalty' = penalty
    BY <1>4, <1>10
  <2>5. Launching(c, u)
    BY <1>1, <1>8, <1>10, <2>2 DEF Launching
  <2>6. Fresh(c, u)
    BY <1>10, <2>2, <2>3, <2>4, <2>5 DEF Fresh
  <2>. QED  BY <1>6, <1>7, <1>8, <1>10, <2>2, <2>3, <2>4, <2>6
<1>11. CASE /\ setup.adopts /\ Up(c) /\ h[c] = held[c]
            /\ r.id = held[c].id /\ r.id # NoId /\ r.id \in RunIds
            /\ r.held = h /\ r.starts = starts /\ r.cost = 0
  <2>1. held' = h /\ held'[c] = held[c] /\ starts' = starts /\ penalty' = penalty
        /\ taken' = IF held[c].id[1] = u THEN taken ELSE taken \cup {u}
    BY <1>4, <1>11
  <2>2. ~Recorded(c)
    BY <1>2, <1>11 DEF Up, Gone
  <2>3. Launching(c, u)
    BY <1>1, <1>3, <1>8, <1>11, <2>1 DEF Launching
  <2>4. Adopt(c, u)
    BY <1>11, <2>1, <2>2, <2>3 DEF Adopt
  <2>. QED  BY <1>2, <1>3, <1>6, <1>7, <1>8, <1>11, <2>1, <2>4
<1>. QED  BY <1>5, <1>9, <1>10, <1>11

\* A launch by the init sequence, or of an app container without a record.
LEMMA LaunchAdvance ==
  ASSUME IInv, Going, NEW c \in Names, NEW count \in Nat, NEW h,
         h = held \/ h = [held EXCEPT ![c] = Gone],
         Recorded(c) => h = [held EXCEPT ![c] = Gone],
         NEW r \in Launch(c, pass.seen.uid, h), Launched(c, r, count),
         UNCHANGED <<setup, born, orphans, pod, clean>>,
         pass' \in PassType, pass'.seen = pass.seen, pass'.fresh = pass.fresh,
         Driving', PassOK', WriteOK', <<pass.seen.uid, c>> \notin penalty,
         ~(Same /\ pod.uid \notin taken /\ pass.seen.phase \in Terminal),
         c \in Apps => ~Recorded(c) /\ count = StartedAs(pass.seen.apps[c], r.id, setup.adopts)
  PROVE  IInv'
<1>. DEFINE u == pass.seen.uid
<1>1. /\ held' \in [Names -> Held] /\ starts' \in [Uids -> [Names -> Nat]] /\ local' \in LocalType
      /\ penalty' \subseteq Uids \X Names /\ taken' \subseteq Uids /\ events' \in 0..MaxEvents
      /\ \/ /\ Decay /\ local' = local /\ taken' = taken /\ held' = h
            /\ penalty' = penalty \cup {<<u, c>>}
         \/ /\ Fresh(c, u) /\ local'.recs[c].count = count /\ penalty' = penalty
            /\ r.id = <<u, starts[u][c] + 1>>
         \/ /\ setup.adopts /\ Adopt(c, u) /\ local'.recs[c].count = count
            /\ penalty' = penalty /\ r.id = held[c].id
  BY LaunchedEffects
<1>2. Types'
  BY <1>1, PassTypes DEF IInv
<1>3. ASSUME c \in Apps, pod.apps[c].id # NoId
      PROVE  /\ Started(c, pod.apps[c].id, starts) /\ pod.apps[c] = pass.seen.apps[c]
             /\ pod.apps[c].count \in Nat
  <2>1. pod.apps \in [Apps -> Entries] /\ Driving
    BY PodStatus, GoingLaunches DEF IInv
  <2>2. Told(pod.apps[c], c, held[c], local.recs[c], starts)
    BY <1>3, <2>1 DEF IInv, PodOK, StatusOK, AllTold
  <2>3. Same
    BY <1>3, <2>1 DEF IInv, SeenOK, Unstarted
  <2>. QED  BY <1>3, <2>1, <2>2, <2>3 DEF Told, IInv, SeenOK, Entries, Entry
<1>4. CASE /\ Decay /\ local' = local /\ taken' = taken /\ held' = h
           /\ penalty' = penalty \cup {<<u, c>>}
  <2>1. ~(c \in Apps /\ Recorded(c)' /\ Up(c)')
    BY <1>4 DEF Recorded
  <2>2. Calm
    BY <1>4 DEF Calm
  <2>. QED  BY <1>2, <1>4, <2>1, <2>2, FailAdvance
<1>5. CASE /\ Fresh(c, u) /\ local'.recs[c].count = count /\ penalty' = penalty
           /\ r.id = <<u, starts[u][c] + 1>>
  <2>1. ASSUME c \in Apps, pod.apps[c].id # NoId  PROVE local'.recs[c].count > pod.apps[c].count
    <3>1. starts[u][c] \in Nat
      BY GoingLaunches, SeenUid, StartsFacts DEF IInv
    <3>2. pod.apps[c].id # r.id
      BY <1>3, <1>5, <2>1, <3>1 DEF Started
    <3>. QED  BY <1>3, <1>5, <2>1, <3>2 DEF StartedAs
  <2>. QED  BY <1>2, <1>5, <2>1, FreshAdvance
<1>6. CASE /\ setup.adopts /\ Adopt(c, u) /\ local'.recs[c].count = count
           /\ penalty' = penalty /\ r.id = held[c].id
  <2>1. c \in Apps => Counted(pod.apps[c], held[c].id, local'.recs[c].count)
    BY <1>3, <1>6 DEF StartedAs, Counted
  <2>. QED  BY <1>2, <1>6, <2>1, AdoptAdvance
<1>. QED  BY <1>1, <1>4, <1>5, <1>6

LEMMA DoneFacts ==
  ASSUME Types, NEW p, p = Done(pass)
  PROVE  /\ p \in PassType /\ p.at = pass.at /\ p.seen = pass.seen /\ p.fresh = pass.fresh
         /\ p.todo = pass.todo \ {NextTodo} /\ p.blocked = pass.blocked /\ p.obs = pass.obs
         /\ p.unseen = pass.unseen /\ p.out = pass.out
<1>1. pass \in PassType
  BY DEF Types
<1>. QED  BY <1>1 DEF Done, PassType

\* Start the next app container.
LEMMA StartAppStep ==
  ASSUME IInv, StartApp
  PROVE  IInv'
<1>. DEFINE c == setup.apps[NextTodo]
<1>1. /\ pass.at = "start"
      /\ pass' = IF pass.todo = {NextTodo}
                 THEN [pass EXCEPT !.at = "observe", !.todo = DOMAIN setup.apps]
                 ELSE Done(pass)
      /\ UNCHANGED <<setup, born, orphans, pod, clean>>
  BY DEF StartApp, steady
<1>2. PICK r \in Launch(c, pass.seen.uid, held) :
        Launched(c, r, StartedAs(pass.seen.apps[c], r.id, setup.adopts))
  BY DEF StartApp
<1>. DEFINE count == StartedAs(pass.seen.apps[c], r.id, setup.adopts)
<1>3. Types /\ setup \in Setups /\ pass \in PassType /\ Going /\ Driving
      /\ DOMAIN setup.apps \in SUBSET Nat
  BY <1>1, SetupFacts DEF IInv, Types, Going, Driving
<1>4. /\ pass.todo \subseteq DOMAIN setup.apps /\ NextTodo \in pass.todo
      /\ \A i \in pass.todo : ~Recorded(setup.apps[i]) /\ <<pass.seen.uid, setup.apps[i]>> \notin penalty
  <2>1. pass.todo # {}
    BY <1>1 DEF IInv, PassOK, StartOK
  <2>. QED  BY <1>1, <1>3, <2>1, NextTodoFacts DEF IInv, PassOK, StartOK
<1>5. c \in Apps /\ c \in Names /\ ~Recorded(c) /\ <<pass.seen.uid, c>> \notin penalty
  BY <1>3, <1>4, NameFacts
<1>6. count \in Nat
  <2>1. pass.seen.apps[c] \in Entries
    BY <1>3, <1>5 DEF PassType, PodType
  <2>. QED  BY <2>1 DEF StartedAs, Entries, Entry
<1>7. /\ \/ /\ Decay /\ local' = local /\ taken' = taken /\ held' = held
            /\ penalty' = penalty \cup {<<pass.seen.uid, c>>}
         \/ Launching(c, pass.seen.uid) /\ penalty' = penalty
      /\ taken \subseteq taken'
  <2>. HIDE DEF c, count
  <2>1. held = held \/ held = [held EXCEPT ![c] = Gone]
    OBVIOUS
  <2>2. Launched(c, r, count)
    BY <1>2 DEF count
  <2>. QED  BY <1>1, <1>3, <1>5, <1>6, <2>1, <2>2, LaunchedEffects DEF Fresh, Adopt
<1>8. /\ pass' \in PassType /\ pass'.seen = pass.seen /\ pass'.fresh = pass.fresh
      /\ \/ pass'.at = "observe" /\ pass'.todo = DOMAIN setup.apps
         \/ pass'.at = "start" /\ pass'.todo = pass.todo \ {NextTodo} /\ pass'.todo # {}
  <2>1. CASE pass.todo = {NextTodo}
    <3>1. pass' = [pass EXCEPT !.at = "observe", !.todo = DOMAIN setup.apps]
      BY <1>1, <2>1
    <3>. QED  BY <1>3, <3>1 DEF PassType, Steps
  <2>2. CASE pass.todo # {NextTodo}
    <3>1. pass' = Done(pass)
      BY <1>1, <2>2
    <3>. QED  BY <1>1, <1>3, <1>4, <2>2, <3>1, DoneFacts
  <2>. QED  BY <2>1, <2>2
<1>9. local'.done = local.done /\ (local.known => local'.known)
  BY <1>7 DEF Launching
<1>10. GoingOK'
  <2>1. CASE local' = local
    BY <1>1, <1>3, <1>7, <1>8, <2>1, GoingStays DEF IInv, PassOK, SameHeader
  <2>2. CASE Launching(c, pass.seen.uid)
    BY <1>3, <1>7, <1>8, <2>2, LaunchGoing
  <2>. QED  BY <1>7, <2>1, <2>2
<1>11. InitOK' /\ PastInitsOK' /\ ObserveOK' /\ Going'
  <2>1. setup.inits = <<>> \/ (local.known /\ local.done)
    BY <1>1 DEF IInv, PassOK, PastInitsOK
  <2>. QED  BY <1>1, <1>8, <1>9, <2>1 DEF InitOK, PastInitsOK, ObserveOK, Going
<1>12. StartOK'
  <2>. SUFFICES ASSUME pass'.at = "start"
                PROVE  \A i \in pass'.todo : /\ local'.recs[setup.apps[i]].id = NoId
                                             /\ <<pass.seen.uid, setup.apps[i]>> \notin penalty'
    BY <1>1, <1>4, <1>8 DEF StartOK, Recorded
  <2>. SUFFICES ASSUME NEW i \in pass'.todo
                PROVE  /\ local'.recs[setup.apps[i]].id = NoId
                       /\ <<pass.seen.uid, setup.apps[i]>> \notin penalty'
    OBVIOUS
  <2>1. i \in pass.todo /\ i # NextTodo /\ i \in DOMAIN setup.apps /\ NextTodo \in DOMAIN setup.apps
    BY <1>4, <1>8
  <2>2. setup.apps[i] # c /\ setup.apps[i] \in Names
    BY <1>3, <2>1, SetupFacts, NameFacts
  <2>3. local'.recs[setup.apps[i]] = local.recs[setup.apps[i]]
    BY <1>7, <2>2 DEF Launching
  <2>. QED  BY <1>4, <1>7, <2>1, <2>2, <2>3 DEF Recorded
<1>13. PassOK' /\ WriteOK' /\ Driving'
  BY <1>10, <1>11, <1>12, AtGoing
<1>14. ASSUME Same, pod.uid \notin taken, pass.seen.phase \in Terminal  PROVE FALSE
  <2>1. Settled(pod.apps, pod.phase, setup, local)
    BY <1>3, <1>14, SeenSettled
  <2>2. ~Doomed(setup, local)
    BY <1>1 DEF IInv, PassOK, PastInitsOK, Doomed
  <2>3. c \in DOMAIN pod.apps
    BY <1>5, PodStatus DEF IInv
  <2>. QED  BY <1>5, <2>1, <2>2, <2>3 DEF Settled, Finished, Recorded
<1>. HIDE DEF c
<1>15. Launched(c, r, count)
  BY <1>2
<1>. QED  BY <1>1, <1>3, <1>5, <1>6, <1>8, <1>13, <1>14, <1>15, LaunchAdvance

\* The pass after a step of the init sequence on the next container it named.
LEMMA InitStartPass ==
  ASSUME IInv, pass.at = "initStart",
         pass' = IF pass.todo = {NextTodo} THEN [Done(pass) EXCEPT !.at = "initEnd"] ELSE Done(pass),
         UNCHANGED <<setup, pod>>, taken \subseteq taken', local'.done = local.done,
         \A d \in Names \ {setup.inits[NextTodo].name} : local'.recs[d] = local.recs[d]
  PROVE  /\ pass' \in PassType /\ pass'.seen = pass.seen /\ pass'.fresh = pass.fresh
         /\ GoingOK' => PassOK' /\ WriteOK' /\ Driving'
<1>1. Types /\ setup \in Setups /\ Going
  BY DEF IInv, Types, Going
<1>. DEFINE p == Done(pass)
<1>2. /\ p \in PassType /\ p.at = pass.at /\ p.seen = pass.seen /\ p.fresh = pass.fresh
      /\ p.todo = pass.todo \ {NextTodo} /\ p.blocked = pass.blocked
  BY <1>1, DoneFacts
<1>. HIDE DEF p
<1>3. pass' = IF pass.todo = {NextTodo} THEN [p EXCEPT !.at = "initEnd"] ELSE p
  BY DEF p
<1>4. /\ pass' \in PassType /\ pass'.seen = pass.seen /\ pass'.fresh = pass.fresh
      /\ pass'.todo = pass.todo \ {NextTodo} /\ pass'.blocked = pass.blocked
      /\ pass'.at \in {"initStart", "initEnd"}
      /\ pass'.at = "initStart" => pass.todo # {NextTodo}
  <2>1. CASE pass.todo = {NextTodo}
    <3>1. pass' = [p EXCEPT !.at = "initEnd"]
      BY <1>3, <2>1
    <3>. QED  BY <1>2, <3>1 DEF PassType, Steps
  <2>2. CASE pass.todo # {NextTodo}
    BY <1>2, <1>3, <2>2
  <2>. QED  BY <2>1, <2>2
<1>5. /\ setup.inits # <<>> /\ ~local.done /\ pass.todo # {} /\ pass.todo \subseteq DOMAIN setup.inits
      /\ Same => pass.seen.uid \in taken \/ pass.seen.phase \notin Terminal
      /\ ~pass.blocked => \A i \in DOMAIN setup.inits : ~setup.inits[i].sidecar =>
            local.recs[setup.inits[i].name].down = "ok" /\ i \notin pass.todo
  BY DEF IInv, PassOK, InitOK
<1>6. NextTodo \in pass.todo
  BY <1>1, <1>5, NextTodoFacts
<1>7. ASSUME ~pass.blocked, NEW i \in DOMAIN setup.inits, ~setup.inits[i].sidecar
      PROVE  local'.recs[setup.inits[i].name].down = "ok" /\ i \notin pass'.todo
  <2>1. local.recs[setup.inits[i].name].down = "ok" /\ i \notin pass.todo
    BY <1>5, <1>7
  <2>2. i # NextTodo /\ NextTodo \in DOMAIN setup.inits
    BY <1>5, <1>6, <2>1
  <2>3. setup.inits[i].name # setup.inits[NextTodo].name /\ setup.inits[i].name \in Names
    BY <1>1, <2>2, SetupFacts, NameFacts
  <2>. QED  BY <1>4, <2>1, <2>3
<1>8. Same' <=> Same
  BY <1>4 DEF Same, Exists
<1>9. InitOK'
  BY <1>4, <1>5, <1>6, <1>7, <1>8 DEF InitOK
<1>10. PastInitsOK' /\ StartOK' /\ ObserveOK' /\ Going'
  BY <1>4 DEF PastInitsOK, StartOK, ObserveOK, Going
<1>. QED  BY <1>4, <1>9, <1>10, AtGoing

LEMMA InitStartStep ==
  ASSUME IInv, InitStart
  PROVE  IInv'
<1>. DEFINE c == setup.inits[NextTodo].name
            rec == local.recs[c]
            skip == \/ <<pass.seen.uid, c>> \in penalty
                    \/ Recorded(c) /\ Polled(c, rec.id) = "up"
<1>1. /\ pass.at = "initStart"
      /\ pass' = IF pass.todo = {NextTodo} THEN [Done(pass) EXCEPT !.at = "initEnd"] ELSE Done(pass)
      /\ UNCHANGED <<setup, born, orphans, pod, clean>>
      /\ \/ UNCHANGED <<held, starts, local, penalty, taken>> /\ (events' = events \/ Spend(1))
         \/ /\ ~skip /\ ~Recorded(c)
            /\ \E r \in Launch(c, pass.seen.uid, held) : Launched(c, r, 0)
         \/ /\ ~skip /\ Recorded(c)
            /\ \E k \in Clear(c, rec.id) :
                 \/ /\ ~k.ok /\ Spend(k.cost)
                    /\ held' = k.held
                    /\ UNCHANGED <<starts, local, penalty, taken>>
                 \/ /\ k.ok
                    /\ \E r \in Launch(c, pass.seen.uid, k.held) :
                          Launched(c, r, rec.count + 1)
  BY DEF InitStart, steady
<1>2. Types /\ World /\ setup \in Setups /\ Going /\ Driving
      /\ starts \in [Uids -> [Names -> Nat]] /\ held \in [Names -> Held] /\ local \in LocalType
      /\ penalty \subseteq Uids \X Names /\ taken \subseteq Uids
  BY <1>1 DEF IInv, Types, Going, Driving
<1>3. NextTodo \in DOMAIN setup.inits
  <2>1. pass.todo # {} /\ pass.todo \subseteq DOMAIN setup.inits
    BY <1>1 DEF IInv, PassOK, InitOK
  <2>. QED  BY <1>2, <2>1, NextTodoFacts
<1>4. c \in Inits /\ c \in Names /\ c \notin Apps
  BY <1>2, <1>3, NameFacts
<1>5. rec \in Record /\ rec.count + 1 \in Nat /\ 0 \in Nat
  BY <1>2, <1>4, ContainerTypes DEF Record
<1>6. ~(Same /\ pod.uid \notin taken /\ pass.seen.phase \in Terminal)
  BY <1>1 DEF IInv, PassOK, InitOK, Same
<1>. HIDE DEF c
<1>7. ASSUME taken' = taken, local' = local, penalty' = penalty, starts' = starts,
             held' \in [Names -> Held], \A d \in Names : Aged(held[d], held'[d]),
             events' \in 0..MaxEvents
      PROVE  IInv'
  <2>1. Decay /\ Calm
    BY <1>1, <1>7 DEF Decay, Calm, SameHeader, Kept
  <2>2. pass' \in PassType /\ pass'.seen = pass.seen /\ pass'.fresh = pass.fresh
    BY <1>1, <1>7, InitStartPass
  <2>3. GoingOK'
    BY <1>1, <1>2, <1>7, <2>2, GoingStays DEF IInv, PassOK, SameHeader
  <2>4. PassOK' /\ WriteOK' /\ Driving'
    BY <1>1, <1>7, <2>3, InitStartPass
  <2>5. Types'
    BY <1>1, <1>2, <1>7, <2>2, PassTypes
  <2>. QED  BY <1>1, <1>2, <1>7, <2>1, <2>2, <2>4, <2>5, CalmAdvance
<1>8. ASSUME ~skip, NEW h, h = held \/ h = [held EXCEPT ![c] = Gone],
             Recorded(c) => h = [held EXCEPT ![c] = Gone], NEW count \in Nat,
             NEW r \in Launch(c, pass.seen.uid, h), Launched(c, r, count)
      PROVE  IInv'
  <2>1. /\ \/ local' = local
           \/ Launching(c, pass.seen.uid)
        /\ taken \subseteq taken'
    BY <1>1, <1>2, <1>4, <1>8, LaunchedEffects DEF Fresh, Adopt
  <2>2. local'.done = local.done /\ \A d \in Names \ {c} : local'.recs[d] = local.recs[d]
    BY <2>1 DEF Launching
  <2>3. pass' \in PassType /\ pass'.seen = pass.seen /\ pass'.fresh = pass.fresh
    BY <1>1, <2>1, <2>2, InitStartPass DEF c
  <2>4. GoingOK'
    <3>1. CASE local' = local
      BY <1>1, <1>2, <2>1, <2>3, <3>1, GoingStays DEF IInv, PassOK, SameHeader
    <3>2. CASE Launching(c, pass.seen.uid)
      BY <1>2, <2>1, <2>3, <3>2, LaunchGoing
    <3>. QED  BY <2>1, <3>1, <3>2
  <2>5. PassOK' /\ WriteOK' /\ Driving'
    BY <1>1, <2>1, <2>2, <2>4, InitStartPass DEF c
  <2>. QED  BY <1>1, <1>2, <1>4, <1>6, <1>8, <2>3, <2>5, LaunchAdvance
<1>9. CASE UNCHANGED <<held, starts, local, penalty, taken>> /\ (events' = events \/ Spend(1))
  <2>1. events' \in 0..MaxEvents
    BY <1>2, <1>9, Spent DEF Types
  <2>. QED  BY <1>2, <1>7, <1>9, <2>1 DEF Aged
<1>10. CASE /\ ~skip /\ ~Recorded(c)
            /\ \E r \in Launch(c, pass.seen.uid, held) : Launched(c, r, 0)
  BY <1>5, <1>8, <1>10
<1>11. CASE /\ ~skip /\ Recorded(c)
            /\ \E k \in Clear(c, rec.id) :
                 \/ /\ ~k.ok /\ Spend(k.cost)
                    /\ held' = k.held
                    /\ UNCHANGED <<starts, local, penalty, taken>>
                 \/ /\ k.ok
                    /\ \E r \in Launch(c, pass.seen.uid, k.held) :
                          Launched(c, r, rec.count + 1)
  <2>1. PICK k \in Clear(c, rec.id) :
                 \/ /\ ~k.ok /\ Spend(k.cost)
                    /\ held' = k.held
                    /\ UNCHANGED <<starts, local, penalty, taken>>
                 \/ /\ k.ok
                    /\ \E r \in Launch(c, pass.seen.uid, k.held) :
                          Launched(c, r, rec.count + 1)
    BY <1>11
  <2>2. /\ k.held \in [Names -> Held] /\ k.cost \in {0, 1}
        /\ \A d \in Names : Aged(held[d], k.held[d])
        /\ k.ok => k.held = [held EXCEPT ![c] = Gone]
    BY <1>2, <1>4, <1>11, <2>1, ClearOutcome
  <2>3. CASE /\ ~k.ok /\ Spend(k.cost)
             /\ held' = k.held
             /\ UNCHANGED <<starts, local, penalty, taken>>
    <3>1. events' \in 0..MaxEvents
      BY <1>2, <2>2, <2>3, Spent
    <3>. QED  BY <1>7, <2>2, <2>3, <3>1
  <2>4. CASE /\ k.ok
             /\ \E r \in Launch(c, pass.seen.uid, k.held) : Launched(c, r, rec.count + 1)
    <3>1. PICK r \in Launch(c, pass.seen.uid, k.held) : Launched(c, r, rec.count + 1)
      BY <2>4
    <3>. HIDE DEF rec, skip
    <3>. QED  BY <1>5, <1>8, <1>11, <2>2, <2>4, <3>1
  <2>. QED  BY <2>1, <2>3, <2>4
<1>. QED  BY <1>1, <1>9, <1>10, <1>11 DEF c

-----------------------------------------------------------------------------
(***************************************************************************)
(* Polls.                                                                  *)
(***************************************************************************)
LEMMA AppFacts ==
  ASSUME IInv, Observing
  PROVE  /\ NextTodo \in pass.todo /\ NextTodo \in DOMAIN setup.apps /\ App \in Apps /\ App \in Names
         /\ Going /\ Driving /\ pass.at = "observe" /\ pass.todo \subseteq DOMAIN setup.apps
         /\ Rec \in Record /\ Rec = local.recs[App] /\ held[App] \in Held
<1>1. pass.at = "observe" /\ pass.todo # {} /\ Types /\ setup \in Setups
  BY DEF Observing, IInv, Types
<1>2. pass.todo \subseteq DOMAIN setup.apps
  BY <1>1 DEF IInv, PassOK, ObserveOK
<1>3. NextTodo \in pass.todo /\ NextTodo \in DOMAIN setup.apps
  BY <1>1, <1>2, NextTodoFacts
<1>4. App \in Apps /\ App \in Names
  BY <1>1, <1>3, NameFacts DEF App
<1>. QED  BY <1>1, <1>2, <1>3, <1>4, ContainerTypes DEF Going, Driving, Rec

\* The pass after one more container is polled.
LEMMA ObservePass ==
  ASSUME IInv, Observing, NEW entry \in Entries, Observe(entry), setup' = setup,
         Observed(entry, local'.recs[App], setup),
         \A d \in Names \ {App} : local'.recs[d] = local.recs[d],
         local'.done = local.done, local.known => local'.known
  PROVE  /\ pass' \in PassType /\ pass'.seen = pass.seen /\ pass'.fresh = pass.fresh
         /\ GoingOK' => PassOK' /\ WriteOK' /\ Driving'
<1>1. Types /\ setup \in Setups
  BY DEF IInv, Types
<1>2. /\ NextTodo \in DOMAIN setup.apps /\ App \in Apps /\ pass.at = "observe"
      /\ pass.todo \subseteq DOMAIN setup.apps
  BY AppFacts
<1>. DEFINE p == Done(pass)
<1>3. /\ p \in PassType /\ p.at = pass.at /\ p.seen = pass.seen /\ p.fresh = pass.fresh
      /\ p.todo = pass.todo \ {NextTodo} /\ p.obs = pass.obs /\ p.unseen = pass.unseen
  BY <1>1, DoneFacts
<1>. HIDE DEF p
<1>4. pass' = [p EXCEPT !.obs[App] = entry]
  BY DEF Observe, p
<1>5. /\ pass' \in PassType /\ pass'.seen = pass.seen /\ pass'.fresh = pass.fresh
      /\ pass'.at = "observe" /\ pass'.todo = pass.todo \ {NextTodo}
      /\ pass'.unseen = pass.unseen /\ pass'.obs = [pass.obs EXCEPT ![App] = entry]
      /\ pass.obs \in [Apps -> Entries]
  BY <1>2, <1>3, <1>4 DEF PassType
<1>6. ASSUME ~pass.unseen, NEW i \in DOMAIN setup.apps \ pass'.todo
      PROVE  Observed(pass'.obs[setup.apps[i]], local'.recs[setup.apps[i]], setup)
  <2>1. CASE i = NextTodo
    BY <1>2, <1>5, <2>1 DEF App
  <2>2. CASE i # NextTodo
    <3>1. setup.apps[i] # App /\ setup.apps[i] \in Apps /\ setup.apps[i] \in Names
      BY <1>1, <1>2, <2>2, SetupFacts, NameFacts DEF App
    <3>2. i \in DOMAIN setup.apps \ pass.todo
      BY <1>5, <1>6, <2>2
    <3>3. Observed(pass.obs[setup.apps[i]], local.recs[setup.apps[i]], setup)
      BY <1>2, <1>6, <3>2 DEF IInv, PassOK, ObserveOK
    <3>. QED  BY <1>5, <3>1, <3>3
  <2>. QED  BY <2>1, <2>2
<1>7. ObserveOK'
  BY <1>2, <1>5, <1>6 DEF ObserveOK
<1>8. PastInitsOK' /\ InitOK' /\ StartOK' /\ Going'
  <2>1. setup.inits = <<>> \/ (local.known /\ local.done)
    BY <1>2 DEF IInv, PassOK, PastInitsOK
  <2>. QED  BY <1>5, <2>1 DEF PastInitsOK, InitOK, StartOK, Going
<1>. QED  BY <1>5, <1>7, <1>8, AtGoing

\* A poll that starts nothing.
LEMMA PollStep ==
  ASSUME IInv, Observing, NEW entry \in Entries, Observe(entry),
         Observed(entry, local'.recs[App], setup),
         UNCHANGED <<setup, born, orphans, pod, starts, clean, penalty, taken>>,
         local' \in {local, [local EXCEPT !.recs[App] = Noted(App)]},
         held' \in [Names -> Held], \A d \in Names : Aged(held[d], held'[d]),
         events' \in 0..MaxEvents
  PROVE  IInv'
<1>1. Types /\ World /\ Going /\ Driving /\ App \in Names /\ local \in LocalType
      /\ starts \in [Uids -> [Names -> Nat]] /\ penalty \subseteq Uids \X Names /\ taken \subseteq Uids
  BY AppFacts DEF IInv, Types
<1>2. Noted(App) \in Record
  BY <1>1, NotedRecord
<1>3. /\ local' \in LocalType /\ SameHeader
      /\ \A d \in Names : local'.recs[d] \in {local.recs[d], Noted(d)}
      /\ \A d \in Names \ {App} : local'.recs[d] = local.recs[d]
  <2>1. CASE local' = local
    BY <1>1, <2>1 DEF SameHeader
  <2>2. CASE local' = [local EXCEPT !.recs[App] = Noted(App)]
    BY <1>1, <1>2, <2>2 DEF LocalType, SameHeader
  <2>. QED  BY <2>1, <2>2
<1>4. Calm
  BY <1>1, <1>3, NotingIsCalm
<1>5. pass' \in PassType /\ pass'.seen = pass.seen /\ pass'.fresh = pass.fresh
  BY <1>3, ObservePass DEF SameHeader
<1>6. GoingOK'
  BY <1>1, <1>3, <1>5, GoingStays DEF IInv, PassOK
<1>7. PassOK' /\ WriteOK' /\ Driving'
  BY <1>3, <1>6, ObservePass DEF SameHeader
<1>8. Types'
  BY <1>1, <1>3, <1>5, PassTypes
<1>. QED  BY <1>1, <1>4, <1>5, <1>7, <1>8, CalmAdvance

LEMMA ObserveMissingStep ==
  ASSUME IInv, ObserveMissing
  PROVE  IInv'
<1>1. /\ Observing /\ ~Recorded(App) /\ Observe(Waiting)
      /\ UNCHANGED <<setup, born, orphans, pod, held, starts, clean, local, penalty, taken, events>>
  BY DEF ObserveMissing, steady
<1>2. Waiting \in Entries /\ Observed(Waiting, local'.recs[App], setup)
  BY <1>1, WaitingTyped DEF Observed, Recorded
<1>3. held' \in [Names -> Held] /\ events' \in 0..MaxEvents /\ \A d \in Names : Aged(held[d], held'[d])
  BY <1>1 DEF IInv, Types, Aged
<1>. QED  BY <1>1, <1>2, <1>3, PollStep

LEMMA ObserveUnseenStep ==
  ASSUME IInv, ObserveUnseen
  PROVE  IInv'
<1>1. /\ Observing /\ Spend(1) /\ pass' = [Done(pass) EXCEPT !.unseen = TRUE]
      /\ UNCHANGED <<setup, born, orphans, pod, held, starts, clean, local, penalty, taken>>
  BY DEF ObserveUnseen, steady, RunPolled
<1>2. Types /\ Going /\ Driving /\ pass.at = "observe" /\ pass.todo \subseteq DOMAIN setup.apps
  BY <1>1, AppFacts DEF IInv
<1>3. /\ pass' \in PassType /\ pass'.seen = pass.seen /\ pass'.fresh = pass.fresh
      /\ pass'.at = "observe" /\ pass'.todo = pass.todo \ {NextTodo} /\ pass'.unseen
  <2>. DEFINE p == Done(pass)
  <2>1. /\ p \in PassType /\ p.at = pass.at /\ p.seen = pass.seen /\ p.fresh = pass.fresh
        /\ p.todo = pass.todo \ {NextTodo}
    BY <1>2, DoneFacts
  <2>2. pass' = [p EXCEPT !.unseen = TRUE]
    BY <1>1
  <2>. HIDE DEF p
  <2>. QED  BY <1>2, <2>1, <2>2 DEF PassType
<1>4. Types'
  BY <1>1, <1>2, <1>3, Spent, PassTypes DEF Types
<1>5. Calm
  BY <1>1, StillIsDecay DEF Still
<1>6. GoingOK'
  BY <1>1, <1>2, <1>3, GoingStays DEF IInv, PassOK, SameHeader
<1>7. PastInitsOK' /\ InitOK' /\ StartOK' /\ ObserveOK' /\ Going'
  BY <1>1, <1>2, <1>3 DEF IInv, PassOK, PastInitsOK, InitOK, StartOK, ObserveOK, Going
<1>8. PassOK' /\ WriteOK' /\ Driving'
  BY <1>6, <1>7, AtGoing
<1>. QED  BY <1>1, <1>2, <1>3, <1>4, <1>5, <1>8, CalmAdvance

\* What a poll says of a container, and what is noted of it.
LEMMA PolledFacts ==
  ASSUME IInv, RunPolled # "none"
  PROVE  /\ Observing /\ Recorded(App) /\ Rec.id # NoId
         /\ RunPolled = "up" => Noted(App) = Rec /\ Rec.down = "none" /\ Up(App) /\ held[App].id = Rec.id
         /\ RunPolled # "up" => Noted(App).down # "none"
         /\ Noted(App) \in Record /\ Noted(App).id = Rec.id /\ Noted(App).count = Rec.count
         /\ Noted(App).owed = Rec.owed
         /\ Rec.down # "none" => Noted(App).down = Rec.down
<1>1. Observing /\ Recorded(App) /\ RunPolled = Polled(App, Rec.id)
  BY DEF RunPolled
<1>2. Types /\ World /\ App \in Names /\ Rec = local.recs[App]
  BY <1>1, AppFacts DEF IInv
<1>3. /\ Noted(App) \in Record /\ Noted(App).id = Rec.id
      /\ Noted(App).count = Rec.count /\ Noted(App).owed = Rec.owed
      /\ Noted(App).down # "none" <=> Recorded(App) /\ Polled(App, Rec.id) # "up"
      /\ Noted(App).down = "none" => Noted(App) = Rec
      /\ Rec.down # "none" => Noted(App).down = Rec.down
  BY <1>2, NotedRecord
<1>4. Polled(App, Rec.id) = "up" => Up(App) /\ held[App].id = Rec.id
  BY DEF Polled, Up
<1>. QED  BY <1>1, <1>2, <1>3, <1>4 DEF Recorded

LEMMA EntriesTyped ==
  ASSUME NEW id \in RunIds, id # NoId, NEW count \in Nat
  PROVE  /\ RunningEntry(id, count) \in Entries /\ BackingOff(id, count) \in Entries
         /\ \A exit \in Exits : EndedEntry(id, count, exit) \in Entries
BY DEF RunningEntry, BackingOff, EndedEntry, Entries, Entry, Exits

LEMMA ObserveUpStep ==
  ASSUME IInv, ObserveUp
  PROVE  IInv'
<1>1. /\ RunPolled = "up" /\ Observe(RunningEntry(Rec.id, Rec.count))
      /\ UNCHANGED <<setup, born, orphans, pod, held, starts, clean, local, penalty, taken, events>>
  BY DEF ObserveUp, steady
<1>2. Observing /\ Rec.id # NoId /\ Rec.down = "none"
  BY <1>1, PolledFacts
<1>3. Rec \in Record /\ Rec = local.recs[App]
  BY <1>2, AppFacts
<1>4. RunningEntry(Rec.id, Rec.count) \in Entries
  BY <1>2, <1>3, EntriesTyped DEF Record
<1>5. Observed(RunningEntry(Rec.id, Rec.count), local'.recs[App], setup)
  BY <1>1, <1>2, <1>3 DEF Observed, RunningEntry
<1>6. held' \in [Names -> Held] /\ events' \in 0..MaxEvents /\ \A d \in Names : Aged(held[d], held'[d])
  BY <1>1 DEF IInv, Types, Aged
<1>. QED  BY <1>1, <1>2, <1>4, <1>5, <1>6, PollStep

\* The noted record in the kubelet's memory.
LEMMA NotedLocal ==
  ASSUME IInv, RunPolled # "none", local' = [local EXCEPT !.recs[App] = Noted(App)]
  PROVE  local'.recs[App] = Noted(App)
<1>1. App \in Names /\ local \in LocalType
  BY PolledFacts, AppFacts DEF IInv, Types
<1>. QED  BY <1>1 DEF LocalType

LEMMA ObserveLatchedStep ==
  ASSUME IInv, ObserveLatched
  PROVE  IInv'
<1>1. /\ Down /\ local' = [local EXCEPT !.recs[App] = Noted(App)] /\ Observe(EndedObs)
      /\ UNCHANGED <<setup, born, orphans, pod, held, starts, clean, penalty, taken, events>>
  BY DEF ObserveLatched, steady
<1>2. RunPolled # "none" /\ RunPolled # "up"
  BY <1>1 DEF Down
<1>3. /\ Observing /\ Rec.id # NoId /\ Noted(App).down # "none" /\ Noted(App) \in Record
      /\ Noted(App).id = Rec.id /\ Noted(App).count = Rec.count
  BY <1>2, PolledFacts
<1>4. Rec \in Record
  BY <1>3, AppFacts
<1>5. EndedObs \in Entries
  <2>1. Noted(App).down \in Exits
    BY <1>3 DEF Record
  <2>. QED  BY <1>3, <1>4, <2>1, EntriesTyped DEF EndedObs, Record
<1>6. Observed(EndedObs, local'.recs[App], setup)
  <2>1. local'.recs[App] = Noted(App)
    BY <1>1, <1>2, NotedLocal
  <2>. QED  BY <1>3, <2>1 DEF Observed, EndedObs, EndedEntry
<1>7. held' \in [Names -> Held] /\ events' \in 0..MaxEvents /\ \A d \in Names : Aged(held[d], held'[d])
  BY <1>1 DEF IInv, Types, Aged
<1>. QED  BY <1>1, <1>3, <1>5, <1>6, <1>7, PollStep

LEMMA ObserveBackOffStep ==
  ASSUME IInv, ObserveBackOff
  PROVE  IInv'
<1>1. /\ Down /\ Restarts /\ local' = [local EXCEPT !.recs[App] = Noted(App)]
      /\ Observe(BackingOff(Rec.id, Rec.count))
      /\ UNCHANGED <<setup, born, orphans, pod, held, starts, clean, penalty, taken, events>>
  BY DEF ObserveBackOff, steady
<1>2. RunPolled # "none" /\ RunPolled # "up"
  BY <1>1 DEF Down
<1>3. /\ Observing /\ Rec.id # NoId /\ Noted(App).down # "none" /\ Noted(App) \in Record
      /\ Noted(App).id = Rec.id /\ Noted(App).count = Rec.count
  BY <1>2, PolledFacts
<1>4. Rec \in Record
  BY <1>3, AppFacts
<1>5. BackingOff(Rec.id, Rec.count) \in Entries
  BY <1>3, <1>4, EntriesTyped DEF Record
<1>6. Observed(BackingOff(Rec.id, Rec.count), local'.recs[App], setup)
  <2>1. local'.recs[App] = Noted(App)
    BY <1>1, <1>2, NotedLocal
  <2>2. ShouldRestart(setup.policy, Noted(App).down)
    BY <1>1 DEF Restarts
  <2>. QED  BY <1>3, <2>1, <2>2 DEF Observed, BackingOff, RunningEntry
<1>7. held' \in [Names -> Held] /\ events' \in 0..MaxEvents /\ \A d \in Names : Aged(held[d], held'[d])
  BY <1>1 DEF IInv, Types, Aged
<1>. QED  BY <1>1, <1>3, <1>5, <1>6, <1>7, PollStep

\* A container whose end the status is final with is not started again.
LEMMA SettledLatched ==
  ASSUME IInv, Observing, Same, pod.uid \notin taken, pass.seen.phase \in Terminal
  PROVE  Rec.down # "none" /\ ~ShouldRestart(setup.policy, Rec.down)
<1>1. App \in Apps /\ Going /\ pass.at = "observe" /\ Rec = local.recs[App]
  BY AppFacts
<1>2. Settled(pod.apps, pod.phase, setup, local)
  BY <1>1, SeenSettled
<1>3. ~Doomed(setup, local)
  BY <1>1 DEF IInv, PassOK, PastInitsOK, Doomed
<1>4. pod.apps \in [Apps -> Entries]
  BY PodStatus DEF IInv
<1>5. pod.apps[App].exit \in Exits /\ Rec.down = pod.apps[App].exit
      /\ ~ShouldRestart(setup.policy, pod.apps[App].exit)
  BY <1>1, <1>2, <1>3, <1>4 DEF Settled, Finished, Entries, Entry
<1>. QED  BY <1>5 DEF Exits

\* The record of a run that replaces another.
Again(id, n, owed) == [[NewRecord(NoId, n) EXCEPT !.owed = owed] EXCEPT !.id = id]

LEMMA AgainRecord ==
  ASSUME NEW id \in RunIds, NEW n \in Nat, NEW owed, owed \in BOOLEAN
  PROVE  /\ Again(id, n, owed) \in Record
         /\ Again(id, n, owed).id = id /\ Again(id, n, owed).count = n
         /\ Again(id, n, owed).down = "none"
<1>. DEFINE again == [NewRecord(NoId, n) EXCEPT !.owed = owed]
<1>1. NoRecord \in Record /\ NoRecord.down = "none"
  BY DEF NoRecord, Record, NoId, RunIds
<1>2. NewRecord(NoId, n) \in Record /\ NewRecord(NoId, n).down = "none" /\ NewRecord(NoId, n).count = n
  BY <1>1, WaitingTyped DEF NewRecord, Record
<1>3. again \in Record /\ again.down = "none" /\ again.count = n
  BY <1>2 DEF Record
<1>4. Again(id, n, owed) = [again EXCEPT !.id = id]
  BY DEF Again
<1>. HIDE DEF again
<1>. QED  BY <1>3, <1>4 DEF Record

\* Once the old run is gone a launch starts one or fails.
LEMMA RelaunchOutcome ==
  ASSUME Types, World, NEW c \in Names, NEW u \in Uids, u \in Nat \ {0}, NEW h,
         h[c] = Gone, NEW r \in Launch(c, u, h)
  PROVE  \/ r.id = NoId /\ r.held = h /\ r.starts = starts /\ r.cost = 1
         \/ /\ r.id = <<u, starts[u][c] + 1>> /\ r.id # NoId /\ r.id \in RunIds
            /\ r.held = [h EXCEPT ![c] = [id |-> r.id, run |-> "up"]]
            /\ r.starts = [starts EXCEPT ![u][c] = @ + 1] /\ r.cost = 0
<1>. DEFINE id == <<u, starts[u][c] + 1>>
<1>1. h[c].run = "gone"
  BY DEF Gone
<1>2. \/ r = [id |-> NoId, held |-> h, starts |-> starts, cost |-> 1]
      \/ r = [id |-> id, held |-> [h EXCEPT ![c] = [id |-> id, run |-> "up"]],
              starts |-> [starts EXCEPT ![u][c] = @ + 1], cost |-> 0]
  BY <1>1 DEF Launch
<1>3. CASE r = [id |-> NoId, held |-> h, starts |-> starts, cost |-> 1]
  BY <1>3
<1>4. CASE r = [id |-> id, held |-> [h EXCEPT ![c] = [id |-> id, run |-> "up"]],
                starts |-> [starts EXCEPT ![u][c] = @ + 1], cost |-> 0]
  <2>1. starts[u][c] \in Nat
    BY StartsFacts
  <2>2. id # NoId /\ id \in RunIds
    BY <2>1 DEF NoId, RunIds
  <2>3. /\ r.id = id /\ r.held = [h EXCEPT ![c] = [id |-> r.id, run |-> "up"]]
        /\ r.starts = [starts EXCEPT ![u][c] = @ + 1] /\ r.cost = 0
    BY <1>4
  <2>. QED  BY <2>2, <2>3
<1>. QED  BY <1>2, <1>3, <1>4

LEMMA RelaunchStep ==
  ASSUME IInv, RunPolled # "none", NEW owed, owed \in BOOLEAN, NEW entry \in Entries, NEW cost \in Nat,
         Relaunch(owed, entry, cost), UNCHANGED <<setup, born, orphans, pod, clean>>,
         Observed(entry, Noted(App), setup),
         ~(Same /\ pod.uid \notin taken /\ pass.seen.phase \in Terminal)
  PROVE  IInv'
<1>. DEFINE u == pass.seen.uid
            noted == [local EXCEPT !.recs[App] = Noted(App)]
            again == [NewRecord(NoId, Rec.count + 1) EXCEPT !.owed = owed]
<1>1. /\ Observing /\ Recorded(App) /\ Rec.id # NoId
      /\ Noted(App) \in Record
  BY PolledFacts
<1>2. /\ App \in Apps /\ App \in Names /\ Going /\ Driving /\ Rec \in Record /\ Rec = local.recs[App]
      /\ Types /\ World
  BY <1>1, AppFacts DEF IInv
<1>3. /\ held \in [Names -> Held] /\ starts \in [Uids -> [Names -> Nat]] /\ local \in LocalType
      /\ penalty \subseteq Uids \X Names /\ taken \subseteq Uids /\ u \in Uids /\ u \in Nat \ {0}
  BY <1>2, SeenUid DEF Types, IInv
<1>4. <<u, App>> \notin penalty /\ taken' = taken
  BY DEF Relaunch
<1>5. PICK k \in Clear(App, Rec.id) :
           \/ /\ ~k.ok /\ Spend(cost + k.cost)
              /\ held' = k.held
              /\ local' = noted /\ Observe(entry)
              /\ UNCHANGED <<starts, penalty>>
           \/ /\ k.ok
              /\ \E r \in Launch(App, u, k.held) :
                    /\ held' = r.held
                    /\ starts' = r.starts
                    /\ Spend(cost + r.cost)
                    /\ \/ /\ r.id = NoId
                          /\ penalty' = penalty \cup {<<u, App>>}
                          /\ local' = noted /\ Observe(entry)
                       \/ /\ r.id # NoId
                          /\ local' = [local EXCEPT !.recs[App] = [again EXCEPT !.id = r.id]]
                          /\ Observe(RunningEntry(r.id, Rec.count + 1))
                          /\ UNCHANGED penalty
  BY DEF Relaunch
<1>6. /\ k.held \in [Names -> Held] /\ k.cost \in {0, 1}
      /\ \A d \in Names : Aged(held[d], k.held[d])
      /\ k.ok => k.held = [held EXCEPT ![App] = Gone]
  BY <1>1, <1>2, <1>5, ClearOutcome
<1>7. ASSUME local' = noted
      PROVE  /\ local' \in LocalType /\ SameHeader /\ local'.recs[App] = Noted(App)
             /\ \A d \in Names \ {App} : local'.recs[d] = local.recs[d]
             /\ \A d \in Names : local'.recs[d] \in {local.recs[d], Noted(d)}
  BY <1>1, <1>2, <1>3, <1>7 DEF LocalType, SameHeader
<1>8. CASE /\ ~k.ok /\ Spend(cost + k.cost)
           /\ held' = k.held
           /\ local' = noted /\ Observe(entry)
           /\ UNCHANGED <<starts, penalty>>
  <2>1. events' \in 0..MaxEvents
    <3>1. cost + k.cost \in Nat
      BY <1>6
    <3>. QED  BY <1>2, <1>8, <3>1, Spent
  <2>2. Observed(entry, local'.recs[App], setup)
    BY <1>7, <1>8
  <2>. QED  BY <1>1, <1>4, <1>6, <1>8, <2>1, <2>2, PollStep
<1>9. CASE /\ k.ok
           /\ \E r \in Launch(App, u, k.held) :
                    /\ held' = r.held
                    /\ starts' = r.starts
                    /\ Spend(cost + r.cost)
                    /\ \/ /\ r.id = NoId
                          /\ penalty' = penalty \cup {<<u, App>>}
                          /\ local' = noted /\ Observe(entry)
                       \/ /\ r.id # NoId
                          /\ local' = [local EXCEPT !.recs[App] = [again EXCEPT !.id = r.id]]
                          /\ Observe(RunningEntry(r.id, Rec.count + 1))
                          /\ UNCHANGED penalty
  <2>1. PICK r \in Launch(App, u, k.held) :
                    /\ held' = r.held
                    /\ starts' = r.starts
                    /\ Spend(cost + r.cost)
                    /\ \/ /\ r.id = NoId
                          /\ penalty' = penalty \cup {<<u, App>>}
                          /\ local' = noted /\ Observe(entry)
                       \/ /\ r.id # NoId
                          /\ local' = [local EXCEPT !.recs[App] = [again EXCEPT !.id = r.id]]
                          /\ Observe(RunningEntry(r.id, Rec.count + 1))
                          /\ UNCHANGED penalty
    BY <1>9
  <2>2. k.held = [held EXCEPT ![App] = Gone] /\ k.held[App] = Gone
        /\ \A d \in Names \ {App} : k.held[d] = held[d]
    BY <1>2, <1>3, <1>6, <1>9
  <2>3. \/ r.id = NoId /\ r.held = k.held /\ r.starts = starts /\ r.cost = 1
        \/ /\ r.id = <<u, starts[u][App] + 1>> /\ r.id # NoId /\ r.id \in RunIds
           /\ r.held = [k.held EXCEPT ![App] = [id |-> r.id, run |-> "up"]]
           /\ r.starts = [starts EXCEPT ![u][App] = @ + 1] /\ r.cost = 0
    <3>1. u \in Uids /\ u \in Nat \ {0} /\ r \in Launch(App, u, k.held)
      BY <1>3
    <3>. HIDE DEF u, noted, again
    <3>2. PICK h, v, c : h = k.held /\ v = u /\ c = App
      OBVIOUS
    <3>3. /\ Types /\ World /\ c \in Names /\ v \in Uids /\ v \in Nat \ {0}
          /\ h[c] = Gone /\ r \in Launch(c, v, h)
      BY <1>2, <2>2, <3>1, <3>2
    <3>4. \/ r.id = NoId /\ r.held = h /\ r.starts = starts /\ r.cost = 1
          \/ /\ r.id = <<v, starts[v][c] + 1>> /\ r.id # NoId /\ r.id \in RunIds
             /\ r.held = [h EXCEPT ![c] = [id |-> r.id, run |-> "up"]]
             /\ r.starts = [starts EXCEPT ![v][c] = @ + 1] /\ r.cost = 0
      BY ONLY <3>3, RelaunchOutcome
    <3>. QED  BY <3>2, <3>4
  <2>4. events' \in 0..MaxEvents
    <3>1. cost + r.cost \in Nat
      BY <2>3
    <3>. QED  BY <1>2, <2>1, <3>1, Spent
  <2>5. CASE r.id = NoId
    <3>1. /\ held' = k.held /\ starts' = starts /\ local' = noted /\ Observe(entry)
          /\ penalty' = penalty \cup {<<u, App>>}
      BY <2>1, <2>3, <2>5
    <3>2. /\ local' \in LocalType /\ SameHeader /\ local'.recs[App] = Noted(App)
          /\ \A d \in Names \ {App} : local'.recs[d] = local.recs[d]
          /\ \A d \in Names : local'.recs[d] \in {local.recs[d], Noted(d)}
      BY <1>7, <3>1
    <3>3. Calm
      BY <1>2, <1>4, <1>6, <3>1, <3>2, NotingIsCalm
    <3>4. Observed(entry, local'.recs[App], setup)
      BY <3>2
    <3>5. pass' \in PassType /\ pass'.seen = pass.seen /\ pass'.fresh = pass.fresh
      BY <1>1, <3>1, <3>2, <3>4, ObservePass DEF SameHeader
    <3>6. GoingOK'
      BY <1>2, <1>4, <3>2, <3>5, GoingStays DEF IInv, PassOK
    <3>7. PassOK' /\ WriteOK' /\ Driving'
      BY <1>1, <3>1, <3>2, <3>4, <3>6, ObservePass DEF SameHeader
    <3>8. Types'
      <4>1. penalty' \subseteq Uids \X Names
        BY <1>2, <1>3, <3>1
      <4>. QED  BY <1>2, <1>3, <1>4, <1>6, <2>4, <3>1, <3>2, <3>5, <4>1, PassTypes
    <3>9. PICK a : a = App
      OBVIOUS
    <3>10. held'[a] = Gone /\ penalty' = penalty \cup {<<pass.seen.uid, a>>}
      BY <2>2, <3>1, <3>9
    <3>11. ~(a \in Apps /\ Recorded(a)' /\ Up(a)')
      BY <3>10 DEF Up, Gone
    <3>. QED  BY <1>2, <1>4, <3>3, <3>5, <3>7, <3>8, <3>10, <3>11, FailAdvance
  <2>6. CASE r.id # NoId
    <3>. DEFINE rec == [again EXCEPT !.id = r.id]
    <3>1. /\ r.id = <<u, starts[u][App] + 1>> /\ r.id \in RunIds
          /\ held' = [k.held EXCEPT ![App] = [id |-> r.id, run |-> "up"]]
          /\ starts' = [starts EXCEPT ![u][App] = @ + 1]
          /\ local' = [local EXCEPT !.recs[App] = rec]
          /\ Observe(RunningEntry(r.id, Rec.count + 1)) /\ penalty' = penalty
      BY <2>1, <2>3, <2>6
    <3>2. rec \in Record /\ rec.id = r.id /\ rec.count = Rec.count + 1 /\ rec.down = "none"
          /\ Rec.count \in Nat
      <4>1. Rec.count \in Nat
        BY <1>2 DEF Record
      <4>2. Rec.count + 1 \in Nat /\ r.id \in RunIds
        BY <3>1, <4>1
      <4>3. rec = Again(r.id, Rec.count + 1, owed)
        BY DEF Again
      <4>. HIDE DEF rec
      <4>. QED  BY <4>1, <4>2, <4>3, AgainRecord
    <3>. HIDE DEF rec
    <3>3. /\ local' \in LocalType /\ SameHeader /\ local'.recs[App] = rec
          /\ \A d \in Names \ {App} : local'.recs[d] = local.recs[d]
      BY <1>2, <1>3, <3>1, <3>2 DEF LocalType, SameHeader
    <3>4. /\ held' \in [Names -> Held] /\ held'[App] = [id |-> r.id, run |-> "up"]
          /\ \A d \in Names \ {App} : held'[d] = held[d]
      <4>1. [id |-> r.id, run |-> "up"] \in Held
        BY <3>1 DEF Held
      <4>. QED  BY <1>2, <1>6, <2>2, <3>1, <4>1
    <3>5. starts' \in [Uids -> [Names -> Nat]]
      BY <1>2, <1>3, <3>1
    <3>6. local.known
      BY <1>1, <1>2 DEF World, LocalOK
    <3>7. Launching(App, u)
      BY <1>2, <1>3, <3>2, <3>3, <3>4, <3>6 DEF Launching, SameHeader
    <3>8. Fresh(App, u)
      BY <1>4, <3>1, <3>4, <3>7 DEF Fresh
    <3>9. RunningEntry(r.id, Rec.count + 1) \in Entries
      BY <2>6, <3>1, <3>2, EntriesTyped
    <3>10. Observed(RunningEntry(r.id, Rec.count + 1), local'.recs[App], setup)
      BY <2>6, <3>2, <3>3 DEF Observed, RunningEntry
    <3>11. pass' \in PassType /\ pass'.seen = pass.seen /\ pass'.fresh = pass.fresh
      BY <1>1, <3>1, <3>3, <3>9, <3>10, ObservePass DEF SameHeader
    <3>12. GoingOK'
      BY <1>2, <1>4, <3>7, <3>11, LaunchGoing
    <3>13. PassOK' /\ WriteOK' /\ Driving'
      BY <1>1, <3>1, <3>3, <3>9, <3>10, <3>12, ObservePass DEF SameHeader
    <3>14. Types'
      BY <1>2, <1>3, <1>4, <2>4, <3>1, <3>3, <3>4, <3>5, <3>11, PassTypes
    <3>15. pod.apps[App].id # NoId => local'.recs[App].count > pod.apps[App].count
      <4>1. pod.apps \in [Apps -> Entries]
        BY PodStatus DEF IInv
      <4>2. Told(pod.apps[App], App, held[App], Rec, starts)
        BY <1>2, <4>1 DEF IInv, PodOK, StatusOK, AllTold
      <4>3. pod.apps[App].count \in Nat
        BY <1>2, <4>1 DEF Entries, Entry
      <4>. QED  BY <1>1, <3>2, <3>3, <4>2, <4>3 DEF Told
    <3>. QED  BY <1>2, <1>4, <3>1, <3>8, <3>11, <3>13, <3>14, <3>15, FreshAdvance
  <2>. QED  BY <2>5, <2>6
<1>. QED  BY <1>5, <1>8, <1>9

LEMMA ProbeTripStep ==
  ASSUME IInv, ProbeTrip
  PROVE  IInv'
<1>1. /\ RunPolled = "up" /\ UNCHANGED <<setup, born, orphans, pod, clean>>
  BY DEF ProbeTrip, steady
<1>2. /\ Observing /\ Rec.id # NoId /\ Noted(App) = Rec /\ Rec.down = "none" /\ Up(App)
  BY <1>1, PolledFacts
<1>3. /\ Rec \in Record /\ App \in Names /\ Rec = local.recs[App] /\ held[App] \in Held
      /\ held \in [Names -> Held] /\ Types
  BY <1>2, AppFacts DEF IInv, Types
<1>. DEFINE entry == RunningEntry(Rec.id, Rec.count)
<1>4. entry \in Entries /\ Observed(entry, Rec, setup)
  <2>1. entry \in Entries
    BY <1>2, <1>3, EntriesTyped DEF Record
  <2>. QED  BY <1>2, <2>1 DEF Observed, RunningEntry
<1>. HIDE DEF entry
<1>5. CASE Relaunch(Rec.owed, entry, 1)
  <2>1. ~(Same /\ pod.uid \notin taken /\ pass.seen.phase \in Terminal)
    BY <1>2, SettledLatched
  <2>2. Rec.owed \in BOOLEAN
    BY <1>3 DEF Record
  <2>. QED  BY <1>1, <1>2, <1>4, <1>5, <2>1, <2>2, RelaunchStep
<1>6. CASE /\ \E run \in {held[App].run, "stopping"} : held' = [held EXCEPT ![App].run = run]
           /\ Observe(entry) /\ Spend(1)
           /\ UNCHANGED <<starts, local, penalty, taken>>
  <2>1. PICK run \in {held[App].run, "stopping"} : held' = [held EXCEPT ![App].run = run]
    BY <1>6
  <2>2. held'[App].id = held[App].id /\ held'[App].run = run /\ held' \in [Names -> Held]
        /\ (run = held[App].run => held'[App] = held[App])
        /\ \A d \in Names \ {App} : held'[d] = held[d]
    BY <1>3, <2>1 DEF Held
  <2>3. \A d \in Names : Aged(held[d], held'[d])
    BY <1>2, <2>1, <2>2 DEF Aged, Lives, Up
  <2>4. events' \in 0..MaxEvents
    BY <1>3, <1>6, Spent
  <2>5. Observed(entry, local'.recs[App], setup)
    BY <1>3, <1>4, <1>6
  <2>. QED  BY <1>1, <1>2, <1>4, <1>6, <2>2, <2>3, <2>4, <2>5, PollStep
<1>. QED  BY <1>5, <1>6 DEF ProbeTrip, entry

LEMMA ObserveRestartStep ==
  ASSUME IInv, ObserveRestart
  PROVE  IInv'
<1>1. /\ Down /\ Restarts /\ Relaunch(TRUE, EndedObs, 0) /\ UNCHANGED <<setup, born, orphans, pod, clean>>
  BY DEF ObserveRestart, steady
<1>2. RunPolled # "none" /\ RunPolled # "up"
  BY <1>1 DEF Down
<1>3. /\ Observing /\ Rec.id # NoId /\ Noted(App).down # "none" /\ Noted(App) \in Record
      /\ Noted(App).id = Rec.id /\ Noted(App).count = Rec.count
      /\ Rec.down # "none" => Noted(App).down = Rec.down
  BY <1>2, PolledFacts
<1>4. Rec \in Record
  BY <1>3, AppFacts
<1>5. EndedObs \in Entries
  <2>1. Noted(App).down \in Exits
    BY <1>3 DEF Record
  <2>. QED  BY <1>3, <1>4, <2>1, EntriesTyped DEF EndedObs, Record
<1>6. Observed(EndedObs, Noted(App), setup)
  BY <1>3 DEF Observed, EndedObs, EndedEntry
<1>7. ~(Same /\ pod.uid \notin taken /\ pass.seen.phase \in Terminal)
  BY <1>1, <1>3, SettledLatched DEF Restarts
<1>. QED  BY <1>1, <1>2, <1>5, <1>6, <1>7, RelaunchStep

-----------------------------------------------------------------------------
(***************************************************************************)
(* The status: what the polls are folded into, and its publication.        *)
(***************************************************************************)
\* A final phase is folded only from containers that ended for good.
LEMMA PhaseFacts ==
  ASSUME NEW policy, NEW obs, NEW started, NEW names, names # {}, obs \in [names -> Entries],
         NEW ph, ph = ReconcilePodPhase(policy, obs, started)
  PROVE  /\ ph \in Phases
         /\ ph \in Terminal =>
              \A c \in names : /\ obs[c].state # "running"
                               /\ obs[c].state = "waiting" => policy = "Never" /\ c \in started
                               /\ obs[c].state = "ended" => ~ShouldRestart(policy, obs[c].exit)
                               /\ ph = "Succeeded" => obs[c].exit = "ok"
<1>. DEFINE pending == \E c \in DOMAIN obs \ started : obs[c].state = "waiting"
            live == \/ (\E c \in DOMAIN obs : obs[c].state = "waiting") /\ policy # "Never"
                    \/ \E c \in DOMAIN obs : obs[c].state = "ended" /\ ShouldRestart(policy, obs[c].exit)
                    \/ \E c \in DOMAIN obs : obs[c].state = "running"
<1>1. DOMAIN obs = names /\ DOMAIN obs # {}
  OBVIOUS
<1>2. CASE pending
  <2>1. ph = "Pending"
    BY <1>1, <1>2 DEF ReconcilePodPhase
  <2>. QED  BY <2>1 DEF Phases, Terminal
<1>3. CASE ~pending /\ live
  <2>1. ph = "Running"
    BY <1>1, <1>3 DEF ReconcilePodPhase
  <2>. QED  BY <2>1 DEF Phases, Terminal
<1>4. CASE ~pending /\ ~live
  <2>1. ph = IF AllSucceeded(obs) THEN "Succeeded" ELSE "Failed"
    BY <1>1, <1>4 DEF ReconcilePodPhase
  <2>2. ph \in Phases /\ (ph = "Succeeded" => AllSucceeded(obs))
    BY <2>1 DEF Phases, Terminal
  <2>3. \A c \in names : /\ obs[c].state # "running"
                         /\ obs[c].state = "waiting" => policy = "Never" /\ c \in started
                         /\ obs[c].state = "ended" => ~ShouldRestart(policy, obs[c].exit)
    BY <1>1, <1>4
  <2>4. ph = "Succeeded" => \A c \in names : obs[c].exit = "ok"
    BY <1>1, <2>2 DEF AllSucceeded
  <2>. QED  BY <2>2, <2>3, <2>4
<1>. QED  BY <1>2, <1>3, <1>4

\* What a poll found may be published.
LEMMA ObservedTold ==
  ASSUME NEW c, NEW st, NEW cl, NEW h \in Held, NEW r \in Record, NEW e, NEW s,
         RecOK(c, h, r, st, cl), Observed(e, r, s)
  PROVE  Told(e, c, h, r, st)
<1>1. CASE r.id = NoId /\ e = Waiting
  <2>1. e.id = NoId /\ e.state = "waiting"
    BY <1>1 DEF Waiting
  <2>. QED  BY <1>1, <2>1 DEF Told
<1>2. CASE /\ r.id # NoId /\ e.id = r.id /\ e.count = r.count
           /\ \/ e.state = "running" /\ r.down = "none"
              \/ e.state = "ended" /\ r.down # "none" /\ e.exit = r.down
              \/ e.state = "waiting" /\ r.down # "none" /\ ShouldRestart(s.policy, r.down)
  <2>1. Started(c, r.id, st)
    BY <1>2 DEF RecOK
  <2>2. e.state = "ended" /\ Lives(h) => h.id # e.id
    <3>1. e.state = "ended" => r.down \in Exits
      BY <1>2 DEF Record
    <3>. QED  BY <1>2, <3>1 DEF RecOK, Lives, Exits
  <2>3. e.state = "ended" => e.exit = r.down
    BY <1>2
  <2>. QED  BY <1>2, <2>1, <2>2, <2>3 DEF Told
<1>. QED  BY <1>1, <1>2 DEF Observed

LEMMA ObservedFollows ==
  ASSUME NEW c, NEW st, NEW h, NEW r, NEW e, NEW s, NEW old, Told(old, c, h, r, st), Observed(e, r, s)
  PROVE  Follows(old, e)
BY DEF Told, Follows, Observed, Waiting

LEMMA ObservedRun ==
  ASSUME NEW r, NEW e, NEW s, Observed(e, r, s)
  PROVE  (StoredUp(e) => r.id # NoId) /\ (e.id = NoId \/ (e.id = r.id /\ r.id # NoId))
BY DEF Observed, Waiting, StoredUp

\* A final status that a poll arrives at is borne out by the record.
LEMMA ObservedFinished ==
  ASSUME NEW names, NEW apps \in [names -> Entries], NEW s, NEW loc,
         NEW old \in [names -> Entries], NEW ph,
         \A c \in names : loc.recs[c] \in Record /\ Observed(apps[c], loc.recs[c], s),
         Finished(old, ph, s, loc)
  PROVE  Finished(apps, ph, s, loc)
<1>1. s.inits = <<>> \/ loc.done
  BY DEF Finished
<1>2. ASSUME NEW c \in names
      PROVE  /\ apps[c].state = "ended" /\ apps[c].id # NoId
             /\ loc.recs[c].id = apps[c].id /\ loc.recs[c].down = apps[c].exit
             /\ ~ShouldRestart(s.policy, apps[c].exit)
             /\ ph = "Succeeded" => apps[c].exit = "ok"
  <2>1. /\ old[c].id # NoId /\ loc.recs[c].id = old[c].id /\ loc.recs[c].down = old[c].exit
        /\ ~ShouldRestart(s.policy, old[c].exit)
        /\ ph = "Succeeded" => old[c].exit = "ok"
    BY DEF Finished
  <2>2. old[c].exit # "none"
    BY DEF Entries, Entry, Exits
  <2>3. Observed(apps[c], loc.recs[c], s)
    OBVIOUS
  <2>. QED  BY <2>1, <2>2, <2>3 DEF Observed
<1>. QED  BY <1>1, <1>2 DEF Finished

LEMMA FoldFinished ==
  ASSUME NEW names, NEW apps \in [names -> Entries], NEW s, NEW loc, NEW started, NEW ph,
         names # {}, \A c \in started : loc.recs[c].id # NoId,
         \A c \in names : loc.recs[c] \in Record /\ Observed(apps[c], loc.recs[c], s),
         s.inits = <<>> \/ loc.done,
         ph = ReconcilePodPhase(s.policy, apps, started), ph \in Terminal
  PROVE  Finished(apps, ph, s, loc)
<1>1. ASSUME NEW c \in names
      PROVE  /\ apps[c].state = "ended" /\ apps[c].id # NoId
             /\ loc.recs[c].id = apps[c].id /\ loc.recs[c].down = apps[c].exit
             /\ ~ShouldRestart(s.policy, apps[c].exit)
             /\ ph = "Succeeded" => apps[c].exit = "ok"
  <2>1. /\ apps[c].state # "running"
        /\ apps[c].state = "waiting" => s.policy = "Never" /\ c \in started
        /\ apps[c].state = "ended" => ~ShouldRestart(s.policy, apps[c].exit)
        /\ ph = "Succeeded" => apps[c].exit = "ok"
    BY PhaseFacts
  <2>2. Observed(apps[c], loc.recs[c], s)
    OBVIOUS
  <2>3. apps[c].state # "waiting"
    BY <2>1, <2>2 DEF Observed, ShouldRestart
  <2>. QED  BY <2>1, <2>2, <2>3 DEF Observed, Waiting
<1>. QED  BY <1>1 DEF Finished

LEMMA FinishedIsFinal ==
  ASSUME NEW apps, NEW ph, NEW s, NEW loc, NEW h, NEW st, NEW cl, Finished(apps, ph, s, loc),
         \A c \in DOMAIN apps : RecOK(c, h[c], loc.recs[c], st, cl)
  PROVE  Final(apps, ph, cl)
<1>1. ASSUME NEW c \in DOMAIN apps
      PROVE  apps[c].state = "ended" /\ (ph = "Succeeded" => <<c, apps[c].id>> \in cl)
  BY DEF Finished, RecOK
<1>. QED  BY <1>1 DEF Final

LEMMA FoldStep ==
  ASSUME IInv, Fold
  PROVE  IInv'
<1>. DEFINE ph == ReconcilePodPhase(setup.policy, pass.obs, {c \in Apps : Recorded(c)})
            out == PhaseToPublish(pass.seen.phase, ph)
<1>1. /\ pass.at = "observe" /\ pass.todo = {}
      /\ pass' = IF pass.unseen THEN Idle ELSE Writes(pass, ph, pass.obs, RecordedInits)
      /\ UNCHANGED <<setup, born, orphans, pod, held, starts, clean, local, penalty, taken, events>>
  BY DEF Fold, steady
<1>2. Types /\ setup \in Setups /\ pass \in PassType /\ pass.obs \in [Apps -> Entries] /\ Apps # {}
      /\ Apps \subseteq Names
  BY NameFacts DEF IInv, Types, PassType
<1>3. Calm /\ Driving /\ Going
  BY <1>1, StillIsDecay DEF Still, Driving, Going
<1>4. CASE pass.unseen
  BY <1>1, <1>2, <1>3, <1>4, IdleStep DEF Types
<1>5. CASE ~pass.unseen
  <2>1. pass' = Writes(pass, ph, pass.obs, RecordedInits)
    BY <1>1, <1>5
  <2>2. ph \in Phases
    BY <1>2, PhaseFacts
  <2>3. RecordedInits \in [Inits -> RunIds]
    BY <1>2, InitsTyped
  <2>. HIDE DEF ph
  <2>4. /\ pass' \in PassType /\ pass'.at = "write" /\ pass'.seen = pass.seen
        /\ pass'.fresh = pass.fresh /\ pass'.out.phase = ph /\ pass'.out.apps = pass.obs
    BY <1>2, <2>1, <2>2, <2>3, WritesTyped
  <2>5. Types'
    BY <1>1, <1>2, <2>4, PassTypes DEF Types
  <2>6. ASSUME NEW c \in Apps
        PROVE  /\ Observed(pass.obs[c], local.recs[c], setup)
               /\ local.recs[c] \in Record /\ held[c] \in Held
               /\ RecOK(c, held[c], local.recs[c], starts, clean)
    <3>1. PICK i \in DOMAIN setup.apps : c = setup.apps[i]
      BY <1>2, NameFacts
    <3>2. Observed(pass.obs[c], local.recs[c], setup)
      BY <1>1, <1>5, <3>1 DEF IInv, PassOK, ObserveOK
    <3>. QED  BY <1>2, <3>2, ContainerTypes DEF IInv, World, Containers
  <2>7. setup.inits = <<>> \/ local.done
    BY <1>1 DEF IInv, PassOK, PastInitsOK
  <2>8. DOMAIN pass.obs = Apps
    BY <1>2
  <2>9. ASSUME Same
        PROVE  /\ \A c \in Apps : Follows(pass.seen.apps[c], pass.obs[c])
               /\ StatusOK(pod.uid, out, pass.obs, setup, local, held, starts, clean, taken)
    <3>1. pod.apps = pass.seen.apps /\ pod.apps \in [Apps -> Entries] /\ pod.uid = pass.seen.uid
      BY <1>2, <1>3, <2>9, PodStatus DEF IInv, SeenOK, Same
    <3>2. \A c \in Apps : Told(pod.apps[c], c, held[c], local.recs[c], starts)
      BY <3>1 DEF IInv, PodOK, StatusOK, AllTold
    <3>3. ASSUME NEW c \in Apps
          PROVE  /\ Told(pass.obs[c], c, held[c], local.recs[c], starts)
                 /\ Follows(pass.seen.apps[c], pass.obs[c])
                 /\ StoredUp(pass.obs[c]) => local.recs[c].id # NoId
                 /\ pass.obs[c].id = NoId \/ (pass.obs[c].id = local.recs[c].id /\ Recorded(c))
      <4>1. /\ Observed(pass.obs[c], local.recs[c], setup)
            /\ local.recs[c] \in Record /\ held[c] \in Held
            /\ RecOK(c, held[c], local.recs[c], starts, clean)
        BY <2>6
      <4>2. Told(pass.obs[c], c, held[c], local.recs[c], starts)
        BY <4>1, ObservedTold
      <4>3. Follows(pod.apps[c], pass.obs[c])
        BY <3>2, <4>1, ObservedFollows
      <4>. QED  BY <3>1, <4>1, <4>2, <4>3, ObservedRun DEF Recorded
    <3>4. AllTold(pass.obs, held, local, starts)
      BY <2>8, <3>3 DEF AllTold
    <3>5. ASSUME pod.uid \notin taken
          PROVE  Standing(pod.uid, out, pass.obs, setup, local, clean)
      <4>1. \A c \in Apps : pass.obs[c].id[1] \in {0, pod.uid}
        <5>. SUFFICES ASSUME NEW c \in Apps, pass.obs[c].id # NoId
                      PROVE  pass.obs[c].id[1] = pod.uid
          BY DEF NoId
        <5>1. pass.obs[c].id = local.recs[c].id /\ Recorded(c) /\ local.known
          BY <1>2, <3>3 DEF IInv, World, LocalOK
        <5>2. local.uid = pod.uid
          BY <1>3, <3>1, <3>5, <5>1 DEF IInv, PassOK, GoingOK
        <5>3. ~Spoiled(local.uid)
          <6>1. \A t \in taken : t <= pod.uid /\ t \in Nat /\ t # pod.uid
            BY <1>2, <1>3, <3>1, <3>5 DEF IInv, UidsOK, Types, Uids
          <6>2. pod.uid \in Nat
            BY <1>2 DEF Types, PodType
          <6>. QED  BY <5>2, <6>1, <6>2 DEF Spoiled
        <5>. QED  BY <1>2, <5>1, <5>2, <5>3 DEF IInv, World, LocalOK
      <4>2. out \in Terminal => Finished(pass.obs, out, setup, local)
        <5>1. CASE pass.seen.phase \in Terminal
          <6>1. Settled(pod.apps, pod.phase, setup, local) /\ out = pod.phase
            BY <1>3, <2>9, <3>5, <5>1, SeenSettled DEF PhaseToPublish
          <6>2. ~Doomed(setup, local)
            BY <2>7 DEF Doomed
          <6>3. Finished(pod.apps, out, setup, local)
            BY <6>1, <6>2 DEF Settled
          <6>. HIDE DEF out
          <6>. QED  BY <1>2, <2>6, <3>1, <6>3, ObservedFinished
        <5>2. CASE pass.seen.phase \notin Terminal
          <6>1. out = ph
            BY <5>2 DEF PhaseToPublish
          <6>2. \A c \in {d \in Apps : Recorded(d)} : local.recs[c].id # NoId
            BY DEF Recorded
          <6>3. ph \in Terminal => Finished(pass.obs, ph, setup, local)
            BY <1>2, <2>6, <2>7, <6>2, FoldFinished DEF ph
          <6>. QED  BY <6>1, <6>3
        <5>. QED  BY <5>1, <5>2
      <4>3. out \in Terminal => Final(pass.obs, out, clean)
        <5>1. \A c \in DOMAIN pass.obs : RecOK(c, held[c], local.recs[c], starts, clean)
          BY <2>6, <2>8
        <5>. HIDE DEF out
        <5>. QED  BY <4>2, <5>1, FinishedIsFinal
      <4>. HIDE DEF out
      <4>. QED  BY <2>8, <3>3, <4>1, <4>2, <4>3 DEF Standing, Settled
    <3>. HIDE DEF out
    <3>. QED  BY <3>3, <3>4, <3>5 DEF StatusOK
  <2>10. WriteOK'
    <3>1. Apps' = Apps /\ (Same' <=> Same)
      BY <1>1, <2>4, SetupStays DEF Same, Exists
    <3>. QED  BY <1>1, <2>4, <2>9, <3>1 DEF WriteOK
  <2>. QED  BY <1>1, <1>3, <2>4, <2>5, <2>10, AtWrite, CalmAdvance
<1>. QED  BY <1>4, <1>5

\* The pod as it is patched.
LEMMA WriteOutcome ==
  ASSUME IInv, Write
  PROVE  /\ pass.at = "write" /\ pass' = Idle
         /\ UNCHANGED <<setup, born, orphans, held, starts, clean, local, penalty, taken, events>>
         /\ \/ pod' = pod
            \/ /\ Same /\ pod = pass.seen
               /\ pod'.uid = pod.uid /\ pod'.term = pod.term
               /\ pod'.phase = PhaseToPublish(pass.seen.phase, pass.out.phase)
               /\ pod'.apps = pass.out.apps /\ pod'.inits = pass.out.inits
               /\ pod' \in PodType
<1>1. /\ pass.at = "write" /\ pass' = Idle
      /\ UNCHANGED <<setup, born, orphans, held, starts, clean, local, penalty, taken, events>>
      /\ pod' = IF pass.fresh
                THEN [pod EXCEPT !.phase = PhaseToPublish(pass.seen.phase, pass.out.phase),
                                 !.apps = pass.out.apps, !.inits = pass.out.inits]
                ELSE pod
  BY DEF Write, Lands, steady
<1>2. CASE pass.fresh
  <2>1. Exists(pod) /\ pod = pass.seen /\ pod \in PodType /\ pass \in PassType
    BY <1>2 DEF IInv, Types
  <2>2. pass.out \in OutType /\ pass.seen \in PodType
    BY <2>1 DEF PassType
  <2>3. PhaseToPublish(pass.seen.phase, pass.out.phase) \in Phases
    BY <2>2 DEF PhaseToPublish, OutType, PodType
  <2>4. pass.out.apps \in [Apps -> Entries] /\ pass.out.inits \in [Inits -> RunIds]
    BY <2>2 DEF OutType
  <2>5. pod' = [pod EXCEPT !.phase = PhaseToPublish(pass.seen.phase, pass.out.phase),
                           !.apps = pass.out.apps, !.inits = pass.out.inits]
    BY <1>1, <1>2
  <2>6. /\ pod' \in PodType /\ pod'.uid = pod.uid /\ pod'.term = pod.term
        /\ pod'.phase = PhaseToPublish(pass.seen.phase, pass.out.phase)
        /\ pod'.apps = pass.out.apps /\ pod'.inits = pass.out.inits
    BY <2>1, <2>3, <2>4, <2>5 DEF PodType
  <2>. QED  BY <1>1, <2>1, <2>6 DEF Same
<1>3. CASE ~pass.fresh
  BY <1>1, <1>3
<1>. QED  BY <1>2, <1>3

LEMMA WriteStep ==
  ASSUME IInv, Write
  PROVE  IInv'
<1>1. /\ pass.at = "write" /\ pass' = Idle
      /\ UNCHANGED <<setup, born, orphans, held, starts, clean, local, penalty, taken, events>>
  BY WriteOutcome
<1>2. Calm /\ Types
  BY <1>1, StillIsDecay DEF Still, IInv
<1>3. CASE pod' = pod
  BY <1>1, <1>2, <1>3, IdleStep DEF Types
<1>4. CASE /\ Same /\ pod = pass.seen
           /\ pod'.uid = pod.uid /\ pod'.term = pod.term
           /\ pod'.phase = PhaseToPublish(pass.seen.phase, pass.out.phase)
           /\ pod'.apps = pass.out.apps /\ pod'.inits = pass.out.inits
           /\ pod' \in PodType
  <2>1. PodOK'
    BY <1>1, <1>4 DEF IInv, WriteOK, PodOK
  <2>2. Types'
    <3>1. Names' = Names /\ Uids' = Uids /\ LocalType' = LocalType /\ PodType' = PodType
          /\ PassType' = PassType
      BY <1>1, SetupStays
    <3>. QED  BY <1>1, <1>2, <1>4, <3>1, IdleTyped DEF Types
  <2>3. World'
    BY <1>2, <2>2, CalmWorld DEF IInv
  <2>4. local'.known => local'.uid \in 1..born
    BY <1>1 DEF IInv, UidsOK
  <2>5. \A c \in Apps : Recorded(c)' /\ Up(c)' => <<local'.uid, c>> \notin penalty'
    BY <1>1 DEF IInv, PenaltyOK, Recorded, Up
  <2>. QED  BY <1>1, <1>4, <2>1, <2>2, <2>3, <2>4, <2>5, RestStep
<1>. QED  BY <1>3, <1>4, WriteOutcome

-----------------------------------------------------------------------------
(***************************************************************************)
(* The invariant, and what follows from it.                                *)
(***************************************************************************)
LEMMA InitIInv ==
  ASSUME Init
  PROVE  IInv
<1>1. /\ setup \in Setups /\ pod = NoPod /\ held = [c \in Names |-> Gone]
      /\ starts = [u \in Uids |-> [c \in Names |-> 0]] /\ clean = {} /\ local = EmptyLocal
      /\ penalty = {} /\ pass = Idle /\ taken = {} /\ orphans = {} /\ born = 0 /\ events = 0
  BY DEF Init
<1>2. pod \in PodType /\ pod.uid = 0 /\ pod.phase = "Pending" /\ pod.apps = [c \in Apps |-> Waiting]
  BY <1>1, NoPodTyped DEF NoPod
<1>3. pass \in PassType /\ pass.at = "idle" /\ pass.seen.uid = 0 /\ pass.fresh = FALSE
  BY <1>1, IdleTyped DEF NoPod
<1>4. local \in LocalType /\ local.known = FALSE /\ local.done = FALSE
      /\ \A c \in Names : local.recs[c] = NoRecord
  BY <1>1, EmptyTyped DEF EmptyLocal
<1>5. setup.pods \in Nat
  BY <1>1, SetupFacts
<1>6. Types
  BY <1>1, <1>2, <1>3, <1>4, GoneTyped, BoundsAssumption DEF Types
<1>7. UidsOK /\ ~Driving
  BY <1>1, <1>2, <1>3, <1>4, <1>5 DEF UidsOK, Driving
<1>8. NoRecord.id = NoId /\ NoRecord.down = "none" /\ Gone.run = "gone" /\ Gone.id = NoId
  BY DEF NoRecord, Gone
<1>9. World
  <2>1. Containers
    BY <1>1, <1>4, <1>8 DEF Containers, RunOK, RecOK
  <2>2. CleanOK /\ NothingForgotten
    BY <1>1 DEF CleanOK, NothingForgotten
  <2>3. LocalOK
    BY <1>4, <1>8 DEF LocalOK, Recorded
  <2>. QED  BY <2>1, <2>2, <2>3 DEF World
<1>10. PenaltyOK
  BY <1>1 DEF PenaltyOK
<1>11. PodOK
  <2>1. pod.phase \notin Terminal /\ \A c \in DOMAIN pod.apps : pod.apps[c] = Waiting
    BY <1>2 DEF Terminal
  <2>. QED  BY <2>1, UnstartedStatus DEF PodOK
<1>12. SeenOK /\ WriteOK
  BY <1>3, <1>7 DEF SeenOK, WriteOK
<1>13. PassOK
  BY <1>3 DEF PassOK, CleaningOK, ReadoptOK, GoingOK, Going, InitOK, PastInitsOK, StartOK, ObserveOK
<1>. QED  BY <1>6, <1>7, <1>9, <1>10, <1>11, <1>12, <1>13 DEF IInv

LEMMA NextIInv ==
  ASSUME IInv, [Next]_vars
  PROVE  IInv'
<1>1. CASE Create \/ Delete \/ Edit \/ Crash
  BY <1>1, CreateStep, DeleteStep, EditStep, CrashStep
<1>2. ASSUME NEW c \in Names, Exit(c) \/ InitExit(c) \/ Reaped(c) \/ Vanish(c) \/ PenaltyServed(c)
      PROVE  IInv'
  BY <1>2, ExitSteps, VanishStep, PenaltyServedStep
<1>3. CASE Tick \/ CurveElapses
  BY <1>3, TickStep, CurveElapsesStep
<1>4. CASE CleanApps \/ CleanInits \/ DriveUnknown \/ Reap \/ Readopt \/ DriveKnown
  BY <1>4, CleanAppsStep, CleanInitsStep, DriveUnknownStep, ReapStep, ReadoptStep, DriveKnownStep
<1>5. CASE Unmounted \/ Mounted \/ StartApp \/ SkipStart
  BY <1>5, UnmountedStep, MountedStep, StartAppStep, SkipStartStep
<1>6. CASE InitUnseen \/ InitDecide \/ InitStart \/ InitFinish \/ StartApps \/ InitPending
  BY <1>6, InitUnseenStep, InitDecideStep, InitStartStep, InitFinishStep, StartAppsStep, InitPendingStep
<1>7. CASE ObserveMissing \/ ObserveUnseen \/ ObserveUp \/ ProbeTrip
  BY <1>7, ObserveMissingStep, ObserveUnseenStep, ObserveUpStep, ProbeTripStep
<1>8. CASE ObserveLatched \/ ObserveBackOff \/ ObserveRestart \/ Fold \/ Write
  BY <1>8, ObserveLatchedStep, ObserveBackOffStep, ObserveRestartStep, FoldStep, WriteStep
<1>9. CASE UNCHANGED vars
  BY <1>9, StutterStep
<1>. QED  BY <1>1, <1>2, <1>3, <1>4, <1>5, <1>6, <1>7, <1>8, <1>9 DEF Next, PassStep

\* The runtime, the records, the stored status and what the pass has read stay
\* in agreement through every step of the kubelet and around it (kubelet.rs tick).
THEOREM Inductive == Spec => []IInv
BY InitIInv, NextIInv, PTL DEF Spec

(***************************************************************************)
(* The kubelet's records and the runtime's containers agree, both ways, in *)
(* every interleaving of passes, exits, refusals, deletions and crashes:   *)
(* a record names what the runtime has under the name or nothing that it   *)
(* has, and whatever the runtime holds is recorded unless a crash took the *)
(* record (start_bound_pod, restart_container, cleanup_orphans).           *)
(***************************************************************************)
THEOREM RecordsAgreeAlways == Spec => []RecordsAgree
<1>1. IInv => RecordsAgree
  <2>. SUFFICES ASSUME IInv  PROVE TypeOK /\ NothingForgotten
    BY DEF RecordsAgree
  <2>1. /\ setup \in Setups /\ pod \in PodType /\ pass \in PassType /\ born \in Nat
        /\ penalty \subseteq Uids \X Names /\ taken \subseteq Uids /\ events \in 0..MaxEvents
        /\ pass.fresh => Exists(pod) /\ pod = pass.seen
    BY DEF IInv, Types
  <2>2. pod.uid \in 0..born
    BY <2>1 DEF IInv, UidsOK
  <2>3. pod.term \in BOOLEAN /\ pod.phase \in {"Pending", "Running"} \cup Terminal
        /\ pass.fresh \in BOOLEAN
    BY <2>1 DEF PodType, PassType, Phases
  <2>4. ASSUME NEW c \in Apps  PROVE EntryOK(pod.apps[c])
    <3>1. pod.apps[c] \in Entries
      BY <2>1 DEF PodType
    <3>. QED  BY <3>1 DEF Entries, Entry, EntryOK
  <2>5. ASSUME NEW c \in Names
        PROVE  /\ held[c].run \in {"up", "stopping", "gone"} \cup Ended
               /\ held[c].run = "gone" <=> held[c] = Gone
               /\ local.recs[c].down \in {"none"} \cup Exits
               /\ Recorded(c) => local.known /\ held[c].id \in {NoId, local.recs[c].id}
    <3>1. held[c] \in Held /\ local.recs[c] \in Record
      BY ContainerTypes DEF IInv
    <3>2. RunOK(c, held[c], starts, clean) /\ RecOK(c, held[c], local.recs[c], starts, clean)
      BY DEF IInv, World, Containers
    <3>3. Recorded(c) => local.known
      BY DEF IInv, World, LocalOK
    <3>. QED  BY <3>1, <3>2, <3>3 DEF Held, Record, RunOK, RecOK, Recorded
  <2>6. \A c \in Apps : Recorded(c) /\ Up(c) => <<local.uid, c>> \notin penalty
    BY DEF IInv, PenaltyOK
  <2>7. NothingForgotten
    BY DEF IInv, World
  <2>. QED  BY <2>1, <2>2, <2>3, <2>4, <2>5, <2>6, <2>7 DEF TypeOK
<1>. QED  BY <1>1, Inductive, PTL

(***************************************************************************)
(* What is published of a pod is about this pod and is true: the status    *)
(* names only its own runs, Succeeded only when each container's named run *)
(* exited 0, and no named run is up past a final phase, whatever pod took  *)
(* the name while the pass ran (reconcile_pod_phase, phase_to_publish,     *)
(* write_pod_status), unless the pod was given the containers of another.  *)
(***************************************************************************)
THEOREM StatusHonestAlways == Spec => []StatusHonest
<1>1. IInv => StatusHonest
  <2>. SUFFICES ASSUME IInv, pod.uid \notin taken
                PROVE  /\ \A c \in Apps : pod.apps[c].id[1] \in {0, pod.uid}
                       /\ pod.phase = "Succeeded" => \A c \in Apps : <<c, pod.apps[c].id>> \in clean
                       /\ pod.phase \in Terminal =>
                            \A c \in Apps : Up(c) => held[c].id # pod.apps[c].id
    BY DEF StatusHonest, StatusIsOwn, SucceededIsTrue, NothingRunsPastTheEnd
  <2>1. DOMAIN pod.apps = Apps /\ setup \in Setups
    BY PodStatus DEF IInv, Types
  <2>2. /\ Standing(pod.uid, pod.phase, pod.apps, setup, local, clean)
        /\ \A c \in Apps : Told(pod.apps[c], c, held[c], local.recs[c], starts)
    BY <2>1 DEF IInv, PodOK, StatusOK, AllTold
  <2>3. pod.phase \in Terminal => Final(pod.apps, pod.phase, clean)
    BY <2>2 DEF Standing
  <2>4. \A c \in Apps : pod.apps[c].id[1] \in {0, pod.uid}
    BY <2>1, <2>2 DEF Standing
  <2>5. pod.phase = "Succeeded" => \A c \in Apps : <<c, pod.apps[c].id>> \in clean
    BY <2>1, <2>3 DEF Final, Terminal
  <2>6. ASSUME pod.phase \in Terminal, NEW c \in Apps, Up(c)
        PROVE  held[c].id # pod.apps[c].id
    <3>1. Lives(held[c])
      BY <2>6 DEF Up, Lives
    <3>2. CASE pod.apps[c].state = "ended"
      BY <2>2, <3>1, <3>2 DEF Told
    <3>3. CASE pod.apps[c].id = NoId
      <4>1. Started(c, held[c].id, starts)
        BY <2>1, <3>1, NameFacts DEF IInv, World, Containers, RunOK, Lives
      <4>2. held[c].id # NoId
        BY <4>1 DEF Started, NoId
      <4>. QED  BY <3>3, <4>2
    <3>. QED  BY <2>1, <2>3, <2>6, <3>2, <3>3 DEF Final
  <2>. QED  BY <2>4, <2>5, <2>6
<1>. QED  BY <1>1, Inductive, PTL

-----------------------------------------------------------------------------
(***************************************************************************)
(* What a step may do.                                                     *)
(***************************************************************************)
\* The published status of a pod changes only by the kubelet's own write.
LEMMA StatusSteps ==
  ASSUME IInv, [Next]_vars, SamePod
  PROVE  \/ pod'.apps = pod.apps /\ pod'.phase = pod.phase
         \/ /\ \A c \in Apps : Follows(pod.apps[c], pod'.apps[c])
            /\ pod.phase \in Terminal => pod'.phase = pod.phase
<1>1. CASE Create
  BY <1>1 DEF Create, SamePod
<1>2. CASE Delete
  <2>1. pod' # NoPod
    BY NoPodTyped DEF SamePod, Exists, NoPod
  <2>2. pod' = [pod EXCEPT !.term = TRUE] /\ pod \in PodType
    BY <1>2, <2>1 DEF Delete, IInv, Types
  <2>. QED  BY <2>2 DEF PodType
<1>3. CASE Edit \/ Crash \/ Tick \/ CurveElapses \/ UNCHANGED vars
  BY <1>3 DEF Edit, Crash, Tick, CurveElapses, vars
<1>4. ASSUME NEW c \in Names, Exit(c) \/ InitExit(c) \/ Reaped(c) \/ Vanish(c) \/ PenaltyServed(c)
      PROVE  pod' = pod
  BY <1>4 DEF Exit, InitExit, Reaped, Ends, Vanish, PenaltyServed
<1>5. CASE CleanApps \/ CleanInits \/ DriveUnknown \/ Reap \/ Readopt \/ DriveKnown
  BY <1>5 DEF CleanApps, CleanInits, DriveUnknown, Reap, Readopt, DriveKnown
<1>6. CASE Unmounted \/ Mounted \/ StartApp \/ SkipStart
  BY <1>6 DEF Unmounted, Mounted, StartApp, SkipStart
<1>7. CASE InitUnseen \/ InitDecide \/ InitStart \/ InitFinish \/ StartApps \/ InitPending
  BY <1>7 DEF InitUnseen, InitDecide, InitStart, InitFinish, StartApps, InitPending
<1>8. CASE ObserveMissing \/ ObserveUnseen \/ ObserveUp \/ ProbeTrip
  BY <1>8 DEF ObserveMissing, ObserveUnseen, ObserveUp, ProbeTrip
<1>9. CASE ObserveLatched \/ ObserveBackOff \/ ObserveRestart \/ Fold
  BY <1>9 DEF ObserveLatched, ObserveBackOff, ObserveRestart, Fold
<1>10. CASE Write
  <2>1. CASE pod' = pod
    BY <2>1
  <2>2. CASE /\ Same /\ pod = pass.seen
             /\ pod'.phase = PhaseToPublish(pass.seen.phase, pass.out.phase)
             /\ pod'.apps = pass.out.apps
    <3>1. \A c \in Apps : Follows(pass.seen.apps[c], pass.out.apps[c])
      BY <1>10, <2>2 DEF Write, IInv, WriteOK
    <3>. QED  BY <2>2, <3>1 DEF PhaseToPublish
  <2>. QED  BY <1>10, <2>1, <2>2, WriteOutcome
<1>. QED  BY <1>1, <1>2, <1>3, <1>4, <1>5, <1>6, <1>7, <1>8, <1>9, <1>10 DEF Next, PassStep

\* A run is started by a pass, for the pod it is about; of an app container, where
\* the record lacks it or the policy restarts it.
OneMore(c, u) == [starts EXCEPT ![u][c] = @ + 1]

LEMMA LaunchStarts ==
  ASSUME NEW c, NEW u, NEW h, NEW r \in Launch(c, u, h)
  PROVE  r.starts = starts \/ r.starts = OneMore(c, u)
BY DEF Launch, OneMore

StartsOne(c) ==
  /\ starts' = [starts EXCEPT ![pass.seen.uid][c] = @ + 1]
  /\ c \in Names /\ Going /\ taken \subseteq taken'
  /\ c \in Apps => \/ pass.at = "start" /\ ~Recorded(c)
                   \/ pass.at = "observe" /\ setup.policy # "Never"

LEMMA RelaunchStarts ==
  ASSUME IInv, Observing, NEW owed, NEW entry, NEW cost, Relaunch(owed, entry, cost),
         setup.policy # "Never"
  PROVE  starts' = starts \/ \E c \in Names : StartsOne(c)
<1>1. App \in Names /\ Going /\ pass.at = "observe" /\ taken' = taken
  BY AppFacts DEF Relaunch
<1>2. starts' = starts \/ \E h : \E r \in Launch(App, pass.seen.uid, h) : starts' = r.starts
  BY DEF Relaunch
<1>3. ASSUME NEW h, NEW r \in Launch(App, pass.seen.uid, h), starts' = r.starts
      PROVE  starts' = starts \/ starts' = [starts EXCEPT ![pass.seen.uid][App] = @ + 1]
  BY <1>3 DEF Launch
<1>. QED  BY <1>1, <1>2, <1>3 DEF StartsOne

LEMMA StartSteps ==
  ASSUME IInv, [Next]_vars
  PROVE  starts' = starts \/ \E c \in Names : StartsOne(c)
<1>1. CASE Create \/ Delete \/ Edit \/ Crash \/ Tick \/ CurveElapses \/ UNCHANGED vars
  BY <1>1 DEF Create, Delete, Edit, Crash, Tick, CurveElapses, vars
<1>2. ASSUME NEW c \in Names, Exit(c) \/ InitExit(c) \/ Reaped(c) \/ Vanish(c) \/ PenaltyServed(c)
      PROVE  starts' = starts
  BY <1>2 DEF Exit, InitExit, Reaped, Ends, Vanish, PenaltyServed
<1>3. CASE CleanApps \/ CleanInits \/ DriveUnknown \/ Reap \/ Readopt \/ DriveKnown
  BY <1>3 DEF CleanApps, CleanInits, DriveUnknown, Reap, Readopt, DriveKnown
<1>4. CASE Unmounted \/ Mounted \/ SkipStart \/ Write
  BY <1>4 DEF Unmounted, Mounted, SkipStart, Write
<1>5. CASE InitUnseen \/ InitDecide \/ InitFinish \/ StartApps \/ InitPending
  BY <1>5 DEF InitUnseen, InitDecide, InitFinish, StartApps, InitPending
<1>6. CASE ObserveMissing \/ ObserveUnseen \/ ObserveUp \/ ObserveLatched \/ ObserveBackOff \/ Fold
  BY <1>6 DEF ObserveMissing, ObserveUnseen, ObserveUp, ObserveLatched, ObserveBackOff, Fold
<1>7. CASE StartApp
  <2>. DEFINE c == setup.apps[NextTodo]
  <2>1. pass.at = "start" /\ Going
    BY <1>7 DEF StartApp, Going
  <2>2. PICK r \in Launch(c, pass.seen.uid, held) :
          Launched(c, r, StartedAs(pass.seen.apps[c], r.id, setup.adopts))
    BY <1>7 DEF StartApp
  <2>3. starts' = r.starts /\ taken \subseteq taken'
    BY <2>2 DEF Launched
  <2>4. NextTodo \in pass.todo /\ NextTodo \in DOMAIN setup.apps /\ ~Recorded(c)
    <3>1. pass.todo # {} /\ pass.todo \subseteq DOMAIN setup.apps /\ setup \in Setups
          /\ \A i \in pass.todo : ~Recorded(setup.apps[i])
      BY <2>1 DEF IInv, PassOK, StartOK, Types
    <3>2. NextTodo \in pass.todo
      BY <3>1, NextTodoFacts DEF IInv
    <3>. QED  BY <3>1, <3>2
  <2>5. c \in Names
    BY <2>4, NameFacts DEF IInv, Types
  <2>. HIDE DEF c
  <2>6. starts' = starts \/ starts' = [starts EXCEPT ![pass.seen.uid][c] = @ + 1]
    <3>1. r.starts = starts \/ r.starts = OneMore(c, pass.seen.uid)
      BY LaunchStarts, Zenon
    <3>. QED  BY <2>3, <3>1 DEF OneMore
  <2>7. starts' = starts \/ StartsOne(c)
    BY <2>1, <2>3, <2>4, <2>5, <2>6 DEF StartsOne
  <2>. QED  BY <2>5, <2>7
<1>8. CASE InitStart
  <2>. DEFINE c == setup.inits[NextTodo].name
  <2>1. pass.at = "initStart" /\ Going
    BY <1>8 DEF InitStart, Going
  <2>2. \/ starts' = starts /\ taken' = taken
        \/ \E h, n : \E r \in Launch(c, pass.seen.uid, h) : Launched(c, r, n)
    BY <1>8 DEF InitStart
  <2>3. c \in Names /\ c \notin Apps
    <3>1. pass.todo # {} /\ pass.todo \subseteq DOMAIN setup.inits /\ setup \in Setups
      BY <2>1 DEF IInv, PassOK, InitOK, Types
    <3>2. NextTodo \in pass.todo
      BY <3>1, NextTodoFacts DEF IInv
    <3>. QED  BY <3>1, <3>2, NameFacts
  <2>. HIDE DEF c
  <2>4. ASSUME NEW h, NEW n, NEW r \in Launch(c, pass.seen.uid, h), Launched(c, r, n)
        PROVE  starts' = starts \/ StartsOne(c)
    <3>1. starts' = r.starts /\ taken \subseteq taken'
      BY <2>4 DEF Launched
    <3>2. r.starts = starts \/ r.starts = OneMore(c, pass.seen.uid)
      BY LaunchStarts, Zenon
    <3>3. starts' = starts \/ starts' = [starts EXCEPT ![pass.seen.uid][c] = @ + 1]
      BY <3>1, <3>2 DEF OneMore
    <3>. QED  BY <2>1, <2>3, <3>1, <3>3 DEF StartsOne
  <2>. QED  BY <2>2, <2>3, <2>4
<1>9. CASE ProbeTrip
  <2>1. Observing
    BY <1>9, PolledFacts DEF ProbeTrip
  <2>2. starts' = starts \/ (setup.policy # "Never" /\ Relaunch(Rec.owed, RunningEntry(Rec.id, Rec.count), 1))
    BY <1>9 DEF ProbeTrip
  <2>. QED  BY <2>1, <2>2, RelaunchStarts
<1>10. CASE ObserveRestart
  <2>1. Observing
    BY <1>10, PolledFacts DEF ObserveRestart, Down
  <2>2. setup.policy # "Never" /\ Relaunch(TRUE, EndedObs, 0)
    BY <1>10 DEF ObserveRestart, Restarts, ShouldRestart
  <2>. QED  BY <2>1, <2>2, RelaunchStarts
<1>. QED  BY <1>1, <1>2, <1>3, <1>4, <1>5, <1>6, <1>7, <1>8, <1>9, <1>10 DEF Next, PassStep

\* The pass starts a run of c for u: it counts as one more of c's runs for u.
LEMMA StartedOne ==
  ASSUME IInv, NEW c, StartsOne(c), NEW u \in Uids, NEW a \in Names
  PROVE  starts'[u][a] = IF u = pass.seen.uid /\ a = c THEN starts[u][a] + 1 ELSE starts[u][a]
<1>1. starts \in [Uids -> [Names -> Nat]]
  BY DEF IInv, Types
<1>. QED  BY <1>1 DEF StartsOne

LEMMA SameEntryFollows ==
  ASSUME NEW e
  PROVE  Follows(e, e)
BY DEF Follows

LEMMA EntriesFollow ==
  ASSUME IInv, [Next]_vars, SamePod, NEW c \in Apps
  PROVE  Follows(pod.apps[c], pod'.apps[c])
BY StatusSteps, SameEntryFollows

\* A pass that may start something for a pod that was not given the containers of
\* another works on that pod's own record.
LEMMA OwnRecord ==
  ASSUME IInv, Going, pass.seen.uid \notin taken, local.known
  PROVE  local.uid = pass.seen.uid /\ ~Spoiled(local.uid)
<1>1. local.uid = pass.seen.uid
  BY DEF IInv, PassOK, GoingOK
<1>2. \A t \in taken : t <= pass.seen.uid /\ t \in Nat /\ t # pass.seen.uid
  <2>1. Driving
    BY GoingLaunches
  <2>2. \A t \in taken : t <= pass.seen.uid
    BY <2>1 DEF IInv, UidsOK
  <2>3. taken \subseteq Nat
    BY DEF IInv, Types, Uids
  <2>. QED  BY <2>2, <2>3
<1>3. pass.seen.uid \in Nat
  BY GoingLaunches, SeenUid DEF IInv
<1>. QED  BY <1>1, <1>2, <1>3 DEF Spoiled

(***************************************************************************)
(* A final phase that was published stays, and how a run was seen to end   *)
(* is not forgotten, whatever is polled later and whatever crashes come    *)
(* between (phase_to_publish, Termination::known_after).                   *)
(***************************************************************************)
THEOREM TerminalStaysAlways == Spec => TerminalStays
<1>1. ASSUME IInv, [Next]_vars, SamePod
      PROVE  /\ pod.phase \in Terminal => pod'.phase = pod.phase
             /\ \A c \in Apps :
                   /\ pod.apps[c].state = "ended" /\ pod.apps[c].exit \in Ended
                   /\ pod'.apps[c].state = "ended" /\ pod'.apps[c].id = pod.apps[c].id
                   => pod'.apps[c].exit = pod.apps[c].exit
  <2>1. pod.phase \in Terminal => pod'.phase = pod.phase
    BY <1>1, StatusSteps
  <2>2. \A c \in Apps : Follows(pod.apps[c], pod'.apps[c])
    BY <1>1, EntriesFollow
  <2>. QED  BY <2>1, <2>2 DEF Follows
<1>2. IInv /\ [Next]_vars =>
        [SamePod =>
           /\ pod.phase \in Terminal => pod'.phase = pod.phase
           /\ \A c \in Apps :
                 /\ pod.apps[c].state = "ended" /\ pod.apps[c].exit \in Ended
                 /\ pod'.apps[c].state = "ended" /\ pod'.apps[c].id = pod.apps[c].id
                 => pod'.apps[c].exit = pod.apps[c].exit]_vars
  BY <1>1
<1>. QED  BY <1>2, Inductive, PTL DEF Spec, TerminalStays

(***************************************************************************)
(* Under Never, on a runtime that cannot hand a run back, a run the stored *)
(* status shows up is not followed by another, also not by a kubelet that  *)
(* has lost its records (readopt, reconcile_lost_pod); and where the       *)
(* status passes from one run to the next the restart count grows, and     *)
(* else stays, also over crashes (StartedAs::of, restart_container).       *)
(***************************************************************************)
THEOREM RunsAccountedAlways == Spec => RunsAccounted
<1>1. ASSUME IInv, [Next]_vars, setup.policy = "Never", ~setup.adopts, Exists(pod),
             pod.uid \notin taken, NEW c \in Apps, StoredUp(pod.apps[c])
      PROVE  starts'[pod.uid][c] = starts[pod.uid][c]
  <2>1. c \in Names /\ pod.uid \in Uids /\ DOMAIN pod.apps = Apps
    <3>1. setup \in Setups /\ pod.uid \in {0, born} /\ born \in Nat /\ born <= setup.pods
          /\ setup.pods \in Nat
      BY <1>1, SetupFacts DEF IInv, Types, UidsOK
    <3>. QED  BY <1>1, <3>1, NameFacts, PodStatus DEF Exists, Uids, IInv
  <2>2. ASSUME StartsOne(c), pass.seen.uid = pod.uid  PROVE FALSE
    <3>1. Going /\ pass.at = "start" /\ ~Recorded(c) /\ Driving /\ Same
      BY <1>1, <2>2, GoingLaunches DEF StartsOne, Same
    <3>2. pod.apps = pass.seen.apps
      BY <1>1, <3>1 DEF IInv, SeenOK
    <3>3. local.known
      BY <1>1, <3>1, <3>2 DEF IInv, PassOK, GoingOK, OneRun
    <3>4. Mine(pod.uid, local)
      BY <1>1, <2>2, <3>1, <3>3, OwnRecord DEF Mine
    <3>5. Standing(pod.uid, pod.phase, pod.apps, setup, local, clean)
      BY <1>1 DEF IInv, PodOK, StatusOK
    <3>. QED  BY <1>1, <2>1, <3>1, <3>4, <3>5 DEF Standing, OneRun, Recorded
  <2>3. ASSUME NEW d \in Names, StartsOne(d)
        PROVE  starts'[pod.uid][c] = starts[pod.uid][c]
    BY <1>1, <2>1, <2>2, <2>3, StartedOne
  <2>. QED  BY <1>1, <2>3, StartSteps
<1>2. ASSUME IInv, [Next]_vars, SamePod, NEW c \in Apps, pod.apps[c].id # NoId, pod'.apps[c].id # NoId
      PROVE  IF pod'.apps[c].id = pod.apps[c].id THEN pod'.apps[c].count = pod.apps[c].count
             ELSE pod'.apps[c].count > pod.apps[c].count
  <2>1. Follows(pod.apps[c], pod'.apps[c])
    BY <1>2, EntriesFollow
  <2>. QED  BY <1>2, <2>1 DEF Follows
<1>3. IInv /\ [Next]_vars =>
        [setup.policy = "Never" /\ ~setup.adopts /\ Exists(pod) /\ pod.uid \notin taken =>
           \A c \in Apps : StoredUp(pod.apps[c]) =>
             starts'[pod.uid][c] = starts[pod.uid][c]]_vars
  BY <1>1
<1>4. IInv /\ [Next]_vars =>
        [SamePod =>
           \A c \in Apps :
             LET old == pod.apps[c]
                 new == pod'.apps[c]
             IN old.id # NoId /\ new.id # NoId =>
                  IF new.id = old.id THEN new.count = old.count ELSE new.count > old.count]_vars
  BY <1>2
<1>5. Spec => NeverRunsOnce
  BY <1>3, Inductive, PTL DEF Spec, NeverRunsOnce
<1>6. Spec => RestartsCounted
  BY <1>4, Inductive, PTL DEF Spec, RestartsCounted
<1>. QED  BY <1>5, <1>6 DEF RunsAccounted

(***************************************************************************)
(* No app container is started before every init container of this very    *)
(* pod has exited 0 and every sidecar was started, also not by a kubelet   *)
(* that finds the record of an earlier pod of the name (next_init_action,  *)
(* finish_init, start_bound_pod), unless the pod was given its containers. *)
(***************************************************************************)
THEOREM AppsAfterInitsAlways == Spec => AppsAfterInits
<1>1. ASSUME IInv, [Next]_vars, NEW u \in Uids \ taken', NEW a \in Apps,
             starts'[u][a] > starts[u][a], NEW c \in Inits
      PROVE  IF c \in Sidecars THEN starts[u][c] > 0
             ELSE \E n \in 1..starts[u][c] : <<c, <<u, n>>>> \in clean
  <2>1. a \in Names /\ setup \in Setups /\ starts[u][a] \in Nat
    BY <1>1, NameFacts, StartsFacts DEF IInv, Types
  <2>2. PICK d \in Names : StartsOne(d)
    BY <1>1, <2>1, StartSteps
  <2>3. u = pass.seen.uid /\ a = d
    BY <1>1, <2>1, <2>2, StartedOne
  <2>4. Going /\ pass.at \in {"start", "observe"} /\ u \notin taken
    BY <1>1, <2>2, <2>3 DEF StartsOne
  <2>5. local.known /\ local.done
    <3>1. setup.inits # <<>>
      BY <1>1, <2>1, NameFacts
    <3>. QED  BY <1>1, <2>4, <3>1 DEF IInv, PassOK, PastInitsOK
  <2>6. local.uid = u /\ ~Spoiled(local.uid)
    BY <1>1, <2>3, <2>4, <2>5, OwnRecord
  <2>7. InitsRan(u, Inits, Sidecars, starts, clean)
    BY <1>1, <2>5, <2>6 DEF IInv, World, LocalOK
  <2>. QED  BY <1>1, <2>7 DEF InitsRan
<1>2. IInv /\ [Next]_vars =>
        [\A u \in Uids \ taken', a \in Apps :
           starts'[u][a] > starts[u][a] =>
             \A c \in Inits : IF c \in Sidecars THEN starts[u][c] > 0
                              ELSE \E n \in 1..starts[u][c] : <<c, <<u, n>>>> \in clean]_vars
  BY <1>1
<1>. QED  BY <1>2, Inductive, PTL DEF Spec, AppsAfterInits

=============================================================================
