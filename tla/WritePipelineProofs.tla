------------------------ MODULE WritePipelineProofs ------------------------
(***************************************************************************)
(* For every set of requests, replicas and starting histories: a write     *)
(* undoes nothing, commits at most once, and is acknowledged only when it  *)
(* took effect.                                                            *)
(***************************************************************************)
EXTENDS WritePipeline, SequenceTheorems, TLAPS

Fields == {"uid", "spec", "label", "status", "fin", "del", "gen", "rv"}

Stored == [val: Value, meta: Meta]

-----------------------------------------------------------------------------
(* The catalog's operators on objects. *)

\* An object is a record of its fields, and never Nil.
LEMMA ValueFacts ==
  ASSUME NEW v \in Value
  PROVE  /\ DOMAIN v = Fields /\ v # Nil
         /\ v.uid \in Nat /\ v.gen \in Nat /\ v.rv \in Nat
         /\ v.fin \in BOOLEAN /\ v.del \in BOOLEAN
  BY PipelineAssumption DEF Value, Fields

\* A blank object is a well-typed value, with no identity yet.
LEMMA BlankFacts == Blank \in Value /\ DOMAIN Blank = Fields /\ Blank.uid = NoUid
  BY DEF Blank, Value, Fields, NoUid

\* An object is one when its fields have their types.
LEMMA IsValue ==
  ASSUME NEW v, v = [f \in Fields |-> v[f]],
         v["uid"] \in Nat, v["spec"] \in Nat, v["label"] \in Nat, v["status"] \in Nat,
         v["fin"] \in BOOLEAN, v["del"] \in BOOLEAN, v["gen"] \in Nat, v["rv"] \in Nat
  PROVE  v \in Value
  BY DEF Value, Fields

\* Merging takes the patch's fields and keeps the others.
LEMMA MergedFacts ==
  ASSUME NEW prior \in Value, NEW ask, AskOK(ask), ask.arg # Nil
  PROVE  /\ Merged(prior, ask.arg) \in Value
         /\ \A f \in Fields : Merged(prior, ask.arg)[f] =
                                 IF f \in DOMAIN ask.arg THEN ask.arg[f] ELSE prior[f]
<1>. DEFINE out == Merged(prior, ask.arg)
            base == Merged(Blank, ask.arg)
<1>1. DOMAIN prior = Fields /\ DOMAIN Blank = Fields
  BY ValueFacts, BlankFacts
<1>2. out = [f \in Fields |-> IF f \in DOMAIN ask.arg THEN ask.arg[f] ELSE prior[f]]
  BY <1>1 DEF Merged
<1>3. base = [f \in Fields |-> IF f \in DOMAIN ask.arg THEN ask.arg[f] ELSE Blank[f]]
  BY <1>1 DEF Merged
<1>4. base \in Value
  BY DEF AskOK
<1>. HIDE DEF out, base
<1>5. \A f \in Fields : out[f] = base[f] \/ out[f] = prior[f]
  BY <1>2, <1>3
<1>6. out \in Value
  BY <1>2, <1>4, <1>5, IsValue DEF Value, Fields
<1>. QED  BY <1>2, <1>6 DEF out

\* The server-owned fields of an update are the prior object's.
LEMMA StampFacts ==
  ASSUME NEW cand \in Value, NEW prior \in Value
  PROVE  /\ StampServerOwned(cand, prior) \in Value
         /\ StampServerOwned(cand, prior).uid = prior.uid
         /\ StampServerOwned(cand, prior).del = prior.del
         /\ StampServerOwned(cand, prior).status = prior.status
         /\ \A f \in Fields \ {"uid", "del", "status"} : StampServerOwned(cand, prior)[f] = cand[f]
         /\ StampServerOwned(cand, Nil) \in Value
         /\ StampServerOwned(cand, Nil).uid = NoUid
         /\ \A f \in Fields \ {"uid"} : StampServerOwned(cand, Nil)[f] = cand[f]
<1>1. prior # Nil
  BY ValueFacts
<1>2. StampServerOwned(cand, prior) = [cand EXCEPT !.uid = prior.uid, !.del = prior.del,
                                                   !.status = prior.status]
  BY <1>1 DEF StampServerOwned
<1>3. StampServerOwned(cand, Nil) = [cand EXCEPT !.uid = NoUid]
  BY DEF StampServerOwned
<1>4. /\ StampServerOwned(cand, prior) \in Value
      /\ StampServerOwned(cand, prior).uid = prior.uid
      /\ StampServerOwned(cand, prior).del = prior.del
      /\ StampServerOwned(cand, prior).status = prior.status
  BY <1>2 DEF Value
<1>5. \A f \in Fields \ {"uid", "del", "status"} : StampServerOwned(cand, prior)[f] = cand[f]
  BY <1>2 DEF Value, Fields
<1>6. StampServerOwned(cand, Nil) \in Value /\ StampServerOwned(cand, Nil).uid = NoUid
  BY <1>3 DEF Value, NoUid
<1>7. \A f \in Fields \ {"uid"} : StampServerOwned(cand, Nil)[f] = cand[f]
  BY <1>3 DEF Value, Fields
<1>. QED  BY <1>4, <1>5, <1>6, <1>7

\* The store's identity stamp leaves everything but the uid alone.
LEMMA IdentityFacts ==
  ASSUME NEW body \in Value, NEW prior \in Value \cup {Nil}, NEW rev \in Nat \ {0},
         prior # Nil => prior.uid # NoUid
  PROVE  /\ StampIdentity(body, prior, rev) \in Value
         /\ StampIdentity(body, prior, rev).uid # NoUid
         /\ prior # Nil => StampIdentity(body, prior, rev).uid = prior.uid
         /\ \A f \in Fields \ {"uid"} : StampIdentity(body, prior, rev)[f] = body[f]
<1>. DEFINE u == IF prior # Nil /\ prior.uid # NoUid THEN prior.uid
                 ELSE IF body.uid # NoUid THEN body.uid ELSE rev
<1>1. StampIdentity(body, prior, rev) = [body EXCEPT !.uid = u]
  BY DEF StampIdentity
<1>2. u \in Nat /\ u # NoUid /\ (prior # Nil => u = prior.uid)
  BY DEF Value, NoUid
<1>. HIDE DEF u
<1>. QED  BY <1>1, <1>2 DEF Value, Fields

\* The generation is a natural number.
LEMMA GenerationType ==
  ASSUME NEW cand \in Value, NEW prior \in Value \cup {Nil}
  PROVE  ComputeGeneration(prior, cand) \in Nat
  BY DEF ComputeGeneration, Value

\* What a command leaves: the object map of StoredBy at its revision.
LEMMA UpsertFacts ==
  ASSUME NEW res, NEW rev \in Nat \ {0}, StoredBy(res, rev - 1), NEW op, NEW v \in Value,
         v.uid # NoUid, v.rv = rev
  PROVE  /\ StoredBy(Upsert(op, res, Obj, v, rev).res, rev)
         /\ Obj \in DOMAIN Upsert(op, res, Obj, v, rev).res
         /\ Upsert(op, res, Obj, v, rev).res[Obj].val = v
         /\ Upsert(op, res, Obj, v, rev).res[Obj].meta.mod = rev
         /\ Upsert(op, res, Obj, v, rev).op = op
         /\ Len(Upsert(op, res, Obj, v, rev).changes) = 1
         /\ Upsert(op, res, Obj, v, rev).changes # <<>>
<1>. DEFINE meta == IF Obj \in DOMAIN res THEN BumpedAt(res[Obj].meta, rev) ELSE CreatedAt(rev)
            new == [j \in DOMAIN res \cup {Obj} |->
                      IF j = Obj THEN [val |-> v, meta |-> meta] ELSE res[j]]
            out == Upsert(op, res, Obj, v, rev)
<1>1. meta \in Meta /\ meta.mod = rev
  <2>1. CreatedAt(rev) \in Meta /\ CreatedAt(rev).mod = rev
    BY DEF CreatedAt, Meta
  <2>2. ASSUME NEW old \in Meta
        PROVE  BumpedAt(old, rev) \in Meta /\ BumpedAt(old, rev).mod = rev
    <3>0. [old EXCEPT !.mod = rev] \in Meta /\ [old EXCEPT !.mod = rev].mod = rev
      BY DEF Meta
    <3>1. PICK b \in Meta : b = [old EXCEPT !.mod = rev] /\ b.mod = rev
      BY <3>0
    <3>2. BumpedAt(old, rev) = [b EXCEPT !.version = @ + 1]
      BY <3>1 DEF BumpedAt, Meta
    <3>3. b.version + 1 \in Nat
      BY DEF Meta
    <3>. QED  BY <3>1, <3>2, <3>3 DEF Meta
  <2>. QED  BY <2>1, <2>2 DEF StoredBy
<1>2. out.res = new /\ out.op = op /\ out.changes = <<Change(rev, Obj, "Put", v, ImageOf(res, Obj), meta)>>
  BY DEF Upsert
<1>. HIDE DEF meta, out
<1>3. DOMAIN new = {Obj} /\ new[Obj].val = v /\ new[Obj].meta = meta
  BY DEF StoredBy
<1>. HIDE DEF new
<1>4. StoredBy(new, rev)
  BY <1>1, <1>3 DEF StoredBy
<1>5. Len(out.changes) = 1 /\ out.changes # <<>>
  BY <1>2
<1>. QED  BY <1>1, <1>2, <1>3, <1>4, <1>5 DEF out

\* What a removal leaves in the catalog and in the history.
LEMMA RemovalFacts ==
  ASSUME NEW res, NEW rev, NEW r2, StoredBy(res, r2), NEW v
  PROVE  /\ StoredBy(Removal(res, Obj, v, rev).res, rev)
         /\ Obj \notin DOMAIN Removal(res, Obj, v, rev).res
         /\ Removal(res, Obj, v, rev).op = "Deleted"
         /\ Len(Removal(res, Obj, v, rev).changes) = 1
         /\ Removal(res, Obj, v, rev).changes # <<>>
<1>1. /\ Removal(res, Obj, v, rev).res = Without(res, Obj)
      /\ Removal(res, Obj, v, rev).op = "Deleted"
      /\ Removal(res, Obj, v, rev).changes = <<Change(rev, Obj, "Delete", v, v, res[Obj].meta)>>
  BY DEF Removal
<1>2. DOMAIN Without(res, Obj) = {}
  BY DEF Without, StoredBy
<1>3. StoredBy(Without(res, Obj), rev)
  BY <1>2 DEF StoredBy
<1>. QED  BY <1>1, <1>2, <1>3

-----------------------------------------------------------------------------
(* The commands: one changes nothing, removes the object, or stores it. *)

Idles(out, res) == out.changes = <<>> /\ out.res = res

Removes(out, rev) ==
    /\ StoredBy(out.res, rev) /\ Obj \notin DOMAIN out.res
    /\ out.op = "Deleted" /\ Len(out.changes) = 1 /\ out.changes # <<>>

\* The object is stored at rev with the fields of cand but for the stamps.
Stores(out, op, cand, rev) ==
    /\ StoredBy(out.res, rev) /\ Obj \in DOMAIN out.res
    /\ out.res[Obj].meta.mod = rev
    /\ \A f \in Fields \ {"rv", "gen"} : out.res[Obj].val[f] = cand[f]
    /\ out.op = op /\ Len(out.changes) = 1 /\ out.changes # <<>>

\* The object map of a replica, and the object in it.
LEMMA ImageFacts ==
  ASSUME NEW res, NEW r, StoredBy(res, r)
  PROVE  /\ ImageOf(res, Obj) \in Value \cup {Nil}
         /\ ImageOf(res, Obj) = Nil <=> Obj \notin DOMAIN res
         /\ ImageOf(res, Obj) # Nil => /\ ImageOf(res, Obj) = res[Obj].val
                                       /\ ImageOf(res, Obj).uid # NoUid
  BY ValueFacts DEF ImageOf, StoredBy

\* A command that does nothing.
LEMMA NoChangeFacts ==
  ASSUME NEW op, NEW res
  PROVE  Idles(NoChange(op, res), res) /\ NoChange(op, res).op = op
  BY DEF NoChange, Idles

\* stamp, then release or store.
LEMMA CommitFacts ==
  ASSUME NEW res, NEW rev \in Nat \ {0}, StoredBy(res, rev - 1), NEW op,
         NEW cand \in Value, cand.uid # NoUid
  PROVE  \/ /\ Removes(Commit1(op, res, Obj, cand, rev), rev)
            /\ Obj \in DOMAIN res /\ Released(cand)
         \/ Stores(Commit1(op, res, Obj, cand, rev), op, cand, rev)
<1>. DEFINE prior == ImageOf(res, Obj)
            g == ComputeGeneration(prior, cand)
            new == [cand EXCEPT !.rv = rev, !.gen = g]
<1>1. prior \in Value \cup {Nil} /\ (prior = Nil <=> Obj \notin DOMAIN res)
  BY ImageFacts
<1>2. g \in Nat
  BY <1>1, GenerationType
<1>3. Commit1(op, res, Obj, cand, rev) =
        IF prior # Nil /\ Released(new) THEN Removal(res, Obj, new, rev)
        ELSE Upsert(op, res, Obj, new, rev)
  BY DEF Commit1
<1>. HIDE DEF prior, g
<1>4. /\ new \in Value /\ new.rv = rev
      /\ \A f \in Fields \ {"rv", "gen"} : new[f] = cand[f]
  BY <1>2 DEF Value, Fields
<1>. HIDE DEF new
<1>5. new.uid # NoUid /\ new.del = cand.del /\ new.fin = cand.fin
  BY <1>4 DEF Fields
<1>6. CASE prior # Nil /\ Released(new)
  <2>1. Removes(Removal(res, Obj, new, rev), rev)
    BY RemovalFacts DEF Removes
  <2>. QED  BY <1>1, <1>3, <1>5, <1>6, <2>1 DEF Released
<1>7. CASE ~(prior # Nil /\ Released(new))
  <2>1. Stores(Upsert(op, res, Obj, new, rev), op, cand, rev)
    BY <1>4, <1>5, UpsertFacts DEF Stores
  <2>. QED  BY <1>3, <1>7, <2>1
<1>. QED  BY <1>6, <1>7

PutDid(out, res, prior, cand, expected, rev) ==
    \/ Idles(out, res) /\ out.op = "Conflict"
    \/ /\ CheckPrecondition(expected, res, Obj)
       /\ \/ Idles(out, res) /\ out.op = "Unchanged" /\ prior # Nil /\ Unchanged(prior, cand)
          \/ Removes(out, rev) /\ prior # Nil /\ Released(cand)
          \/ Stores(out, IF prior = Nil THEN "Created" ELSE "Replaced", cand, rev)

\* A put stamps the body's identity, and then does one of these.
LEMMA PutFacts ==
  ASSUME NEW res, NEW rev \in Nat \ {0}, StoredBy(res, rev - 1), NEW body \in Value,
         NEW expected, NEW onIdentical,
         NEW out, out = ApplyPut(res, Obj, body, expected, onIdentical, rev),
         NEW prior, prior = ImageOf(res, Obj),
         NEW cand, cand = StampIdentity(body, prior, rev)
  PROVE  PutDid(out, res, prior, cand, expected, rev)
<1>1. /\ prior \in Value \cup {Nil} /\ (prior # Nil => prior.uid # NoUid)
      /\ prior = Nil <=> Obj \notin DOMAIN res
  BY ImageFacts
<1>2. /\ cand \in Value /\ cand.uid # NoUid /\ (prior # Nil => cand.uid = prior.uid)
      /\ \A f \in Fields \ {"uid"} : cand[f] = body[f]
  <2>1. cand \in Value
    BY <1>1, IdentityFacts
  <2>2. cand.uid # NoUid
    BY <1>1, IdentityFacts
  <2>3. prior # Nil => cand.uid = prior.uid
    BY <1>1, IdentityFacts
  <2>4. \A f \in Fields \ {"uid"} : cand[f] = body[f]
    BY <1>1, IdentityFacts
  <2>. QED  BY <2>1, <2>2, <2>3, <2>4
<1>3. CASE ~CheckPrecondition(expected, res, Obj)
  <2>1. out = NoChange("Conflict", res)
    BY <1>3 DEF ApplyPut
  <2>. QED  BY <1>2, <2>1, NoChangeFacts DEF PutDid
<1>4. CASE CheckPrecondition(expected, res, Obj) /\ Skips(onIdentical, prior, cand)
  <2>1. out = NoChange("Unchanged", res)
    BY <1>4 DEF ApplyPut
  <2>. QED  BY <1>2, <1>4, <2>1, NoChangeFacts DEF Skips, PutDid
<1>5. CASE CheckPrecondition(expected, res, Obj) /\ ~Skips(onIdentical, prior, cand)
  <2>. DEFINE op == IF prior = Nil THEN "Created" ELSE "Replaced"
  <2>1. out = Commit1(op, res, Obj, cand, rev)
    BY <1>5 DEF ApplyPut
  <2>. HIDE DEF op
  <2>2. \/ Removes(out, rev) /\ Obj \in DOMAIN res /\ Released(cand)
        \/ Stores(out, op, cand, rev)
    BY <1>2, <2>1, CommitFacts
  <2>. QED  BY <1>1, <1>2, <1>5, <2>2 DEF op, PutDid
<1>. QED  BY <1>3, <1>4, <1>5

\* A transaction that creates: its put runs only while the object is absent.
LEMMA TxnFacts ==
  ASSUME NEW res, NEW rev \in Nat \ {0}, StoredBy(res, rev - 1), NEW body \in Value,
         NEW out, out = ApplyTxn(res, {[key |-> Obj, rev |-> None]},
                                 <<[kind |-> "Put", key |-> Obj, body |-> body]>>, <<>>, rev)
  PROVE  \/ Idles(out, res) /\ out.op = "NoOp" /\ Obj \in DOMAIN res
         \/ /\ Obj \notin DOMAIN res
            /\ Stores(out, "Replaced", StampIdentity(body, Nil, rev), rev)
<1>. DEFINE cmp == [key |-> Obj, rev |-> None]
            put == [kind |-> "Put", key |-> Obj, body |-> body]
            branch == IF \A c \in {cmp} : EvalCompare(res, c) THEN <<put>> ELSE <<>>
            first == NoChange("NoOp", res)
            run == CHOOSE f : f = [n \in 0..Len(branch) |->
                                     IF n = 0 THEN NoChange("NoOp", res)
                                     ELSE TxnStep(f[n - 1], branch[n], rev)]
            end == run[Len(branch)]
<1>1. out = IF end.changes = <<>> THEN NoChange("NoOp", end.res) ELSE end
  BY DEF ApplyTxn
<1>2. branch = IF Obj \notin DOMAIN res THEN <<put>> ELSE <<>>
  BY DEF EvalCompare
<1>3. CASE Obj \in DOMAIN res
  <2>1. Len(branch) = 0
    BY <1>2, <1>3
  <2>2. [n \in 0..Len(branch) |-> first] = [n \in 0..Len(branch) |->
           IF n = 0 THEN NoChange("NoOp", res)
           ELSE TxnStep([m \in 0..Len(branch) |-> first][n - 1], branch[n], rev)]
    BY <2>1
  <2>3. run = [n \in 0..Len(branch) |->
           IF n = 0 THEN NoChange("NoOp", res) ELSE TxnStep(run[n - 1], branch[n], rev)]
    BY <2>2
  <2>. HIDE DEF run, branch
  <2>4. end = NoChange("NoOp", res)
    BY <2>1, <2>3
  <2>. QED  BY <1>1, <1>3, <2>4 DEF NoChange, Idles
<1>4. CASE Obj \notin DOMAIN res
  <2>. DEFINE made == ApplyPut(res, Obj, body, None, "Commit", rev)
  <2>1. Len(branch) = 1 /\ branch[1] = put
    BY <1>2, <1>4
  <2>2. /\ first = NoChange("NoOp", res) /\ first.res = res /\ first.changes = <<>>
        /\ TxnStep(first, put, rev) =
             [op |-> "Replaced", res |-> made.res, changes |-> <<>> \o made.changes]
    BY DEF NoChange, TxnStep
  <2>. DEFINE second == TxnStep(first, put, rev)
              f == [n \in 0..Len(branch) |-> IF n = 0 THEN first ELSE second]
  <2>. HIDE DEF first, put, made
  <2>3. f = [n \in 0..Len(branch) |-> IF n = 0 THEN first
                                      ELSE TxnStep(f[n - 1], branch[n], rev)]
    <3>. HIDE DEF branch, second
    <3>1. \A n \in 0..Len(branch) : n = 0 \/ n = 1
      BY <2>1
    <3>2. f[0] = first
      BY <2>1
    <3>3. second = TxnStep(f[0], branch[1], rev)
      BY <2>1, <3>2 DEF second
    <3>. QED  BY <2>1, <3>1, <3>2, <3>3
  <2>4. run = [n \in 0..Len(branch) |-> IF n = 0 THEN first
                                       ELSE TxnStep(run[n - 1], branch[n], rev)]
    <3>. HIDE DEF f, branch
    <3>. QED  BY <2>3 DEF first
  <2>. HIDE DEF run, branch, second
  <2>5. end = second
    <3>1. run[0] = first
      BY <2>1, <2>4
    <3>2. run[1] = TxnStep(run[0], branch[1], rev)
      BY <2>1, <2>4
    <3>. QED  BY <2>1, <3>1, <3>2 DEF second
  <2>6. /\ ImageOf(res, Obj) = Nil
        /\ Stores(made, "Created", StampIdentity(body, Nil, rev), rev)
    <3>1. ImageOf(res, Obj) = Nil /\ CheckPrecondition(None, res, Obj)
      BY <1>4 DEF ImageOf, CheckPrecondition
    <3>2. ~ Skips("Commit", Nil, StampIdentity(body, Nil, rev))
      BY DEF Skips
    <3>3. made = Commit1("Created", res, Obj, StampIdentity(body, Nil, rev), rev)
      BY <3>1, <3>2 DEF ApplyPut, made
    <3>4. /\ StampIdentity(body, Nil, rev) \in Value
          /\ StampIdentity(body, Nil, rev).uid # NoUid
      BY IdentityFacts
    <3>. QED  BY <1>4, <3>1, <3>3, <3>4, CommitFacts
  <2>7. /\ second.res = made.res /\ second.op = "Replaced"
        /\ second.changes = <<>> \o made.changes
    BY <2>2 DEF second
  <2>8. Len(second.changes) = 1 /\ second.changes # <<>>
    <3>1. PICK c : made.changes = <<c>>
      BY <1>4, <2>6 DEF made, ApplyPut, ImageOf, CheckPrecondition, Skips, Commit1, Upsert
    <3>. QED  BY <2>7, <3>1
  <2>. QED  BY <1>1, <1>4, <2>5, <2>6, <2>7, <2>8, ZenonT(30) DEF Stores
<1>. QED  BY <1>3, <1>4

\* A patch of a stored object keeps its identity and, when it has nothing to do
\* with deletion, its deletion state.
LEMMA PatchFacts ==
  ASSUME NEW res, NEW rev \in Nat \ {0}, StoredBy(res, rev - 1), NEW ask, AskOK(ask),
         ask.verb \in ScopedVerbs, NEW expected,
         NEW out, out = ApplyPatch(res, Obj, ask.arg, expected, "Skip", rev),
         NEW prior, prior = ImageOf(res, Obj)
  PROVE  \/ Idles(out, res) /\ out.op \in {"Conflict", "NoOp", "PatchRejected"}
         \/ /\ prior # Nil /\ ask.arg # Nil
            /\ \E cand \in Value :
                 /\ \A f \in Fields : cand[f] = IF f \in DOMAIN ask.arg THEN ask.arg[f] ELSE prior[f]
                 /\ \/ Idles(out, res) /\ out.op = "Unchanged" /\ Unchanged(prior, cand)
                    \/ Removes(out, rev) /\ Released(cand)
                    \/ Stores(out, "Patched", cand, rev)
<1>1. prior \in Value \cup {Nil} /\ (prior # Nil => prior.uid # NoUid)
  BY ImageFacts
<1>2. CASE prior = Nil \/ ~CheckPrecondition(expected, res, Obj) \/ ask.arg = Nil
  <2>1. \E op \in {"Conflict", "NoOp", "PatchRejected"} : out = NoChange(op, res)
    BY <1>2 DEF ApplyPatch
  <2>. QED  BY <2>1, NoChangeFacts
<1>3. CASE prior # Nil /\ CheckPrecondition(expected, res, Obj) /\ ask.arg # Nil
  <2>. DEFINE cand == Merged(prior, ask.arg)
  <2>1. /\ cand \in Value
        /\ \A f \in Fields : cand[f] = IF f \in DOMAIN ask.arg THEN ask.arg[f] ELSE prior[f]
    BY <1>1, <1>3, MergedFacts
  <2>2. cand.uid # NoUid
    BY <1>1, <1>3, <2>1, BlankFacts DEF AskOK, Fields
  <2>3. out = IF Skips("Skip", prior, cand) THEN NoChange("Unchanged", res)
              ELSE Commit1("Patched", res, Obj, cand, rev)
    BY <1>3 DEF ApplyPatch
  <2>. HIDE DEF cand
  <2>4. CASE Skips("Skip", prior, cand)
    <3>1. Idles(out, res) /\ out.op = "Unchanged"
      BY <2>3, <2>4, NoChangeFacts
    <3>2. Unchanged(prior, cand)
      BY <2>4 DEF Skips
    <3>. QED  BY <1>3, <2>1, <3>1, <3>2
  <2>5. CASE ~Skips("Skip", prior, cand)
    <3>1. out = Commit1("Patched", res, Obj, cand, rev)
      BY <2>3, <2>5
    <3>2. (Removes(out, rev) /\ Released(cand)) \/ Stores(out, "Patched", cand, rev)
      BY <2>1, <2>2, <3>1, CommitFacts
    <3>. QED  BY <1>3, <2>1, <3>2
  <2>. QED  BY <2>4, <2>5
<1>. QED  BY <1>2, <1>3

\* The object is stored at rev as it was, but with its deletion timestamp.
Terminates(out, prior, rev) ==
    /\ prior # Nil /\ ~prior.del
    /\ \E cand \in Value : /\ cand.del
                           /\ \A f \in Fields \ {"del", "rv"} : cand[f] = prior[f]
                           /\ StoredBy(out.res, rev) /\ Obj \in DOMAIN out.res
                           /\ out.res[Obj].meta.mod = rev /\ out.res[Obj].val = cand
                           /\ Len(out.changes) = 1 /\ out.changes # <<>>
                           /\ out.op = "DeletionPending"

\* A delete that carries its clock leaves the object gone or Terminating.
LEMMA DeleteFacts ==
  ASSUME NEW res, NEW rev \in Nat \ {0}, StoredBy(res, rev - 1), NEW expected,
         NEW out, out = ApplyDelete(res, Obj, expected, TRUE, rev),
         NEW prior, prior = ImageOf(res, Obj)
  PROVE  \/ Idles(out, res) /\ out.op = "Conflict"
         \/ Idles(out, res) /\ out.op = "NoOp" /\ (prior = Nil \/ prior.del)
         \/ Removes(out, rev) /\ prior # Nil /\ ~prior.fin
         \/ Terminates(out, prior, rev)
<1>1. /\ prior \in Value \cup {Nil} /\ (prior # Nil => prior.uid # NoUid /\ prior = res[Obj].val)
      /\ prior = Nil <=> Obj \notin DOMAIN res
  BY ImageFacts
<1>2. CASE ~CheckPrecondition(expected, res, Obj)
  <2>1. out = NoChange("Conflict", res)
    BY <1>2 DEF ApplyDelete
  <2>. QED  BY <2>1, NoChangeFacts
<1>3. CASE CheckPrecondition(expected, res, Obj) /\ prior = Nil
  <2>1. out = NoChange("NoOp", res)
    BY <1>1, <1>3 DEF ApplyDelete
  <2>. QED  BY <1>3, <2>1, NoChangeFacts
<1>4. CASE CheckPrecondition(expected, res, Obj) /\ prior # Nil
  <2>1. out = IF ~prior.fin THEN Removal(res, Obj, prior, rev)
              ELSE IF prior.del THEN NoChange("NoOp", res)
              ELSE Upsert("DeletionPending", res, Obj, [prior EXCEPT !.del = TRUE, !.rv = rev], rev)
    BY <1>1, <1>4 DEF ApplyDelete
  <2>2. CASE ~prior.fin
    <3>1. out = Removal(res, Obj, prior, rev)
      BY <2>1, <2>2
    <3>. QED  BY <1>4, <2>2, <3>1, RemovalFacts DEF Removes
  <2>3. CASE prior.fin /\ prior.del
    <3>1. out = NoChange("NoOp", res)
      BY <2>1, <2>3
    <3>. QED  BY <2>3, <3>1, NoChangeFacts
  <2>4. CASE prior.fin /\ ~prior.del
    <3>. DEFINE cand == [prior EXCEPT !.del = TRUE, !.rv = rev]
    <3>1. /\ cand \in Value /\ cand.del /\ cand.rv = rev /\ cand.uid # NoUid
          /\ \A f \in Fields \ {"del", "rv"} : cand[f] = prior[f]
      BY <1>1, <1>4 DEF Value, Fields
    <3>2. out = Upsert("DeletionPending", res, Obj, cand, rev)
      BY <2>1, <2>4
    <3>. HIDE DEF cand
    <3>3. /\ StoredBy(out.res, rev) /\ Obj \in DOMAIN out.res
          /\ out.res[Obj].meta.mod = rev /\ out.res[Obj].val = cand
          /\ Len(out.changes) = 1 /\ out.changes # <<>>
          /\ out.op = "DeletionPending"
      <4>1. cand \in Value /\ cand.rv = rev /\ cand.uid # NoUid
        BY <3>1
      <4>. DEFINE op == "DeletionPending"
      <4>2. out = Upsert(op, res, Obj, cand, rev)
        BY <3>2
      <4>. HIDE DEF op
      <4>. DEFINE u == Upsert(op, res, Obj, cand, rev)
      <4>3. /\ StoredBy(u.res, rev) /\ Obj \in DOMAIN u.res
            /\ u.res[Obj].meta.mod = rev /\ u.res[Obj].val = cand
            /\ Len(u.changes) = 1 /\ u.changes # <<>> /\ u.op = op
        BY <4>1, UpsertFacts
      <4>. QED  BY <4>2, <4>3 DEF op
    <3>. QED  BY <1>4, <2>4, <3>1, <3>3 DEF Terminates
  <2>. QED  BY <2>2, <2>3, <2>4
<1>. QED  BY <1>2, <1>3, <1>4

\* What a main-object request proposes: its own fields, and of the object it was
\* planned on everything it does not ask to change.
LEMMA CandidateFacts ==
  ASSUME NEW ask, AskOK(ask), ask.verb \in MainVerbs, NEW prior \in Value \cup {Nil},
         prior = Nil => ask.verb # "Patch",
         NEW c, c = StampServerOwned(Candidate(ask, prior), prior)
  PROVE  /\ c \in Value
         /\ \A f \in Touches(ask) \cap DOMAIN ask.arg : c[f] = ask.arg[f]
         /\ prior # Nil => /\ c.uid = prior.uid /\ c.del = prior.del /\ c.status = prior.status
                           /\ ask.verb # "Create" =>
                                \A f \in Fields \ Touches(ask) : c[f] = prior[f]
<1>. DEFINE base == IF ask.verb \in {"Create", "Replace"} \/ prior = Nil THEN Blank ELSE prior
            m == Merged(base, ask.arg)
<1>1. base \in Value
  BY BlankFacts
<1>2. Candidate(ask, prior) = m
  BY DEF Candidate, MainVerbs
<1>3. ask.arg # Nil /\ DOMAIN ask.arg \subseteq Fields \ {"uid", "gen", "rv"}
  BY BlankFacts DEF AskOK, MainVerbs, ScopedVerbs
<1>4. /\ m \in Value
      /\ \A f \in Fields : m[f] = IF f \in DOMAIN ask.arg THEN ask.arg[f] ELSE base[f]
  BY <1>1, <1>3, MergedFacts
<1>. HIDE DEF m
<1>5. CASE prior = Nil
  <2>1. /\ c \in Value /\ \A f \in Fields \ {"uid"} : c[f] = m[f]
    BY <1>2, <1>4, <1>5, StampFacts
  <2>. QED  BY <1>3, <1>4, <1>5, <2>1
<1>6. CASE prior # Nil
  <2>1. /\ c \in Value /\ c.uid = prior.uid /\ c.del = prior.del /\ c.status = prior.status
        /\ \A f \in Fields \ {"uid", "del", "status"} : c[f] = m[f]
    BY <1>2, <1>4, <1>6, StampFacts
  <2>2. CASE ask.verb \in {"Create", "Replace"}
    <3>1. Touches(ask) = Fields \ {"uid", "del", "status"}
      BY <2>2, BlankFacts DEF Touches, ScopedVerbs
    <3>2. \A f \in Touches(ask) \cap DOMAIN ask.arg : c[f] = ask.arg[f]
      BY <1>3, <1>4, <2>1, <3>1
    <3>3. \A f \in Fields \ Touches(ask) : f \in {"uid", "del", "status"}
      BY <3>1
    <3>. QED  BY <2>1, <3>2, <3>3
  <2>3. CASE ask.verb \in {"Patch", "Apply"}
    <3>1. Touches(ask) = (DOMAIN ask.arg \ {"uid", "del", "status", "gen", "rv"}) \cup {"gen", "rv"}
      BY <2>3 DEF Touches, ServerOwned, ScopedVerbs
    <3>2. \A f \in Touches(ask) \cap DOMAIN ask.arg : c[f] = ask.arg[f]
      BY <1>3, <1>4, <2>1, <3>1
    <3>3. \A f \in Fields \ Touches(ask) : f \in {"uid", "del", "status"} \/ f \notin DOMAIN ask.arg
      BY <3>1
    <3>4. \A f \in Fields : f \notin DOMAIN ask.arg => m[f] = prior[f]
      BY <1>4, <1>6, <2>3
    <3>. QED  BY <2>1, <3>2, <3>3, <3>4
  <2>. QED  BY <2>2, <2>3 DEF MainVerbs
<1>. QED  BY <1>5, <1>6

-----------------------------------------------------------------------------
(* What a proposed command does to the object as it stands by then. *)

\* A plan made on an object: whenever the map holds that revision, that object.
PlannedOn(r, res) ==
    /\ AskOK(r.ask)
    /\ r.ask.verb \in MainVerbs =>
         \/ /\ r.at = None /\ r.ask.verb \in {"Create", "Apply"}
            /\ r.cand = StampServerOwned(Candidate(r.ask, Nil), Nil)
         \/ /\ r.at # None /\ r.ask.verb # "Create"
            /\ \E o \in Value : /\ r.cand = StampServerOwned(Candidate(r.ask, o), o)
                                /\ CheckPrecondition(r.at, res, Obj) => res[Obj].val = o
    /\ r.ask.verb \in ScopedVerbs => r.cand = r.ask.arg
    /\ r.ask.verb = "Delete" => r.cand = [clock |-> TRUE]

Quiet(out) == out.changes = <<>>

\* One revision at most, and a map that is well formed at it.
Recorded(out, res, rev) ==
    \/ Quiet(out) /\ Len(out.changes) = 0 /\ out.res = res
    \/ /\ out.changes # <<>> /\ Len(out.changes) = 1 /\ StoredBy(out.res, rev)
       /\ Obj \in DOMAIN out.res => out.res[Obj].meta.mod = rev

\* A change keeps what it was not asked to change, and the deletion.
Keeps(ask, before, after) ==
    /\ ask.verb = "Create" => before = Nil
    /\ before # Nil /\ after # Nil => \A f \in Fields \ Touches(ask) : after[f] = before[f]
    /\ before # Nil => /\ after # Nil /\ before.del => after.del
                       /\ after = Nil => ~before.fin \/ before.del

\* What its operation code tells the request.
Told(ask, out, after) ==
    /\ ask.verb \in MainVerbs =>
         /\ out.op \in {"Created", "Replaced", "Unchanged", "Deleted", "Conflict", "NoOp"}
         /\ out.op \in {"Conflict", "NoOp"} => Quiet(out)
         /\ out.op \in {"Created", "Replaced", "Unchanged"} => EffectOf(ask, after)
    /\ ask.verb \in ScopedVerbs =>
         /\ out.op \in {"Conflict", "PatchRejected"} => Quiet(out)
         /\ out.op \notin {"Conflict", "PatchRejected", "NoOp", "Deleted"} => EffectOf(ask, after)
    /\ ask.verb = "Delete" => /\ out.op = "Conflict" => Quiet(out)
                              /\ out.op # "Conflict" => EffectOf(ask, after)

Outcome(ask, out, res, rev) ==
    /\ Recorded(out, res, rev)
    /\ ~Quiet(out) => Keeps(ask, ImageOf(res, Obj), ImageOf(out.res, Obj))
    /\ Told(ask, out, ImageOf(out.res, Obj))

\* An outcome that changes nothing.
LEMMA IdlesShape ==
  ASSUME NEW res, NEW rev, NEW out, Idles(out, res)
  PROVE  Recorded(out, res, rev) /\ Quiet(out) /\ out.res = res
  BY DEF Idles, Recorded, Quiet

\* An outcome that removes the object.
LEMMA RemovesShape ==
  ASSUME NEW res, NEW rev, NEW out, Removes(out, rev)
  PROVE  /\ Recorded(out, res, rev) /\ ~Quiet(out) /\ out.op = "Deleted"
         /\ ImageOf(out.res, Obj) = Nil
  BY DEF Removes, Recorded, Quiet, ImageOf

\* An outcome that stores the object.
LEMMA StoresShape ==
  ASSUME NEW rev, NEW out, NEW op, NEW cand, Stores(out, op, cand, rev),
         NEW after, after = ImageOf(out.res, Obj)
  PROVE  /\ ~Quiet(out) /\ out.op = op
         /\ after \in Value /\ after # Nil
         /\ \A f \in Fields \ {"rv", "gen"} : after[f] = cand[f]
<1>1. ~Quiet(out) /\ out.op = op
  BY DEF Stores, Quiet
<1>2. after = out.res[Obj].val /\ out.res[Obj].val \in Value
  BY DEF Stores, StoredBy, ImageOf
<1>3. after # Nil
  BY <1>2, ValueFacts
<1>. QED  BY <1>1, <1>2, <1>3 DEF Stores

\* Unchanged means equal in every field but the stamps.
LEMMA UnchangedFacts ==
  ASSUME NEW prior \in Value, NEW cand \in Value, Unchanged(prior, cand)
  PROVE  \A f \in Fields \ {"rv", "gen"} : cand[f] = prior[f]
<1>. DEFINE c == [cand EXCEPT !.rv = prior.rv, !.gen = prior.gen]
<1>1. c = prior
  BY DEF Unchanged
<1>2. \A f \in Fields \ {"rv", "gen"} : c[f] = cand[f]
  BY DEF Value, Fields
<1>. QED  BY <1>1, <1>2

\* Touches always holds the stamps; on a main write it leaves out the deletion.
LEMMA TouchesFacts ==
  ASSUME NEW ask, AskOK(ask)
  PROVE  /\ ask.verb \in MainVerbs \cup ScopedVerbs => {"gen", "rv"} \subseteq Touches(ask)
         /\ ask.verb \in MainVerbs => Touches(ask) \cap {"uid", "del", "status"} = {}
         /\ ask.verb \in ScopedVerbs => Touches(ask) = DOMAIN ask.arg \cup {"gen", "rv"}
         /\ ask.verb = "Delete" => Touches(ask) = {"del", "rv"}
         /\ ask.arg # Nil => DOMAIN ask.arg \subseteq Fields \ {"uid", "gen", "rv"}
         /\ ask.verb # "PatchScoped" => ask.arg # Nil
         /\ ask.arg # Nil /\ ask.verb \in ScopedVerbs => DOMAIN ask.arg \subseteq {"spec", "status"}
<1>1. /\ ask.arg # Nil => DOMAIN ask.arg \subseteq Fields \ {"uid", "gen", "rv"}
      /\ ask.verb # "PatchScoped" => ask.arg # Nil
      /\ ask.arg # Nil /\ ask.verb \in ScopedVerbs => DOMAIN ask.arg \subseteq {"spec", "status"}
  BY BlankFacts DEF AskOK
<1>2. CASE ask.verb \in {"Create", "Replace"}
  <2>1. Touches(ask) = Fields \ {"uid", "del", "status"}
    BY <1>2, BlankFacts DEF Touches, ScopedVerbs
  <2>. QED  BY <1>1, <1>2, <2>1 DEF ScopedVerbs, Fields
<1>3. CASE ask.verb \in {"Patch", "Apply"}
  <2>1. Touches(ask) = (DOMAIN ask.arg \ {"uid", "del", "status", "gen", "rv"}) \cup {"gen", "rv"}
    BY <1>3 DEF Touches, ServerOwned, ScopedVerbs
  <2>. QED  BY <1>1, <1>3, <2>1 DEF ScopedVerbs
<1>4. CASE ask.verb \in ScopedVerbs
  <2>1. Touches(ask) = DOMAIN ask.arg \cup {"gen", "rv"}
    BY <1>4 DEF Touches, ScopedVerbs
  <2>. QED  BY <1>1, <1>4, <2>1 DEF ScopedVerbs, MainVerbs
<1>5. CASE ask.verb = "Delete"
  <2>1. Touches(ask) = {"del", "rv"}
    BY <1>5 DEF Touches, ScopedVerbs
  <2>. QED  BY <1>1, <1>5, <2>1 DEF ScopedVerbs, MainVerbs
<1>. QED  BY <1>2, <1>3, <1>4, <1>5 DEF AskOK, MainVerbs

\* An update of the main object.
LEMMA UpdateOutcome ==
  ASSUME NEW r, NEW res, NEW rev \in Nat \ {0}, StoredBy(res, rev - 1), PlannedOn(r, res),
         r.ask.verb \in MainVerbs, r.at # None
  PROVE  Outcome(r.ask, Command(r, res, rev), res, rev)
<1>. DEFINE ask == r.ask
            out == Command(r, res, rev)
            prior == ImageOf(res, Obj)
            after == ImageOf(out.res, Obj)
            cand == StampIdentity(r.cand, prior, rev)
<1>1. AskOK(ask) /\ ask.verb \notin ScopedVerbs \cup {"Create", "Delete"}
  BY DEF PlannedOn, MainVerbs, ScopedVerbs
<1>2. PICK o \in Value : /\ r.cand = StampServerOwned(Candidate(ask, o), o)
                         /\ CheckPrecondition(r.at, res, Obj) => res[Obj].val = o
  BY DEF PlannedOn
<1>3. /\ r.cand \in Value
      /\ \A f \in Touches(ask) \cap DOMAIN ask.arg : r.cand[f] = ask.arg[f]
      /\ r.cand.uid = o.uid /\ r.cand.del = o.del
      /\ \A f \in Fields \ Touches(ask) : r.cand[f] = o[f]
  BY <1>1, <1>2, ValueFacts, CandidateFacts
<1>4. out = ApplyPut(res, Obj, r.cand, r.at, "Skip", rev)
  BY <1>1 DEF Command
<1>. SUFFICES Outcome(ask, out, res, rev)
  OBVIOUS
<1>. HIDE DEF out
<1>5. prior \in Value \cup {Nil} /\ (prior = Nil <=> Obj \notin DOMAIN res)
      /\ (prior # Nil => prior = res[Obj].val)
  BY ImageFacts
<1>6. /\ cand \in Value /\ (prior # Nil => cand.uid = prior.uid)
      /\ \A f \in Fields \ {"uid"} : cand[f] = r.cand[f]
      /\ PutDid(out, res, prior, cand, r.at, rev)
  <2>1. r.cand \in Value
    BY <1>3
  <2>. HIDE DEF prior, cand
  <2>2. prior = ImageOf(res, Obj) /\ cand = StampIdentity(r.cand, prior, rev)
    BY DEF prior, cand
  <2>3. PutDid(out, res, prior, cand, r.at, rev)
    BY <1>4, <2>1, <2>2, PutFacts
  <2>4. prior # Nil => prior.uid # NoUid
    BY <2>2, ImageFacts
  <2>5. /\ cand \in Value /\ (prior # Nil => cand.uid = prior.uid)
        /\ \A f \in Fields \ {"uid"} : cand[f] = r.cand[f]
    <3>1. cand \in Value
      BY <1>5, <2>1, <2>2, <2>4, IdentityFacts
    <3>2. prior # Nil => cand.uid = prior.uid
      BY <1>5, <2>1, <2>2, <2>4, IdentityFacts
    <3>3. \A f \in Fields \ {"uid"} : StampIdentity(r.cand, prior, rev)[f] = r.cand[f]
      BY <1>5, <2>1, <2>4, IdentityFacts
    <3>. QED  BY <2>2, <3>1, <3>2, <3>3
  <2>. QED  BY <2>3, <2>5
<1>7. /\ {"gen", "rv"} \subseteq Touches(ask) /\ Touches(ask) \cap {"uid", "del", "status"} = {}
      /\ ask.arg # Nil /\ DOMAIN ask.arg \subseteq Fields \ {"uid", "gen", "rv"}
  BY <1>1, TouchesFacts DEF ScopedVerbs
<1>8. CASE Idles(out, res) /\ out.op = "Conflict"
  <2>1. Recorded(out, res, rev) /\ Quiet(out)
    BY <1>8, IdlesShape
  <2>. QED  BY <1>1, <1>8, <2>1 DEF Outcome, Told
<1>9. ASSUME CheckPrecondition(r.at, res, Obj)
      PROVE  /\ prior = o /\ prior # Nil
             /\ \A f \in Touches(ask) \cap DOMAIN ask.arg : cand[f] = ask.arg[f]
             /\ \A f \in Fields \ Touches(ask) : cand[f] = prior[f]
             /\ cand.del = prior.del
  <2>1. prior = o /\ prior # Nil
    BY <1>2, <1>5, <1>9 DEF CheckPrecondition
  <2>2. \A f \in Touches(ask) \cap DOMAIN ask.arg : cand[f] = ask.arg[f]
    BY <1>3, <1>6, <1>7
  <2>3. \A f \in Fields \ Touches(ask) : cand[f] = prior[f]
    <3>1. cand["uid"] = prior["uid"]
      BY <1>6, <2>1
    <3>. QED  BY <1>3, <1>6, <2>1, <3>1
  <2>4. cand.del = prior.del
    BY <1>3, <1>6, <2>1 DEF Fields
  <2>. QED  BY <2>1, <2>2, <2>3, <2>4
<1>. HIDE DEF cand, prior
<1>10. CASE /\ CheckPrecondition(r.at, res, Obj)
            /\ Idles(out, res) /\ out.op = "Unchanged" /\ Unchanged(prior, cand)
  <2>1. Recorded(out, res, rev) /\ Quiet(out) /\ after = prior
    BY <1>10, IdlesShape DEF prior
  <2>2. \A f \in Fields \ {"rv", "gen"} : cand[f] = prior[f]
    BY <1>5, <1>6, <1>9, <1>10, UnchangedFacts
  <2>3. EffectOf(ask, prior)
    BY <1>1, <1>7, <1>9, <1>10, <2>2 DEF EffectOf
  <2>. QED  BY <1>1, <1>10, <2>1, <2>3 DEF Outcome, Told
<1>11. CASE CheckPrecondition(r.at, res, Obj) /\ Removes(out, rev) /\ Released(cand)
  <2>1. Recorded(out, res, rev) /\ ~Quiet(out) /\ out.op = "Deleted" /\ after = Nil
    BY <1>11, RemovesShape
  <2>2. Keeps(ask, prior, after)
    BY <1>1, <1>9, <1>11, <2>1 DEF Keeps, Released
  <2>. QED  BY <1>1, <2>1, <2>2 DEF Outcome, Told, prior
<1>12. CASE CheckPrecondition(r.at, res, Obj) /\ Stores(out, "Replaced", cand, rev)
  <2>0. after = ImageOf(out.res, Obj)
    OBVIOUS
  <2>. HIDE DEF after
  <2>1. /\ Recorded(out, res, rev) /\ ~Quiet(out) /\ out.op = "Replaced"
        /\ after \in Value /\ after # Nil /\ \A f \in Fields \ {"rv", "gen"} : after[f] = cand[f]
    <3>0. Recorded(out, res, rev)
      BY <1>12 DEF Stores, Recorded
    <3>1. ~Quiet(out) /\ out.op = "Replaced"
      BY <1>12, <2>0, StoresShape
    <3>2. after \in Value /\ after # Nil
      BY <1>12, <2>0, StoresShape
    <3>3. \A f \in Fields \ {"rv", "gen"} : after[f] = cand[f]
      BY <1>12, <2>0, StoresShape
    <3>. QED  BY <3>0, <3>1, <3>2, <3>3
  <2>2. \A f \in Fields \ Touches(ask) : after[f] = prior[f]
    BY <1>7, <1>9, <1>12, <2>1
  <2>3. after.del = prior.del
    BY <1>9, <1>12, <2>1 DEF Fields
  <2>4. Keeps(ask, prior, after)
    BY <1>1, <2>1, <2>2, <2>3 DEF Keeps
  <2>5. EffectOf(ask, after)
    BY <1>1, <1>7, <1>9, <1>12, <2>1 DEF EffectOf
  <2>. QED  BY <1>1, <2>1, <2>4, <2>5 DEF Outcome, Told, prior, after
<1>. QED  BY <1>6, <1>8, <1>9, <1>10, <1>11, <1>12 DEF PutDid

\* A create, and an apply that creates.
LEMMA CreateOutcome ==
  ASSUME NEW r, NEW res, NEW rev \in Nat \ {0}, StoredBy(res, rev - 1), PlannedOn(r, res),
         r.ask.verb \in MainVerbs, r.at = None
  PROVE  Outcome(r.ask, Command(r, res, rev), res, rev)
<1>. DEFINE ask == r.ask
            out == Command(r, res, rev)
            after == ImageOf(out.res, Obj)
            cand == StampIdentity(r.cand, Nil, rev)
<1>1. /\ AskOK(ask) /\ ask.verb \notin ScopedVerbs \cup {"Delete"} /\ ask.verb \in {"Create", "Apply"}
      /\ r.cand = StampServerOwned(Candidate(ask, Nil), Nil)
  BY DEF PlannedOn, MainVerbs, ScopedVerbs
<1>2. /\ r.cand \in Value
      /\ \A f \in Touches(ask) \cap DOMAIN ask.arg : r.cand[f] = ask.arg[f]
  BY <1>1, CandidateFacts
<1>3. cand \in Value /\ \A f \in Fields \ {"uid"} : cand[f] = r.cand[f]
  BY <1>2, IdentityFacts
<1>4. out = ApplyTxn(res, {[key |-> Obj, rev |-> None]},
                     <<[kind |-> "Put", key |-> Obj, body |-> r.cand]>>, <<>>, rev)
  BY <1>1 DEF Command
<1>. SUFFICES Outcome(ask, out, res, rev)
  OBVIOUS
<1>. HIDE DEF out, cand
<1>5. \/ Idles(out, res) /\ out.op = "NoOp" /\ Obj \in DOMAIN res
      \/ Obj \notin DOMAIN res /\ Stores(out, "Replaced", cand, rev)
  BY <1>2, <1>4, TxnFacts DEF cand
<1>6. CASE Idles(out, res) /\ out.op = "NoOp"
  <2>1. Recorded(out, res, rev) /\ Quiet(out)
    BY <1>6, IdlesShape
  <2>. QED  BY <1>1, <1>6, <2>1 DEF Outcome, Told
<1>7. CASE Obj \notin DOMAIN res /\ Stores(out, "Replaced", cand, rev)
  <2>0. after = ImageOf(out.res, Obj)
    OBVIOUS
  <2>. HIDE DEF after
  <2>1. /\ Recorded(out, res, rev) /\ ~Quiet(out) /\ out.op = "Replaced"
        /\ after \in Value /\ after # Nil /\ \A f \in Fields \ {"rv", "gen"} : after[f] = cand[f]
    <3>0. Recorded(out, res, rev)
      BY <1>7 DEF Stores, Recorded
    <3>1. ~Quiet(out) /\ out.op = "Replaced"
      BY <1>7, <2>0, StoresShape
    <3>2. after \in Value /\ after # Nil
      BY <1>7, <2>0, StoresShape
    <3>3. \A f \in Fields \ {"rv", "gen"} : after[f] = cand[f]
      BY <1>7, <2>0, StoresShape
    <3>. QED  BY <3>0, <3>1, <3>2, <3>3
  <2>2. ImageOf(res, Obj) = Nil
    BY <1>7, ImageFacts
  <2>3. Keeps(ask, ImageOf(res, Obj), after)
    BY <2>2 DEF Keeps
  <2>4. DOMAIN ask.arg \subseteq Fields \ {"uid", "gen", "rv"}
    BY <1>1, TouchesFacts
  <2>5. EffectOf(ask, after)
    BY <1>1, <1>2, <1>3, <2>1, <2>4 DEF EffectOf
  <2>. QED  BY <1>1, <2>1, <2>3, <2>5 DEF Outcome, Told, after
<1>. QED  BY <1>5, <1>6, <1>7

\* A write of /status or /scale.
LEMMA ScopedOutcome ==
  ASSUME NEW r, NEW res, NEW rev \in Nat \ {0}, StoredBy(res, rev - 1), PlannedOn(r, res),
         r.ask.verb \in ScopedVerbs
  PROVE  Outcome(r.ask, Command(r, res, rev), res, rev)
<1>. DEFINE ask == r.ask
            out == Command(r, res, rev)
            prior == ImageOf(res, Obj)
            after == ImageOf(out.res, Obj)
<1>1. AskOK(ask) /\ ask.verb \notin MainVerbs \cup {"Create", "Delete"} /\ r.cand = ask.arg
  BY DEF PlannedOn, MainVerbs, ScopedVerbs
<1>2. out = ApplyPatch(res, Obj, ask.arg, r.at, "Skip", rev)
  BY <1>1 DEF Command
<1>. SUFFICES Outcome(ask, out, res, rev)
  OBVIOUS
<1>. HIDE DEF out
<1>3. /\ Touches(ask) = DOMAIN ask.arg \cup {"gen", "rv"}
      /\ ask.arg # Nil => DOMAIN ask.arg \subseteq {"spec", "status"}
  BY <1>1, TouchesFacts
<1>4. CASE Idles(out, res) /\ out.op \in {"Conflict", "NoOp", "PatchRejected"}
  <2>1. Recorded(out, res, rev) /\ Quiet(out)
    BY <1>4, IdlesShape
  <2>. QED  BY <1>1, <1>4, <2>1 DEF Outcome, Told
<1>5. ASSUME prior # Nil, ask.arg # Nil, NEW cand \in Value,
             \A f \in Fields : cand[f] = IF f \in DOMAIN ask.arg THEN ask.arg[f] ELSE prior[f],
             \/ Idles(out, res) /\ out.op = "Unchanged" /\ Unchanged(prior, cand)
             \/ Removes(out, rev) /\ Released(cand)
             \/ Stores(out, "Patched", cand, rev)
      PROVE  Outcome(ask, out, res, rev)
  <2>1. prior \in Value
    BY <1>5, ImageFacts
  <2>. HIDE DEF prior
  <2>2. /\ cand.del = prior.del
        /\ \A f \in Touches(ask) \cap DOMAIN ask.arg : cand[f] = ask.arg[f]
        /\ \A f \in Fields \ Touches(ask) : cand[f] = prior[f]
        /\ \A f \in Touches(ask) \cap DOMAIN ask.arg : f \in Fields \ {"rv", "gen"}
    BY <1>3, <1>5 DEF Fields
  <2>3. CASE Idles(out, res) /\ out.op = "Unchanged" /\ Unchanged(prior, cand)
    <3>1. Recorded(out, res, rev) /\ Quiet(out) /\ after = prior
      BY <2>3, IdlesShape DEF prior
    <3>2. \A f \in Fields \ {"rv", "gen"} : cand[f] = prior[f]
      BY <2>1, <2>3, UnchangedFacts
    <3>3. EffectOf(ask, prior)
      BY <1>1, <1>5, <2>2, <3>2 DEF EffectOf
    <3>. QED  BY <1>1, <2>3, <3>1, <3>3 DEF Outcome, Told
  <2>4. CASE Removes(out, rev) /\ Released(cand)
    <3>1. Recorded(out, res, rev) /\ ~Quiet(out) /\ out.op = "Deleted" /\ after = Nil
      BY <2>4, RemovesShape
    <3>2. Keeps(ask, prior, after)
      BY <1>1, <2>2, <2>4, <3>1 DEF Keeps, Released
    <3>. QED  BY <1>1, <3>1, <3>2 DEF Outcome, Told, prior
  <2>5. CASE Stores(out, "Patched", cand, rev)
    <3>0. after = ImageOf(out.res, Obj)
      OBVIOUS
    <3>. HIDE DEF after
    <3>1. /\ Recorded(out, res, rev) /\ ~Quiet(out) /\ out.op = "Patched"
          /\ after \in Value /\ after # Nil /\ \A f \in Fields \ {"rv", "gen"} : after[f] = cand[f]
      <4>0. Recorded(out, res, rev)
        BY <2>5 DEF Stores, Recorded
      <4>1. ~Quiet(out) /\ out.op = "Patched"
        BY <2>5, <3>0, StoresShape
      <4>2. after \in Value /\ after # Nil
        BY <2>5, <3>0, StoresShape
      <4>3. \A f \in Fields \ {"rv", "gen"} : after[f] = cand[f]
        BY <2>5, <3>0, StoresShape
      <4>. QED  BY <4>0, <4>1, <4>2, <4>3
    <3>2. \A f \in Fields \ Touches(ask) : after[f] = prior[f]
      BY <1>3, <2>2, <3>1
    <3>3. after.del = prior.del
      BY <2>2, <3>1 DEF Fields
    <3>4. Keeps(ask, prior, after)
      BY <1>1, <3>1, <3>2, <3>3 DEF Keeps
    <3>5. EffectOf(ask, after)
      BY <1>1, <2>2, <3>1 DEF EffectOf
    <3>. QED  BY <1>1, <3>1, <3>4, <3>5 DEF Outcome, Told, prior, after
  <2>. QED  BY <1>5, <2>3, <2>4, <2>5
<1>. HIDE DEF prior
<1>6. \/ Idles(out, res) /\ out.op \in {"Conflict", "NoOp", "PatchRejected"}
      \/ /\ prior # Nil /\ ask.arg # Nil
         /\ \E cand \in Value :
              /\ \A f \in Fields : cand[f] = IF f \in DOMAIN ask.arg THEN ask.arg[f] ELSE prior[f]
              /\ \/ Idles(out, res) /\ out.op = "Unchanged" /\ Unchanged(prior, cand)
                 \/ Removes(out, rev) /\ Released(cand)
                 \/ Stores(out, "Patched", cand, rev)
  <2>1. prior = ImageOf(res, Obj)
    BY DEF prior
  <2>. QED  BY <1>1, <1>2, <2>1, PatchFacts
<1>. QED  BY <1>4, <1>5, <1>6

\* A delete.
LEMMA DeleteOutcome ==
  ASSUME NEW r, NEW res, NEW rev \in Nat \ {0}, StoredBy(res, rev - 1), PlannedOn(r, res),
         r.ask.verb = "Delete"
  PROVE  Outcome(r.ask, Command(r, res, rev), res, rev)
<1>. DEFINE ask == r.ask
            out == Command(r, res, rev)
            prior == ImageOf(res, Obj)
            after == ImageOf(out.res, Obj)
<1>1. AskOK(ask) /\ ask.verb \notin MainVerbs \cup ScopedVerbs /\ r.cand.clock = TRUE
  BY DEF PlannedOn, MainVerbs, ScopedVerbs
<1>2. out = ApplyDelete(res, Obj, r.at, TRUE, rev)
  BY <1>1 DEF Command
<1>. SUFFICES Outcome(ask, out, res, rev)
  OBVIOUS
<1>. HIDE DEF out
<1>3. Touches(ask) = {"del", "rv"}
  BY <1>1, TouchesFacts
<1>4. CASE Idles(out, res) /\ out.op = "Conflict"
  <2>1. Recorded(out, res, rev) /\ Quiet(out)
    BY <1>4, IdlesShape
  <2>. QED  BY <1>1, <1>4, <2>1 DEF Outcome, Told
<1>5. CASE Idles(out, res) /\ out.op = "NoOp" /\ (prior = Nil \/ prior.del)
  <2>1. Recorded(out, res, rev) /\ Quiet(out) /\ after = prior
    BY <1>5, IdlesShape
  <2>. QED  BY <1>1, <1>5, <2>1 DEF Outcome, Told, EffectOf
<1>6. CASE Removes(out, rev) /\ prior # Nil /\ ~prior.fin
  <2>1. Recorded(out, res, rev) /\ ~Quiet(out) /\ out.op = "Deleted" /\ after = Nil
    BY <1>6, RemovesShape
  <2>2. Keeps(ask, prior, after)
    BY <1>1, <1>6, <2>1 DEF Keeps
  <2>. QED  BY <1>1, <2>1, <2>2 DEF Outcome, Told, EffectOf
<1>7. CASE Terminates(out, prior, rev)
  <2>. HIDE DEF prior
  <2>1. PICK cand \in Value :
          /\ cand.del /\ \A f \in Fields \ {"del", "rv"} : cand[f] = prior[f]
          /\ StoredBy(out.res, rev) /\ Obj \in DOMAIN out.res
          /\ out.res[Obj].meta.mod = rev /\ out.res[Obj].val = cand
          /\ Len(out.changes) = 1 /\ out.changes # <<>> /\ out.op = "DeletionPending"
    BY <1>7 DEF Terminates
  <2>2. after = cand /\ after # Nil
    BY <2>1, ValueFacts DEF ImageOf
  <2>3. Recorded(out, res, rev) /\ ~Quiet(out)
    BY <2>1 DEF Recorded, Quiet
  <2>4. ~prior.del
    BY <1>7 DEF Terminates
  <2>5. Keeps(ask, prior, after)
    BY <1>1, <1>3, <2>1, <2>2, <2>4 DEF Keeps
  <2>. QED  BY <1>1, <2>1, <2>2, <2>3, <2>5 DEF Outcome, Told, EffectOf, prior
<1>8. \/ Idles(out, res) /\ out.op = "Conflict"
      \/ Idles(out, res) /\ out.op = "NoOp" /\ (prior = Nil \/ prior.del)
      \/ Removes(out, rev) /\ prior # Nil /\ ~prior.fin
      \/ Terminates(out, prior, rev)
  <2>. HIDE DEF prior
  <2>1. prior = ImageOf(res, Obj)
    BY DEF prior
  <2>. QED  BY <1>2, <2>1, DeleteFacts, Zenon
<1>. HIDE DEF prior
<1>. QED  BY <1>4, <1>5, <1>6, <1>7, <1>8, Zenon

\* Whatever a request was planned on, its command does this to what is there.
LEMMA CommandOutcome ==
  ASSUME NEW r, NEW res, NEW rev \in Nat \ {0}, StoredBy(res, rev - 1), PlannedOn(r, res)
  PROVE  Outcome(r.ask, Command(r, res, rev), res, rev)
  BY UpdateOutcome, CreateOutcome, ScopedOutcome, DeleteOutcome DEF PlannedOn, AskOK

-----------------------------------------------------------------------------
(* The history: it only grows, and a revision names one version of the object. *)

\* Committing an outcome keeps the history well formed.
LEMMA Extends ==
  ASSUME NEW p, HistoryOK(p), NEW res, StoredBy(res, Len(p)),
         Obj \in DOMAIN res => res[Obj].meta.mod = Len(p),
         NEW q, q = Append(p, res)
  PROVE  /\ HistoryOK(q) /\ Len(q) = Len(p) + 1 /\ q[Len(q)] = res
         /\ \A i \in 1..Len(p) : q[i] = p[i]
<1>. DEFINE S == {p[i] : i \in DOMAIN p} \cup {res}
            T == {q[i] : i \in DOMAIN q}
<1>1. p \in Seq(S) /\ Len(p) \in Nat /\ Len(p) > 0
  <2>1. p \in Seq({p[i] : i \in DOMAIN p}) /\ Len(p) > 0
    BY DEF HistoryOK
  <2>. DEFINE R == {p[i] : i \in DOMAIN p}
  <2>2. R \subseteq S
    OBVIOUS
  <2>3. p \in Seq(S)
    <3>. HIDE DEF S, R
    <3>. QED  BY <2>1, <2>2, SeqMonotonic DEF R
  <2>. QED  BY <2>1, <2>3
<1>2. /\ q \in Seq(S) /\ Len(q) = Len(p) + 1 /\ q[Len(q)] = res
      /\ \A i \in 1..Len(p) : q[i] = p[i]
  <2>. HIDE DEF S
  <2>1. res \in S
    BY DEF S
  <2>. QED  BY <1>1, <2>1
<1>3. q \in Seq(T)
  <2>. HIDE DEF S
  <2>1. q \in [1..Len(q) -> T] /\ Len(q) \in Nat
    <3>1. q \in [1..Len(q) -> S] /\ Len(q) \in Nat /\ DOMAIN q = 1..Len(q)
      <4>1. q \in Seq(S)
        BY <1>2
      <4>. QED  BY <4>1, LenProperties, Zenon
    <3>2. \A i \in 1..Len(q) : q[i] \in T
      BY <3>1
    <3>. HIDE DEF T
    <3>. QED  BY <3>1, <3>2
  <2>. HIDE DEF T
  <2>2. q \in UNION {[1..n -> T] : n \in Nat}
    BY <2>1
  <2>. QED  BY <2>2, SeqDef, Zenon
<1>. HIDE DEF S, T
<1>4. \A i \in 1..Len(q) : StoredBy(q[i], i - 1)
  BY <1>1, <1>2 DEF HistoryOK
<1>5. \A i \in 1..Len(p) : Obj \in DOMAIN p[i] => p[i][Obj].meta.mod # Len(p)
  BY <1>1 DEF HistoryOK, StoredBy
<1>6. \A i, j \in 1..Len(q) :
        Obj \in DOMAIN q[i] /\ Obj \in DOMAIN q[j] /\ q[i][Obj].meta.mod = q[j][Obj].meta.mod
            => q[i][Obj].val = q[j][Obj].val
  BY <1>1, <1>2, <1>5, SMTT(30) DEF HistoryOK
<1>7. Len(q) > 0
  BY <1>1, <1>2
<1>8. HistoryOK(q)
  BY <1>3, <1>4, <1>6, <1>7, Zenon DEF HistoryOK, T
<1>. QED  BY <1>2, <1>7, <1>8

-----------------------------------------------------------------------------
(* The inductive invariant. *)

ReqFields == {"pc", "ask", "expected", "node", "tries", "since", "at", "cand", "op",
              "target", "answer", "wrote"}

Refused == {"Conflict", "NotFound", "AlreadyExists", "Rejected", "Unchanged", "DryRun",
            "BadRequest"}

\* A plan was made on a version the history holds.
PlannedIn(r, p) ==
    /\ r.ask.verb \in MainVerbs =>
         \/ /\ r.at = None /\ r.ask.verb \in {"Create", "Apply"}
            /\ r.cand = StampServerOwned(Candidate(r.ask, Nil), Nil)
         \/ /\ r.at # None /\ r.ask.verb # "Create"
            /\ \E i \in 1..Len(p) :
                 /\ Obj \in DOMAIN p[i] /\ p[i][Obj].meta.mod = r.at
                 /\ r.cand = StampServerOwned(Candidate(r.ask, p[i][Obj].val), p[i][Obj].val)
    /\ r.ask.verb \in ScopedVerbs => r.cand = r.ask.arg
    /\ r.ask.verb = "Delete" => r.cand = [clock |-> TRUE]

\* At some revision from its arrival on the object was as the request asked.
Took(r, p) == \E i \in 1..Len(p) : i > r.since /\ EffectOf(r.ask, ImageOf(p[i], Obj))

\* What the operation code of a settled proposal means.
Meant(r, p) ==
    /\ r.ask.verb \in MainVerbs =>
         /\ r.op \in {"Created", "Replaced", "Unchanged", "Deleted", "Conflict", "NoOp"}
         /\ r.op \in {"Conflict", "NoOp"} => r.wrote = 0
         /\ r.op \in {"Created", "Replaced", "Unchanged"} => Took(r, p)
    /\ r.ask.verb \in ScopedVerbs =>
         /\ r.op \in {"Conflict", "PatchRejected"} => r.wrote = 0
         /\ r.op \notin {"Conflict", "PatchRejected", "NoOp", "Deleted"} => Took(r, p)
    /\ r.ask.verb = "Delete" => /\ r.op = "Conflict" => r.wrote = 0
                                /\ r.op # "Conflict" => Took(r, p)

Bounded(r, p) ==
    /\ r.pc \in {"idle", "read", "propose", "wait", "done"}
    /\ r.tries \in 0..(WriteAttempts - 1) /\ r.node \in Nodes
    /\ r.at \in {None} \cup 1..(Len(p) - 1) /\ r.expected \in {None} \cup 1..(Len(p) - 1)
    /\ r.since \in 0..(Len(p) - 1)
    /\ r.pc # "idle" => r.ask \in Asks

\* A dry run that the route it takes reads as one.
StoresNothing(ask) == ask.dry /\ ask.verb \notin ScopedVerbs

\* A request has written nothing until it is proposed, and at most once then; a
\* dry run never gets that far.
WroteOnce(r) ==
    /\ r.wrote \in 0..1
    /\ r.pc \in {"idle", "read", "propose"} => r.wrote = 0
    /\ r.pc # "done" => r.answer = "none"
    /\ r.answer \in Refused => r.wrote = 0
    /\ r.pc # "idle" /\ StoresNothing(r.ask) => r.pc \in {"read", "done"} /\ r.wrote = 0

\* A success at the leader that was no vanished object took effect.
Honest(r, p) ==
    /\ r.pc = "done" /\ r.answer \in {"Stored", "Unchanged", "Deleted"} /\ r.node = Leader
    /\ ~(r.ask.verb \in ScopedVerbs /\ r.op \in {"NoOp", "Deleted"})
    => Took(r, p)

RequestInv(r, p) ==
    /\ DOMAIN r = ReqFields
    /\ Bounded(r, p)
    /\ WroteOnce(r)
    /\ r.pc = "propose" => PlannedIn(r, p)
    /\ r.pc = "wait" => Meant(r, p)
    /\ Honest(r, p)

IInv ==
    /\ HistoryOK(past)
    /\ applied \in [Followers -> 0..Rev]
    /\ DOMAIN req = Writers
    /\ \A w \in Writers : RequestInv(req[w], past)
    /\ faults \in 0..MaxFaults

\* The history is a sequence, and what any replica shows is well formed.
LEMMA HistoryFacts ==
  ASSUME NEW p, HistoryOK(p)
  PROVE  /\ Len(p) \in Nat \ {0}
         /\ \A i \in 1..Len(p) : StoredBy(p[i], i - 1)
<1>. DEFINE S == {p[i] : i \in DOMAIN p}
<1>1. p \in Seq(S) /\ Len(p) > 0
  BY DEF HistoryOK
<1>. HIDE DEF S
<1>2. Len(p) \in Nat
  BY <1>1
<1>. QED  BY <1>1, <1>2 DEF HistoryOK

\* A plan made on a version of the history holds for the newest one.
LEMMA PlannedThen ==
  ASSUME NEW p, HistoryOK(p), NEW r, r.ask \in Asks, PlannedIn(r, p)
  PROVE  PlannedOn(r, p[Len(p)])
<1>1. AskOK(r.ask)
  BY PipelineAssumption
<1>2. Len(p) \in 1..Len(p)
  BY HistoryFacts
<1>3. ASSUME NEW i \in 1..Len(p), Obj \in DOMAIN p[i], p[i][Obj].meta.mod = r.at, r.at # None,
             CheckPrecondition(r.at, p[Len(p)], Obj)
      PROVE  p[Len(p)][Obj].val = p[i][Obj].val
  BY <1>2, <1>3 DEF CheckPrecondition, HistoryOK
<1>4. \A i \in 1..Len(p) : Obj \in DOMAIN p[i] => p[i][Obj].val \in Value
  BY HistoryFacts DEF StoredBy
<1>5. ASSUME r.ask.verb \in MainVerbs, r.at # None
      PROVE  \E o \in Value : /\ r.cand = StampServerOwned(Candidate(r.ask, o), o)
                              /\ CheckPrecondition(r.at, p[Len(p)], Obj) => p[Len(p)][Obj].val = o
  <2>1. PICK i \in 1..Len(p) :
          /\ Obj \in DOMAIN p[i] /\ p[i][Obj].meta.mod = r.at
          /\ r.cand = StampServerOwned(Candidate(r.ask, p[i][Obj].val), p[i][Obj].val)
    BY <1>5 DEF PlannedIn
  <2>. QED  BY <1>3, <1>4, <1>5, <2>1
<1>. QED  BY <1>1, <1>5 DEF PlannedIn, PlannedOn

\* What holds of a request still holds when the history has grown.
LEMMA Grown ==
  ASSUME NEW p, HistoryOK(p), NEW q, Len(q) \in Nat, Len(p) <= Len(q),
         \A i \in 1..Len(p) : q[i] = p[i], NEW r, RequestInv(r, p)
  PROVE  RequestInv(r, q) /\ (Took(r, p) => Took(r, q))
<1>1. Len(p) \in Nat \ {0} /\ 1..Len(p) \subseteq 1..Len(q) /\ 0..(Len(p) - 1) \subseteq 0..(Len(q) - 1)
      /\ 1..(Len(p) - 1) \subseteq 1..(Len(q) - 1)
  BY HistoryFacts
<1>2. Took(r, p) => Took(r, q)
  BY <1>1 DEF Took
<1>3. PlannedIn(r, p) => PlannedIn(r, q)
  BY <1>1 DEF PlannedIn
<1>4. Meant(r, p) => Meant(r, q)
  BY <1>2 DEF Meant
<1>5. Bounded(r, p) => Bounded(r, q)
  BY <1>1 DEF Bounded
<1>6. Honest(r, p) => Honest(r, q)
  BY <1>2 DEF Honest
<1>. QED  BY <1>2, <1>3, <1>4, <1>5, <1>6 DEF RequestInv

-----------------------------------------------------------------------------
(* Planning: a refusal that claims success is true, a plan is one of a version *)
(* the replica showed.                                                         *)

PlanOK(ask, pl, p, res) ==
    /\ pl.kind \in {"Refuse", "Write"}
    /\ pl.kind = "Refuse" =>
         /\ pl.answer \in {"NotFound", "Conflict", "AlreadyExists", "Unchanged", "DryRun"}
         /\ pl.answer = "Unchanged" => EffectOf(ask, ImageOf(res, Obj))
    /\ pl.kind = "Write" =>
         /\ pl.at \in {None} \cup 1..(Len(p) - 1)
         /\ \A r : r.ask = ask /\ r.at = pl.at /\ r.cand = pl.cand => PlannedIn(r, p)
         /\ ~StoresNothing(ask)

\* The two kinds of plan.
LEMMA PlanKinds ==
  /\ \A a : Refusal(a).kind = "Refuse" /\ Refusal(a).answer = a
  /\ \A at, c : ToWrite(at, c).kind = "Write" /\ ToWrite(at, c).at = at /\ ToWrite(at, c).cand = c
  BY DEF Refusal, ToWrite

\* A refusal other than Unchanged claims nothing.
LEMMA RefusalOK ==
  ASSUME NEW ask, NEW p, NEW res, NEW a \in {"NotFound", "Conflict", "AlreadyExists", "DryRun"}
  PROVE  PlanOK(ask, Refusal(a), p, res)
<1>1. Refusal(a).kind = "Refuse" /\ Refusal(a).answer = a
  BY PlanKinds
<1>. QED  BY <1>1 DEF PlanOK

\* A main-object write.
LEMMA PlanMainOK ==
  ASSUME NEW p, HistoryOK(p), NEW i \in 1..Len(p), NEW ask, AskOK(ask), ask.verb \in MainVerbs,
         NEW expected
  PROVE  PlanOK(ask, PlanMain(ask, expected, p[i]), p, p[i])
<1>. DEFINE res == p[i]
            held == ImageOf(res, Obj)
            create == ask.verb = "Create" \/ held = Nil
            prior == IF create THEN Nil ELSE held
            at == IF create THEN None ELSE res[Obj].meta.mod
            cand == StampServerOwned(Candidate(ask, prior), prior)
            pl == PlanMain(ask, expected, p[i])
<1>1. /\ StoredBy(res, i - 1) /\ held \in Value \cup {Nil} /\ (held = Nil <=> Obj \notin DOMAIN res)
      /\ held # Nil => held = res[Obj].val
  <2>1. StoredBy(res, i - 1)
    BY HistoryFacts
  <2>. QED  BY <2>1, ImageFacts
<1>2. ask.verb \notin ScopedVerbs \cup {"Delete"}
  BY DEF MainVerbs, ScopedVerbs
<1>3. pl = IF ask.verb \in {"Replace", "Patch"} /\ held = Nil THEN Refusal("NotFound")
           ELSE IF expected # None /\ at # expected THEN Refusal("Conflict")
           ELSE IF ask.verb = "Create" /\ held # Nil THEN Refusal("AlreadyExists")
           ELSE IF prior # Nil /\ Unchanged(prior, cand) /\ ~cand.del THEN Refusal("Unchanged")
           ELSE IF ask.dry THEN Refusal("DryRun")
           ELSE ToWrite(at, cand)
  BY DEF PlanMain
<1>. HIDE DEF cand, pl
<1>4. \/ \E a \in {"NotFound", "Conflict", "AlreadyExists", "DryRun"} : pl = Refusal(a)
      \/ /\ pl = Refusal("Unchanged") /\ prior # Nil /\ Unchanged(prior, cand)
      \/ /\ pl = ToWrite(at, cand) /\ ~(ask.verb \in {"Replace", "Patch"} /\ held = Nil)
         /\ ~(ask.verb = "Create" /\ held # Nil) /\ ~ask.dry
  BY <1>3
<1>5. CASE \E a \in {"NotFound", "Conflict", "AlreadyExists", "DryRun"} : pl = Refusal(a)
  BY <1>5, RefusalOK DEF pl
<1>6. CASE pl = Refusal("Unchanged") /\ prior # Nil /\ Unchanged(prior, cand)
  <2>1. prior = held /\ held \in Value
    BY <1>1, <1>6
  <2>. HIDE DEF prior
  <2>2. /\ cand \in Value
        /\ \A f \in Touches(ask) \cap DOMAIN ask.arg : cand[f] = ask.arg[f]
    BY <1>6, <2>1, CandidateFacts DEF cand
  <2>3. \A f \in Fields \ {"rv", "gen"} : cand[f] = prior[f]
    BY <1>6, <2>1, <2>2, UnchangedFacts
  <2>4. DOMAIN ask.arg \subseteq Fields \ {"uid", "gen", "rv"}
    BY <1>2, TouchesFacts DEF ScopedVerbs
  <2>5. EffectOf(ask, prior)
    BY <1>2, <1>6, <2>2, <2>3, <2>4 DEF EffectOf
  <2>6. pl.kind = "Refuse" /\ pl.answer = "Unchanged"
    BY <1>6, PlanKinds
  <2>. QED  BY <2>1, <2>5, <2>6 DEF PlanOK, pl
<1>7. CASE /\ pl = ToWrite(at, cand) /\ ~(ask.verb \in {"Replace", "Patch"} /\ held = Nil)
           /\ ~(ask.verb = "Create" /\ held # Nil) /\ ~ask.dry
  <2>1. pl.kind = "Write" /\ pl.at = at /\ pl.cand = cand
    BY <1>7, PlanKinds
  <2>. ~StoresNothing(ask)
    BY <1>7, Zenon DEF StoresNothing
  <2>2. CASE held = Nil
    <3>1. at = None /\ ask.verb \in {"Create", "Apply"} /\ cand = StampServerOwned(Candidate(ask, Nil), Nil)
      BY <1>7, <2>2 DEF cand, MainVerbs
    <3>. HIDE DEF at
    <3>2. \A r : r.ask = ask /\ r.at = pl.at /\ r.cand = pl.cand => PlannedIn(r, p)
      BY <1>2, <2>1, <3>1 DEF PlannedIn
    <3>. QED  BY <2>1, <3>1, <3>2 DEF PlanOK, pl
  <2>3. CASE held # Nil
    <3>1. /\ at = res[Obj].meta.mod /\ ask.verb # "Create" /\ Obj \in DOMAIN res
          /\ cand = StampServerOwned(Candidate(ask, res[Obj].val), res[Obj].val)
      BY <1>1, <1>7, <2>3 DEF cand
    <3>2. at \in 1..(i - 1) /\ at # None
      BY <1>1, <3>1, HistoryFacts DEF StoredBy, None
    <3>3. at \in 1..(Len(p) - 1)
      BY <3>2, HistoryFacts
    <3>. HIDE DEF at
    <3>4. \A r : r.ask = ask /\ r.at = pl.at /\ r.cand = pl.cand => PlannedIn(r, p)
      BY <1>2, <2>1, <3>1, <3>2 DEF PlannedIn
    <3>. QED  BY <2>1, <3>3, <3>4 DEF PlanOK, pl
  <2>. QED  BY <2>2, <2>3
<1>. QED  BY <1>4, <1>5, <1>6, <1>7

\* Every plan.
LEMMA PlanSound ==
  ASSUME NEW p, HistoryOK(p), NEW i \in 1..Len(p), NEW ask, AskOK(ask),
         NEW expected \in {None} \cup 1..(Len(p) - 1)
  PROVE  PlanOK(ask, Plan(ask, expected, p[i]), p, p[i])
<1>1. CASE ask.verb \in MainVerbs
  <2>1. Plan(ask, expected, p[i]) = PlanMain(ask, expected, p[i])
    BY <1>1 DEF Plan, MainVerbs, ScopedVerbs
  <2>. QED  BY <1>1, <2>1, PlanMainOK
<1>2. CASE ask.verb \in ScopedVerbs
  <2>. DEFINE at == IF expected = None /\ ask.verb = "PutScoped" THEN p[i][Obj].val.rv ELSE expected
  <2>1. Plan(ask, expected, p[i]) = IF Obj \notin DOMAIN p[i] THEN Refusal("NotFound")
                                    ELSE ToWrite(at, ask.arg)
    BY <1>2 DEF Plan, PlanScoped, MainVerbs, ScopedVerbs
  <2>2. CASE Obj \notin DOMAIN p[i]
    BY <2>1, <2>2, RefusalOK
  <2>3. CASE Obj \in DOMAIN p[i]
    <3>1. at \in {None} \cup 1..(Len(p) - 1)
      BY <2>3, HistoryFacts DEF StoredBy
    <3>. HIDE DEF at
    <3>2. \A r : r.ask = ask /\ r.cand = ask.arg => PlannedIn(r, p)
      BY <1>2 DEF PlannedIn, MainVerbs, ScopedVerbs
    <3>3. ~StoresNothing(ask)
      BY <1>2 DEF StoresNothing
    <3>. QED  BY <2>1, <2>3, <3>1, <3>2, <3>3, PlanKinds DEF PlanOK
  <2>. QED  BY <2>2, <2>3
<1>3. CASE ask.verb = "Delete"
  <2>1. Plan(ask, expected, p[i]) = IF ask.dry THEN Refusal("DryRun")
                                    ELSE ToWrite(expected, [clock |-> TRUE])
    BY <1>3 DEF Plan, PlanDelete, MainVerbs, ScopedVerbs
  <2>2. CASE ask.dry
    BY <2>1, <2>2, RefusalOK
  <2>3. CASE ~ask.dry
    <3>1. \A r : r.ask = ask /\ r.cand = [clock |-> TRUE] => PlannedIn(r, p)
      BY <1>3 DEF PlannedIn, MainVerbs, ScopedVerbs
    <3>2. ~StoresNothing(ask)
      BY <2>3, Zenon DEF StoresNothing
    <3>. QED  BY <2>1, <2>3, <3>1, <3>2, PlanKinds DEF PlanOK
  <2>. QED  BY <2>2, <2>3
<1>. QED  BY <1>1, <1>2, <1>3 DEF AskOK

-----------------------------------------------------------------------------
(* The invariant is inductive. *)

\* A step of one request changes that request only.
Alone(w) == DOMAIN req' = Writers /\ \A v \in Writers \ {w} : req'[v] = req[v]

\* An answer changes the program counter and the answer.
LEMMA AnsweredFacts ==
  ASSUME NEW w \in Writers, DOMAIN req = Writers, DOMAIN req[w] = ReqFields, NEW a, Answered(w, a)
  PROVE  /\ Alone(w) /\ DOMAIN req'[w] = ReqFields /\ req'[w].pc = "done" /\ req'[w].answer = a
         /\ \A f \in ReqFields \ {"pc", "answer"} : req'[w][f] = req[w][f]
<1>. DEFINE mid == [req EXCEPT ![w].pc = "done"]
<1>1. /\ DOMAIN mid = Writers /\ (\A v \in Writers \ {w} : mid[v] = req[v])
      /\ mid[w] = [req[w] EXCEPT !.pc = "done"]
  OBVIOUS
<1>2. req' = [mid EXCEPT ![w].answer = a]
  BY DEF Answered
<1>. HIDE DEF mid
<1>3. /\ DOMAIN req' = Writers /\ (\A v \in Writers \ {w} : req'[v] = req[v])
      /\ req'[w] = [mid[w] EXCEPT !.answer = a]
  BY <1>1, <1>2
<1>4. DOMAIN mid[w] = ReqFields /\ mid[w].pc = "done"
      /\ \A f \in ReqFields \ {"pc"} : mid[w][f] = req[w][f]
  BY <1>1 DEF ReqFields
<1>. QED  BY <1>3, <1>4 DEF Alone, ReqFields

\* What a step leaves to prove of the requests: the one it moved.
LEMMA OthersKeep ==
  ASSUME IInv, NEW w \in Writers, Alone(w), HistoryOK(past'), Len(past) <= Len(past'),
         \A i \in 1..Len(past) : past'[i] = past[i], RequestInv(req'[w], past')
  PROVE  DOMAIN req' = Writers /\ \A v \in Writers : RequestInv(req'[v], past')
<1>1. HistoryOK(past) /\ \A v \in Writers : RequestInv(req[v], past)
  BY DEF IInv
<1>2. Len(past') \in Nat
  BY HistoryFacts
<1>3. \A v \in Writers \ {w} : RequestInv(req[v], past')
  BY <1>1, <1>2, Grown
<1>. QED  BY <1>3 DEF Alone

\* An answered request is sound if its answer is.
LEMMA AnswerIInv ==
  ASSUME IInv, NEW w \in Writers, NEW a, Answered(w, a), UNCHANGED <<past, applied, faults>>,
         req[w].pc # "idle", a \in Refused => req[w].wrote = 0,
         /\ a \in {"Stored", "Unchanged", "Deleted"} /\ req[w].node = Leader
         /\ ~(req[w].ask.verb \in ScopedVerbs /\ req[w].op \in {"NoOp", "Deleted"})
         => Took(req[w], past)
  PROVE  IInv'
<1>1. RequestInv(req[w], past) /\ DOMAIN req = Writers /\ HistoryOK(past) /\ Len(past) \in Nat
  BY HistoryFacts DEF IInv
<1>2. /\ Alone(w) /\ DOMAIN req'[w] = ReqFields /\ req'[w].pc = "done" /\ req'[w].answer = a
      /\ \A f \in ReqFields \ {"pc", "answer"} : req'[w][f] = req[w][f]
  BY <1>1, AnsweredFacts DEF RequestInv
<1>3. /\ req'[w].ask = req[w].ask /\ req'[w].expected = req[w].expected
      /\ req'[w].node = req[w].node /\ req'[w].tries = req[w].tries
      /\ req'[w].since = req[w].since /\ req'[w].at = req[w].at
      /\ req'[w].op = req[w].op /\ req'[w].wrote = req[w].wrote
  BY <1>2 DEF ReqFields
<1>4. Bounded(req'[w], past)
  BY <1>1, <1>2, <1>3 DEF RequestInv, Bounded
<1>5. WroteOnce(req'[w])
  BY <1>1, <1>2, <1>3 DEF RequestInv, WroteOnce
<1>6. Took(req[w], past) => Took(req'[w], past)
  BY <1>3 DEF Took
<1>7. Honest(req'[w], past)
  BY <1>2, <1>3, <1>6 DEF Honest
<1>8. RequestInv(req'[w], past')
  BY <1>2, <1>4, <1>5, <1>7 DEF RequestInv
<1>9. DOMAIN req' = Writers /\ \A v \in Writers : RequestInv(req'[v], past')
  BY <1>1, <1>2, <1>8, OthersKeep
<1>. QED  BY <1>1, <1>9 DEF IInv, Rev

\* The initial states.
LEMMA InitIInv == Init => IInv
<1>. SUFFICES ASSUME Init PROVE IInv
  OBVIOUS
<1>1. HistoryOK(past) /\ Len(past) \in Nat \ {0}
  BY PipelineAssumption, HistoryFacts DEF Init
<1>2. DOMAIN req = Writers /\ \A w \in Writers : req[w] = Idle
  BY DEF Init
<1>3. RequestInv(Idle, past)
  <2>1. DOMAIN Idle = ReqFields
    BY DEF Idle, ReqFields
  <2>2. Bounded(Idle, past)
    BY <1>1, PipelineAssumption DEF Idle, Bounded, Nodes
  <2>3. WroteOnce(Idle)
    BY DEF Idle, WroteOnce, Refused
  <2>4. Idle.pc = "idle"
    BY DEF Idle
  <2>. QED  BY <2>1, <2>2, <2>3, <2>4 DEF RequestInv, Honest
<1>. QED  BY <1>1, <1>2, <1>3, PipelineAssumption DEF Init, IInv

\* A request arrives.
LEMMA ArriveIInv ==
  ASSUME IInv, NEW w \in Writers, NEW ask \in Asks, NEW e \in {None} \cup 1..Rev, NEW n \in Nodes,
         Arrive(w, ask, e, n)
  PROVE  IInv'
<1>. DEFINE r == [Idle EXCEPT !.pc = "read", !.node = n, !.since = Rev,
                              !.ask = ask, !.expected = e]
<1>1. HistoryOK(past) /\ Len(past) \in Nat \ {0} /\ DOMAIN req = Writers
  BY HistoryFacts DEF IInv
<1>2. req' = [req EXCEPT ![w] = r]
  BY DEF Arrive
<1>3. /\ DOMAIN r = ReqFields
      /\ r.pc = "read" /\ r.ask = ask /\ r.expected = e /\ r.node = n /\ r.since = Rev
      /\ r.tries = 0 /\ r.at = None /\ r.answer = "none" /\ r.wrote = 0
  BY DEF Idle, ReqFields
<1>. HIDE DEF r
<1>4. Alone(w) /\ req'[w] = r
  BY <1>1, <1>2 DEF Alone
<1>5. RequestInv(r, past)
  <2>1. DOMAIN r = ReqFields
    BY <1>3
  <2>2. Bounded(r, past)
    BY <1>1, <1>3, PipelineAssumption DEF Bounded, Rev
  <2>3. WroteOnce(r)
    BY <1>3 DEF WroteOnce, Refused
  <2>4. r.pc = "read"
    BY <1>3
  <2>. QED  BY <2>1, <2>2, <2>3, <2>4 DEF RequestInv, Honest
<1>6. UNCHANGED <<past, applied, faults>>
  BY DEF Arrive
<1>7. DOMAIN req' = Writers /\ \A v \in Writers : RequestInv(req'[v], past')
  <2>1. RequestInv(req'[w], past') /\ HistoryOK(past')
    BY <1>1, <1>4, <1>5, <1>6
  <2>2. Len(past) <= Len(past') /\ \A i \in 1..Len(past) : past'[i] = past[i]
    BY <1>1, <1>6
  <2>. QED  BY <1>4, <2>1, <2>2, OthersKeep
<1>. QED  BY <1>1, <1>6, <1>7 DEF IInv, Rev

\* A replica shows a version of the history, the leader the newest.
LEMMA ReplicaFacts ==
  ASSUME IInv, NEW n \in Nodes
  PROVE  \E i \in 1..Len(past) : Replica(n) = past[i] /\ (n = Leader => i = Len(past))
<1>1. Len(past) \in Nat \ {0}
  BY HistoryFacts DEF IInv
<1>2. CASE n = Leader
  BY <1>1, <1>2 DEF Replica, Live
<1>3. CASE n # Leader
  <2>1. applied[n] \in 0..(Len(past) - 1)
    BY <1>3 DEF IInv, Nodes, Rev
  <2>2. applied[n] + 1 \in 1..Len(past)
    BY <1>1, <2>1
  <2>. QED  BY <1>3, <2>2 DEF Replica
<1>. QED  BY <1>2, <1>3

\* A plan is made, or the request refused.
LEMMA ReadAndPlanIInv ==
  ASSUME IInv, NEW w \in Writers, ReadAndPlan(w)
  PROVE  IInv'
<1>. DEFINE r == req[w]
            pl == Plan(r.ask, r.expected, Replica(r.node))
<1>1. /\ HistoryOK(past) /\ Len(past) \in Nat \ {0} /\ DOMAIN req = Writers
      /\ RequestInv(r, past) /\ Bounded(r, past) /\ WroteOnce(r) /\ DOMAIN r = ReqFields
  BY HistoryFacts DEF IInv, RequestInv
<1>2. r.pc = "read" /\ UNCHANGED <<past, applied, faults>>
  BY DEF ReadAndPlan
<1>3. /\ r.wrote = 0 /\ r.ask \in Asks /\ AskOK(r.ask) /\ r.node \in Nodes
      /\ r.expected \in {None} \cup 1..(Len(past) - 1) /\ r.since \in 0..(Len(past) - 1)
  BY <1>1, <1>2, PipelineAssumption DEF WroteOnce, Bounded
<1>4. PICK i \in 1..Len(past) : Replica(r.node) = past[i] /\ (r.node = Leader => i = Len(past))
  BY <1>3, ReplicaFacts
<1>5. PlanOK(r.ask, pl, past, past[i])
  <2>1. PlanOK(r.ask, Plan(r.ask, r.expected, past[i]), past, past[i])
    BY <1>1, <1>3, PlanSound
  <2>. QED  BY <1>4, <2>1
<1>6. IF pl.kind = "Refuse" THEN Answered(w, pl.answer)
      ELSE req' = [req EXCEPT ![w].pc = "propose", ![w].at = pl.at, ![w].cand = pl.cand]
  BY DEF ReadAndPlan
<1>. HIDE DEF pl
<1>7. CASE pl.kind = "Refuse"
  <2>1. /\ pl.answer \in {"NotFound", "Conflict", "AlreadyExists", "Unchanged", "DryRun"}
        /\ pl.answer = "Unchanged" => EffectOf(r.ask, ImageOf(past[i], Obj))
    BY <1>5, <1>7 DEF PlanOK
  <2>2. pl.answer = "Unchanged" /\ r.node = Leader => Took(r, past)
    BY <1>1, <1>3, <1>4, <2>1 DEF Took
  <2>3. Answered(w, pl.answer)
    BY <1>6, <1>7
  <2>. QED  BY <1>2, <1>3, <2>1, <2>2, <2>3, AnswerIInv
<1>8. CASE pl.kind # "Refuse"
  <2>. DEFINE s == [req[w] EXCEPT !.pc = "propose", !.at = pl.at, !.cand = pl.cand]
  <2>1. req' = [req EXCEPT ![w] = s]
    BY <1>1, <1>6, <1>8
  <2>2. /\ DOMAIN s = ReqFields /\ s.pc = "propose" /\ s.at = pl.at /\ s.cand = pl.cand
        /\ s.ask = r.ask /\ s.expected = r.expected /\ s.node = r.node /\ s.tries = r.tries
        /\ s.since = r.since /\ s.answer = r.answer /\ s.wrote = r.wrote
    BY <1>1 DEF ReqFields
  <2>. HIDE DEF s
  <2>3. Alone(w) /\ req'[w] = s
    BY <1>1, <2>1 DEF Alone
  <2>4. pl.at \in {None} \cup 1..(Len(past) - 1) /\ PlannedIn(s, past)
        /\ ~StoresNothing(s.ask)
    BY <1>5, <1>8, <2>2 DEF PlanOK
  <2>5. Bounded(s, past)
    BY <1>1, <1>2, <2>2, <2>4 DEF Bounded
  <2>6. WroteOnce(s)
    BY <1>1, <1>2, <2>2, <2>4 DEF WroteOnce, Refused
  <2>7. RequestInv(s, past)
    BY <2>2, <2>4, <2>5, <2>6 DEF RequestInv, Honest
  <2>8. DOMAIN req' = Writers /\ \A v \in Writers : RequestInv(req'[v], past')
    <3>1. RequestInv(req'[w], past') /\ HistoryOK(past')
      BY <1>1, <1>2, <2>3, <2>7
    <3>2. Len(past) <= Len(past') /\ \A j \in 1..Len(past) : past'[j] = past[j]
      BY <1>1, <1>2
    <3>. QED  BY <2>3, <3>1, <3>2, OthersKeep
  <2>. QED  BY <1>1, <1>2, <2>8 DEF IInv, Rev
<1>. QED  BY <1>7, <1>8

\* Committing keeps the history, and the request's count of what it wrote.
LEMMA CommitsFacts ==
  ASSUME HistoryOK(past), NEW out, Recorded(out, Live, Rev + 1), Commits(out)
  PROVE  /\ HistoryOK(past') /\ Len(past) <= Len(past') /\ past'[Len(past')] = out.res
         /\ \A i \in 1..Len(past) : past'[i] = past[i]
         /\ Len(out.changes) \in 0..1
         /\ IF Quiet(out) THEN past' = past /\ Len(out.changes) = 0
            ELSE past' # past /\ Len(out.changes) = 1 /\ Len(past') > Len(past)
<1>1. Len(past) \in Nat \ {0} /\ Rev + 1 = Len(past)
  BY HistoryFacts DEF Rev
<1>2. CASE Quiet(out)
  <2>1. past' = past /\ out.res = Live /\ Len(out.changes) = 0
    BY <1>2 DEF Commits, Quiet, Recorded
  <2>. QED  BY <1>1, <1>2, <2>1 DEF Live
<1>3. CASE ~Quiet(out)
  <2>1. past' = Append(past, out.res)
    BY <1>3 DEF Commits, Quiet
  <2>2. /\ Len(out.changes) = 1 /\ StoredBy(out.res, Len(past))
        /\ Obj \in DOMAIN out.res => out.res[Obj].meta.mod = Len(past)
    <3>1. Recorded(out, Live, Len(past))
      BY <1>1
    <3>. HIDE DEF Live
    <3>. QED  BY <1>3, <3>1 DEF Recorded, Quiet
  <2>3. /\ HistoryOK(past') /\ Len(past') = Len(past) + 1 /\ past'[Len(past')] = out.res
        /\ \A i \in 1..Len(past) : past'[i] = past[i]
    <3>1. HistoryOK(past')
      BY <2>1, <2>2, Extends
    <3>2. Len(past') = Len(past) + 1
      BY <2>1, <2>2, Extends
    <3>3. past'[Len(past')] = out.res
      BY <2>1, <2>2, Extends
    <3>4. \A i \in 1..Len(past) : past'[i] = past[i]
      BY <2>1, <2>2, Extends
    <3>. QED  BY <3>1, <3>2, <3>3, <3>4
  <2>4. past' # past
    BY <1>1, <2>3
  <2>. QED  BY <1>1, <1>3, <2>2, <2>3, <2>4
<1>. QED  BY <1>2, <1>3

\* What a proposal's command does to the live object.
LEMMA ProposalOutcome ==
  ASSUME IInv, NEW w \in Writers, req[w].pc = "propose"
  PROVE  Outcome(req[w].ask, Command(req[w], Live, Rev + 1), Live, Rev + 1)
<1>1. HistoryOK(past) /\ Len(past) \in Nat \ {0} /\ Rev + 1 = Len(past) /\ (Rev + 1) - 1 = Len(past) - 1
  BY HistoryFacts DEF IInv, Rev
<1>2. StoredBy(Live, (Rev + 1) - 1) /\ Rev + 1 \in Nat \ {0}
  BY <1>1, HistoryFacts DEF Live
<1>3. PlannedOn(req[w], Live)
  <2>1. req[w].ask \in Asks /\ PlannedIn(req[w], past)
    BY DEF IInv, RequestInv, Bounded
  <2>. QED  BY <1>1, <2>1, PlannedThen DEF Live
<1>. HIDE DEF Live
<1>. QED  BY <1>2, <1>3, CommandOutcome

\* Both outcomes of a proposal leave the request with these fields.
LEMMA ProposedFacts ==
  ASSUME NEW w \in Writers, DOMAIN req = Writers, DOMAIN req[w] = ReqFields,
         req[w].wrote = 0, NEW n \in 0..1, NEW op, NEW t
  PROVE  /\ req' = [req EXCEPT ![w].pc = "wait", ![w].op = op, ![w].target = t, ![w].wrote = @ + n]
            => /\ Alone(w) /\ DOMAIN req'[w] = ReqFields
               /\ req'[w].pc = "wait" /\ req'[w].op = op /\ req'[w].wrote = n
               /\ \A f \in ReqFields \ {"pc", "op", "target", "wrote"} : req'[w][f] = req[w][f]
         /\ req' = [req EXCEPT ![w].pc = "done", ![w].answer = "Error", ![w].wrote = @ + n]
            => /\ Alone(w) /\ DOMAIN req'[w] = ReqFields
               /\ req'[w].pc = "done" /\ req'[w].answer = "Error" /\ req'[w].wrote = n
               /\ \A f \in ReqFields \ {"pc", "answer", "wrote"} : req'[w][f] = req[w][f]
<1>1. ASSUME req' = [req EXCEPT ![w].pc = "wait", ![w].op = op, ![w].target = t, ![w].wrote = @ + n]
      PROVE  /\ Alone(w) /\ DOMAIN req'[w] = ReqFields
             /\ req'[w].pc = "wait" /\ req'[w].op = op /\ req'[w].wrote = n
             /\ \A f \in ReqFields \ {"pc", "op", "target", "wrote"} : req'[w][f] = req[w][f]
  <2>. DEFINE s == [req[w] EXCEPT !.pc = "wait", !.op = op, !.target = t, !.wrote = @ + n]
  <2>1. req' = [req EXCEPT ![w] = s]
    BY <1>1
  <2>2. /\ DOMAIN s = ReqFields /\ s.pc = "wait" /\ s.op = op /\ s.wrote = 0 + n
        /\ \A f \in ReqFields \ {"pc", "op", "target", "wrote"} : s[f] = req[w][f]
    BY DEF ReqFields
  <2>. HIDE DEF s
  <2>3. Alone(w) /\ req'[w] = s
    BY <2>1 DEF Alone
  <2>. QED  BY <2>2, <2>3
<1>2. ASSUME req' = [req EXCEPT ![w].pc = "done", ![w].answer = "Error", ![w].wrote = @ + n]
      PROVE  /\ Alone(w) /\ DOMAIN req'[w] = ReqFields
             /\ req'[w].pc = "done" /\ req'[w].answer = "Error" /\ req'[w].wrote = n
             /\ \A f \in ReqFields \ {"pc", "answer", "wrote"} : req'[w][f] = req[w][f]
  <2>. DEFINE s == [req[w] EXCEPT !.pc = "done", !.answer = "Error", !.wrote = @ + n]
  <2>1. req' = [req EXCEPT ![w] = s]
    BY <1>2
  <2>2. /\ DOMAIN s = ReqFields /\ s.pc = "done" /\ s.answer = "Error" /\ s.wrote = 0 + n
        /\ \A f \in ReqFields \ {"pc", "answer", "wrote"} : s[f] = req[w][f]
    BY DEF ReqFields
  <2>. HIDE DEF s
  <2>3. Alone(w) /\ req'[w] = s
    BY <2>1 DEF Alone
  <2>. QED  BY <2>2, <2>3
<1>. QED  BY <1>1, <1>2

\* The replicas stay within a history that grows.
LEMMA AppliedKeeps ==
  ASSUME IInv, Len(past) <= Len(past'), HistoryOK(past'), UNCHANGED applied
  PROVE  applied' \in [Followers -> 0..Rev']
<1>1. Len(past) \in Nat \ {0} /\ Len(past') \in Nat \ {0}
  BY HistoryFacts DEF IInv
<1>2. 0..(Len(past) - 1) \subseteq 0..(Len(past') - 1)
  BY <1>1
<1>. QED  BY <1>2 DEF IInv, Rev

\* A proposal is committed and answered.
LEMMA ProposeIInv ==
  ASSUME IInv, NEW w \in Writers, Propose(w)
  PROVE  IInv'
<1>. DEFINE r == req[w]
            s == req'[w]
            out == Command(req[w], Live, Rev + 1)
<1>1. /\ HistoryOK(past) /\ Len(past) \in Nat \ {0} /\ DOMAIN req = Writers
      /\ RequestInv(r, past) /\ Bounded(r, past) /\ WroteOnce(r) /\ DOMAIN r = ReqFields
  BY HistoryFacts DEF IInv, RequestInv
<1>2. /\ r.pc = "propose" /\ Commits(out) /\ UNCHANGED <<applied, faults>>
      /\ req' = [req EXCEPT ![w].pc = "wait", ![w].op = out.op, ![w].target = Len(past') - 1,
                            ![w].wrote = @ + Len(out.changes)]
  BY DEF Propose
<1>3. Outcome(r.ask, out, Live, Rev + 1)
  BY <1>2, ProposalOutcome
<1>. HIDE DEF out
<1>4. /\ HistoryOK(past') /\ Len(past) <= Len(past') /\ past'[Len(past')] = out.res
      /\ \A i \in 1..Len(past) : past'[i] = past[i]
      /\ Len(out.changes) \in 0..1 /\ (Quiet(out) => Len(out.changes) = 0)
  BY <1>1, <1>2, <1>3, CommitsFacts DEF Outcome
<1>5. r.wrote = 0 /\ r.ask \in Asks /\ AskOK(r.ask) /\ r.answer = "none" /\ ~StoresNothing(r.ask)
  BY <1>1, <1>2, PipelineAssumption DEF WroteOnce, Bounded
<1>6. /\ Alone(w) /\ DOMAIN s = ReqFields
      /\ s.pc = "wait" /\ s.op = out.op /\ s.wrote = Len(out.changes)
      /\ \A f \in ReqFields \ {"pc", "op", "target", "wrote"} : s[f] = r[f]
  <2>. DEFINE n == Len(out.changes)
              op == out.op
              t == Len(past') - 1
  <2>1. n \in 0..1 /\ req' = [req EXCEPT ![w].pc = "wait", ![w].op = op, ![w].target = t,
                                          ![w].wrote = @ + n]
    BY <1>2, <1>4
  <2>. HIDE DEF n, op, t
  <2>2. /\ Alone(w) /\ DOMAIN s = ReqFields
        /\ s.pc = "wait" /\ s.op = op /\ s.wrote = n
        /\ \A f \in ReqFields \ {"pc", "op", "target", "wrote"} : s[f] = r[f]
    BY <1>1, <1>5, <2>1, ProposedFacts
  <2>. QED  BY <2>2 DEF n, op
<1>. HIDE DEF s
<1>7. /\ s.ask = r.ask /\ s.expected = r.expected /\ s.node = r.node /\ s.tries = r.tries
      /\ s.since = r.since /\ s.at = r.at /\ s.answer = "none"
  BY <1>5, <1>6 DEF ReqFields
<1>8. Bounded(r, past')
  BY <1>1, <1>4, Grown, HistoryFacts DEF RequestInv
<1>9. Bounded(s, past')
  BY <1>2, <1>6, <1>7, <1>8 DEF Bounded
<1>10. WroteOnce(s)
  BY <1>4, <1>5, <1>6, <1>7 DEF WroteOnce, Refused
<1>11. EffectOf(r.ask, ImageOf(out.res, Obj)) => Took(s, past')
  <2>1. Len(past') \in 1..Len(past') /\ s.since < Len(past')
    BY <1>1, <1>4, <1>7, HistoryFacts DEF Bounded
  <2>. QED  BY <1>4, <1>7, <2>1 DEF Took
<1>12. Meant(s, past')
  <2>1. Told(r.ask, out, ImageOf(out.res, Obj))
    BY <1>3 DEF Outcome
  <2>2. Quiet(out) => s.wrote = 0
    BY <1>4, <1>6
  <2>. QED  BY <1>6, <1>7, <1>11, <2>1, <2>2 DEF Told, Meant
<1>13. RequestInv(s, past')
  BY <1>6, <1>9, <1>10, <1>12 DEF RequestInv, Honest
<1>14. DOMAIN req' = Writers /\ \A v \in Writers : RequestInv(req'[v], past')
  BY <1>4, <1>6, <1>13, OthersKeep DEF s
<1>15. applied' \in [Followers -> 0..Rev']
  BY <1>2, <1>4, AppliedKeeps
<1>. QED  BY <1>2, <1>4, <1>14, <1>15 DEF IInv

\* A proposal answers an error, committed or not.
LEMMA ProposeFailsIInv ==
  ASSUME IInv, NEW w \in Writers, NEW c \in BOOLEAN, ProposeFails(w, c)
  PROVE  IInv'
<1>. DEFINE r == req[w]
            s == req'[w]
            out == IF c THEN Command(req[w], Live, Rev + 1) ELSE NoChange("none", Live)
<1>1. /\ HistoryOK(past) /\ Len(past) \in Nat \ {0} /\ DOMAIN req = Writers
      /\ RequestInv(r, past) /\ Bounded(r, past) /\ WroteOnce(r) /\ DOMAIN r = ReqFields
  BY HistoryFacts DEF IInv, RequestInv
<1>2. /\ r.pc = "propose" /\ Commits(out) /\ UNCHANGED applied /\ faults < MaxFaults
      /\ faults' = faults + 1
      /\ req' = [req EXCEPT ![w].pc = "done", ![w].answer = "Error",
                            ![w].wrote = @ + Len(out.changes)]
  BY DEF ProposeFails
<1>3. Recorded(out, Live, Rev + 1)
  <2>1. Recorded(Command(req[w], Live, Rev + 1), Live, Rev + 1)
    BY <1>2, ProposalOutcome DEF Outcome
  <2>2. Recorded(NoChange("none", Live), Live, Rev + 1)
    BY NoChangeFacts, IdlesShape
  <2>. QED  BY <2>1, <2>2
<1>. HIDE DEF out
<1>4. /\ HistoryOK(past') /\ Len(past) <= Len(past')
      /\ \A i \in 1..Len(past) : past'[i] = past[i]
      /\ Len(out.changes) \in 0..1
  BY <1>1, <1>2, <1>3, CommitsFacts
<1>5. r.wrote = 0 /\ r.ask \in Asks /\ ~StoresNothing(r.ask)
  BY <1>1, <1>2 DEF WroteOnce, Bounded
<1>6. /\ Alone(w) /\ DOMAIN s = ReqFields
      /\ s.pc = "done" /\ s.answer = "Error" /\ s.wrote = Len(out.changes)
      /\ \A f \in ReqFields \ {"pc", "answer", "wrote"} : s[f] = r[f]
  <2>. DEFINE n == Len(out.changes)
  <2>1. n \in 0..1 /\ req' = [req EXCEPT ![w].pc = "done", ![w].answer = "Error", ![w].wrote = @ + n]
    BY <1>2, <1>4
  <2>. HIDE DEF n
  <2>2. /\ Alone(w) /\ DOMAIN s = ReqFields
        /\ s.pc = "done" /\ s.answer = "Error" /\ s.wrote = n
        /\ \A f \in ReqFields \ {"pc", "answer", "wrote"} : s[f] = r[f]
    BY <1>1, <1>5, <2>1, ProposedFacts
  <2>. QED  BY <2>2 DEF n
<1>. HIDE DEF s
<1>7. /\ s.ask = r.ask /\ s.expected = r.expected /\ s.node = r.node /\ s.tries = r.tries
      /\ s.since = r.since /\ s.at = r.at
  BY <1>6 DEF ReqFields
<1>8. Bounded(r, past')
  BY <1>1, <1>4, Grown, HistoryFacts DEF RequestInv
<1>9. Bounded(s, past')
  BY <1>2, <1>6, <1>7, <1>8 DEF Bounded
<1>10. WroteOnce(s)
  BY <1>4, <1>5, <1>6, <1>7 DEF WroteOnce, Refused
<1>11. RequestInv(s, past')
  BY <1>6, <1>9, <1>10 DEF RequestInv, Honest
<1>12. DOMAIN req' = Writers /\ \A v \in Writers : RequestInv(req'[v], past')
  BY <1>4, <1>6, <1>11, OthersKeep DEF s
<1>13. applied' \in [Followers -> 0..Rev']
  BY <1>2, <1>4, AppliedKeeps
<1>14. faults' \in 0..MaxFaults
  BY <1>2, PipelineAssumption DEF IInv
<1>. QED  BY <1>4, <1>12, <1>13, <1>14 DEF IInv

\* A lost race ends the request or plans it again.
LEMMA RacedIInv ==
  ASSUME IInv, NEW w \in Writers, req[w].pc = "wait", req[w].wrote = 0, Raced(w),
         UNCHANGED <<past, applied, faults>>
  PROVE  IInv'
<1>. DEFINE r == req[w]
            s == req'[w]
<1>1. /\ HistoryOK(past) /\ Len(past) \in Nat \ {0} /\ DOMAIN req = Writers
      /\ RequestInv(r, past) /\ Bounded(r, past) /\ WroteOnce(r) /\ DOMAIN r = ReqFields
  BY HistoryFacts DEF IInv, RequestInv
<1>2. CASE Answered(w, "Conflict") \/ Answered(w, "AlreadyExists")
  <2>1. ASSUME NEW a \in {"Conflict", "AlreadyExists"}, Answered(w, a)
        PROVE  IInv'
    BY <2>1, AnswerIInv
  <2>. QED  BY <1>2, <2>1
<1>3. CASE /\ r.tries + 1 # WriteAttempts
           /\ req' = [req EXCEPT ![w].pc = "read", ![w].tries = @ + 1, ![w].op = "none",
                                 ![w].at = None, ![w].cand = Nil]
  <2>. DEFINE z == [req[w] EXCEPT !.pc = "read", !.tries = @ + 1, !.op = "none",
                                  !.at = None, !.cand = Nil]
  <2>1. req' = [req EXCEPT ![w] = z]
    BY <1>1, <1>3
  <2>2. /\ DOMAIN z = ReqFields /\ z.pc = "read" /\ z.tries = r.tries + 1 /\ z.at = None
        /\ z.ask = r.ask /\ z.expected = r.expected /\ z.node = r.node /\ z.since = r.since
        /\ z.answer = r.answer /\ z.wrote = r.wrote
    BY <1>1 DEF ReqFields
  <2>. HIDE DEF z
  <2>3. Alone(w) /\ s = z
    BY <1>1, <2>1 DEF Alone
  <2>4. Bounded(z, past)
    <3>1. r.tries + 1 \in 0..(WriteAttempts - 1)
      BY <1>1, <1>3, PipelineAssumption DEF Bounded
    <3>. QED  BY <1>1, <2>2, <3>1 DEF Bounded
  <2>5. WroteOnce(z)
    BY <1>1, <2>2 DEF WroteOnce, Refused
  <2>6. RequestInv(z, past)
    BY <2>2, <2>4, <2>5 DEF RequestInv, Honest
  <2>7. DOMAIN req' = Writers /\ \A v \in Writers : RequestInv(req'[v], past')
    <3>1. RequestInv(req'[w], past') /\ HistoryOK(past')
      BY <1>1, <2>3, <2>6
    <3>2. Len(past) <= Len(past') /\ \A j \in 1..Len(past) : past'[j] = past[j]
      BY <1>1
    <3>. QED  BY <2>3, <3>1, <3>2, OthersKeep
  <2>. QED  BY <1>1, <2>7 DEF IInv, Rev
<1>. QED  BY <1>2, <1>3 DEF Raced

\* The request is answered by its operation code, or raced.
LEMMA SettleIInv ==
  ASSUME IInv, NEW w \in Writers, Settle(w)
  PROVE  IInv'
<1>. DEFINE r == req[w]
            verb == req[w].ask.verb
            op == req[w].op
<1>1. /\ RequestInv(r, past) /\ Meant(r, past) /\ r.pc = "wait" /\ r.ask \in Asks /\ AskOK(r.ask)
      /\ UNCHANGED <<past, applied, faults>>
  BY PipelineAssumption DEF IInv, RequestInv, Bounded, Settle
<1>2. CASE verb \in MainVerbs
  <2>1. verb \notin ScopedVerbs \cup {"Delete"}
    BY <1>2 DEF MainVerbs, ScopedVerbs
  <2>2. /\ op \in {"Created", "Replaced", "Unchanged", "Deleted", "Conflict", "NoOp"}
        /\ op \in {"Conflict", "NoOp"} => r.wrote = 0
        /\ op \in {"Created", "Replaced", "Unchanged"} => Took(r, past)
    BY <1>1, <1>2 DEF Meant
  <2>3. CASE op \in {"Created", "Replaced", "Unchanged"}
    <3>1. Answered(w, ReadBack(w))
      BY <1>2, <2>3, <2>1 DEF Settle
    <3>2. ReadBack(w) \notin Refused
      BY DEF ReadBack, Refused
    <3>. QED  BY <1>1, <2>2, <2>3, <3>1, <3>2, AnswerIInv
  <2>4. CASE op = "Deleted"
    <3>1. Answered(w, "Released")
      BY <1>2, <2>4, <2>1 DEF Settle
    <3>2. "Released" \notin Refused /\ "Released" \notin {"Stored", "Unchanged", "Deleted"}
      BY DEF Refused
    <3>. QED  BY <1>1, <3>1, <3>2, AnswerIInv
  <2>5. CASE op \in {"Conflict", "NoOp"}
    <3>1. Raced(w)
      BY <1>2, <2>5, <2>1 DEF Settle
    <3>. QED  BY <1>1, <2>2, <2>5, <3>1, RacedIInv
  <2>. QED  BY <2>2, <2>3, <2>4, <2>5
<1>3. CASE verb \notin MainVerbs /\ op = "Conflict"
  <2>1. Answered(w, "Conflict")
    BY <1>3 DEF Settle
  <2>2. r.wrote = 0
    BY <1>1, <1>3 DEF Meant, AskOK
  <2>. QED  BY <1>1, <2>1, <2>2, AnswerIInv
<1>4. CASE verb \in ScopedVerbs /\ op = "PatchRejected"
  <2>1. verb \notin MainVerbs /\ verb # "Delete"
    BY <1>4 DEF MainVerbs, ScopedVerbs
  <2>2. Answered(w, "BadRequest")
    BY <1>4, <2>1 DEF Settle
  <2>3. r.wrote = 0
    BY <1>1, <1>4 DEF Meant
  <2>. QED  BY <1>1, <2>2, <2>3, AnswerIInv
<1>5. CASE verb \in ScopedVerbs /\ op \notin {"Conflict", "PatchRejected"}
  <2>1. verb \notin MainVerbs /\ verb # "Delete"
    BY <1>5 DEF MainVerbs, ScopedVerbs
  <2>2. Answered(w, ReadBack(w))
    BY <1>5, <2>1 DEF Settle
  <2>3. ReadBack(w) \notin Refused
    BY DEF ReadBack, Refused
  <2>4. op \notin {"NoOp", "Deleted"} => Took(r, past)
    BY <1>1, <1>5 DEF Meant
  <2>. QED  BY <1>1, <1>5, <2>2, <2>3, <2>4, AnswerIInv
<1>6. CASE verb = "Delete" /\ op # "Conflict"
  <2>1. verb \notin MainVerbs \cup ScopedVerbs
    BY <1>6 DEF MainVerbs, ScopedVerbs
  <2>2. Answered(w, "Deleted")
    BY <1>6, <2>1 DEF Settle
  <2>3. "Deleted" \notin Refused
    BY DEF Refused
  <2>4. Took(r, past)
    BY <1>1, <1>6 DEF Meant
  <2>. QED  BY <1>1, <2>2, <2>3, <2>4, AnswerIInv
<1>. QED  BY <1>1, <1>2, <1>3, <1>4, <1>5, <1>6 DEF AskOK, MainVerbs, ScopedVerbs

\* A follower applies the next entry.
LEMMA CatchUpIInv ==
  ASSUME IInv, NEW n \in Followers, CatchUp(n)
  PROVE  IInv'
<1>1. Len(past) \in Nat \ {0}
  BY HistoryFacts DEF IInv
<1>2. /\ applied[n] < Rev /\ applied' = [applied EXCEPT ![n] = @ + 1]
      /\ UNCHANGED <<past, req, faults>>
  BY DEF CatchUp
<1>3. applied' \in [Followers -> 0..Rev]
  BY <1>1, <1>2 DEF IInv, Rev
<1>. QED  BY <1>2, <1>3 DEF IInv, Rev

\* Nothing happens.
LEMMA StutterIInv == IInv /\ UNCHANGED vars => IInv'
  BY DEF IInv, vars, Rev

\* Every step preserves the invariant.
LEMMA NextIInv == IInv /\ [Next]_vars => IInv'
<1>. SUFFICES ASSUME IInv, [Next]_vars PROVE IInv'
  OBVIOUS
<1>1. ASSUME NEW w \in Writers, NEW ask \in Asks, NEW e \in {None} \cup 1..Rev, NEW n \in Nodes,
             Arrive(w, ask, e, n)
      PROVE  IInv'
  BY <1>1, ArriveIInv
<1>2. ASSUME NEW w \in Writers, Advance(w)
      PROVE  IInv'
  BY <1>2, ReadAndPlanIInv, ProposeIInv, SettleIInv DEF Advance
<1>3. ASSUME NEW w \in Writers, Reject(w)
      PROVE  IInv'
  <2>1. req[w].pc = "read" /\ Answered(w, "Rejected") /\ UNCHANGED <<past, applied, faults>>
    BY <1>3 DEF Reject
  <2>2. req[w].wrote = 0
    BY <2>1 DEF IInv, RequestInv, WroteOnce
  <2>. QED  BY <2>1, <2>2, AnswerIInv
<1>4. ASSUME NEW w \in Writers, NEW c \in BOOLEAN, ProposeFails(w, c)
      PROVE  IInv'
  BY <1>4, ProposeFailsIInv
<1>5. ASSUME NEW n \in Followers, CatchUp(n)
      PROVE  IInv'
  BY <1>5, CatchUpIInv
<1>6. CASE UNCHANGED vars
  BY <1>6, StutterIInv
<1>. QED  BY <1>1, <1>2, <1>3, <1>4, <1>5, <1>6 DEF Next, Finished

-----------------------------------------------------------------------------
(* The theorems. *)

\* The invariant in the terms of the checked properties.
LEMMA IInvImplies == IInv => RequestsSoundUnlessScopedDry /\ AckedTookEffectUnlessVanished
<1>. SUFFICES ASSUME IInv PROVE RequestsSoundUnlessScopedDry /\ AckedTookEffectUnlessVanished
  OBVIOUS
<1>1. HistoryOK(past) /\ Len(past) \in Nat \ {0}
  BY HistoryFacts DEF IInv
<1>2. TypeOK
  <2>1. \A i \in 1..Len(past) : DOMAIN past[i] \subseteq {Obj}
    BY <1>1, HistoryFacts DEF StoredBy
  <2>2. \A n \in Followers : applied[n] \in 0..Rev
    BY DEF IInv
  <2>3. \A w \in Writers : /\ req[w].pc \in {"idle", "read", "propose", "wait", "done"}
                           /\ req[w].tries \in 0..(WriteAttempts - 1)
                           /\ req[w].at \in {None} \cup 1..Rev
    BY DEF IInv, RequestInv, Bounded, Rev
  <2>. QED  BY <2>1, <2>2, <2>3 DEF TypeOK, IInv
<1>3. CommitsAtMostOnce
  BY DEF IInv, RequestInv, WroteOnce, Refused, CommitsAtMostOnce
<1>4. DryRunsPersistNothing
  <2>1. ASSUME NEW w \in Writers, req[w].pc # "idle", StoresNothing(req[w].ask) PROVE req[w].wrote = 0
    BY <2>1 DEF IInv, RequestInv, WroteOnce
  <2>. QED  BY <2>1, Zenon DEF DryRunsPersistNothing, StoresNothing
<1>5. ASSUME NEW w \in Writers, Succeeded(w), req[w].node = Leader, ~Vanished(w)
      PROVE  TookEffect(w)
  <2>1. Took(req[w], past) /\ req[w].since \in 0..(Len(past) - 1)
    BY <1>5 DEF IInv, RequestInv, Honest, Bounded, Succeeded, Vanished
  <2>2. PICK i \in 1..Len(past) : i > req[w].since /\ EffectOf(req[w].ask, ImageOf(past[i], Obj))
    BY <2>1 DEF Took
  <2>3. i - 1 \in req[w].since..Rev /\ (i - 1) + 1 = i
    BY <1>1, <2>1, <2>2 DEF Rev
  <2>. QED  BY <2>2, <2>3 DEF TookEffect
<1>. QED  BY <1>2, <1>3, <1>4, <1>5 DEF RequestsSoundUnlessScopedDry, AckedTookEffectUnlessVanished

\* The invariant holds of every behaviour.
LEMMA Invariance == Spec => []IInv
<1>. QED  BY InitIInv, NextIInv, PTL DEF Spec

\* However its races go, a request stays within its attempts, pins only committed
\* revisions, commits at most one revision, and none when it is refused or asked for
\* a dry run of anything but /status and /scale (write_plan.rs write, handler.rs
\* propose_scoped_patch_typed, params.rs DryRun).
THEOREM RequestsSoundAlways == Spec => []RequestsSoundUnlessScopedDry
<1>. QED  BY Invariance, IInvImplies, PTL

\* A success answered by the leader is true: the object was as asked at some
\* revision since the request arrived (write_plan.rs write, commit, read_back).
THEOREM AckedTookEffect == Spec => []AckedTookEffectUnlessVanished
<1>. QED  BY Invariance, IInvImplies, PTL

\* What a step that commits leaves of the object.
TerminationStep ==
    Before # Nil /\ past' # past =>
        /\ After # Nil /\ Before.del => After.del
        /\ After = Nil => ~Before.fin \/ Before.del

\* A proposal that commits keeps what it was not asked to change.
LEMMA ProposalKeeps ==
  ASSUME IInv, NEW w \in Writers, req[w].pc = "propose", NEW out,
         \/ out = Command(req[w], Live, Rev + 1)
         \/ out = NoChange("none", Live),
         Commits(out), Alone(w)
  PROVE  NoLostUpdateStep /\ TerminationStep
<1>1. HistoryOK(past) /\ (\A v \in Writers : req[v].wrote \in 0..1) /\ Len(past) \in Nat
  BY HistoryFacts DEF IInv, RequestInv, WroteOnce
<1>2. /\ Recorded(out, Live, Rev + 1)
      /\ ~Quiet(out) => Keeps(req[w].ask, Before, ImageOf(out.res, Obj))
  <2>1. CASE out = Command(req[w], Live, Rev + 1)
    BY <2>1, ProposalOutcome DEF Outcome, Before
  <2>2. CASE out = NoChange("none", Live)
    <3>1. Idles(out, Live)
      BY <2>2, NoChangeFacts
    <3>. QED  BY <3>1, IdlesShape
  <2>. QED  BY <2>1, <2>2
<1>3. CASE Quiet(out)
  <2>1. past' = past
    BY <1>1, <1>2, <1>3, CommitsFacts
  <2>2. TerminationStep
    BY <2>1 DEF TerminationStep
  <2>3. NoLostUpdateStep
    BY <1>1, <2>1 DEF NoLostUpdateStep, CommittedBy
  <2>. QED  BY <2>2, <2>3
<1>4. CASE ~Quiet(out)
  <2>1. past'[Len(past')] = out.res
    BY <1>1, <1>2, CommitsFacts
  <2>2. Keeps(req[w].ask, Before, After)
    BY <1>2, <1>4, <2>1 DEF After
  <2>3. TerminationStep
    BY <2>2, Zenon DEF TerminationStep, Keeps
  <2>4. ASSUME NEW v \in Writers, CommittedBy(v)
        PROVE  v = w
    <3>1. CASE v # w
      <4>1. req'[v] = req[v]
        BY <3>1 DEF Alone
      <4>. QED  BY <1>1, <2>4, <4>1 DEF CommittedBy
    <3>. QED  BY <3>1
  <2>5. DOMAIN Blank = Fields
    BY BlankFacts
  <2>6. /\ req[w].ask.verb = "Create" => Before = Nil
        /\ Before # Nil /\ After # Nil =>
             \A f \in DOMAIN Blank \ Touches(req[w].ask) : After[f] = Before[f]
    BY <2>2, <2>5 DEF Keeps
  <2>7. NoLostUpdateStep
    <3>. HIDE DEF Before, After
    <3>. QED  BY <2>4, <2>6 DEF NoLostUpdateStep
  <2>. QED  BY <2>3, <2>7
<1>. QED  BY <1>3, <1>4

\* A step that leaves the history alone undoes nothing.
LEMMA QuietStep ==
  ASSUME IInv, past' = past
  PROVE  NoLostUpdateStep /\ TerminationStep
<1>1. Len(past) \in Nat
  BY HistoryFacts DEF IInv
<1>2. NoLostUpdateStep
  BY <1>1 DEF NoLostUpdateStep, CommittedBy
<1>3. TerminationStep
  BY DEF TerminationStep
<1>. QED  BY <1>2, <1>3

\* No step undoes anything.
LEMMA NextKeeps == IInv /\ [Next]_vars => NoLostUpdateStep /\ TerminationStep
<1>. SUFFICES ASSUME IInv, [Next]_vars PROVE NoLostUpdateStep /\ TerminationStep
  OBVIOUS
<1>1. ASSUME NEW w \in Writers, req[w].pc = "propose"
      PROVE  DOMAIN req = Writers /\ DOMAIN req[w] = ReqFields /\ req[w].wrote = 0 /\ HistoryOK(past)
  BY <1>1 DEF IInv, RequestInv, WroteOnce
<1>2. ASSUME NEW w \in Writers, Propose(w)
      PROVE  NoLostUpdateStep /\ TerminationStep
  <2>. DEFINE out == Command(req[w], Live, Rev + 1)
              n == Len(out.changes)
              op == out.op
              t == Len(past') - 1
  <2>1. /\ req[w].pc = "propose" /\ Commits(out)
        /\ req' = [req EXCEPT ![w].pc = "wait", ![w].op = op, ![w].target = t, ![w].wrote = @ + n]
    BY <1>2 DEF Propose
  <2>2. n \in 0..1
    <3>1. Recorded(out, Live, Rev + 1)
      BY <2>1, ProposalOutcome DEF Outcome
    <3>. HIDE DEF out
    <3>. QED  BY <1>1, <2>1, <3>1, CommitsFacts
  <2>. HIDE DEF n, op, t
  <2>3. Alone(w)
    BY <1>1, <2>1, <2>2, ProposedFacts
  <2>. QED  BY <2>1, <2>3, ProposalKeeps
<1>3. ASSUME NEW w \in Writers, NEW c \in BOOLEAN, ProposeFails(w, c)
      PROVE  NoLostUpdateStep /\ TerminationStep
  <2>. DEFINE out == IF c THEN Command(req[w], Live, Rev + 1) ELSE NoChange("none", Live)
              n == Len(out.changes)
  <2>1. /\ req[w].pc = "propose" /\ Commits(out)
        /\ req' = [req EXCEPT ![w].pc = "done", ![w].answer = "Error", ![w].wrote = @ + n]
    BY <1>3 DEF ProposeFails
  <2>2. out = Command(req[w], Live, Rev + 1) \/ out = NoChange("none", Live)
    OBVIOUS
  <2>3. Recorded(out, Live, Rev + 1)
    <3>1. Recorded(Command(req[w], Live, Rev + 1), Live, Rev + 1)
      BY <2>1, ProposalOutcome DEF Outcome
    <3>2. Recorded(NoChange("none", Live), Live, Rev + 1)
      BY NoChangeFacts, IdlesShape
    <3>. QED  BY <3>1, <3>2
  <2>. HIDE DEF out
  <2>4. n \in 0..1
    BY <1>1, <2>1, <2>3, CommitsFacts
  <2>. HIDE DEF n
  <2>5. Alone(w)
    BY <1>1, <2>1, <2>4, ProposedFacts
  <2>. QED  BY <2>1, <2>2, <2>5, ProposalKeeps
<1>4. CASE past' = past
  BY <1>4, QuietStep
<1>5. ASSUME NEW w \in Writers,
             (\E ask \in Asks, e \in {None} \cup 1..Rev, n \in Nodes : Arrive(w, ask, e, n))
               \/ ReadAndPlan(w) \/ Settle(w) \/ Reject(w)
      PROVE  past' = past
  BY <1>5 DEF Arrive, ReadAndPlan, Settle, Reject
<1>6. ASSUME NEW n \in Followers, CatchUp(n)
      PROVE  past' = past
  BY <1>6 DEF CatchUp
<1>7. UNCHANGED vars => past' = past
  BY DEF vars
<1>. QED  BY <1>2, <1>3, <1>4, <1>5, <1>6, <1>7 DEF Next, Advance, Finished

\* Whatever was committed while a request was on its way, a write changes only
\* what it was asked to, a create replaces nothing, and no write revives a
\* Terminating object or drops one that still has finalizers (write_plan.rs
\* plan_write and commit, state.rs apply).
THEOREM NothingIsUndone == Spec => NothingUndone
<1>1. IInv /\ [Next]_vars => [NoLostUpdateStep]_vars /\ [TerminationStep]_vars
  BY NextKeeps
<1>2. Spec => [][NoLostUpdateStep]_vars /\ [][TerminationStep]_vars
  BY <1>1, Invariance, PTL DEF Spec
<1>3. [][TerminationStep]_vars => TerminationSticks
  BY PTL DEF TerminationSticks, TerminationStep
<1>. QED  BY <1>2, <1>3, PTL DEF NothingUndone, NoLostUpdate
=============================================================================
