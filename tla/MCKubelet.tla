----------------------------- MODULE MCKubelet ------------------------------
(***************************************************************************)
(* Small pods for model checking the kubelet: two app containers, or one   *)
(* behind an init container and a sidecar, on a runtime that adopts what   *)
(* runs and on one that cannot, under each restart policy.                 *)
(***************************************************************************)
EXTENDS Kubelet

Init1 == [name |-> "i", sidecar |-> FALSE]
Side1 == [name |-> "s", sidecar |-> TRUE]

Pod(policy, adopts, apps, inits, pods) ==
  [policy |-> policy, adopts |-> adopts, apps |-> apps, inits |-> inits, pods |-> pods]

SmallSetups ==
  {Pod(policy, adopts, <<"a">>, <<>>, 2) : policy \in Policies, adopts \in BOOLEAN}
    \union {Pod("Never", FALSE, <<"a", "b">>, <<>>, 1),
            Pod("OnFailure", TRUE, <<"a">>, <<Init1, Side1>>, 1),
            Pod("Never", FALSE, <<"a">>, <<Init1, Side1>>, 1)}
=============================================================================
