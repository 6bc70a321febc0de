-------------------------- MODULE MCEvictionBudget --------------------------
(***************************************************************************)
(* Instances of EvictionBudget: a budget that wants one healthy pod,       *)
(* reconciled or not yet, with either policy for unhealthy pods.           *)
(***************************************************************************)
EXTENDS EvictionBudget

\* The budget as a tick leaves it while every pod is ready.
Settled(b) ==
    LET n == Cardinality(Pods)
    IN  [b EXCEPT !.observed = b.gen, !.current = n, !.desired = b.min,
                  !.expected = n, !.allowed = Clip(n - b.min)]

MCStart == {Settled(Fresh(1, FALSE)), Fresh(1, TRUE)}

Plain == [pinned |-> FALSE, dry |-> FALSE]

AllOptions == {Plain, [Plain EXCEPT !.pinned = TRUE], [Plain EXCEPT !.dry = TRUE]}

=============================================================================
