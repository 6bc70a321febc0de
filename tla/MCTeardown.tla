----------------------------- MODULE MCTeardown -----------------------------
(* Small instances of Teardown for TLC. *)
EXTENDS Teardown

MCSetups == {[on |-> {"namespace", "replicaset"}, edits |-> 0, ending |-> {TRUE}],
             [on |-> {"replicaset"}, edits |-> 1, ending |-> {FALSE}],
             [on |-> {"gc", "replicaset"}, edits |-> 2, ending |-> {FALSE}],
             [on |-> {"namespace", "gc"}, edits |-> 1, ending |-> BOOLEAN]}
=============================================================================
