--------------------------- MODULE MCDurableStore ---------------------------
(***************************************************************************)
(* Instances of DurableStore.  The disks found are an empty one and the    *)
(* two an earlier release could leave: a catalog blob ahead of the         *)
(* last_applied beside it, and a snapshot, with the log purged to it,      *)
(* ahead of the blob.                                                      *)
(***************************************************************************)
EXTENDS DurableStore

C == [term |-> 2, kind |-> "cmd"]

\* What an old leader may leave behind, and what the new one commits.
MCEntries == {C, [C EXCEPT !.term = 1], [C EXCEPT !.kind = "member"]}

Empty == [log |-> <<>>, purged |-> 0, vote |-> 0,
          at |-> 0, content |-> <<>>, snap |-> NoSnap]

Fresh == [disk |-> Empty, chosen |-> <<>>]

SplitImage == [disk |-> [Empty EXCEPT !.log = <<C, C>>, !.at = 1, !.content = <<1, 2>>],
               chosen |-> <<C, C>>]

OldImage == [disk |-> [Empty EXCEPT !.purged = 2, !.snap = [at |-> 2, content |-> <<1, 2>>]],
             chosen |-> <<C, C>>]

AllFound == {Fresh, SplitImage, OldImage}

=============================================================================
