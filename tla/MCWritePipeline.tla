--------------------------- MODULE MCWritePipeline ---------------------------
(***************************************************************************)
(* Instances of WritePipeline: the requests and the object they race on.   *)
(***************************************************************************)
EXTENDS WritePipeline, TLC

Ask(verb, arg) == [verb |-> verb, arg |-> arg, dry |-> FALSE]

DryAsk(verb, arg) == [verb |-> verb, arg |-> arg, dry |-> TRUE]

Body == [spec |-> 1, label |-> 1, fin |-> FALSE, del |-> FALSE, status |-> 0]

\* A stored object with a finalizer, as a Create of revision 1 leaves it.
Stored1 == ApplyPut(<<>>, Obj, [Blank EXCEPT !.spec = 1, !.label = 1, !.fin = TRUE],
                    None, "Skip", 1).res

Found == {<< <<>>, Stored1 >>}

FoundOrNone == Found \cup {<< <<>> >>}

\* Every verb once; a finalizer cleared and one added; a change of each field; a
\* patch that does not apply; and a dry run of each of the three plans (that of
\* PlanScoped is stored like any other).
RaceAsks == {Ask("Create", Body),
             Ask("Replace", [Body EXCEPT !.spec = 2]),
             Ask("Patch", [fin |-> FALSE, del |-> FALSE]),
             Ask("Patch", [fin |-> TRUE]),
             Ask("Apply", [label |-> 2]),
             Ask("PutScoped", [status |-> 2]),
             DryAsk("PatchScoped", [status |-> 1]),
             Ask("PatchScoped", Nil),
             Ask("Delete", <<>>),
             DryAsk("Apply", [label |-> 2]),
             DryAsk("Delete", <<>>)}

FollowerAsks == {Ask("Create", Body), Ask("Patch", [label |-> 2]), Ask("Patch", [label |-> 1]),
                 Ask("Patch", [fin |-> FALSE]), Ask("Delete", <<>>), DryAsk("Delete", <<>>)}

WriterSymmetry == Permutations(Writers)

=============================================================================
