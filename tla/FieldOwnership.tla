--------------------------- MODULE FieldOwnership ---------------------------
(***************************************************************************)
(* Server-side apply (engenho-store/src/ssa.rs) over the life of one       *)
(* object: managers apply configurations, with and without force, and drop *)
(* what they no longer declare; plain updates change the object without    *)
(* being recorded, for nothing in the repository writes an Update entry.   *)
(*                                                                         *)
(* An object has scalar fields and one list whose elements are merged by   *)
(* their name.  A path is a scalar field, or a name and a field of the     *)
(* element that has it.  A configuration is the function from the paths it *)
(* declares to their values; an element it declares it also names.         *)
(***************************************************************************)
EXTENDS Naturals, Sequences, FiniteSets, TLC
LOCAL INSTANCE SequencesExt
LOCAL INSTANCE Functions

CONSTANTS Managers,
          Scalars,        \* the scalar fields
          Names,          \* the names of list elements
          ElementFields,  \* an element's fields, in the order the trie keeps them
          Values,         \* of an element's fields
          ScalarValues,   \* of the scalar fields
          MaxItems,       \* bound on the list: elements without a name pile up
          Nil

ASSUME OwnershipAssumption ==
    /\ "name" \in ToSet(ElementFields) /\ MaxItems \in Nat
    /\ ScalarValues \subseteq Values /\ Nil \notin Values /\ Values \cap Names = {}

VARIABLES obj,      \* the live object, or Nil
          managed,  \* metadata.managedFields
          forced,   \* whether an apply was forced on this object
          updated   \* whether a plain update changed it

vars == <<obj, managed, forced, updated>>

NameOf(n) == <<n, "name">>

ElementPaths == Names \X ToSet(ElementFields)

Paths == {<<s>> : s \in Scalars} \cup ElementPaths

\* The leaves of the trie in the order owned_paths lists them.
TrieOrder ==
    FlattenSeq([i \in 1..Cardinality(Names) |->
                  [j \in 1..Len(ElementFields) |-> <<SetToSeq(Names)[i], ElementFields[j]>>]])
    \o [i \in 1..Cardinality(Scalars) |-> <<SetToSeq(Scalars)[i]>>]

Fitting(p) == IF p \in ElementPaths /\ p[2] = "name" THEN {p[1]}
              ELSE IF p \in ElementPaths THEN Values ELSE ScalarValues

Configs ==
    {c \in UNION {[ps -> Values \cup Names] : ps \in SUBSET Paths} :
        \A p \in DOMAIN c : /\ c[p] \in Fitting(p)
                            /\ p \in ElementPaths => NameOf(p[1]) \in DOMAIN c}

Empty == [top |-> <<>>, items |-> <<>>]

Init == obj = Nil /\ managed = <<>> /\ forced = FALSE /\ updated = FALSE

-----------------------------------------------------------------------------
(* Objects. *)

Named(item, n) == "name" \in DOMAIN item /\ item.name = n

\* list_element_index: the first element of that name, or 0.
IndexOf(items, n) == SelectInSeq(items, LAMBDA item : Named(item, n))

FieldAt(f, k) == IF k \in DOMAIN f THEN f[k] ELSE Nil

\* value_at
ValueAt(o, p) ==
    IF p \in ElementPaths
    THEN LET i == IndexOf(o.items, p[1]) IN IF i = 0 THEN Nil ELSE FieldAt(o.items[i], p[2])
    ELSE FieldAt(o.top, p[1])

\* What a configuration declares of the element n.
ItemOf(c, n) == [f \in {p[2] : p \in {q \in DOMAIN c \cap ElementPaths : q[1] = n}} |-> c[<<n, f>>]]

\* merge_list_by_key for one element: in place, else appended.
MergeItem(items, c, n) ==
    LET i == IndexOf(items, n)
    IN  IF i = 0 THEN Append(items, ItemOf(c, n))
        ELSE [items EXCEPT ![i] = ItemOf(c, n) @@ @]

\* strategic_merge
Merge(o, c) ==
    [top   |-> [s \in {p[1] : p \in DOMAIN c \ ElementPaths} |-> c[<<s>>]] @@ o.top,
     items |-> FoldLeft(LAMBDA acc, n : MergeItem(acc, c, n), o.items,
                        SetToSeq({p[1] : p \in DOMAIN c \cap ElementPaths}))]

Without(f, k) == Restrict(f, DOMAIN f \ {k})

\* remove_rec: an element that is left empty goes; one not found is left alone.
RemovePath(o, p) ==
    IF p \notin ElementPaths THEN [o EXCEPT !.top = Without(@, p[1])]
    ELSE LET i == IndexOf(o.items, p[1])
         IN  IF i = 0 THEN o
             ELSE IF DOMAIN o.items[i] \subseteq {p[2]} THEN [o EXCEPT !.items = RemoveAt(@, i)]
             ELSE [o EXCEPT !.items[i] = Without(@, p[2])]

-----------------------------------------------------------------------------
(* apply_ssa *)

OthersOf(m) == {i \in 1..Len(managed) : managed[i].manager # m}

OwnedByOther(m, p) == \E i \in OthersOf(m) : p \in managed[i].fields

\* Mutant: what the manager owns already is not checked again.
ConflictsOfNew(m, c) ==
    {p \in DOMAIN c : /\ OwnedByOther(m, p) /\ ValueAt(obj, p) # c[p]
                      /\ ~ \E i \in 1..Len(managed) : managed[i].manager = m /\ p \in managed[i].fields}

\* Phase 3: paths another manager owns with another value.
Conflicts(m, c) == {p \in DOMAIN c : OwnedByOther(m, p) /\ ValueAt(obj, p) # c[p]}

PriorOf(m) == UNION {managed[i].fields : i \in (1..Len(managed)) \ OthersOf(m)}

\* Mutant: a dropped field goes although another manager still declares it.
DroppedByAnyone(m, c) == PriorOf(m) \ DOMAIN c

\* Phase 6: what the manager no longer declares and nobody else owns.
Dropped(m, c) == {p \in PriorOf(m) \ DOMAIN c : ~OwnedByOther(m, p)}

Applied(m, c) ==
    FoldLeft(RemovePath, Merge(obj, c), SelectSeq(TrieOrder, LAMBDA p : p \in Dropped(m, c)))

Entry(m, fields) == [manager |-> m, fields |-> fields]

\* Mutant: a manager that has an entry gets another one.
OwnershipAppended(m, c, force) == Append(managed, Entry(m, DOMAIN c))

\* update_ownership: entries keep their place; a forced apply takes its paths
\* from every other manager, and an entry left empty by that goes.
UpdateOwnership(m, c, force) ==
    LET after(e) == IF e.manager = m THEN Entry(m, DOMAIN c)
                    ELSE IF force THEN [e EXCEPT !.fields = @ \ DOMAIN c]
                    ELSE e
        kept == SelectSeq([i \in 1..Len(managed) |-> after(managed[i])],
                          LAMBDA e : e.manager = m \/ ~force \/ e.fields # {})
    IN  IF OthersOf(m) = 1..Len(managed) THEN Append(kept, Entry(m, DOMAIN c)) ELSE kept

-----------------------------------------------------------------------------
Create(m, c) ==
    /\ obj = Nil
    /\ obj' = Merge(Empty, c) /\ managed' = <<Entry(m, DOMAIN c)>>
    /\ UNCHANGED <<forced, updated>>

\* A conflict without force is refused and changes nothing.
Apply(m, c, force) ==
    /\ obj # Nil
    /\ Conflicts(m, c) # {} => force
    /\ Len(Applied(m, c).items) <= MaxItems
    /\ obj' = Applied(m, c) /\ managed' = UpdateOwnership(m, c, force)
    /\ forced' = (forced \/ force) /\ UNCHANGED updated

\* A patch that sets what a configuration declares; it is not an apply.
Update(c) ==
    /\ obj # Nil /\ Len(Merge(obj, c).items) <= MaxItems
    /\ obj' = Merge(obj, c) /\ updated' = TRUE
    /\ UNCHANGED <<managed, forced>>

\* A patch that removes a field, or an element by its name.
Unset(p) ==
    /\ obj # Nil
    /\ obj' = IF p \in ElementPaths
              THEN [obj EXCEPT !.items = SelectSeq(@, LAMBDA item : ~Named(item, p[1]))]
              ELSE RemovePath(obj, p)
    /\ updated' = TRUE
    /\ UNCHANGED <<managed, forced>>

\* A replace whose body does not carry managedFields.
Forget ==
    /\ obj # Nil
    /\ managed' = <<>> /\ updated' = TRUE
    /\ UNCHANGED <<obj, forced>>

Delete ==
    /\ obj # Nil
    /\ obj' = Nil /\ managed' = <<>> /\ forced' = FALSE /\ updated' = FALSE

Next ==
    \/ \E m \in Managers, c \in Configs : Create(m, c)
    \/ \E m \in Managers, c \in Configs, force \in BOOLEAN : Apply(m, c, force)
    \/ \E c \in Configs : Update(c)
    \/ \E p \in {<<s>> : s \in Scalars} \cup {NameOf(n) : n \in Names} : Unset(p)
    \/ Forget
    \/ Delete

Spec == Init /\ [][Next]_vars

-----------------------------------------------------------------------------
(* Properties. *)

Owned == UNION {managed[i].fields : i \in 1..Len(managed)}

\* managedFields has one entry for each manager that applied, over paths of
\* the object's schema.
TypeOK ==
    /\ obj = Nil => managed = <<>>
    /\ forced \in BOOLEAN /\ updated \in BOOLEAN
    /\ Owned \subseteq Paths
    /\ \A i, j \in 1..Len(managed) : managed[i].manager = managed[j].manager => i = j

Present == {p \in Paths : ValueAt(obj, p) # Nil}

\* The fields of an element that its removal comes to after its name.
PastName == {ElementFields[j] : j \in {k \in 1..Len(ElementFields) :
                                         \E i \in 1..(k - 1) : ElementFields[i] = "name"}}

\* While the object is only applied to, every field in it has an owner and
\* every owned field is there, over any sequence of shared, dropped and
\* taken over fields.  The exception is what remove_at leaves: an element is
\* found by its name, and once that is removed the fields after it stay behind
\* in an element without a name.
OwnedExactlyUnlessLeftOver ==
    /\ TypeOK
    /\ obj # Nil /\ ~updated /\ ~forced =>
          /\ Owned = Present
          /\ \A i \in 1..Len(obj.items) :
                \/ \E n \in Names : IndexOf(obj.items, n) = i
                \/ DOMAIN obj.items[i] \subseteq PastName

\* An apply that is not forced leaves every field that another manager owns
\* as it is, also when it drops fields around it.
NoSilentOverwrite ==
    obj # Nil /\ ~forced =>
        \A m \in Managers, c \in Configs : Conflicts(m, c) = {} =>
            \A p \in UNION {managed[i].fields : i \in OthersOf(m)} :
                ValueAt(Applied(m, c), p) = ValueAt(obj, p)

=============================================================================
