--------------------------- MODULE MCCatalogStore ---------------------------
(***************************************************************************)
(* Instances of CatalogStore.  The bodies are chosen so that a write can   *)
(* change the spec, the label, the finalizers or the status of an object   *)
(* alone, and so that an object can be released.                           *)
(***************************************************************************)
EXTENDS CatalogStore, TLC

Body(s, l, f, d) == [Blank EXCEPT !.spec = s, !.label = l, !.fin = f, !.del = d]

MCBodies == {Body(1, 1, TRUE, FALSE), Body(2, 2, FALSE, FALSE)}

MCPatches == {[fin |-> FALSE], [fin |-> FALSE, label |-> 2]}

KeySymmetry == Permutations(Keys)

=============================================================================
