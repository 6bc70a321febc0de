-------------------------- MODULE MCFieldOwnership --------------------------
(* An instance of FieldOwnership for TLC: element fields in trie order, one *)
(* before and one after the name.                                          *)
EXTENDS FieldOwnership

AroundName == <<"image", "name", "ports">>

ManagerSymmetry == Permutations(Managers)
=============================================================================
