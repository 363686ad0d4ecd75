-------------------------- MODULE MCConsoleLists --------------------------
(* An instance of the list pages for TLC: the pages with most dialogs have *)
(* one row, the others two.                                                *)
EXTENDS ConsoleLists, TLC
CONSTANTS i1, i2
OneOrTwoRows ==
    [p \in {"users", "admins", "roles"} |-> {i1}]
        @@ [p \in {"assets", "posts", "categories", "tags"} |-> {i1, i2}]
Symmetric == Permutations(Slots)
=============================================================================
