---------------------------- MODULE MCAdminRbac ----------------------------
(***************************************************************************)
(* AdminRbac on small sets, with the symmetry of the interchangeable ones. *)
(***************************************************************************)
EXTENDS AdminRbac, TLC

Symmetry == Permutations(Admin) \cup Permutations(Role) \cup Permutations(Request)
=============================================================================
