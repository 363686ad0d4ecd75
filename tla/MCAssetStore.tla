---------------------------- MODULE MCAssetStore ----------------------------
(***************************************************************************)
(* AssetStore with an article and an account that refer to its assets.     *)
(***************************************************************************)
EXTENDS AssetStore, TLC

Symmetry == Permutations(Asset) \cup Permutations(Content) \cup Permutations(Request)
=============================================================================
