-------------------------- MODULE MCConsoleSession --------------------------
(***************************************************************************)
(* ConsoleSession with two calls under way at a time, which is the least   *)
(* that shares a refresh.                                                  *)
(***************************************************************************)
EXTENDS ConsoleSession

CONSTANTS c1, c2
=============================================================================
