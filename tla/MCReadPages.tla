---------------------------- MODULE MCReadPages ----------------------------
(***************************************************************************)
(* Two articles and two categories on pages of one row each, so that lists *)
(* and walks have a second page; administrators with one or two of the     *)
(* dashboards, and a second page of one log.                               *)
(***************************************************************************)
EXTENDS ReadPages

SomeStaff == {{"overview", "request"}, {"login"}, {"audit", "request"}}
TwoPagesOfLogins == [log \in Logs |-> IF log = "login" THEN {1, 2} ELSE {1}]
=============================================================================
