--------------------------- MODULE MCConsoleForms --------------------------
(* An instance of the forms for TLC.                                       *)
EXTENDS ConsoleForms
CONSTANTS c1, c2, c3, c4
OneOfEach ==
    [c \in Codes |-> IF c = c3 THEN "inactive" ELSE IF c = c4 THEN "reserved" ELSE "active"]
=============================================================================
