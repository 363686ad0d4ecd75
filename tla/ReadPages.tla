----------------------------- MODULE ReadPages -----------------------------
(***************************************************************************)
(* The pages that only read, of the public site (Reading) and of the admin *)
(* console (Dashboards).  They share nothing but what is asked of them:    *)
(* what they show, or say to be missing, was so while they asked.  One of  *)
(* the two is open.                                                        *)
(***************************************************************************)
EXTENDS Reading, Dashboards

VARIABLE site   \* the public site is open, and not the console

vars == <<readingVars, dashVars, site>>

Init ==
  /\ ReadingInit
  /\ DashInit
  /\ \/ site = TRUE /\ grants = CHOOSE g \in Staff : TRUE
     \/ site = FALSE /\ Public(content) = {}

SiteStep ==
  /\ site
  /\ ReadingNext
  /\ UNCHANGED <<dashVars, site>>

ConsoleStep ==
  /\ ~site
  /\ DashNext
  /\ UNCHANGED <<readingVars, site>>

Next == SiteStep \/ ConsoleStep

Spec == Init /\ [][Next]_vars
=============================================================================
