---------------------------- MODULE AdminsPage -----------------------------
(***************************************************************************)
(* The list of administrators.  Administrators are never deleted, so its   *)
(* one confirmation only clears the avatar in the form of the edit drawer, *)
(* which is left out with the upload of an avatar.                         *)
(***************************************************************************)
EXTENDS ListPage

AdminEffects ==
    [create |-> Effect("first", FALSE, TRUE),
     edit |-> Effect("first", FALSE, TRUE),
     batchStatus |-> Effect("none", TRUE, TRUE),
     status |-> Effect("none", FALSE, TRUE),
     superuser |-> Effect("none", FALSE, TRUE),
     resetPassword |-> Effect("first", FALSE, FALSE),
     assignRoles |-> Effect("first", FALSE, TRUE),
     revokeSessions |-> Effect("none", FALSE, FALSE)]

\* The query of the list has no filter but the number of the page.
AdminViewChanges == ViewChanges({"current"})

AdminBulkActs ==
    /\ ~Pending("batchStatus")
    /\ PickedSends("batchStatus", "setAdminStatusBulk", {"admins:update"}, PickedTargets, "none")

\* Opening the drawer forgets the save before it: the callback that would
\* give its lock back is dropped with it.
AdminOpensEdit(i) ==
    /\ dialog.kind = "none"
    /\ dialog' = [kind |-> "form", use |-> "edit", targets |-> {TargetOf(i)}, told |-> {TargetOf(i)}]
    /\ reqs' = [s \in Slots |-> IF reqs[s].use = "edit"
                                THEN [reqs[s] EXCEPT !.holds = "none", !.newest = FALSE]
                                ELSE reqs[s]]
    /\ UNCHANGED <<picked, locked>>
    /\ OnPage

\* The tag of the status, in its column.
AdminTogglesStatus(i) ==
  /\ ~PendingOn("status", i)
  /\ RowSends("status", "setAdminStatus", {"admins:update"}, i, "none")

AdminTagActs == \E i \in Listed : AdminTogglesStatus(i)

\* The tag of the identity.
AdminIdentityActs ==
  \E i \in Listed :
    /\ ~PendingOn("superuser", i)
    /\ RowSends("superuser", "setAdminSuperuser", {"admins:superuser:change"}, i, "none")

\* The menu of a row, whose entry for the status does what the tag does.
AdminMenuActs ==
  \E i \in Listed :
    \/ Opens("form", "resetPassword", {TargetOf(i)})
    \/ AdminTogglesStatus(i)

\* The buttons of a row.
AdminRowActs ==
    \E i \in Listed :
      \/ AdminOpensEdit(i)
      \/ Opens("form", "assignRoles", {TargetOf(i)})
      \/ Opens("drawer", "revokeSessions", {TargetOf(i)})

AdminCreates ==
    \/ list \notin {"loading", "broken"} /\ Opens("form", "create", {})
    \/ Submits("create", "createAdmin", {"admins:create"})
    \/ CancelsForm("create")

AdminEdits ==
    \/ SubmitsLocked("sent", "edit", "updateAdmin", {"admins:update"})
    \/ CancelsLocked("edit")

AdminPasswordResets ==
    \/ Submits("resetPassword", "resetAdminPassword", {"admins:credentials:reset"})
    \/ CancelsForm("resetPassword")

AdminRoles ==
    \/ Submits("assignRoles", "assignAdminRoles", {"admins:roles:assign", "roles:read"})
    \/ CancelsForm("assignRoles")

AdminSessions ==
    \/ DrawerSends("revokeSessions", "revokeAdminSessions",
                   {"admins:sessions:read", "admins:sessions:revoke"})
    \/ ClosesDrawer

AdminsNext ==
    /\ page = "admins"
    /\ \/ AdminViewChanges \/ Picks \/ AdminBulkActs \/ AdminTagActs \/ AdminIdentityActs
       \/ AdminMenuActs \/ AdminRowActs \/ AdminCreates \/ AdminEdits
       \/ AdminPasswordResets \/ AdminRoles \/ AdminSessions

=============================================================================
