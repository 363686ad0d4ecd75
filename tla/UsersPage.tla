----------------------------- MODULE UsersPage -----------------------------
(***************************************************************************)
(* The list of readers in the admin console, with its recycle bin.         *)
(***************************************************************************)
EXTENDS ListPage

UserEffects ==
    [create |-> Effect("first", FALSE, TRUE),
     edit |-> Effect("first", FALSE, TRUE),
     batchStatus |-> Effect("none", TRUE, TRUE),
     status |-> Effect("none", FALSE, TRUE),
     batchDelete |-> Effect("first", TRUE, TRUE),
     restore |-> Effect("none", FALSE, TRUE),
     batchRestore |-> Effect("none", TRUE, TRUE),
     resetPassword |-> Effect("first", FALSE, FALSE),
     revokeSessions |-> Effect("none", FALSE, FALSE)]

\* Searches, filters and pages, which all clear the selection.
UserViewChanges == ViewChanges(Views)

\* The buttons above the table act on the rows picked.
UserBulkActs ==
    LET free == ~Pending("batchStatus") /\ ~Pending("batchDelete")
    IN  \/ /\ view = "deleted"
           /\ ~Pending("batchRestore")
           /\ PickedSends("batchRestore", "restoreUsersBulk", {"users:restore"}, PickedTargets, "none")
        \/ /\ view = "current" /\ free
           /\ PickedSends("batchStatus", "setUserStatusBulk", {"users:update"}, PickedTargets, "none")
        \/ /\ view = "current" /\ free
           /\ OpensForPicked("confirm", "batchDelete", PickedTargets)

\* The buttons of a row.  The deletion of one row is a batch of one.
UserRowActs ==
    \E i \in Listed :
      \/ /\ view = "current" /\ ~PendingOn("status", i)
         /\ RowSends("status", "setUserStatus", {"users:update"}, i, "none")
      \/ /\ view = "deleted" /\ ~PendingOn("restore", i)
         /\ RowSends("restore", "restoreUser", {"users:restore"}, i, "none")
      \/ view = "current" /\ Opens("form", "edit", {TargetOf(i)})
      \/ view = "current" /\ Opens("form", "resetPassword", {TargetOf(i)})
      \/ view = "current" /\ Opens("drawer", "revokeSessions", {TargetOf(i)})
      \/ /\ view = "current" /\ ~Pending("batchDelete")
         /\ Opens("confirm", "batchDelete", {TargetOf(i)})

UserCreates ==
    \/ list \notin {"loading", "broken"} /\ Opens("form", "create", {})
    \/ Submits("create", "createUser", {"users:create"})
    \/ CancelsForm("create")

UserEdits ==
    \/ Submits("edit", "updateUser", {"users:update"})
    \/ CancelsForm("edit")

UserPasswordResets ==
    \/ Submits("resetPassword", "resetUserPassword", {"users:credentials:reset"})
    \/ CancelsForm("resetPassword")

UserDeletes ==
    \/ Confirms("batchDelete", "deleteUsersBulk", {"users:delete"})
    \/ CancelsConfirm

UserSessions ==
    \/ DrawerSends("revokeSessions", "revokeUserSessions",
                   {"users:sessions:read", "users:sessions:revoke"})
    \/ ClosesDrawer

UsersNext ==
    /\ page = "users"
    /\ \/ UserViewChanges \/ Picks \/ UserBulkActs \/ UserRowActs \/ UserCreates
       \/ UserEdits \/ UserPasswordResets \/ UserDeletes \/ UserSessions

=============================================================================
