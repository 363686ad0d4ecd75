----------------------------- MODULE RolesPage -----------------------------
(***************************************************************************)
(* The list of roles; what its permission dialog selects is RolePermissions *)
(***************************************************************************)
EXTENDS ListPage

RoleEffects ==
    [saveRole |-> Effect("first", FALSE, TRUE),
     batchStatus |-> Effect("none", TRUE, TRUE),
     status |-> Effect("none", FALSE, TRUE),
     batchDelete |-> Effect("last", TRUE, TRUE),
     deleteRole |-> Effect("last", FALSE, TRUE),
     assignPermissions |-> Effect("first", FALSE, TRUE)]

RoleBulkActs ==
    /\ ~Pending("batchStatus") /\ ~Pending("batchDelete")
    /\ \/ PickedSends("batchStatus", "setRoleStatusBulk", {"roles:update"}, PickedTargets, "none")
       \/ OpensForPicked("confirm", "batchDelete", PickedTargets)

RoleRowActs ==
    \E i \in Listed :
      \/ /\ ~PendingOn("status", i)
         /\ RowSends("status", "updateRole", {"roles:update"}, i, "none")
      \/ Opens("form", "saveRole", {TargetOf(i)})
      \/ Opens("form", "assignPermissions", {TargetOf(i)})
      \/ Opens("confirm", "deleteRole", {TargetOf(i)})

RoleCreates == list \notin {"loading", "broken"} /\ Opens("form", "saveRole", {})

RoleSaves ==
    \/ dialog.targets = {} /\ Submits("saveRole", "createRole", {"roles:create"})
    \/ dialog.targets # {} /\ Submits("saveRole", "updateRole", {"roles:update"})
    \/ CancelsForm("saveRole")

RolePermissionSaves ==
    \/ Submits("assignPermissions", "assignPermissions",
               {"roles:permissions:assign", "permissions:read"})
    \/ CancelsForm("assignPermissions")

\* One confirmation serves both deletions and waits for both.
RoleDeletes ==
    \/ /\ ~Pending("deleteRole")
       /\ Confirms("batchDelete", "deleteRolesBulk", {"roles:delete"})
    \/ /\ ~Pending("batchDelete")
       /\ Confirms("deleteRole", "deleteRole", {"roles:delete"})
    \/ CancelsConfirm

RolesNext ==
    /\ page = "roles"
    /\ \/ Picks \/ RoleBulkActs \/ RoleRowActs \/ RoleCreates \/ RoleSaves
       \/ RolePermissionSaves \/ RoleDeletes

=============================================================================
