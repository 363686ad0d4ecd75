--------------------------- MODULE ConsoleLists ---------------------------
(***************************************************************************)
(* The list pages of the admin console, one of which is open, against the  *)
(* server and other administrators.                                        *)
(***************************************************************************)
EXTENDS UsersPage, AdminsPage, RolesPage, AssetsPage, PostsPage, TaxonomyPage

CONSTANT RowsOf     \* the rows of the list of each page that may be open

AllPages == {"users", "admins", "roles", "assets", "posts", "categories", "tags"}
ASSUME PagesAssumption == /\ DOMAIN RowsOf \subseteq AllPages
                          /\ \A p \in DOMAIN RowsOf : RowsOf[p] \subseteq Ids

\* The operations that the pages write with.  The calls they write by hand all
\* reach the operation they mean, which the tables of the contract decide.
PageOps ==
    {"createUser", "updateUser", "setUserStatus", "setUserStatusBulk", "deleteUsersBulk",
     "restoreUser", "restoreUsersBulk", "resetUserPassword", "revokeUserSessions",
     "createAdmin", "updateAdmin", "setAdminStatus", "setAdminStatusBulk", "setAdminSuperuser",
     "resetAdminPassword", "assignAdminRoles", "revokeAdminSessions",
     "createRole", "updateRole", "setRoleStatusBulk", "deleteRole", "deleteRolesBulk",
     "assignPermissions", "deleteAsset", "deleteAssetsBulk",
     "updatePostStatus", "deletePosts", "restorePosts",
     "createCategory", "updateCategory", "categoryImpact", "deleteCategories",
     "createTag", "updateTag", "tagImpact", "deleteTags"}

Reached == Reaching(ConsoleCalls)

ASSUME CallsAssumption == PageOps \subseteq Reached

Init == \E p \in DOMAIN RowsOf : InitPage(p, RowsOf[p])

PageNext == UsersNext \/ AdminsNext \/ RolesNext \/ AssetsNext \/ PostsNext \/ TaxonomyNext

\* What the mutations of each page do on success.
Effects ==
    [users |-> UserEffects, admins |-> AdminEffects, roles |-> RoleEffects,
     assets |-> AssetEffects, posts |-> PostEffects,
     categories |-> TaxonomyEffects, tags |-> TaxonomyEffects]

Next == PageNext \/ Answers(Effects[page]) \/ ListSteps \/ Elsewhere

\* Requests are answered or time out, and the page reacts to answers; the
\* administrator and the others need not do anything.
Fairness ==
    /\ WF_vars(Answers(Effects[page]))
    /\ WF_vars(Previewed)
    /\ WF_vars(ReadRows \/ ListArrives \/ ListFails)

Spec == Init /\ [][Next]_vars /\ Fairness

-----------------------------------------------------------------------------
(* Properties. *)

Deleting(s) == Underway(s) /\ reqs[s].op \in Deletes \cup Erases

\* A page only makes requests behind the permission the backend asks for,
\* and each reaches the operation it means and no other with the same path.
SentAsPermitted ==
    \A s \in Slots : Underway(s) =>
      /\ reqs[s].op \in Reached
      /\ Needs(reqs[s].op) \in reqs[s].gates

\* Rows selected in the recycle bin are never deleted or changed from the
\* list, nor rows selected in the list restored: the selection does not
\* outlive the view it was made in.
TargetsOfView ==
    \A s \in Slots : \A t \in reqs[s].targets :
      t.view = IF reqs[s].op \in Restores THEN "deleted" ELSE "current"

\* A deletion names exactly the rows, in the versions, that its confirmation
\* showed when it was opened, whatever was refreshed since.
DeletesAsConfirmed ==
    \A s \in Slots : Deleting(s) => reqs[s].targets = reqs[s].told

\* A confirmed deletion is sent once: never two deletions at the same time,
\* whichever clicks come before the page is painted again.
OneDeletion == \A s, x \in Slots : Deleting(s) /\ Deleting(x) => s = x

\* Once the list has settled it shows every change the page was told of.
OwnChangeShown == list = "idle" => \A i \in Ids : acked[i] <= shown[i].rev

\* A lock of a submission belongs to a request that will give it back, but
\* for the edit drawer of administrators: opened again while the list is
\* refetched after a save, it has dropped the callback that would.
LocksReturned ==
    \A l \in locked : \/ \E s \in Slots : Underway(s) /\ reqs[s].holds = l
                      \/ page = "admins" /\ l = "form"

=============================================================================
