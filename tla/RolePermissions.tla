-------------------------- MODULE RolePermissions --------------------------
(***************************************************************************)
(* The permission dialog of a role: a tree of the catalogue, searched,     *)
(* ticked and changed as a whole, and saved as the set that replaces the   *)
(* permissions of the role.                                                *)
(***************************************************************************)
EXTENDS Naturals

CONSTANTS
    Codes,          \* codes of permissions
    CatalogueOf     \* "active", "inactive", or "reserved" to super administrators

ASSUME CatalogueAssumption == CatalogueOf \in [Codes -> {"active", "inactive", "reserved"}]

VARIABLES
    catalogue,  \* state of the query of the catalogue
    data,       \* the codes the query holds
    opened,     \* the dialog is open
    start,      \* the permissions it was opened with
    selection,  \* the codes selected in the form
    ticked,     \* the codes the administrator has seen selected and left so
    visible,    \* the codes the search leaves in the tree
    submitted   \* the request of the save

permissionVars == <<catalogue, data, opened, start, selection, ticked, visible, submitted>>

Assignable == {c \in Codes : CatalogueOf[c] # "reserved"}
ActiveCodes == {c \in Codes : CatalogueOf[c] = "active"}
NotSubmitted == [stage |-> "idle", codes |-> {}, start |-> {}, ticked |-> {}, known |-> FALSE]

PermissionsInit ==
    /\ catalogue = "loading" /\ data = {}
    /\ opened = FALSE
    /\ start = {} /\ selection = {} /\ ticked = {} /\ visible = Codes
    /\ submitted = NotSubmitted

-----------------------------------------------------------------------------
(* What a selection becomes. *)

\* Only codes of the catalogue that a role may have.
FilterPermissionCodes(values) == values \cap data \cap Assignable

\* Inactive permissions the role has are kept by all three actions.
LockedCodes(selected) == (selected \cap data \cap Assignable) \ ActiveCodes

UpdatePermissionSelection(action, selected) ==
    CASE action = "clear" -> LockedCodes(selected)
      [] action = "all" -> LockedCodes(selected) \cup (data \cap ActiveCodes)
      [] action = "invert" -> LockedCodes(selected) \cup ((data \cap ActiveCodes) \ selected)

\* Mutant: what the tree does not show is dropped.
MergedAsShown(checked, selected) == FilterPermissionCodes(checked)

\* The tree only answers with keys it shows; the selected ones that the
\* search hides are added.
MergeVisible(checked, selected) ==
    FilterPermissionCodes((selected \ (visible \cap data)) \cup checked)

-----------------------------------------------------------------------------
(* The catalogue. *)

CatalogueArrives ==
    /\ catalogue \in {"loading", "retrying", "due"}
    /\ \/ catalogue' = "ready" /\ data' = Codes
       \/ catalogue' = "failed" /\ UNCHANGED data
    /\ UNCHANGED <<opened, start, selection, ticked, visible, submitted>>

CatalogueAsked ==
    /\ \/ catalogue = "ready" /\ catalogue' = "due"
       \/ catalogue = "failed" /\ catalogue' = IF data = {} THEN "loading" ELSE "retrying"
    /\ UNCHANGED <<data, opened, start, selection, ticked, visible, submitted>>

-----------------------------------------------------------------------------
(* The dialog. *)

\* The form starts from the permissions in the row of the role, whose list
\* may be older or newer than any change of them.
OpensPermissions ==
    /\ ~opened
    /\ opened' = TRUE
    /\ start' \in SUBSET Assignable
    /\ selection' = start' /\ ticked' = start'
    /\ visible' = Codes
    /\ UNCHANGED <<catalogue, data, submitted>>

\* isSuccess of the query: the tools and the tree are disabled without it.
Success == catalogue \in {"ready", "due"}

SearchesPermissions ==
    /\ opened /\ Success
    /\ visible' \in SUBSET Codes
    /\ UNCHANGED <<catalogue, data, opened, start, selection, ticked, submitted>>

\* "All", "invert" and "clear" act on the whole catalogue, whatever is shown.
AppliesSelection ==
    /\ opened /\ Success
    /\ \E action \in {"all", "invert", "clear"} :
         /\ selection' = UpdatePermissionSelection(action, selection)
         /\ ticked' = (ticked \ ActiveCodes) \cup
                      CASE action = "all" -> ActiveCodes
                        [] action = "invert" -> ActiveCodes \ ticked
                        [] action = "clear" -> {}
    /\ UNCHANGED <<catalogue, data, opened, start, visible, submitted>>

\* A leaf, or a group: every leaf of it that is shown and not disabled.
ChecksPermissions ==
    /\ opened /\ Success
    /\ \E leaves \in SUBSET (visible \cap data \cap ActiveCodes) \ {{}} :
         LET shown == selection \cap visible \cap data
         IN  \/ /\ selection' = MergeVisible(shown \cup leaves, selection)
                /\ ticked' = ticked \cup leaves
             \/ /\ selection' = MergeVisible(shown \ leaves, selection)
                /\ ticked' = ticked \ leaves
    /\ UNCHANGED <<catalogue, data, opened, start, visible, submitted>>

SavesPermissions ==
    /\ opened /\ submitted.stage = "idle"
    /\ submitted' = [stage |-> "sent", codes |-> FilterPermissionCodes(selection),
                     start |-> start, ticked |-> ticked, known |-> data # {}]
    /\ UNCHANGED <<catalogue, data, opened, start, selection, ticked, visible>>

CancelsPermissions ==
    /\ opened
    /\ opened' = FALSE
    /\ UNCHANGED <<catalogue, data, start, selection, ticked, visible, submitted>>

\* The codes have replaced the permissions of the role; the success closes
\* whatever permission dialog is open by now.
AssignSucceeds ==
    /\ submitted.stage = "sent"
    /\ submitted' = NotSubmitted
    /\ opened' = FALSE
    /\ UNCHANGED <<catalogue, data, start, selection, ticked, visible>>

\* The request is lost, or its answer; the dialog and its selection stay.
AssignFails ==
    /\ submitted.stage = "sent"
    /\ submitted' = NotSubmitted
    /\ UNCHANGED <<catalogue, data, opened, start, selection, ticked, visible>>

PermissionsNext ==
    \/ CatalogueArrives \/ CatalogueAsked
    \/ OpensPermissions \/ SearchesPermissions \/ AppliesSelection \/ ChecksPermissions
    \/ SavesPermissions \/ CancelsPermissions \/ AssignSucceeds \/ AssignFails

=============================================================================
