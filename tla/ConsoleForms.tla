---------------------------- MODULE ConsoleForms ---------------------------
(***************************************************************************)
(* The long-lived forms of the admin console, one of which is open: the    *)
(* settings, the editor of an article, the permissions of a role.          *)
(***************************************************************************)
EXTENDS SettingsForm, PostEditor, RolePermissions

VARIABLE open   \* the form that is open

vars == <<open, settingsVars, editorVars, permissionVars>>

Init ==
    /\ open \in {"settings", "editor", "permissions"}
    /\ SettingsInit /\ (open # "settings" => tab = "site")
    /\ EditorInit /\ (open # "editor" => article = NoArticle)
    /\ PermissionsInit

Next ==
    /\ UNCHANGED open
    /\ \/ /\ open = "settings" /\ SettingsNext
          /\ UNCHANGED <<editorVars, permissionVars>>
       \/ /\ open = "editor" /\ EditorNext
          /\ UNCHANGED <<settingsVars, permissionVars>>
       \/ /\ open = "permissions" /\ PermissionsNext
          /\ UNCHANGED <<settingsVars, editorVars>>

\* Requests are answered or time out, and the forms react to the answers;
\* the administrator and the others need not do anything.
Fairness ==
    /\ WF_vars(SettingsReply /\ UNCHANGED <<open, editorVars, permissionVars>>)
    /\ WF_vars(EditorReply /\ UNCHANGED <<open, settingsVars, permissionVars>>)

Spec == Init /\ [][Next]_vars /\ Fairness

-----------------------------------------------------------------------------
(* Properties. *)

\* Settings: what an administrator has typed is only replaced by the answer
\* to his own save or when he asked for the latest configuration.
DraftKept ==
    [][form.dirty /\ ~form'.dirty => latest \/ calls["save"].stage = "done"]_vars

\* What was confirmed or saved acts on the version it was made from, whatever
\* the query behind it has fetched meanwhile: a removal never takes another
\* logo than the one its confirmation was opened on, and a save of the editor
\* never replaces content that changed since the editor was opened.
WritesAsShown == ~otherLogo /\ ~replaced

\* Editor: the preview is labelled with the text it shows, although the
\* renderings arrive in any order and typing goes on.
PreviewOfItsText == preview.says = preview.shows

\* Editor: whoever leaves without having agreed to lose anything has it all
\* on the server, but for what was typed after the save had succeeded.
NothingLostSilently == place = "list" /\ ~agreed => draft - late = stored

\* Permissions: what is saved is what the administrator has ticked, hidden
\* by a search or not, once the catalogue is known.
SavedAsTicked ==
    submitted.stage = "sent" /\ submitted.known => submitted.codes = submitted.ticked

\* The locks of submissions are given back whatever the answer is: the
\* confirmation of a removal does not stay locked, the editor not saving.
FormsSettle ==
    /\ removing ~> ~removing
    /\ saving # "idle" ~> saving = "idle"

=============================================================================
