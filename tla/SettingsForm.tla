--------------------------- MODULE SettingsForm ----------------------------
(***************************************************************************)
(* The two tabs of the settings page: a form filled from a query, saved    *)
(* with the revision of the query, beside changes of the logo and changes  *)
(* by other administrators.  Of the setting itself the model keeps its     *)
(* revision and the revisions that last changed its text and its logo.     *)
(***************************************************************************)
EXTENDS Naturals, FiniteSets

CONSTANT MaxRevision    \* bound on the revisions of the setting

ASSUME MaxRevisionAssumption == MaxRevision \in Nat \ {0}

VARIABLES
    tab,        \* the tab that is open
    setting,    \* the row on the server
    query,      \* state of the query
    cached,     \* the data of the query
    reading,    \* an answer of the server on its way to the query
    form,       \* what the form was filled from and whether it was changed
    latest,     \* "load the latest" has been asked for
    conflict,   \* the notice of a conflict is shown
    removal,    \* what the open confirmation of the removal has fixed
    removing,   \* the lock of that confirmation
    calls,      \* the requests of the three mutations
    otherLogo       \* a removal took another logo than the one confirmed

settingsVars == <<tab, setting, query, cached, reading, form, latest, conflict, removal,
                  removing, calls, otherLogo>>

Revisions == 0..MaxRevision
None == MaxRevision + 1         \* no data, no answer, no logo, no removal
Setting(rev, text, logo) == [rev |-> rev, text |-> text, logo |-> logo]
Nothing == Setting(None, None, None)
Mutations == {"save", "upload", "delete"}
NoCall == [stage |-> "idle", rev |-> None, from |-> None, answer |-> Nothing]

SettingsInit ==
    /\ tab \in {"site", "registration"}
    /\ setting = Setting(0, 0, IF tab = "site" THEN 0 ELSE None)
    /\ query = "loading"
    /\ cached = Nothing
    /\ reading = Nothing
    /\ form = [filled |-> None, dirty |-> FALSE]
    /\ latest = FALSE
    /\ conflict = FALSE
    /\ removal = Nothing
    /\ removing = FALSE
    /\ calls = [m \in Mutations |-> NoCall]
    /\ otherLogo = FALSE

-----------------------------------------------------------------------------
(* The query and the form. *)

Hydrated(answered) == [filled |-> answered.text, dirty |-> FALSE]

\* Mutant: the site form follows the data as well.
FollowedAlways(answered) == Hydrated(answered)

\* The effect that follows the data: the site form is filled once, the
\* registration form whenever it has not been changed.
Followed(answered) ==
    IF (tab = "site" /\ form.filled = None) \/ (tab = "registration" /\ ~form.dirty)
    THEN Hydrated(answered) ELSE form

\* A return to the window, or a retry: data that is there is shown while it
\* is read again, but not while the last attempt has failed.
SettingsRefetch ==
    /\ query \in {"idle", "failed"}
    /\ query' = IF query = "idle" THEN "due"
                ELSE IF cached = Nothing THEN "loading" ELSE "retrying"
    /\ UNCHANGED <<tab, setting, cached, reading, form, latest, conflict, removal, removing,
                   calls, otherLogo>>

Asked == query \in {"loading", "due", "retrying"}

SettingsRead ==
    /\ Asked
    /\ reading = Nothing
    /\ reading' = setting
    /\ UNCHANGED <<tab, setting, query, cached, form, latest, conflict, removal, removing,
                   calls, otherLogo>>

SettingsArrive ==
    /\ reading # Nothing
    /\ cached' = reading
    /\ reading' = Nothing
    /\ query' = "idle"
    /\ form' = IF latest THEN Hydrated(reading) ELSE Followed(reading)
    /\ conflict' = (conflict /\ ~latest)
    /\ latest' = FALSE
    /\ UNCHANGED <<tab, setting, removal, removing, calls, otherLogo>>

\* A failed query hides the form behind the error and keeps its data; "load
\* the latest" then fills the form from the data that was there.
SettingsFail ==
    /\ Asked
    /\ query' = "failed"
    /\ reading' = Nothing
    /\ form' = IF latest /\ cached # Nothing THEN Hydrated(cached) ELSE form
    /\ conflict' = (conflict /\ ~(latest /\ cached # Nothing))
    /\ latest' = FALSE
    /\ UNCHANGED <<tab, setting, cached, removal, removing, calls, otherLogo>>

Visible == query \in {"idle", "due"} /\ cached # Nothing

LoadLatest ==
    /\ Visible /\ conflict
    /\ query' = "due"
    /\ reading' = Nothing
    /\ latest' = TRUE
    /\ UNCHANGED <<tab, setting, cached, form, conflict, removal, removing, calls, otherLogo>>

-----------------------------------------------------------------------------
(* Writing. *)

\* What disables the buttons of the tab: the mutations of the same group and
\* an open confirmation.
SettingPending == (\E m \in Mutations : calls[m].stage # "idle") \/ removal # Nothing

Calls(m, rev, from) ==
    calls' = [calls EXCEPT ![m] = [NoCall EXCEPT !.stage = "sent", !.rev = rev, !.from = from]]

EditsSetting ==
    /\ Visible /\ ~SettingPending
    /\ ~form.dirty
    /\ form' = [form EXCEPT !.dirty = TRUE]
    /\ UNCHANGED <<tab, setting, query, cached, reading, latest, conflict, removal, removing,
                   calls, otherLogo>>

\* The revision sent is the one the query holds now.
SavedRevision == cached.rev

SavesSetting ==
    /\ Visible /\ form.dirty /\ ~SettingPending /\ ~conflict
    /\ Calls("save", SavedRevision, form.filled)
    /\ UNCHANGED <<tab, setting, query, cached, reading, form, latest, conflict, removal,
                   removing, otherLogo>>

UploadsLogo ==
    /\ tab = "site"
    /\ Visible /\ ~SettingPending /\ ~conflict
    /\ Calls("upload", cached.rev, None)
    /\ UNCHANGED <<tab, setting, query, cached, reading, form, latest, conflict, removal,
                   removing, otherLogo>>

\* The revision of a removal is the one at the opening of its confirmation.
AsksRemoval ==
    /\ Visible /\ ~SettingPending /\ ~conflict
    /\ cached.logo # None
    /\ removal' = cached
    /\ UNCHANGED <<tab, setting, query, cached, reading, form, latest, conflict, removing,
                   calls, otherLogo>>

RemovedRevision == removal.rev

ConfirmsRemoval ==
    /\ removal # Nothing /\ ~removing
    /\ ~conflict
    /\ removing' = TRUE
    /\ Calls("delete", RemovedRevision, removal.logo)
    /\ UNCHANGED <<tab, setting, query, cached, reading, form, latest, conflict, removal, otherLogo>>

CancelsRemoval ==
    /\ removal # Nothing /\ ~removing
    /\ removal' = Nothing
    /\ UNCHANGED <<tab, setting, query, cached, reading, form, latest, conflict, removing,
                   calls, otherLogo>>

-----------------------------------------------------------------------------
(* The server, other administrators and the answers. *)

Wrote(m) ==
    LET next == setting.rev + 1
    IN  Setting(next, IF m = "save" THEN next ELSE setting.text,
                IF m = "upload" THEN next ELSE IF m = "delete" THEN None ELSE setting.logo)

SettingServes(m) ==
    /\ calls[m].stage = "sent"
    /\ setting.rev < MaxRevision
    /\ IF calls[m].rev = setting.rev
       THEN /\ setting' = Wrote(m)
            /\ calls' = [calls EXCEPT ![m].stage = "done", ![m].answer = Wrote(m)]
            /\ otherLogo' = (otherLogo \/ (m = "delete" /\ calls[m].from # setting.logo))
       ELSE /\ calls' = [calls EXCEPT ![m].stage = "conflict"]
            /\ UNCHANGED <<setting, otherLogo>>
    /\ UNCHANGED <<tab, query, cached, reading, form, latest, conflict, removal, removing>>

\* The request is lost, or its answer.
SettingBreaks(m) ==
    /\ calls[m].stage \in {"sent", "done"}
    /\ calls' = [calls EXCEPT ![m].stage = "broken"]
    /\ UNCHANGED <<tab, setting, query, cached, reading, form, latest, conflict, removal,
                   removing, otherLogo>>

\* The answer becomes the data of the query; a save fills the form from it.
SettingSucceeds(m) ==
    /\ calls[m].stage = "done"
    /\ cached' = calls[m].answer
    /\ query' = CASE query = "failed" -> "idle" [] query = "retrying" -> "due" [] OTHER -> query
    /\ form' = IF m = "save" THEN Hydrated(calls[m].answer)
               ELSE IF tab = "site" THEN form ELSE Followed(calls[m].answer)
    /\ conflict' = FALSE
    /\ removal' = IF m = "delete" THEN Nothing ELSE removal
    /\ removing' = (removing /\ m # "delete")
    /\ calls' = [calls EXCEPT ![m] = NoCall]
    /\ UNCHANGED <<tab, setting, reading, latest, otherLogo>>

\* An error keeps the draft, the logo and the confirmation.
SettingFails(m) ==
    /\ calls[m].stage \in {"conflict", "broken"}
    /\ conflict' = (conflict \/ calls[m].stage = "conflict")
    /\ removing' = (removing /\ m # "delete")
    /\ calls' = [calls EXCEPT ![m] = NoCall]
    /\ UNCHANGED <<tab, setting, query, cached, reading, form, latest, removal,
                   otherLogo>>

SettingElsewhere ==
    /\ setting.rev < MaxRevision
    /\ \E m \in IF tab = "site" THEN Mutations ELSE {"save"} : setting' = Wrote(m)
    /\ UNCHANGED <<tab, query, cached, reading, form, latest, conflict, removal, removing,
                   calls, otherLogo>>

SettingsReply ==
    \E m \in Mutations : SettingServes(m) \/ SettingBreaks(m) \/ SettingSucceeds(m) \/ SettingFails(m)

SettingsNext ==
    \/ SettingsRefetch \/ SettingsRead \/ SettingsArrive \/ SettingsFail \/ LoadLatest
    \/ EditsSetting \/ SavesSetting \/ UploadsLogo \/ AsksRemoval \/ ConfirmsRemoval
    \/ CancelsRemoval \/ SettingsReply \/ SettingElsewhere

=============================================================================
