------------------------- MODULE ConsoleFormsProofs -------------------------
(***************************************************************************)
(* Proofs about the long-lived forms of the console, for any number of     *)
(* revisions, of changes typed and of permissions.                         *)
(***************************************************************************)
EXTENDS ConsoleForms, TLAPS

-----------------------------------------------------------------------------
(* The inductive invariant of the settings.                                *)

Row == [rev : Revisions, text : Revisions, logo : Revisions \cup {None}]
Call == [stage : {"idle", "sent", "done", "conflict", "broken"},
         rev : Nat, from : Nat, answer : Row \cup {Nothing}]

SettingsTyped ==
  /\ tab \in {"site", "registration"}
  /\ setting \in Row
  /\ query \in {"loading", "due", "retrying", "idle", "failed"}
  /\ cached \in Row \cup {Nothing}
  /\ reading \in Row \cup {Nothing}
  /\ removal \in Row \cup {Nothing}
  /\ form \in [filled : Nat, dirty : BOOLEAN]
  /\ calls \in [Mutations -> Call]
  /\ latest \in BOOLEAN /\ conflict \in BOOLEAN /\ removing \in BOOLEAN
  /\ otherLogo \in BOOLEAN

\* A row the page holds is an earlier one, or the one on the server: its
\* revision tells which logo it has.
AsOf(row) == row # Nothing => /\ row.rev <= setting.rev
                              /\ row.rev = setting.rev => row.logo = setting.logo

Snapshots ==
  /\ AsOf(cached) /\ AsOf(reading) /\ AsOf(removal)
  /\ \A m \in Mutations : AsOf(calls[m].answer)
  /\ calls["delete"].stage = "sent" =>
       /\ calls["delete"].rev <= setting.rev
       /\ calls["delete"].rev = setting.rev => calls["delete"].from = setting.logo

\* The site form has been filled once there is anything to fill it from, and
\* nothing is sent before.
Filled ==
  /\ tab = "site" /\ cached # Nothing => form.filled # None
  /\ form.dirty => cached # Nothing
  /\ removal # Nothing => cached # Nothing
  /\ \A m \in Mutations : /\ calls[m].stage # "idle" => cached # Nothing
                          /\ calls[m].stage = "done" => calls[m].answer # Nothing

SettingsInv == SettingsTyped /\ Snapshots /\ Filled /\ ~otherLogo

-----------------------------------------------------------------------------
(* The inductive invariant of the editor.                                  *)

Text == [rev : Nat, content : Nat, state : {"none", "kept", "deleted"}]

EditorTyped ==
  /\ article \in Text
  /\ initial \in Text
  /\ draft \in Nat /\ sent \in Nat /\ stored \in Nat /\ late \in Nat
  /\ saving \in {"idle", "sent", "done", "refused", "closing"}
  /\ place \in {"editor", "list"}
  /\ dirty \in BOOLEAN /\ uploading \in BOOLEAN /\ bypass \in BOOLEAN
  /\ agreed \in BOOLEAN /\ replaced \in BOOLEAN

\* The revision the editor started from tells whether the content is still
\* the one it started from.
Started ==
  /\ initial.rev <= article.rev
  /\ initial.rev = article.rev => initial.content = article.content

\* What is on the server of the draft, as the submission goes on: it is
\* frozen until the answer; once that is a success, and the page may be left
\* unasked, only what is typed late is missing; and a form that never was
\* changed has nothing to lose.
Accounted ==
  /\ saving # "idle" => ~uploading
  /\ saving \in {"sent", "done", "refused"} => sent = draft
  /\ saving = "done" => stored = draft
  /\ bypass => /\ ~uploading
               /\ saving = "closing" \/ (saving = "idle" /\ place = "list")
               /\ draft = stored + late
  /\ ~bypass => /\ late = 0
                /\ saving # "closing"
                /\ ~dirty => draft = 0 /\ stored = 0
                /\ place = "list" => /\ saving = "idle" /\ ~uploading
                                     /\ ~agreed => ~dirty

EditorInv ==
  /\ EditorTyped /\ Started /\ Accounted
  /\ preview.says = preview.shows
  /\ ~replaced

-----------------------------------------------------------------------------
(* The inductive invariant of the permissions.                             *)

\* The selection is what has been ticked, by itself among the codes a role
\* may have, and tools and tree only work on the whole catalogue.
PermissionsInv ==
  /\ data \in {{}, Codes}
  /\ catalogue \in {"ready", "due"} => data = Codes
  /\ ticked \subseteq Assignable
  /\ selection = ticked
  /\ submitted.stage = "sent" /\ submitted.known => submitted.codes = submitted.ticked

FormsInv == SettingsInv /\ EditorInv /\ PermissionsInv

-----------------------------------------------------------------------------
(* Rows and calls.                                                         *)

LEMMA NoneType == None \in Nat /\ None \notin Revisions /\ Revisions \subseteq Nat
  BY MaxRevisionAssumption DEF None, Revisions

LEMMA NoRow == Nothing \notin Row /\ NoCall \in Call /\ NoCall.answer = Nothing
                 /\ NoCall.stage = "idle"
<1>1. Nothing \notin Row BY NoneType DEF Nothing, Setting, Row
<1>2. NoCall.answer = Nothing /\ NoCall.stage = "idle" BY DEF NoCall
<1>3. NoCall \in Call BY NoneType, Zenon DEF NoCall, Call
<1>. QED BY <1>1, <1>2, <1>3

LEMMA RowFields ==
  ASSUME NEW row \in Row \cup {Nothing}, row # Nothing
  PROVE  /\ row \in Row
         /\ row.rev \in Nat /\ row.text \in Revisions /\ row.text # None
         /\ row.text \in Nat /\ row.logo \in Nat
  BY NoneType DEF Row

LEMMA WroteRow ==
  ASSUME setting \in Row, setting.rev < MaxRevision, NEW m \in Mutations
  PROVE  Wrote(m) \in Row /\ Wrote(m).rev = setting.rev + 1
<1>1. setting.rev + 1 \in Revisions
  BY MaxRevisionAssumption DEF Row, Revisions
<1>. QED BY <1>1 DEF Wrote, Setting, Row

LEMMA CallSent ==
  ASSUME SettingsTyped, NEW m \in Mutations, NEW rev \in Nat, NEW from \in Nat,
         Calls(m, rev, from)
  PROVE  /\ calls' \in [Mutations -> Call]
         /\ calls'[m].stage = "sent" /\ calls'[m].rev = rev /\ calls'[m].from = from
         /\ calls'[m].answer = Nothing
         /\ \A x \in Mutations : x # m => calls'[x] = calls[x]
<1>1. calls \in [Mutations -> Call] BY DEF SettingsTyped
<1>2. [NoCall EXCEPT !.stage = "sent", !.rev = rev, !.from = from]
        = [stage |-> "sent", rev |-> rev, from |-> from, answer |-> Nothing]
  <2>. DEFINE a == [NoCall EXCEPT !.stage = "sent"]
              b == [a EXCEPT !.rev = rev]
              c == [b EXCEPT !.from = from]
  <2>1. a = [stage |-> "sent", rev |-> None, from |-> None, answer |-> Nothing] BY DEF NoCall
  <2>. HIDE DEF a
  <2>2. b = [stage |-> "sent", rev |-> rev, from |-> None, answer |-> Nothing] BY <2>1
  <2>. HIDE DEF b
  <2>3. c = [stage |-> "sent", rev |-> rev, from |-> from, answer |-> Nothing] BY <2>2
  <2>. QED BY <2>3 DEF a, b
<1>3. [stage |-> "sent", rev |-> rev, from |-> from, answer |-> Nothing] \in Call
  BY DEF Call
<1>4. calls' = [calls EXCEPT ![m] =
                  [stage |-> "sent", rev |-> rev, from |-> from, answer |-> Nothing]]
  BY <1>2 DEF Calls
<1>. QED BY <1>1, <1>3, <1>4

LEMMA CallEnds ==
  ASSUME SettingsTyped, NEW m \in Mutations, calls' = [calls EXCEPT ![m] = NoCall]
  PROVE  /\ calls' \in [Mutations -> Call]
         /\ calls'[m].stage = "idle" /\ calls'[m].answer = Nothing
         /\ \A x \in Mutations : x # m => calls'[x] = calls[x]
  BY NoRow DEF SettingsTyped

LEMMA CallStands ==
  ASSUME SettingsTyped, NEW m \in Mutations, NEW stage \in {"conflict", "broken"},
         calls' = [calls EXCEPT ![m].stage = stage]
  PROVE  /\ calls' \in [Mutations -> Call]
         /\ calls'[m].stage = stage /\ calls'[m].answer = calls[m].answer
         /\ \A x \in Mutations : x # m => calls'[x] = calls[x]
  BY DEF SettingsTyped, Call

LEMMA CallServed ==
  ASSUME SettingsTyped, NEW m \in Mutations, NEW row \in Row,
         calls' = [calls EXCEPT ![m].stage = "done", ![m].answer = row]
  PROVE  /\ calls' \in [Mutations -> Call]
         /\ calls'[m].stage = "done" /\ calls'[m].answer = row
         /\ \A x \in Mutations : x # m => calls'[x] = calls[x]
  BY DEF SettingsTyped, Call

-----------------------------------------------------------------------------
(* The query and the form.                                                 *)

LEMMA SettingsInitOK == SettingsInit => SettingsInv
<1>. SUFFICES ASSUME SettingsInit PROVE SettingsInv OBVIOUS
<1>. USE NoneType, NoRow DEF SettingsInit
<1>1. SettingsTyped
  <2>1. setting \in Row BY MaxRevisionAssumption DEF Setting, Row, Revisions
  <2>2. calls \in [Mutations -> Call] OBVIOUS
  <2>3. form \in [filled : Nat, dirty : BOOLEAN] OBVIOUS
  <2>. QED BY <2>1, <2>2, <2>3 DEF SettingsTyped
<1>2. Snapshots BY DEF Snapshots, AsOf, Mutations
<1>3. Filled BY DEF Filled, Mutations
<1>. QED BY <1>1, <1>2, <1>3 DEF SettingsInv

\* What keeps the rows, the calls and the data keeps the invariant.
LEMMA QueryOnly ==
  ASSUME SettingsInv,
         UNCHANGED <<tab, setting, cached, form, removal, calls, otherLogo>>,
         query' \in {"loading", "due", "retrying", "idle", "failed"},
         reading' \in {reading, Nothing, setting},
         latest' \in BOOLEAN, conflict' \in BOOLEAN, removing' \in BOOLEAN
  PROVE  SettingsInv'
<1>1. SettingsTyped' BY DEF SettingsInv, SettingsTyped
<1>2. AsOf(reading)'
  BY DEF SettingsInv, SettingsTyped, Snapshots, AsOf, Row, Revisions
<1>3. Snapshots' BY <1>2 DEF SettingsInv, Snapshots, AsOf
<1>4. Filled' BY DEF SettingsInv, Filled
<1>. QED BY <1>1, <1>3, <1>4 DEF SettingsInv

LEMMA HydratedForm ==
  ASSUME NEW row \in Row
  PROVE  /\ Hydrated(row) \in [filled : Nat, dirty : BOOLEAN]
         /\ Hydrated(row).filled # None /\ ~Hydrated(row).dirty
  BY NoneType DEF Hydrated, Row

\* Data that come, and the form that follows them or is filled from them.
LEMMA NewData ==
  ASSUME SettingsInv, NEW row \in Row, AsOf(row),
         cached' = row, UNCHANGED <<tab, setting>>,
         form' \in {Hydrated(row), Followed(row)} \/ (form' = form /\ cached # Nothing)
  PROVE  /\ cached' \in Row /\ cached' # Nothing /\ AsOf(cached)'
         /\ form' \in [filled : Nat, dirty : BOOLEAN]
         /\ tab' = "site" => form'.filled # None
<1>1. form' \in [filled : Nat, dirty : BOOLEAN]
  BY HydratedForm DEF SettingsInv, SettingsTyped, Followed
<1>2. tab = "site" => form'.filled # None
  BY HydratedForm DEF SettingsInv, SettingsTyped, Filled, Followed
<1>. QED BY <1>1, <1>2, NoRow DEF AsOf

LEMMA ReadSteps ==
  ASSUME SettingsInv,
         SettingsRefetch \/ SettingsRead \/ SettingsArrive \/ SettingsFail \/ LoadLatest
  PROVE  SettingsInv'
<1>0. SettingsTyped /\ Snapshots /\ Filled /\ ~otherLogo BY DEF SettingsInv
<1>1. CASE SettingsRefetch BY <1>0, <1>1, QueryOnly DEF SettingsRefetch, SettingsTyped
<1>2. CASE SettingsRead BY <1>0, <1>2, QueryOnly DEF SettingsRead, SettingsTyped
<1>3. CASE LoadLatest BY <1>0, <1>3, QueryOnly DEF LoadLatest, SettingsTyped
<1>4. CASE SettingsArrive
  <2>1. reading \in Row /\ AsOf(reading)
    BY <1>0, <1>4 DEF SettingsArrive, SettingsTyped, Snapshots
  <2>2. /\ cached' = reading /\ form' \in {Hydrated(reading), Followed(reading)}
        /\ reading' = Nothing /\ query' = "idle" /\ latest' = FALSE
        /\ conflict' = (conflict /\ ~latest)
        /\ UNCHANGED <<tab, setting, removal, removing, calls, otherLogo>>
    BY <1>4 DEF SettingsArrive
  <2>3. /\ cached' \in Row /\ cached' # Nothing /\ AsOf(cached)'
        /\ form' \in [filled : Nat, dirty : BOOLEAN]
        /\ tab' = "site" => form'.filled # None
    BY <2>1, <2>2, NewData
  <2>5. SettingsTyped' BY <1>0, <2>2, <2>3 DEF SettingsTyped
  <2>6. Snapshots' BY <1>0, <2>2, <2>3 DEF Snapshots, AsOf
  <2>7. Filled' BY <1>0, <2>2, <2>3 DEF Filled
  <2>. QED BY <1>0, <2>2, <2>5, <2>6, <2>7 DEF SettingsInv
<1>5. CASE SettingsFail
  <2>1. CASE form' = form
    BY <1>0, <1>5, <2>1, QueryOnly DEF SettingsFail, SettingsTyped
  <2>2. CASE form' = Hydrated(cached) /\ cached # Nothing
    <3>1. cached \in Row BY <1>0, <2>2 DEF SettingsTyped
    <3>2. SettingsTyped'
      BY <1>0, <1>5, <2>2, <3>1, HydratedForm DEF SettingsFail, SettingsTyped
    <3>3. Snapshots' BY <1>0, <1>5 DEF SettingsFail, Snapshots, AsOf
    <3>4. Filled' BY <1>0, <1>5, <2>2, <3>1, HydratedForm DEF SettingsFail, Filled
    <3>. QED BY <1>0, <1>5, <3>2, <3>3, <3>4 DEF SettingsInv, SettingsFail
  <2>. QED BY <1>5, <2>1, <2>2 DEF SettingsFail
<1>. QED BY <1>1, <1>2, <1>3, <1>4, <1>5

-----------------------------------------------------------------------------
(* Writing the settings.                                                   *)

\* What is sent names the data the page shows.
LEMMA Sends ==
  ASSUME SettingsInv, NEW m \in Mutations, NEW row \in Row, AsOf(row), cached # Nothing,
         NEW from \in Nat, m = "delete" => from = row.logo,
         Calls(m, row.rev, from),
         UNCHANGED <<tab, setting, query, cached, reading, form, latest, conflict, removal, otherLogo>>,
         removing' \in BOOLEAN
  PROVE  SettingsInv'
<1>0. SettingsTyped /\ Snapshots /\ Filled /\ ~otherLogo BY DEF SettingsInv
<1>1. row.rev \in Nat BY NoneType DEF Row
<1>2. /\ calls' \in [Mutations -> Call]
      /\ calls'[m].stage = "sent" /\ calls'[m].rev = row.rev /\ calls'[m].from = from
      /\ calls'[m].answer = Nothing
      /\ \A x \in Mutations : x # m => calls'[x] = calls[x]
  BY <1>0, <1>1, CallSent
<1>3. SettingsTyped' BY <1>0, <1>2 DEF SettingsTyped
<1>4. Snapshots'
  <2>1. row # Nothing BY NoRow
  <2>. QED BY <1>0, <1>2, <2>1 DEF Snapshots, AsOf, Mutations
<1>5. Filled' BY <1>0, <1>2 DEF Filled
<1>. QED BY <1>0, <1>3, <1>4, <1>5 DEF SettingsInv

LEMMA WriteSteps ==
  ASSUME SettingsInv,
         \/ EditsSetting \/ SavesSetting \/ UploadsLogo
         \/ AsksRemoval \/ ConfirmsRemoval \/ CancelsRemoval
  PROVE  SettingsInv'
<1>0. SettingsTyped /\ Snapshots /\ Filled /\ ~otherLogo BY DEF SettingsInv
<1>1. CASE EditsSetting
  <2>1. SettingsTyped' BY <1>0, <1>1 DEF EditsSetting, SettingsTyped
  <2>2. Snapshots' BY <1>0, <1>1 DEF EditsSetting, Snapshots, AsOf
  <2>3. Filled' BY <1>0, <1>1 DEF EditsSetting, Visible, Filled, SettingsTyped
  <2>. QED BY <1>0, <1>1, <2>1, <2>2, <2>3 DEF EditsSetting, SettingsInv
<1>2. CASE SavesSetting
  <2>1. cached \in Row /\ AsOf(cached) BY <1>0, <1>2 DEF SavesSetting, Visible, SettingsTyped, Snapshots
  <2>2. form.filled \in Nat BY <1>0 DEF SettingsTyped
  <2>. QED BY <1>0, <1>2, <2>1, <2>2, NoRow, Sends
           DEF SavesSetting, SavedRevision, Mutations, SettingsTyped
<1>3. CASE UploadsLogo
  <2>1. cached \in Row /\ AsOf(cached) BY <1>0, <1>3 DEF UploadsLogo, Visible, SettingsTyped, Snapshots
  <2>. QED BY <1>0, <1>3, <2>1, NoneType, NoRow, Sends DEF UploadsLogo, Mutations, SettingsTyped
<1>4. CASE ConfirmsRemoval
  <2>1. removal \in Row /\ AsOf(removal) /\ cached # Nothing /\ removal.logo \in Nat
    BY <1>0, <1>4, RowFields DEF ConfirmsRemoval, SettingsTyped, Snapshots, Filled
  <2>. QED BY <1>0, <1>4, <2>1, Sends DEF ConfirmsRemoval, RemovedRevision, Mutations
<1>5. CASE AsksRemoval \/ CancelsRemoval
  <2>1. removal' \in {cached, Nothing} /\ (removal' # Nothing => cached # Nothing)
        /\ UNCHANGED <<tab, setting, query, cached, reading, form, latest, conflict, removing,
                       calls, otherLogo>>
    BY <1>5 DEF AsksRemoval, CancelsRemoval
  <2>2. SettingsTyped' BY <1>0, <2>1 DEF SettingsTyped
  <2>3. Snapshots' BY <1>0, <2>1 DEF Snapshots, AsOf
  <2>4. Filled' BY <1>0, <2>1 DEF Filled
  <2>. QED BY <1>0, <2>1, <2>2, <2>3, <2>4 DEF SettingsInv
<1>. QED BY <1>1, <1>2, <1>3, <1>4, <1>5

-----------------------------------------------------------------------------
(* Answers, and other administrators.                                      *)

LEMMA Older ==
  ASSUME setting \in Row, NEW row \in Row \cup {Nothing}, AsOf(row), row # Nothing
  PROVE  row.rev <= setting.rev + 1 /\ row.rev # setting.rev + 1
<1>1. row.rev \in Nat /\ row.rev <= setting.rev BY RowFields DEF AsOf
<1>2. setting.rev \in Nat BY NoneType DEF Row
<1>. QED BY <1>1, <1>2

\* An error, or the end of a call, leaves all but the call.
LEMMA CallLeft ==
  ASSUME SettingsInv, NEW m \in Mutations,
         calls' \in [Mutations -> Call],
         calls'[m].stage \in {"idle", "conflict", "broken"},
         calls'[m].answer \in {calls[m].answer, Nothing},
         \A x \in Mutations : x # m => calls'[x] = calls[x],
         calls[m].stage # "idle",
         UNCHANGED <<tab, setting, query, cached, reading, form, latest, removal, otherLogo>>,
         conflict' \in BOOLEAN, removing' \in BOOLEAN
  PROVE  SettingsInv'
<1>1. SettingsTyped' BY DEF SettingsInv, SettingsTyped
<1>2. ASSUME NEW x \in Mutations PROVE AsOf(calls[x].answer)'
  BY DEF SettingsInv, Snapshots, AsOf
<1>3. calls'["delete"].stage = "sent" => calls'["delete"] = calls["delete"]
  BY DEF Mutations
<1>4. Snapshots' BY <1>2, <1>3 DEF SettingsInv, Snapshots, AsOf
<1>5. Filled' BY DEF SettingsInv, Filled
<1>. QED BY <1>1, <1>4, <1>5 DEF SettingsInv

LEMMA SettingsReplySteps ==
  ASSUME SettingsInv, NEW m \in Mutations,
         SettingServes(m) \/ SettingBreaks(m) \/ SettingSucceeds(m) \/ SettingFails(m)
  PROVE  SettingsInv'
<1>0. SettingsTyped /\ Snapshots /\ Filled /\ ~otherLogo BY DEF SettingsInv
<1>1. CASE SettingServes(m) /\ calls[m].rev = setting.rev
  <2>1. /\ calls[m].stage = "sent" /\ setting.rev < MaxRevision
        /\ setting' = Wrote(m)
        /\ calls' = [calls EXCEPT ![m].stage = "done", ![m].answer = Wrote(m)]
        /\ otherLogo' = (otherLogo \/ (m = "delete" /\ calls[m].from # setting.logo))
        /\ UNCHANGED <<tab, query, cached, reading, form, latest, conflict, removal, removing>>
    BY <1>1 DEF SettingServes
  <2>2. setting \in Row /\ setting' \in Row /\ setting'.rev = setting.rev + 1
    BY <1>0, <2>1, WroteRow DEF SettingsTyped
  <2>3. /\ calls' \in [Mutations -> Call]
        /\ calls'[m].stage = "done" /\ calls'[m].answer = setting'
        /\ \A x \in Mutations : x # m => calls'[x] = calls[x]
    BY <1>0, <2>1, <2>2, CallServed
  <2>4. ~otherLogo'
    BY <1>0, <1>1, <2>1 DEF Snapshots
  <2>5. SettingsTyped'
    BY <1>0, <2>1, <2>2, <2>3, <2>4 DEF SettingsTyped
  <2>6. Snapshots'
    <3>1. ASSUME NEW row \in Row \cup {Nothing}, AsOf(row)
          PROVE  row # Nothing => row.rev <= setting'.rev /\ row.rev # setting'.rev
      <4>1. row # Nothing => row.rev <= setting.rev + 1 /\ row.rev # setting.rev + 1
        BY <2>2, <3>1, Older
      <4>. QED BY <2>2, <4>1
    <3>2. AsOf(cached)' /\ AsOf(reading)' /\ AsOf(removal)'
      BY <1>0, <2>1, <3>1 DEF Snapshots, SettingsTyped, AsOf
    <3>3. ASSUME NEW x \in Mutations PROVE AsOf(calls[x].answer)'
      <4>1. calls[x].answer \in Row \cup {Nothing} /\ AsOf(calls[x].answer)
        BY <1>0 DEF SettingsTyped, Call, Snapshots
      <4>2. setting'.rev <= setting'.rev BY <2>2, RowFields, NoRow DEF Row, Revisions
      <4>. QED BY <2>3, <3>1, <4>1, <4>2 DEF AsOf
    <3>4. calls'["delete"].stage = "sent" =>
            calls'["delete"].rev < setting'.rev /\ calls'["delete"].rev # setting'.rev
      BY <1>0, <2>2, <2>3 DEF Snapshots, SettingsTyped, Call, Row, Mutations, Revisions
    <3>. QED BY <3>2, <3>3, <3>4, <2>2, <2>3 DEF Snapshots, Row, Revisions, Call, Mutations
  <2>7. Filled' BY <1>0, <2>1, <2>2, <2>3, NoRow DEF Filled
  <2>. QED BY <2>4, <2>5, <2>6, <2>7 DEF SettingsInv
<1>2. CASE SettingServes(m) /\ calls[m].rev # setting.rev
  <2>1. /\ calls' = [calls EXCEPT ![m].stage = "conflict"]
        /\ UNCHANGED <<tab, setting, query, cached, reading, form, latest, conflict, removal,
                       removing, otherLogo>>
        /\ calls[m].stage # "idle"
    BY <1>2 DEF SettingServes
  <2>2. PICK stage \in {"conflict", "broken"} : calls' = [calls EXCEPT ![m].stage = stage]
    BY <2>1
  <2>3. /\ calls' \in [Mutations -> Call]
        /\ calls'[m].stage = stage /\ calls'[m].answer = calls[m].answer
        /\ \A x \in Mutations : x # m => calls'[x] = calls[x]
    BY <1>0, <2>2, CallStands
  <2>4. conflict' \in BOOLEAN /\ removing' \in BOOLEAN BY <1>0, <2>1 DEF SettingsTyped
  <2>. QED BY <2>1, <2>3, <2>4, CallLeft
<1>3. CASE SettingBreaks(m)
  <2>1. /\ calls' = [calls EXCEPT ![m].stage = "broken"]
        /\ UNCHANGED <<tab, setting, query, cached, reading, form, latest, conflict, removal,
                       removing, otherLogo>>
        /\ calls[m].stage # "idle"
    BY <1>3 DEF SettingBreaks
  <2>2. PICK stage \in {"conflict", "broken"} : calls' = [calls EXCEPT ![m].stage = stage]
    BY <2>1
  <2>3. /\ calls' \in [Mutations -> Call]
        /\ calls'[m].stage = stage /\ calls'[m].answer = calls[m].answer
        /\ \A x \in Mutations : x # m => calls'[x] = calls[x]
    BY <1>0, <2>2, CallStands
  <2>4. conflict' \in BOOLEAN /\ removing' \in BOOLEAN BY <1>0, <2>1 DEF SettingsTyped
  <2>. QED BY <2>1, <2>3, <2>4, CallLeft
<1>4. CASE SettingSucceeds(m)
  <2>1. calls[m].answer \in Row /\ AsOf(calls[m].answer) /\ cached # Nothing
    BY <1>0, <1>4 DEF SettingSucceeds, SettingsTyped, Call, Snapshots, Filled
  <2>2. /\ cached' = calls[m].answer
        /\ form' \in {Hydrated(calls[m].answer), Followed(calls[m].answer), form}
        /\ query' \in {query, "idle", "due"}
        /\ conflict' = FALSE
        /\ removal' \in {removal, Nothing}
        /\ removing' = (removing /\ m # "delete")
        /\ calls' = [calls EXCEPT ![m] = NoCall]
        /\ UNCHANGED <<tab, setting, reading, latest, otherLogo>>
    BY <1>4 DEF SettingSucceeds
  <2>3. /\ cached' \in Row /\ cached' # Nothing /\ AsOf(cached)'
        /\ form' \in [filled : Nat, dirty : BOOLEAN]
        /\ tab' = "site" => form'.filled # None
    BY <2>1, <2>2, NewData
  <2>4. /\ calls' \in [Mutations -> Call]
        /\ calls'[m].stage = "idle" /\ calls'[m].answer = Nothing
        /\ \A x \in Mutations : x # m => calls'[x] = calls[x]
    BY <1>0, <2>2, CallEnds
  <2>5. SettingsTyped' BY <1>0, <2>2, <2>3, <2>4 DEF SettingsTyped
  <2>6. Snapshots' BY <1>0, <2>2, <2>3, <2>4 DEF Snapshots, AsOf
  <2>7. Filled' BY <2>3, <1>0, <2>2, <2>4 DEF Filled
  <2>. QED BY <1>0, <2>2, <2>5, <2>6, <2>7 DEF SettingsInv
<1>5. CASE SettingFails(m)
  <2>1. /\ calls' = [calls EXCEPT ![m] = NoCall]
        /\ conflict' \in BOOLEAN /\ removing' \in BOOLEAN
        /\ UNCHANGED <<tab, setting, query, cached, reading, form, latest, removal, otherLogo>>
        /\ calls[m].stage # "idle"
    BY <1>0, <1>5 DEF SettingFails, SettingsTyped
  <2>2. /\ calls' \in [Mutations -> Call]
        /\ calls'[m].stage = "idle" /\ calls'[m].answer = Nothing
        /\ \A x \in Mutations : x # m => calls'[x] = calls[x]
    BY <1>0, <2>1, CallEnds
  <2>. QED BY <2>1, <2>2, CallLeft
<1>. QED BY <1>1, <1>2, <1>3, <1>4, <1>5 DEF SettingServes

LEMMA ElsewhereStep ==
  ASSUME SettingsInv, SettingElsewhere
  PROVE  SettingsInv'
<1>0. SettingsTyped /\ Snapshots /\ Filled /\ ~otherLogo BY DEF SettingsInv
<1>1. PICK m \in Mutations : setting' = Wrote(m)
  BY DEF SettingElsewhere, Mutations
<1>2. setting \in Row /\ setting' \in Row /\ setting'.rev = setting.rev + 1
  BY <1>0, <1>1, WroteRow DEF SettingsTyped, SettingElsewhere
<1>3. UNCHANGED <<tab, query, cached, reading, form, latest, conflict, removal, removing,
                  calls, otherLogo>>
  BY DEF SettingElsewhere
<1>4. SettingsTyped' BY <1>0, <1>2, <1>3 DEF SettingsTyped
<1>5. Snapshots'
  <2>1. ASSUME NEW row \in Row \cup {Nothing}, AsOf(row)
        PROVE  row # Nothing => row.rev <= setting'.rev /\ row.rev # setting'.rev
    <3>1. row # Nothing => row.rev <= setting.rev + 1 /\ row.rev # setting.rev + 1
      BY <1>2, <2>1, Older
    <3>. QED BY <1>2, <3>1
  <2>2. AsOf(cached)' /\ AsOf(reading)' /\ AsOf(removal)'
    BY <1>0, <1>3, <2>1 DEF Snapshots, SettingsTyped, AsOf
  <2>3. ASSUME NEW x \in Mutations PROVE AsOf(calls[x].answer)'
    <3>1. calls[x].answer \in Row \cup {Nothing} /\ AsOf(calls[x].answer)
      BY <1>0 DEF SettingsTyped, Call, Snapshots
    <3>. QED BY <1>3, <2>1, <3>1 DEF AsOf
  <2>4. calls["delete"].stage = "sent" =>
          calls["delete"].rev <= setting'.rev /\ calls["delete"].rev # setting'.rev
    BY <1>0, <1>2 DEF Snapshots, SettingsTyped, Call, Row, Mutations, Revisions
  <2>. QED BY <1>3, <2>2, <2>3, <2>4 DEF Snapshots
<1>6. Filled' BY <1>0, <1>3 DEF Filled
<1>. QED BY <1>0, <1>3, <1>4, <1>5, <1>6 DEF SettingsInv

LEMMA SettingsStep ==
  ASSUME SettingsInv, SettingsNext \/ UNCHANGED settingsVars
  PROVE  SettingsInv'
<1>1. CASE SettingsNext
  BY <1>1, ReadSteps, WriteSteps, SettingsReplySteps, ElsewhereStep DEF SettingsNext, SettingsReply
<1>2. CASE UNCHANGED settingsVars
  BY <1>2 DEF settingsVars, SettingsInv, SettingsTyped, Snapshots, AsOf, Filled
<1>. QED BY <1>1, <1>2

-----------------------------------------------------------------------------
(* The editor.                                                             *)

LEMMA EditorInitOK == EditorInit => EditorInv
<1>. SUFFICES ASSUME EditorInit PROVE EditorInv OBVIOUS
<1>1. EditorTyped
  <2>1. NoArticle \in Text /\ Article(1, 1, "kept") \in Text BY DEF Text, NoArticle, Article
  <2>. QED BY <2>1 DEF EditorInit, EditorTyped
<1>2. Started BY <1>1 DEF EditorInit, EditorTyped, Started, Text
<1>3. Accounted BY DEF EditorInit, Accounted
<1>. QED BY <1>1, <1>2, <1>3 DEF EditorInit, EditorInv, NoPreview

LEMMA Serves ==
  ASSUME EditorInv, PostServes
  PROVE  EditorInv'
<1>0. EditorTyped /\ Started /\ Accounted /\ preview.says = preview.shows /\ ~replaced
  BY DEF EditorInv
<1>. DEFINE next == Article(article.rev + 1, article.rev + 1, "kept")
            accepted == \/ initial = NoArticle /\ article = NoArticle
                        \/ article.state = "kept" /\ article.rev = SentRevision
<1>1. /\ saving = "sent"
      /\ saving' = IF accepted THEN "done" ELSE "refused"
      /\ article' = IF accepted THEN next ELSE article
      /\ stored' = IF accepted THEN sent ELSE stored
      /\ replaced' = (replaced \/ (accepted /\ article.content # initial.content))
      /\ UNCHANGED <<initial, draft, dirty, sent, late, uploading, renders, preview, place, bypass,
                     agreed>>
  BY DEF PostServes
<1>2. next \in Text /\ next.rev = article.rev + 1
  BY <1>0 DEF EditorTyped, Text, Article
<1>3. accepted => article.content = initial.content
  BY <1>0 DEF Started, SentRevision
<1>. HIDE DEF next, accepted
<1>4. EditorTyped' BY <1>0, <1>1, <1>2 DEF EditorTyped
<1>5. Started' BY <1>0, <1>1, <1>2 DEF EditorTyped, Started, Text
<1>6. Accounted' BY <1>0, <1>1 DEF EditorTyped, Accounted
<1>. QED BY <1>0, <1>1, <1>3, <1>4, <1>5, <1>6 DEF EditorInv

LEMMA EditorStep ==
  ASSUME EditorInv, EditorNext \/ UNCHANGED editorVars
  PROVE  EditorInv'
<1>0. EditorTyped /\ Started /\ Accounted /\ preview.says = preview.shows /\ ~replaced
  BY DEF EditorInv
<1>1. CASE Types
  BY <1>0, <1>1 DEF Types, Changed, EditorBusy, EditorInv, EditorTyped, Started, Accounted
<1>2. CASE Uploads
  BY <1>0, <1>2 DEF Uploads, EditorInv, EditorTyped, Started, Accounted
<1>3. CASE UploadEnds
  <2>0. draft' \in Nat /\ late' \in Nat /\ dirty' \in BOOLEAN
    <3>1. CASE Changed BY <1>0, <3>1 DEF Changed, EditorTyped
    <3>2. CASE UNCHANGED <<draft, dirty, late>> BY <1>0, <3>2 DEF EditorTyped
    <3>. QED BY <1>3, <3>1, <3>2 DEF UploadEnds
  <2>1. EditorTyped'
    <3>1. uploading' = FALSE /\ UNCHANGED <<article, initial, saving, sent, stored, place, bypass,
                                            agreed, replaced>>
      BY <1>3 DEF UploadEnds
    <3>. QED BY <1>0, <2>0, <3>1 DEF EditorTyped
  <2>2. ASSUME Changed PROVE Accounted'
    BY <1>0, <1>3, <2>2 DEF UploadEnds, Changed, EditorTyped, Accounted
  <2>3. ASSUME UNCHANGED <<draft, dirty, late>> PROVE Accounted'
    BY <1>0, <1>3, <2>3 DEF UploadEnds, EditorTyped, Accounted
  <2>4. Accounted' BY <1>3, <2>2, <2>3 DEF UploadEnds
  <2>. QED BY <1>0, <1>3, <2>1, <2>4 DEF UploadEnds, EditorInv, Started
<1>4. CASE Renders
  BY <1>0, <1>4 DEF Renders, EditorInv, EditorTyped, Started, Accounted
<1>5. CASE RenderEnds
  BY <1>0, <1>5 DEF RenderEnds, RenderedSource, EditorInv, EditorTyped, Started, Accounted
<1>6. CASE SubmitsPost
  BY <1>0, <1>6 DEF SubmitsPost, EditorInv, EditorTyped, Started, Accounted
<1>7. CASE PostServes BY <1>7, Serves
<1>8. CASE PostBreaks
  BY <1>0, <1>8 DEF PostBreaks, EditorInv, EditorTyped, Started, Accounted
<1>9. CASE SaveSucceeds
  <2>1. EditorTyped' BY <1>0, <1>9 DEF SaveSucceeds, EditorTyped
  <2>2. Accounted' BY <1>0, <1>9 DEF SaveSucceeds, EditorTyped, Accounted
  <2>. QED BY <1>0, <1>9, <2>1, <2>2 DEF SaveSucceeds, EditorInv, Started
<1>10. CASE SaveCloses
  BY <1>0, <1>10 DEF SaveCloses, EditorInv, EditorTyped, Started, Accounted
<1>11. CASE SaveFails
  BY <1>0, <1>11 DEF SaveFails, EditorInv, EditorTyped, Started, Accounted
<1>12. CASE Leaves
  BY <1>0, <1>12 DEF Leaves, EditorBusy, EditorInv, EditorTyped, Started, Accounted
<1>13. CASE ArticleElsewhere
  <2>1. article' \in Text /\ article'.rev = article.rev + 1
    BY <1>0, <1>13 DEF ArticleElsewhere, Article, EditorTyped, Text
  <2>2. UNCHANGED <<initial, draft, dirty, saving, sent, stored, late, uploading, renders, preview,
                    place, bypass, agreed, replaced>>
    BY <1>13 DEF ArticleElsewhere
  <2>. QED BY <1>0, <2>1, <2>2 DEF EditorInv, EditorTyped, Started, Accounted, Text
<1>14. CASE UNCHANGED editorVars
  BY <1>0, <1>14 DEF editorVars, EditorInv, EditorTyped, Started, Accounted
<1>. QED BY <1>1, <1>2, <1>3, <1>4, <1>5, <1>6, <1>7, <1>8, <1>9, <1>10, <1>11, <1>12, <1>13,
            <1>14 DEF EditorNext, EditorReply

-----------------------------------------------------------------------------
(* The permissions.                                                        *)

LEMMA PermissionsInitOK == PermissionsInit => PermissionsInv
  BY DEF PermissionsInit, PermissionsInv, NotSubmitted

\* On the whole catalogue each tool does to the selection what it says.
LEMMA ToolsTick ==
  ASSUME PermissionsInv, data = Codes,
         NEW action \in {"all", "invert", "clear"}
  PROVE  UpdatePermissionSelection(action, selection)
           = (ticked \ ActiveCodes) \cup
             CASE action = "all" -> ActiveCodes
               [] action = "invert" -> ActiveCodes \ ticked
               [] action = "clear" -> {}
<1>1. ActiveCodes \subseteq Assignable /\ ActiveCodes \subseteq Codes /\ Assignable \subseteq Codes
  BY DEF ActiveCodes, Assignable
<1>2. LockedCodes(selection) = ticked \ ActiveCodes
  BY <1>1 DEF LockedCodes, PermissionsInv
<1>. QED BY <1>1, <1>2 DEF UpdatePermissionSelection, PermissionsInv

\* So does the tree, whatever a search hides of it.
LEMMA TreeTicks ==
  ASSUME PermissionsInv, data = Codes,
         NEW leaves \in SUBSET (visible \cap data \cap ActiveCodes)
  PROVE  LET shown == selection \cap visible \cap data
         IN  /\ MergeVisible(shown \cup leaves, selection) = ticked \cup leaves
             /\ MergeVisible(shown \ leaves, selection) = ticked \ leaves
  BY DEF MergeVisible, FilterPermissionCodes, PermissionsInv, ActiveCodes, Assignable

LEMMA PermissionsStep ==
  ASSUME PermissionsInv, PermissionsNext \/ UNCHANGED permissionVars
  PROVE  PermissionsInv'
<1>1. CASE CatalogueArrives BY <1>1 DEF CatalogueArrives, PermissionsInv
<1>2. CASE CatalogueAsked BY <1>2 DEF CatalogueAsked, PermissionsInv
<1>3. CASE OpensPermissions BY <1>3 DEF OpensPermissions, PermissionsInv
<1>4. CASE SearchesPermissions BY <1>4 DEF SearchesPermissions, PermissionsInv
<1>5. CASE AppliesSelection
  <2>1. PICK action \in {"all", "invert", "clear"} :
          /\ selection' = UpdatePermissionSelection(action, selection)
          /\ ticked' = (ticked \ ActiveCodes) \cup
                       CASE action = "all" -> ActiveCodes
                         [] action = "invert" -> ActiveCodes \ ticked
                         [] action = "clear" -> {}
    BY <1>5 DEF AppliesSelection
  <2>2. data = Codes BY <1>5 DEF AppliesSelection, Success, PermissionsInv
  <2>3. selection' = ticked' BY <2>1, <2>2, ToolsTick
  <2>4. ticked' \subseteq Assignable
    BY <2>1 DEF PermissionsInv, ActiveCodes, Assignable
  <2>. QED BY <1>5, <2>3, <2>4 DEF AppliesSelection, PermissionsInv
<1>6. CASE ChecksPermissions
  <2>1. PICK leaves \in SUBSET (visible \cap data \cap ActiveCodes) \ {{}} :
          LET shown == selection \cap visible \cap data
          IN  \/ /\ selection' = MergeVisible(shown \cup leaves, selection)
                 /\ ticked' = ticked \cup leaves
              \/ /\ selection' = MergeVisible(shown \ leaves, selection)
                 /\ ticked' = ticked \ leaves
    BY <1>6 DEF ChecksPermissions
  <2>2. data = Codes BY <1>6 DEF ChecksPermissions, Success, PermissionsInv
  <2>3. selection' = ticked' BY <2>1, <2>2, TreeTicks
  <2>4. ticked' \subseteq Assignable
    BY <2>1 DEF PermissionsInv, ActiveCodes, Assignable
  <2>. QED BY <1>6, <2>3, <2>4 DEF ChecksPermissions, PermissionsInv
<1>7. CASE SavesPermissions
  <2>1. data # {} => FilterPermissionCodes(selection) = ticked
    BY DEF FilterPermissionCodes, PermissionsInv, Assignable
  <2>. QED BY <1>7, <2>1 DEF SavesPermissions, PermissionsInv
<1>8. CASE CancelsPermissions BY <1>8 DEF CancelsPermissions, PermissionsInv
<1>9. CASE AssignSucceeds BY <1>9 DEF AssignSucceeds, NotSubmitted, PermissionsInv
<1>10. CASE AssignFails BY <1>10 DEF AssignFails, NotSubmitted, PermissionsInv
<1>11. CASE UNCHANGED permissionVars BY <1>11 DEF permissionVars, PermissionsInv
<1>. QED BY <1>1, <1>2, <1>3, <1>4, <1>5, <1>6, <1>7, <1>8, <1>9, <1>10, <1>11
         DEF PermissionsNext

-----------------------------------------------------------------------------
(* The theorems.                                                           *)

LEMMA FormsInitOK == Init => FormsInv
  BY SettingsInitOK, EditorInitOK, PermissionsInitOK DEF Init, FormsInv

LEMMA FormsStep == FormsInv /\ [Next]_vars => FormsInv'
<1>. SUFFICES ASSUME FormsInv, [Next]_vars PROVE FormsInv' OBVIOUS
<1>1. SettingsNext \/ UNCHANGED settingsVars BY DEF Next, vars
<1>2. EditorNext \/ UNCHANGED editorVars BY DEF Next, vars
<1>3. PermissionsNext \/ UNCHANGED permissionVars BY DEF Next, vars
<1>. QED BY <1>1, <1>2, <1>3, SettingsStep, EditorStep, PermissionsStep DEF FormsInv

\* The inductive invariant of the three forms (SiteSettingPage.tsx,
\* PostEditorPage.tsx, RolePermissionForm), for any bounds and permissions.
THEOREM FormsInvariant == Spec => []FormsInv
  BY FormsInitOK, FormsStep, PTL DEF Spec

\* A removal of the logo takes the one its confirmation showed, and a save of
\* the editor replaces the content it started from, whatever others change and
\* whatever the queries fetch meanwhile.
THEOREM WritesAsShownTheorem == Spec => []WritesAsShown
<1>1. FormsInv => WritesAsShown BY DEF FormsInv, SettingsInv, EditorInv, WritesAsShown
<1>. QED BY <1>1, FormsInvariant, PTL

\* The preview says which text it shows, in whatever order renderings arrive.
THEOREM PreviewTheorem == Spec => []PreviewOfItsText
<1>1. FormsInv => PreviewOfItsText BY DEF FormsInv, EditorInv, PreviewOfItsText
<1>. QED BY <1>1, FormsInvariant, PTL

\* Whoever leaves the editor without having agreed to lose anything has
\* everything on the server, but for what was typed after the save had
\* succeeded, for any number of changes, saves and failures.
THEOREM NothingLostTheorem == Spec => []NothingLostSilently
<1>1. FormsInv => NothingLostSilently
  BY DEF FormsInv, EditorInv, EditorTyped, Accounted, NothingLostSilently
<1>. QED BY <1>1, FormsInvariant, PTL

\* What the permission dialog saves is what was ticked, for any permissions,
\* searches and tools used.
THEOREM SavedAsTickedTheorem == Spec => []SavedAsTicked
<1>1. FormsInv => SavedAsTicked BY DEF FormsInv, PermissionsInv, SavedAsTicked
<1>. QED BY <1>1, FormsInvariant, PTL

\* Only the answer to his own save, or a request for the latest configuration,
\* replaces what an administrator has typed.
THEOREM DraftKeptTheorem == Spec => DraftKept
<1>1. FormsInv /\ [Next]_vars =>
        [form.dirty /\ ~form'.dirty => latest \/ calls["save"].stage = "done"]_vars
  <2>. SUFFICES ASSUME FormsInv, Next, form.dirty, ~form'.dirty, ~latest
                PROVE  calls["save"].stage = "done"
    BY DEF vars
  <2>1. SettingsNext BY DEF Next, settingsVars
  <2>2. ASSUME NEW row, cached # Nothing PROVE Followed(row).dirty
    BY <2>2 DEF FormsInv, SettingsInv, SettingsTyped, Filled, Followed
  <2>3. cached # Nothing BY DEF FormsInv, SettingsInv, Filled
  <2>4. ~SettingsArrive BY <2>2, <2>3 DEF SettingsArrive
  <2>5. ASSUME NEW m \in Mutations, SettingSucceeds(m) PROVE m = "save"
    BY <2>2, <2>3, <2>5 DEF SettingSucceeds
  <2>. QED BY <2>1, <2>4, <2>5 DEF SettingsNext, SettingsReply, SettingsRefetch, SettingsRead,
           SettingsFail, LoadLatest, EditsSetting, SavesSetting, UploadsLogo, AsksRemoval,
           ConfirmsRemoval, CancelsRemoval, SettingElsewhere, SettingServes, SettingBreaks,
           SettingFails, SettingSucceeds, SettingsTyped, SettingsInv, FormsInv
<1>. QED BY <1>1, FormsInvariant, PTL DEF Spec, DraftKept

=============================================================================
