------------------------- MODULE SettingsMediaProofs -------------------------
(***************************************************************************)
(* What SettingsMedia promises for any images, formats and number of       *)
(* changes, as long as no commit fails, nothing fails on the way back, and *)
(* no image is uploaded again over itself; and, with every failure, as     *)
(* long as one change at a time writes the row.                            *)
(***************************************************************************)
EXTENDS SettingsMedia, TLAPS

\* The failures left out; the runs show what each of them does.
Orderly == {"database", "undo", "same"} \cap Allowed = {}

-----------------------------------------------------------------------------
(* Types.                                                                  *)

LEMMA IdleType == Idle \in ChangeState
<1>. 0 \in 0..MaxRevision
  BY BoundAssumption
<1>. QED  BY Zenon DEF Idle, ChangeState, Stages, Logo

LEMMA NoManifestType == NoManifest \in Manifest
<1>. 0 \in 0..MaxRevision
  BY BoundAssumption
<1>. QED  BY Zenon DEF NoManifest, Manifest, Logo

LEMMA FileType == \A i \in Logo, s \in Slot : File(i, s) \in Logo
BY DEF File, Logo

LEMMA TypeInit == Init => TypeOK
<1> SUFFICES ASSUME Init PROVE TypeOK
  OBVIOUS
<1>1. 0 \in 0..MaxCrashes /\ 1 \in 1..MaxRevision
  BY BoundAssumption
<1>2. setting \in Setting /\ server \in Server
  BY <1>1, Zenon DEF Init, Setting, Server, Logo
<1>. QED  BY <1>2, IdleType, NoManifestType DEF Init, TypeOK, Logo

LEMMA GoesShape ==
  ASSUME changes \in [Change -> ChangeState], NEW c \in Change, NEW stage \in Stages, Goes(c, stage)
  PROVE  /\ changes' \in [Change -> ChangeState]
         /\ changes'[c].stage = stage
         /\ changes'[c].logo = changes[c].logo
         /\ changes'[c].based = changes[c].based
         /\ changes'[c].cleared = changes[c].cleared
         /\ \A d \in Change \ {c} : changes'[d] = changes[d]
<1>. DEFINE row == [changes[c] EXCEPT !.stage = stage]
<1>1. row \in ChangeState
  BY Zenon DEF ChangeState
<1>2. /\ row.stage = stage /\ row.logo = changes[c].logo /\ row.based = changes[c].based
      /\ row.cleared = changes[c].cleared
  BY Zenon DEF ChangeState
<1>3. changes' = [changes EXCEPT ![c] = row]
  BY DEF Goes
<1>. HIDE DEF row
<1>. QED  BY <1>1, <1>2, <1>3, Zenon

LEMMA EndsShape ==
  ASSUME changes \in [Change -> ChangeState], NEW c \in Change, Ends(c)
  PROVE  /\ changes' \in [Change -> ChangeState]
         /\ changes'[c].stage = "idle" /\ changes'[c].cleared = FALSE
         /\ \A d \in Change \ {c} : changes'[d] = changes[d]
<1>1. Idle.stage = "idle" /\ Idle.cleared = FALSE
  BY Zenon DEF Idle
<1>. QED  BY <1>1, IdleType, Zenon DEF Ends

LEMMA GoesType ==
  ASSUME TypeOK, NEW c \in Change, NEW stage \in Stages, Goes(c, stage)
  PROVE  /\ changes' \in [Change -> ChangeState]
         /\ changes'[c].stage = stage
         /\ changes'[c].logo = changes[c].logo
         /\ changes'[c].based = changes[c].based
         /\ changes'[c].cleared = changes[c].cleared
         /\ \A d \in Change \ {c} : changes'[d] = changes[d]
BY GoesShape DEF TypeOK

LEMMA EndsType ==
  ASSUME TypeOK, NEW c \in Change, Ends(c)
  PROVE  /\ changes' \in [Change -> ChangeState]
         /\ changes'[c].stage = "idle" /\ changes'[c].cleared = FALSE
         /\ \A d \in Change \ {c} : changes'[d] = changes[d]
BY EndsShape DEF TypeOK

LEMMA TypeStep ==
  ASSUME TypeOK, ChangesOK, ManifestsOK, Next
  PROVE  TypeOK'
<1>. SUFFICES ASSUME TypeOK PROVE TypeOK'
  OBVIOUS
<1>. USE DEF TypeOK
<1>1. ASSUME NEW c \in Change, NEW logo \in Logo, NEW revision \in 1..MaxRevision,
             StageLogo(c, logo, revision)
      PROVE TypeOK'
  <2>1. [Idle EXCEPT !.stage = "staged", !.logo = logo, !.based = revision] \in ChangeState
    <3>. revision \in 0..MaxRevision
      OBVIOUS
    <3>. QED  BY IdleType, Zenon DEF ChangeState, Stages
  <2>. QED  BY <1>1, <2>1 DEF StageLogo
<1>2. ASSUME NEW c \in Change, LockSetting(c) PROVE TypeOK'
  BY <1>2, GoesType, EndsType DEF LockSetting, Stages
<1>3. ASSUME NEW c \in Change, WriteManifest(c) PROVE TypeOK'
  <2>. DEFINE m == [present |-> TRUE, oldRevision |-> setting.revision,
                    newRevision |-> setting.revision + 1, oldLogo |-> setting.logo,
                    newLogo |-> changes[c].logo, oldFiles |-> {s \in Slot : public[s] # NoImage}]
  <2>1. /\ setting.revision \in 0..MaxRevision /\ setting.revision + 1 \in 0..MaxRevision
        /\ setting.logo \in Logo /\ changes[c].logo \in Logo
    BY <1>3, BoundAssumption DEF WriteManifest, ChangesOK, HoldsRow, Stage, Setting, ChangeState
  <2>2. m \in Manifest
    BY <2>1, Zenon DEF Manifest
  <2>. QED  BY <1>3, <2>2, GoesType DEF WriteManifest, Stages
<1>4. ASSUME NEW c \in Change, NEW s \in Slot, MoveOld(c, s) PROVE TypeOK'
  <2>1. \A i \in Logo : [trash[c] EXCEPT ![s] = i] \in [Slot -> Logo]
    OBVIOUS
  <2>2. trash' \in [Change -> [Slot -> Logo]]
    BY <1>4, <2>1 DEF MoveOld
  <2>. QED  BY <1>4, <2>2 DEF MoveOld, Logo
<1>5. ASSUME NEW c \in Change, Install(c) PROVE TypeOK'
  <2>1. changes' \in [Change -> ChangeState]
    BY <1>5, GoesType DEF Install, Stages
  <2>2. public' \in [Slot -> Logo]
    BY <1>5, ImageAssumption DEF Install, ChangeState, Logo
  <2>. QED  BY <1>5, <2>1, <2>2 DEF Install
<1>6. ASSUME NEW c \in Change, PrepareFails(c) PROVE TypeOK'
  BY <1>6, GoesType, EndsType DEF PrepareFails, Stages
<1>7. ASSUME NEW c \in Change, Commit(c) PROVE TypeOK'
  <2>1. changes' \in [Change -> ChangeState]
    BY <1>7, GoesType DEF Commit, Stages
  <2>2. setting.revision + 1 \in 1..MaxRevision /\ changes[c].logo \in Logo
    BY <1>7, BoundAssumption DEF Commit, ChangesOK, ManifestsOK, Open, Stage, Setting, Manifest, ChangeState
  <2>. QED  BY <1>7, <2>1, <2>2, Zenon DEF Commit, Setting
<1>8. ASSUME NEW c \in Change, CommitFails(c) PROVE TypeOK'
  BY <1>8, GoesType, EndsType DEF CommitFails, Stages
<1>9. ASSUME NEW c \in Change, BeginUndo(c) \/ BeginPurge(c) PROVE TypeOK'
  BY <1>9, GoesType DEF BeginUndo, BeginPurge, Stages
<1>10. ASSUME NEW c \in Change, RemoveNew(c) PROVE TypeOK'
  <2>1. [changes[c] EXCEPT !.cleared = TRUE] \in ChangeState
    BY Zenon DEF ChangeState
  <2>2. changes' \in [Change -> ChangeState]
    BY <1>10, <2>1, Zenon DEF RemoveNew
  <2>. QED  BY <1>10, <2>2 DEF RemoveNew, Logo
<1>11. ASSUME NEW c \in Change, NEW s \in Slot, RestoreOld(c, s) \/ PurgeOld(c, s) PROVE TypeOK'
  <2>1. \A i \in Logo : [trash[c] EXCEPT ![s] = i] \in [Slot -> Logo]
    OBVIOUS
  <2>2. trash' \in [Change -> [Slot -> Logo]]
    BY <1>11, <2>1, NoImage \in Logo DEF RestoreOld, PurgeOld, Logo
  <2>3. public' \in [Slot -> Logo]
    BY <1>11 DEF RestoreOld, PurgeOld
  <2>. QED  BY <1>11, <2>2, <2>3 DEF RestoreOld, PurgeOld
<1>12. ASSUME NEW c \in Change, DropManifest(c) PROVE TypeOK'
  BY <1>12, EndsType, NoManifestType DEF DropManifest
<1>13. ASSUME NEW c \in Change, CleanupFails(c) PROVE TypeOK'
  <2>1. changes' \in [Change -> ChangeState]
    BY <1>13, GoesType DEF CleanupFails, Stages
  <2>. QED  BY <1>13, <2>1 DEF CleanupFails, Server
<1>14. ASSUME Patch PROVE TypeOK'
  <2>1. setting.revision + 1 \in 1..MaxRevision
    BY <1>14, BoundAssumption DEF Patch, Setting
  <2>. QED  BY <1>14, <2>1 DEF Patch, Setting
<1>15. ASSUME Crash PROVE TypeOK'
  <2>1. changes' \in [Change -> ChangeState]
    BY <1>15, IdleType DEF Crash
  <2>2. server.crashes + 1 \in 0..MaxCrashes
    BY <1>15, BoundAssumption DEF Crash, Server
  <2>. QED  BY <1>15, <2>1, <2>2 DEF Crash, Server, Pending
<1>16. ASSUME NEW c \in Change, Recover(c) PROVE TypeOK'
  <2>1. changes' \in [Change -> ChangeState]
    BY <1>16, GoesType DEF Recover, Stages
  <2>2. \/ server' = [server EXCEPT !.todo = @ \ {c}]
        \/ server' = [server EXCEPT !.state = "refused"]
    BY <1>16, Zenon DEF Recover
  <2>3. server.todo \ {c} \in SUBSET Change
    BY DEF Server
  <2>4. server' \in Server
    BY <2>2, <2>3, Zenon DEF Server
  <2>. QED  BY <1>16, <2>1, <2>4 DEF Recover
<1>17. ASSUME Ready PROVE TypeOK'
  BY <1>17 DEF Ready, Server
<1>. QED
  BY <1>1, <1>2, <1>3, <1>4, <1>5, <1>6, <1>7, <1>8, <1>9, <1>10, <1>11, <1>12, <1>13, <1>14,
     <1>15, <1>16, <1>17, Zenon DEF Next, ChangeStep, StartStep

-----------------------------------------------------------------------------
(* The invariant, action by action.                                        *)

Inv == LocksOK /\ ChangesOK /\ ManifestsOK /\ ServerOK /\ FilesOK

LEMMA LockSettingStep ==
  ASSUME IndInv, TypeOK', NEW c \in Change, LockSetting(c)
  PROVE  Inv'
<1>. USE DEF IndInv, Stage, HoldsRow, Open
<1>1. /\ changes'[c].stage \in {"locked", "idle"}
      /\ changes'[c].stage = "locked" => /\ changes[c].based = setting.revision
                                         /\ changes'[c].logo = changes[c].logo
                                         /\ changes'[c].based = changes[c].based
                                         /\ changes'[c].cleared = changes[c].cleared
      /\ changes'[c].stage = "idle" => changes'[c].cleared = FALSE
      /\ \A d \in Change \ {c} : changes'[d] = changes[d]
  BY GoesType, EndsType DEF LockSetting, Stages
<1>2. /\ changes[c].stage = "staged" /\ ~manifests[c].present
      /\ UNCHANGED <<setting, public, trash, manifests, server>>
      /\ \A d \in Change \ {c} : ~HoldsRow(d)
  BY DEF LockSetting, ChangesOK, RowFree
<1>3. LocksOK'
  BY <1>1, <1>2 DEF LocksOK
<1>4. ChangesOK'
  BY <1>1, <1>2 DEF ChangesOK
<1>5. ManifestsOK'
  BY <1>1, <1>2 DEF ManifestsOK
<1>6. ServerOK'
  BY <1>1, <1>2 DEF ServerOK
<1>7. FilesOK'
  BY <1>1, <1>2 DEF FilesOK, MidwayOK
<1>. QED  BY <1>3, <1>4, <1>5, <1>6, <1>7 DEF Inv

LEMMA StageLogoStep ==
  ASSUME IndInv, TypeOK', Orderly, NEW c \in Change, NEW logo \in Logo, NEW revision \in 1..MaxRevision,
         StageLogo(c, logo, revision)
  PROVE  Inv'
<1>. USE DEF IndInv, Stage, HoldsRow, Open
<1>1. /\ changes'[c].stage = "staged" /\ changes'[c].logo = logo /\ changes'[c].based = revision
      /\ changes'[c].cleared = FALSE
      /\ \A d \in Change \ {c} : changes'[d] = changes[d]
  <2>. DEFINE row == [Idle EXCEPT !.stage = "staged", !.logo = logo, !.based = revision]
  <2>1. row.stage = "staged" /\ row.logo = logo /\ row.based = revision /\ row.cleared = FALSE
    BY Zenon DEF Idle
  <2>2. changes' = [changes EXCEPT ![c] = row]
    BY DEF StageLogo
  <2>. HIDE DEF row
  <2>. QED  BY <2>1, <2>2, Zenon DEF TypeOK
<1>2. /\ changes[c].stage = "idle" /\ ~manifests[c].present /\ server.state = "up"
      /\ UNCHANGED <<setting, public, trash, manifests, server>>
      /\ revision <= setting.revision /\ revision < MaxRevision
      /\ revision = setting.revision => logo = NoImage \/ logo # setting.logo
  BY DEF StageLogo, Orderly
<1>3. LocksOK'
  BY <1>1, <1>2 DEF LocksOK
<1>4. ChangesOK'
  BY <1>1, <1>2 DEF ChangesOK
<1>5. ManifestsOK'
  BY <1>1, <1>2 DEF ManifestsOK
<1>6. ServerOK'
  BY <1>1, <1>2 DEF ServerOK
<1>7. FilesOK'
  BY <1>1, <1>2 DEF FilesOK, MidwayOK
<1>. QED  BY <1>3, <1>4, <1>5, <1>6, <1>7 DEF Inv

LEMMA WriteManifestStep ==
  ASSUME IndInv, TypeOK', NEW c \in Change, WriteManifest(c)
  PROVE  Inv'
<1>. USE DEF IndInv, Stage, HoldsRow, Open
<1>1. /\ changes'[c].stage = "moving" /\ changes'[c].logo = changes[c].logo
      /\ changes'[c].based = changes[c].based /\ changes'[c].cleared = changes[c].cleared
      /\ \A d \in Change \ {c} : changes'[d] = changes[d]
  BY GoesType DEF WriteManifest, Stages
<1>2. /\ changes[c].stage = "locked" /\ ~manifests[c].present /\ server.state = "up"
      /\ changes[c].logo = NoImage \/ changes[c].logo # setting.logo
      /\ changes[c].based = setting.revision
      /\ UNCHANGED <<setting, public, trash, server>>
  BY DEF WriteManifest, ChangesOK, ServerOK, TypeOK, Server
<1>3. /\ manifests'[c].present
      /\ manifests'[c].oldRevision = setting.revision
      /\ manifests'[c].newRevision = setting.revision + 1
      /\ manifests'[c].newLogo = changes[c].logo
      /\ manifests'[c].oldFiles = {s \in Slot : public[s] # NoImage}
      /\ \A d \in Change \ {c} : manifests'[d] = manifests[d]
  BY DEF WriteManifest, TypeOK
<1>4. /\ \A d \in Change : ~Open(d)
      /\ \A d \in Change : ~(manifests[d].present /\ manifests[d].newRevision > setting.revision)
      /\ \A d \in Change \ {c} : ~HoldsRow(d)
  BY <1>2 DEF LocksOK
<1>5. \A s \in Slot : public[s] = File(setting.logo, s) /\ trash[c][s] = NoImage
  BY <1>2, <1>4 DEF FilesOK, ManifestsOK
<1>6. setting.revision \in Nat
  BY DEF TypeOK, Setting
<1>7. LocksOK'
  BY <1>1, <1>2, <1>3, <1>4, <1>5, <1>6 DEF LocksOK
<1>8. ChangesOK'
  BY <1>1, <1>2, <1>3, <1>4, <1>5, <1>6 DEF ChangesOK
<1>9. ManifestsOK'
  BY <1>1, <1>2, <1>3, <1>4, <1>5, <1>6 DEF ManifestsOK
<1>10. ServerOK'
  BY <1>1, <1>2, <1>3, <1>4, <1>5, <1>6 DEF ServerOK
<1>11. FilesOK'
  BY <1>1, <1>2, <1>3, <1>4, <1>5, <1>6 DEF FilesOK, MidwayOK
<1>. QED  BY <1>7, <1>8, <1>9, <1>10, <1>11 DEF Inv

LEMMA MoveOldStep ==
  ASSUME IndInv, TypeOK', NEW c \in Change, NEW s \in Slot, MoveOld(c, s)
  PROVE  Inv'
<1>. USE DEF IndInv, Stage, HoldsRow, Open
<1>1. /\ changes[c].stage = "moving" /\ public[s] # NoImage
      /\ UNCHANGED <<setting, manifests, changes, server>>
      /\ public'[s] = NoImage /\ \A t \in Slot \ {s} : public'[t] = public[t]
  BY DEF MoveOld, TypeOK
<1>2. /\ trash'[c][s] = public[s] /\ \A t \in Slot \ {s} : trash'[c][t] = trash[c][t]
      /\ \A d \in Change \ {c} : trash'[d] = trash[d]
  BY DEF MoveOld, TypeOK
<1>3. manifests[c].present /\ Open(c) /\ \A d \in Change \ {c} : ~Open(d)
  BY <1>1 DEF ChangesOK, LocksOK
<1>4. LocksOK'
  BY <1>1, <1>2, <1>3 DEF LocksOK
<1>5. ChangesOK'
  BY <1>1, <1>2, <1>3 DEF ChangesOK
<1>6. ManifestsOK'
  BY <1>1, <1>2, <1>3 DEF ManifestsOK
<1>7. ServerOK'
  BY <1>1, <1>2, <1>3 DEF ServerOK
<1>8. FilesOK'
  BY <1>1, <1>2, <1>3 DEF FilesOK, MidwayOK
<1>. QED  BY <1>4, <1>5, <1>6, <1>7, <1>8 DEF Inv

LEMMA InstallStep ==
  ASSUME IndInv, TypeOK', NEW c \in Change, Install(c)
  PROVE  Inv'
<1>. USE DEF IndInv, Stage, HoldsRow, Open
<1>1. /\ changes'[c].stage \in {"swapped", "reverting"} /\ changes'[c].logo = changes[c].logo
      /\ changes'[c].based = changes[c].based /\ changes'[c].cleared = changes[c].cleared
      /\ \A d \in Change \ {c} : changes'[d] = changes[d]
  BY GoesType DEF Install, Stages
<1>2. /\ changes[c].stage = "moving" /\ changes[c].logo = manifests[c].newLogo
      /\ ~changes[c].cleared
      /\ UNCHANGED <<setting, trash, manifests, server>>
  BY DEF Install, ChangesOK
<1>3. manifests[c].present /\ Open(c) /\ \A d \in Change \ {c} : ~Open(d)
  BY <1>2 DEF ChangesOK, LocksOK
<1>4. \A t \in Slot : public[t] = NoImage
  BY <1>2, <1>3 DEF Install, FilesOK, MidwayOK
<1>5. \A t \in Slot : public'[t] = File(manifests[c].newLogo, t)
  BY <1>2, <1>4, ImageAssumption DEF Install, File, TypeOK, Logo, ChangeState
<1>6. LocksOK'
  BY <1>1, <1>2, <1>3, <1>4, <1>5 DEF LocksOK
<1>7. ChangesOK'
  BY <1>1, <1>2, <1>3, <1>4, <1>5 DEF ChangesOK
<1>8. ManifestsOK'
  BY <1>1, <1>2, <1>3, <1>4, <1>5 DEF ManifestsOK
<1>9. ServerOK'
  BY <1>1, <1>2, <1>3, <1>4, <1>5 DEF ServerOK
<1>10. FilesOK'
  BY <1>1, <1>2, <1>3, <1>4, <1>5 DEF FilesOK, MidwayOK
<1>. QED  BY <1>6, <1>7, <1>8, <1>9, <1>10 DEF Inv

LEMMA PrepareFailsStep ==
  ASSUME IndInv, TypeOK', NEW c \in Change, PrepareFails(c)
  PROVE  Inv'
<1>. USE DEF IndInv, Stage, HoldsRow, Open
<1>1. /\ \/ changes[c].stage = "locked" /\ changes'[c].stage = "idle" /\ ~changes'[c].cleared
         \/ /\ changes[c].stage = "moving" /\ changes'[c].stage = "reverting"
            /\ changes'[c].cleared = changes[c].cleared /\ changes'[c].based = changes[c].based
      /\ \A d \in Change \ {c} : changes'[d] = changes[d]
      /\ UNCHANGED <<setting, public, trash, manifests, server>>
  BY GoesType, EndsType DEF PrepareFails, Stages
<1>2. server.state = "up"
  BY <1>1 DEF ServerOK
<1>3. /\ changes[c].stage = "locked" => ~manifests[c].present
      /\ changes[c].stage = "moving" => ~changes[c].cleared
  BY <1>1 DEF ChangesOK
<1>4. LocksOK'
  BY <1>1, <1>2, <1>3 DEF LocksOK
<1>5. ChangesOK'
  BY <1>1, <1>2, <1>3 DEF ChangesOK
<1>6. ManifestsOK'
  BY <1>1, <1>2, <1>3 DEF ManifestsOK
<1>7. ServerOK'
  BY <1>1, <1>2, <1>3 DEF ServerOK
<1>8. FilesOK'
  BY <1>1, <1>2, <1>3 DEF FilesOK, MidwayOK
<1>. QED  BY <1>4, <1>5, <1>6, <1>7, <1>8 DEF Inv

LEMMA CommitStep ==
  ASSUME IndInv, TypeOK', NEW c \in Change, Commit(c)
  PROVE  Inv'
<1>. USE DEF IndInv, Stage, HoldsRow, Open
<1>1. /\ changes'[c].stage = "committed" /\ changes'[c].logo = changes[c].logo
      /\ changes'[c].based = changes[c].based /\ changes'[c].cleared = changes[c].cleared
      /\ \A d \in Change \ {c} : changes'[d] = changes[d]
  BY GoesType DEF Commit, Stages
<1>2. /\ changes[c].stage = "swapped" /\ changes[c].logo = manifests[c].newLogo
      /\ ~changes[c].cleared
      /\ UNCHANGED <<public, trash, manifests, server>>
      /\ setting'.revision = setting.revision + 1 /\ setting'.logo = changes[c].logo
  BY DEF Commit, ChangesOK
<1>3. /\ manifests[c].present /\ Open(c)
      /\ \A d \in Change \ {c} : ~Open(d) /\ ~HoldsRow(d)
  BY <1>2 DEF ChangesOK, LocksOK
<1>4. /\ setting.revision \in Nat
      /\ \A d \in Change : manifests[d].newRevision \in Nat /\ changes[d].based \in Nat
      /\ manifests[c].newRevision = setting.revision + 1
  BY <1>3 DEF TypeOK, Setting, Manifest, ChangeState, ManifestsOK
<1>5. \A d \in Change : ~Open(d)'
  BY <1>2, <1>3, <1>4
<1>6. \A t \in Slot : public'[t] = File(setting'.logo, t)
  BY <1>2, <1>3 DEF FilesOK, MidwayOK
<1>7. LocksOK'
  BY <1>1, <1>2, <1>3, <1>4, <1>5, <1>6 DEF LocksOK
<1>8. ChangesOK'
  BY <1>1, <1>2, <1>3, <1>4, <1>5, <1>6 DEF ChangesOK
<1>9. ManifestsOK'
  BY <1>1, <1>2, <1>3, <1>4, <1>5, <1>6 DEF ManifestsOK
<1>10. ServerOK'
  BY <1>1, <1>2, <1>3, <1>4, <1>5, <1>6 DEF ServerOK
<1>11. FilesOK'
  BY <1>1, <1>2, <1>3, <1>4, <1>5, <1>6 DEF FilesOK, MidwayOK
<1>. QED  BY <1>7, <1>8, <1>9, <1>10, <1>11 DEF Inv

LEMMA BeginPurgeStep ==
  ASSUME IndInv, TypeOK', NEW c \in Change, BeginUndo(c) \/ BeginPurge(c)
  PROVE  Inv'
<1>. USE DEF IndInv, Stage, HoldsRow, Open
<1>1. BeginPurge(c)
  BY DEF BeginUndo, ChangesOK
<1>2. /\ changes'[c].stage = "purging" /\ changes[c].stage = "committed"
      /\ changes'[c].cleared = changes[c].cleared
      /\ \A d \in Change \ {c} : changes'[d] = changes[d]
      /\ UNCHANGED <<setting, public, trash, manifests, server>>
  BY <1>1, GoesType DEF BeginPurge, Stages
<1>3. server.state = "up"
  BY <1>2 DEF ServerOK
<1>4. LocksOK'
  BY <1>1, <1>2, <1>3 DEF LocksOK
<1>5. ChangesOK'
  BY <1>1, <1>2, <1>3 DEF ChangesOK
<1>6. ManifestsOK'
  BY <1>1, <1>2, <1>3 DEF ManifestsOK
<1>7. ServerOK'
  BY <1>1, <1>2, <1>3 DEF ServerOK
<1>8. FilesOK'
  BY <1>1, <1>2, <1>3 DEF FilesOK, MidwayOK
<1>. QED  BY <1>4, <1>5, <1>6, <1>7, <1>8 DEF Inv

LEMMA RemoveNewStep ==
  ASSUME IndInv, TypeOK', NEW c \in Change, RemoveNew(c)
  PROVE  Inv'
<1>. USE DEF IndInv, Stage, HoldsRow, Open
<1>1. /\ changes'[c].stage = changes[c].stage /\ changes'[c].logo = changes[c].logo
      /\ changes'[c].based = changes[c].based /\ changes'[c].cleared = TRUE
      /\ \A d \in Change \ {c} : changes'[d] = changes[d]
  <2>. DEFINE row == [changes[c] EXCEPT !.cleared = TRUE]
  <2>1. /\ row.stage = changes[c].stage /\ row.logo = changes[c].logo
        /\ row.based = changes[c].based /\ row.cleared = TRUE
    BY Zenon DEF TypeOK, ChangeState
  <2>2. changes' = [changes EXCEPT ![c] = row]
    BY DEF RemoveNew
  <2>. HIDE DEF row
  <2>. QED  BY <2>1, <2>2, Zenon DEF TypeOK
<1>2. /\ changes[c].stage \in {"reverting", "undoing"}
      /\ UNCHANGED <<setting, trash, manifests, server>>
  BY DEF RemoveNew
<1>3. /\ manifests[c].present /\ Open(c) /\ \A d \in Change \ {c} : ~Open(d)
      /\ manifests[c].newLogo = NoImage \/ manifests[c].newLogo # setting.logo
  BY <1>2 DEF ChangesOK, LocksOK, ManifestsOK
<1>4. manifests[c].newLogo \in Logo /\ setting.logo \in Logo
  BY DEF TypeOK, Setting, Manifest
<1>5. ASSUME NEW t \in Slot
      PROVE  /\ public'[t] \in {NoImage, File(setting.logo, t)}
             /\ File(setting.logo, t) \in {NoImage, public'[t], trash[c][t]}
  <2>. DEFINE new == manifests[c].newLogo
              old == setting.logo
  <2>1. /\ trash[c][t] \in {NoImage, File(old, t)}
        /\ public[t] \in {NoImage, File(old, t), File(new, t)}
        /\ File(old, t) \in {NoImage, public[t], trash[c][t]}
    BY <1>3 DEF FilesOK, MidwayOK
  <2>2. CASE Matches(new) /\ t = SlotOf[new]
    <3>1. public'[t] = NoImage /\ public[t] = new /\ new # NoImage /\ File(old, t) # new
      BY <2>2, <1>3 DEF RemoveNew, Matches, TypeOK, File
    <3>. QED  BY <3>1, <2>1
  <2>3. CASE ~(Matches(new) /\ t = SlotOf[new])
    <3>1. public'[t] = public[t]
      BY <2>3 DEF RemoveNew, TypeOK
    <3>2. File(new, t) = NoImage \/ public[t] # File(new, t)
      BY <2>3 DEF File, Matches
    <3>. QED  BY <3>1, <3>2, <2>1
  <2>. QED  BY <2>2, <2>3
<1>6. LocksOK'
  BY <1>1, <1>2, <1>3, <1>4, <1>5 DEF LocksOK
<1>7. ChangesOK'
  BY <1>1, <1>2, <1>3, <1>4, <1>5 DEF ChangesOK
<1>8. ManifestsOK'
  BY <1>1, <1>2, <1>3, <1>4, <1>5 DEF ManifestsOK
<1>9. ServerOK'
  BY <1>1, <1>2, <1>3, <1>4, <1>5 DEF ServerOK
<1>10. FilesOK'
  BY <1>1, <1>2, <1>3, <1>4, <1>5 DEF FilesOK, MidwayOK
<1>. QED  BY <1>6, <1>7, <1>8, <1>9, <1>10 DEF Inv

LEMMA RestoreOldStep ==
  ASSUME IndInv, TypeOK', NEW c \in Change, NEW s \in Slot, RestoreOld(c, s)
  PROVE  Inv'
<1>. USE DEF IndInv, Stage, HoldsRow, Open
<1>1. /\ changes[c].stage \in {"reverting", "undoing"} /\ changes[c].cleared
      /\ trash[c][s] # NoImage
      /\ UNCHANGED <<setting, manifests, changes, server>>
      /\ public'[s] = trash[c][s] /\ \A t \in Slot \ {s} : public'[t] = public[t]
  BY DEF RestoreOld, TypeOK
<1>2. /\ trash'[c][s] = NoImage /\ \A t \in Slot \ {s} : trash'[c][t] = trash[c][t]
      /\ \A d \in Change \ {c} : trash'[d] = trash[d]
  BY DEF RestoreOld, TypeOK
<1>3. manifests[c].present /\ Open(c) /\ \A d \in Change \ {c} : ~Open(d)
  BY <1>1 DEF ChangesOK, LocksOK
<1>4. LocksOK'
  BY <1>1, <1>2, <1>3 DEF LocksOK
<1>5. ChangesOK'
  BY <1>1, <1>2, <1>3 DEF ChangesOK
<1>6. ManifestsOK'
  BY <1>1, <1>2, <1>3 DEF ManifestsOK
<1>7. ServerOK'
  BY <1>1, <1>2, <1>3 DEF ServerOK
<1>8. FilesOK'
  BY <1>1, <1>2, <1>3 DEF FilesOK, MidwayOK
<1>. QED  BY <1>4, <1>5, <1>6, <1>7, <1>8 DEF Inv

LEMMA PurgeOldStep ==
  ASSUME IndInv, TypeOK', NEW c \in Change, NEW s \in Slot, PurgeOld(c, s)
  PROVE  Inv'
<1>. USE DEF IndInv, Stage, HoldsRow, Open
<1>1. /\ changes[c].stage = "purging"
      /\ UNCHANGED <<setting, public, manifests, changes, server>>
  BY DEF PurgeOld
<1>2. \A d \in Change \ {c} : trash'[d] = trash[d]
  BY DEF PurgeOld, TypeOK
<1>3. manifests[c].present /\ ~Open(c)
  BY <1>1 DEF ChangesOK
<1>4. LocksOK'
  BY <1>1, <1>2, <1>3 DEF LocksOK
<1>5. ChangesOK'
  BY <1>1, <1>2, <1>3 DEF ChangesOK
<1>6. ManifestsOK'
  BY <1>1, <1>2, <1>3 DEF ManifestsOK
<1>7. ServerOK'
  BY <1>1, <1>2, <1>3 DEF ServerOK
<1>8. FilesOK'
  BY <1>1, <1>2, <1>3 DEF FilesOK, MidwayOK
<1>. QED  BY <1>4, <1>5, <1>6, <1>7, <1>8 DEF Inv

LEMMA CleanupFailsStep ==
  ASSUME IndInv, TypeOK', Orderly, NEW c \in Change, CleanupFails(c)
  PROVE  Inv'
<1>. USE DEF IndInv, Stage, HoldsRow, Open
<1>1. /\ changes[c].stage = "purging"
      /\ Goes(c, "stuck")
      /\ UNCHANGED <<setting, public, trash, manifests>>
  BY DEF CleanupFails, Orderly
<1>2. /\ changes'[c].stage = "stuck" /\ changes'[c].cleared = changes[c].cleared
      /\ \A d \in Change \ {c} : changes'[d] = changes[d]
  BY <1>1, GoesType DEF Stages
<1>3. manifests[c].present /\ ~Open(c)
  BY <1>1 DEF ChangesOK
<1>4. /\ server'.state = "up" => server.state = "up"
      /\ server'.state = "starting" => server.state = "starting" /\ server' = server
      /\ server'.state # "up" => server.state # "up"
  BY DEF CleanupFails, TypeOK, Server
<1>5. LocksOK'
  BY <1>1, <1>2, <1>3, <1>4 DEF LocksOK
<1>6. ChangesOK'
  BY <1>1, <1>2, <1>3 DEF ChangesOK
<1>7. ManifestsOK'
  BY <1>1, <1>2, <1>3 DEF ManifestsOK
<1>8. ServerOK'
  BY <1>1, <1>2, <1>3, <1>4 DEF ServerOK
<1>9. FilesOK'
  BY <1>1, <1>2, <1>3 DEF FilesOK, MidwayOK
<1>. QED  BY <1>5, <1>6, <1>7, <1>8, <1>9 DEF Inv

LEMMA DropManifestStep ==
  ASSUME IndInv, TypeOK', NEW c \in Change, DropManifest(c)
  PROVE  Inv'
<1>. USE DEF IndInv, Stage, HoldsRow, Open
<1>1. /\ changes'[c].stage = "idle" /\ ~changes'[c].cleared
      /\ \A d \in Change \ {c} : changes'[d] = changes[d]
  BY EndsType DEF DropManifest
<1>2. /\ \/ changes[c].stage \in {"reverting", "undoing"} /\ changes[c].cleared
         \/ changes[c].stage = "purging"
      /\ \A t \in Slot : trash[c][t] = NoImage
      /\ UNCHANGED <<setting, public, trash, server>>
  BY DEF DropManifest
<1>3. /\ manifests'[c] = NoManifest /\ ~manifests'[c].present
      /\ \A d \in Change \ {c} : manifests'[d] = manifests[d]
  <2>1. ~NoManifest.present
    BY Zenon DEF NoManifest
  <2>. QED  BY <2>1, Zenon DEF DropManifest, TypeOK
<1>4. \/ ~Open(c)
      \/ /\ Open(c) /\ \A d \in Change \ {c} : ~Open(d)
         /\ \A t \in Slot : public[t] = File(setting.logo, t)
  BY <1>2 DEF ChangesOK, LocksOK, FilesOK, MidwayOK
<1>5. server.state \in {"starting", "up", "refused", "failed"}
  BY DEF TypeOK, Server
<1>6. LocksOK'
  BY <1>1, <1>2, <1>3, <1>4, <1>5 DEF LocksOK
<1>7. ChangesOK'
  BY <1>1, <1>2, <1>3, <1>4, <1>5 DEF ChangesOK
<1>8. ManifestsOK'
  BY <1>1, <1>2, <1>3, <1>4, <1>5 DEF ManifestsOK
<1>9. ServerOK'
  BY <1>1, <1>2, <1>3, <1>4, <1>5 DEF ServerOK
<1>10. FilesOK'
  BY <1>1, <1>2, <1>3, <1>4, <1>5 DEF FilesOK, MidwayOK
<1>. QED  BY <1>6, <1>7, <1>8, <1>9, <1>10 DEF Inv

LEMMA PatchStep ==
  ASSUME IndInv, TypeOK', Patch
  PROVE  Inv'
<1>. USE DEF IndInv, Stage, HoldsRow, Open
<1>1. /\ server.state = "up" /\ \A c \in Change : ~HoldsRow(c)
      /\ \A c \in Change : ~Open(c)
      /\ UNCHANGED <<public, trash, manifests, changes, server>>
      /\ setting'.revision = setting.revision + 1 /\ setting'.logo = setting.logo
  BY DEF Patch, TypeOK, Setting, LocksOK
<1>2. /\ setting.revision \in Nat
      /\ \A d \in Change : manifests[d].newRevision \in Nat /\ changes[d].based \in Nat
  BY DEF TypeOK, Setting, Manifest, ChangeState
<1>3. \A c \in Change : ~Open(c)'
  BY <1>1, <1>2
<1>4. LocksOK'
  BY <1>1, <1>2, <1>3 DEF LocksOK
<1>5. ChangesOK'
  BY <1>1, <1>2, <1>3 DEF ChangesOK
<1>6. ManifestsOK'
  BY <1>1, <1>2, <1>3 DEF ManifestsOK
<1>7. ServerOK'
  BY <1>1, <1>2, <1>3 DEF ServerOK
<1>8. FilesOK'
  BY <1>1, <1>2, <1>3 DEF FilesOK, MidwayOK
<1>. QED  BY <1>4, <1>5, <1>6, <1>7, <1>8 DEF Inv

LEMMA CrashStep ==
  ASSUME IndInv, TypeOK', Crash
  PROVE  Inv'
<1>. USE DEF IndInv, Stage, HoldsRow, Open
<1>1. /\ \A c \in Change : changes'[c].stage = "idle" /\ ~changes'[c].cleared
      /\ UNCHANGED <<setting, public, trash, manifests>>
  <2>1. Idle.stage = "idle" /\ ~Idle.cleared
    BY Zenon DEF Idle
  <2>. QED  BY <2>1 DEF Crash
<1>2. server'.state = "starting" /\ server'.todo = Pending
  BY DEF Crash
<1>3. \A c \in Change : manifests[c].present => c \in Pending
  BY DEF Pending
<1>4. LocksOK'
  BY <1>1, <1>2, <1>3 DEF LocksOK
<1>5. ChangesOK'
  BY <1>1, <1>2, <1>3 DEF ChangesOK
<1>6. ManifestsOK'
  BY <1>1, <1>2, <1>3 DEF ManifestsOK
<1>7. ServerOK'
  BY <1>1, <1>2, <1>3 DEF ServerOK
<1>8. FilesOK'
  BY <1>1, <1>2, <1>3 DEF FilesOK, MidwayOK
<1>. QED  BY <1>4, <1>5, <1>6, <1>7, <1>8 DEF Inv

LEMMA RecoverStep ==
  ASSUME IndInv, TypeOK', NEW c \in Change, Recover(c)
  PROVE  Inv'
<1>. USE DEF IndInv, Stage, HoldsRow, Open
<1>1. /\ server.state = "starting" /\ \A d \in Change : changes[d].stage = "idle"
      /\ UNCHANGED <<setting, public, trash, manifests>>
  BY DEF Recover
<1>2. \/ /\ server'.state = "refused" /\ UNCHANGED changes
      \/ /\ server'.state = "starting" /\ server'.todo = server.todo \ {c}
         /\ changes'[c].cleared = changes[c].cleared
         /\ \A d \in Change \ {c} : changes'[d] = changes[d]
         /\ \/ changes'[c].stage = "purging" /\ Committed(c)
            \/ changes'[c].stage = "undoing" /\ Uncommitted(c)
  <2>1. CASE server' = [server EXCEPT !.state = "refused"] /\ UNCHANGED changes
    BY <2>1 DEF TypeOK, Server
  <2>2. CASE Goes(c, "purging") /\ server' = [server EXCEPT !.todo = @ \ {c}] /\ Committed(c)
    BY <2>2, <1>1, GoesType DEF TypeOK, Server, Stages
  <2>3. CASE Goes(c, "undoing") /\ server' = [server EXCEPT !.todo = @ \ {c}] /\ Uncommitted(c)
    BY <2>3, <1>1, GoesType DEF TypeOK, Server, Stages
  <2>. QED  BY <2>1, <2>2, <2>3 DEF Recover
<1>3. /\ setting.revision \in Nat \ {0}
      /\ \A d \in Change : manifests[d].newRevision \in Nat /\ manifests[d].oldRevision \in Nat
  BY DEF TypeOK, Setting, Manifest
<1>4. /\ Committed(c) => manifests[c].present /\ ~Open(c)
      /\ Uncommitted(c) => manifests[c].present /\ Open(c)
  <2>1. NoManifest.newRevision = 0 /\ NoManifest.oldRevision = 0
    BY DEF NoManifest
  <2>. QED  BY <1>3, <2>1 DEF Committed, Uncommitted, ManifestsOK
<1>5. ~changes[c].cleared
  BY <1>1 DEF ChangesOK
<1>6. LocksOK'
  BY <1>1, <1>2, <1>3, <1>4, <1>5 DEF LocksOK
<1>7. ChangesOK'
  BY <1>1, <1>2, <1>3, <1>4, <1>5 DEF ChangesOK
<1>8. ManifestsOK'
  BY <1>1, <1>2, <1>3, <1>4, <1>5 DEF ManifestsOK
<1>9. ServerOK'
  BY <1>1, <1>2, <1>3, <1>4, <1>5 DEF ServerOK
<1>10. FilesOK'
  BY <1>1, <1>2, <1>3, <1>4, <1>5 DEF FilesOK, MidwayOK
<1>. QED  BY <1>6, <1>7, <1>8, <1>9, <1>10 DEF Inv

LEMMA ReadyStep ==
  ASSUME IndInv, TypeOK', Ready
  PROVE  Inv'
<1>. USE DEF IndInv, Stage, HoldsRow, Open
<1>1. /\ server.state = "starting" /\ server.todo = {}
      /\ \A d \in Change : changes[d].stage = "idle"
      /\ UNCHANGED <<setting, public, trash, manifests, changes>>
      /\ server'.state = "up"
  BY DEF Ready, TypeOK, Server
<1>2. \A d \in Change : ~Open(d)
  BY <1>1 DEF ServerOK
<1>3. LocksOK'
  BY <1>1, <1>2 DEF LocksOK
<1>4. ChangesOK'
  BY <1>1, <1>2 DEF ChangesOK
<1>5. ManifestsOK'
  BY <1>1, <1>2 DEF ManifestsOK
<1>6. ServerOK'
  BY <1>1, <1>2 DEF ServerOK
<1>7. FilesOK'
  BY <1>1, <1>2 DEF FilesOK, MidwayOK
<1>. QED  BY <1>3, <1>4, <1>5, <1>6, <1>7 DEF Inv

LEMMA InitInv == Init => IndInv
<1> SUFFICES ASSUME Init PROVE Inv
  BY TypeInit DEF IndInv, Inv
<1>. USE DEF Stage, HoldsRow, Open
<1>1. Idle.stage = "idle" /\ ~Idle.cleared /\ ~NoManifest.present
  BY Zenon DEF Idle, NoManifest
<1>2. /\ \A c \in Change : changes[c].stage = "idle" /\ ~changes[c].cleared
      /\ \A c \in Change : manifests[c] = NoManifest /\ ~manifests[c].present
      /\ \A c \in Change, s \in Slot : trash[c][s] = NoImage
      /\ server.state = "up" /\ setting.logo = NoImage
  BY <1>1 DEF Init
<1>3. \A s \in Slot : public[s] = File(setting.logo, s)
  BY <1>2 DEF Init, File
<1>4. LocksOK /\ ChangesOK
  BY <1>2 DEF LocksOK, ChangesOK
<1>5. ManifestsOK /\ ServerOK /\ FilesOK
  BY <1>2, <1>3 DEF ManifestsOK, ServerOK, FilesOK
<1>. QED  BY <1>4, <1>5 DEF Inv

LEMMA NextInv ==
  ASSUME Orderly, IndInv, [Next]_vars
  PROVE  IndInv'
<1>1. CASE Next
  <2>1. TypeOK'
    BY <1>1, TypeStep DEF IndInv
  <2>2. ASSUME NEW c \in Change, ChangeStep(c) PROVE Inv'
    <3>1. ~CommitFails(c)
      BY DEF Orderly, CommitFails
    <3>. QED
      BY <2>1, <2>2, <3>1, LockSettingStep, WriteManifestStep, MoveOldStep, InstallStep,
         PrepareFailsStep, CommitStep, BeginPurgeStep, RemoveNewStep, RestoreOldStep,
         PurgeOldStep, CleanupFailsStep, DropManifestStep DEF ChangeStep
  <2>3. Inv'
    BY <1>1, <2>1, <2>2, StageLogoStep, PatchStep, CrashStep, RecoverStep, ReadyStep
       DEF Next, StartStep
  <2>. QED  BY <2>1, <2>3 DEF IndInv, Inv
<1>2. CASE UNCHANGED vars
  BY <1>2 DEF vars, IndInv, TypeOK, LocksOK, ChangesOK, ManifestsOK, ServerOK, FilesOK, MidwayOK,
              HoldsRow, Open, Stage
<1>. QED  BY <1>1, <1>2

-----------------------------------------------------------------------------

\* The inductive invariant: who holds the row, which change is undecided, and
\* where each of its files is, between any two steps of any change, recovery or
\* crash.
THEOREM Invariance == ASSUME Orderly PROVE Spec => []IndInv
<1>. QED  BY InitInv, NextInv, PTL DEF Spec

\* Once nothing is under way, exactly the committed logo is public
\* (upload_site_logo, delete_site_logo and recover_settings_media together).
THEOREM ServedTheorem == ASSUME Orderly PROVE Spec => []CommittedLogoServed
<1>1. IndInv => CommittedLogoServed
  BY DEF IndInv, CommittedLogoServed, Settled, Pending, Open, FilesOK
<1>. QED  BY <1>1, Invariance, PTL

\* The committed logo is on the disk in every state, public or in the trash of
\* a change that has not been committed.
THEOREM LostTheorem == ASSUME Orderly PROVE Spec => []LogoNeverLost
<1>1. ASSUME IndInv, setting.logo # NoImage PROVE LogoNeverLost
  <2>. DEFINE s == SlotOf[setting.logo]
  <2>1. s \in Slot /\ File(setting.logo, s) = setting.logo
    BY <1>1, ImageAssumption DEF File, IndInv, TypeOK, Setting, Logo
  <2>2. CASE \A c \in Change : ~Open(c)
    BY <1>1, <2>1, <2>2 DEF IndInv, FilesOK, LogoNeverLost
  <2>3. CASE \E c \in Change : Open(c)
    BY <1>1, <2>1, <2>3 DEF IndInv, FilesOK, MidwayOK, LogoNeverLost
  <2>. QED  BY <2>2, <2>3
<1>2. IndInv => LogoNeverLost
  BY <1>1 DEF LogoNeverLost
<1>. QED  BY <1>2, Invariance, PTL

-----------------------------------------------------------------------------
(* Lost updates, whatever fails.                                           *)

\* One change at a time holds the row, and the row stays as that change saw it.
RowInv ==
  /\ changes \in [Change -> ChangeState]
  /\ \A c, d \in Change : HoldsRow(c) /\ HoldsRow(d) => c = d
  /\ \A c \in Change : HoldsRow(c) => changes[c].based = setting.revision

LEMMA RowInit == Init => RowInv
<1>1. Idle.stage = "idle"
  BY Zenon DEF Idle
<1>. QED  BY <1>1, IdleType DEF Init, RowInv, HoldsRow, Stage

\* A step that leaves the row alone keeps RowInv if it gives no change the lock.
LEMMA RowKept ==
  ASSUME RowInv, NEW c \in Change, changes' \in [Change -> ChangeState],
         changes'[c].stage \in {"locked", "moving", "reverting", "swapped"} =>
           HoldsRow(c) /\ changes'[c].based = changes[c].based,
         \A d \in Change \ {c} : changes'[d] = changes[d],
         UNCHANGED setting
  PROVE  RowInv'
BY DEF RowInv, HoldsRow, Stage

LEMMA RowChangeStep ==
  ASSUME RowInv, NEW c \in Change, ChangeStep(c)
  PROVE  RowInv'
<1>. USE DEF Stage, HoldsRow
<1>0. changes \in [Change -> ChangeState]
  BY DEF RowInv
<1>1. CASE LockSetting(c)
  <2>1. CASE changes[c].based = setting.revision
    <3>1. Goes(c, "locked") /\ UNCHANGED setting /\ \A d \in Change \ {c} : ~HoldsRow(d)
      BY <1>1, <2>1, Zenon DEF LockSetting, RowFree
    <3>2. /\ changes' \in [Change -> ChangeState]
          /\ changes'[c].based = changes[c].based
          /\ \A d \in Change \ {c} : changes'[d] = changes[d]
      BY <1>0, <3>1, GoesShape DEF Stages
    <3>. QED  BY <2>1, <3>1, <3>2 DEF RowInv
  <2>2. CASE changes[c].based # setting.revision
    <3>1. Ends(c) /\ UNCHANGED setting
      BY <1>1, <2>2, Zenon DEF LockSetting
    <3>. QED  BY <1>0, <3>1, EndsShape, RowKept
  <2>. QED  BY <2>1, <2>2
<1>2. CASE WriteManifest(c)
  BY <1>0, <1>2, GoesShape, RowKept DEF WriteManifest, Stages
<1>3. CASE \E s \in Slot : MoveOld(c, s) \/ RestoreOld(c, s) \/ PurgeOld(c, s)
  BY <1>3 DEF MoveOld, RestoreOld, PurgeOld, RowInv
<1>4. CASE Install(c)
  BY <1>0, <1>4, GoesShape, RowKept DEF Install, Stages
<1>5. CASE PrepareFails(c)
  BY <1>0, <1>5, GoesShape, EndsShape, RowKept DEF PrepareFails, Stages
<1>6. CASE Commit(c)
  BY <1>0, <1>6, GoesShape DEF Commit, RowInv, Stages
<1>7. CASE CommitFails(c)
  BY <1>0, <1>7, GoesShape, EndsShape, RowKept DEF CommitFails, Stages
<1>8. CASE BeginUndo(c) \/ BeginPurge(c)
  BY <1>0, <1>8, GoesShape, RowKept DEF BeginUndo, BeginPurge, Stages
<1>9. CASE RemoveNew(c)
  <2>. DEFINE row == [changes[c] EXCEPT !.cleared = TRUE]
  <2>1. row \in ChangeState /\ row.stage = changes[c].stage /\ row.based = changes[c].based
    BY <1>0, Zenon DEF ChangeState
  <2>2. changes' = [changes EXCEPT ![c] = row] /\ UNCHANGED setting
    BY <1>9 DEF RemoveNew
  <2>. HIDE DEF row
  <2>3. changes' \in [Change -> ChangeState] /\ changes'[c] = row
    BY <1>0, <2>1, <2>2
  <2>4. \A d \in Change \ {c} : changes'[d] = changes[d]
    BY <1>0, <2>2
  <2>. QED  BY <2>1, <2>2, <2>3, <2>4, RowKept
<1>10. CASE DropManifest(c) \/ CleanupFails(c)
  BY <1>0, <1>10, GoesShape, EndsShape, RowKept DEF DropManifest, CleanupFails, Stages
<1>. QED
  BY <1>1, <1>2, <1>3, <1>4, <1>5, <1>6, <1>7, <1>8, <1>9, <1>10, ChangeStep(c) DEF ChangeStep

LEMMA RowNext == ASSUME RowInv, [Next]_vars PROVE RowInv'
<1>. USE DEF Stage, HoldsRow
<1>0. changes \in [Change -> ChangeState]
  BY DEF RowInv
<1>1. ASSUME NEW c \in Change, NEW logo \in Logo, NEW revision \in 1..MaxRevision,
             StageLogo(c, logo, revision)
      PROVE  RowInv'
  <2>. DEFINE row == [Idle EXCEPT !.stage = "staged", !.logo = logo, !.based = revision]
  <2>. revision \in 0..MaxRevision
    OBVIOUS
  <2>1. row \in ChangeState /\ row.stage = "staged"
    BY IdleType, Zenon DEF ChangeState, Stages
  <2>2. changes' = [changes EXCEPT ![c] = row] /\ UNCHANGED setting
    BY <1>1 DEF StageLogo
  <2>. HIDE DEF row
  <2>3. changes' \in [Change -> ChangeState] /\ changes'[c].stage = "staged"
    BY <1>0, <2>1, <2>2
  <2>4. \A d \in Change \ {c} : changes'[d] = changes[d]
    BY <1>0, <2>2
  <2>. QED  BY <2>2, <2>3, <2>4, RowKept
<1>2. CASE Patch
  BY <1>2 DEF Patch, RowInv
<1>3. CASE Crash
  <2>1. Idle.stage = "idle"
    BY Zenon DEF Idle
  <2>. QED  BY <1>3, <2>1, IdleType DEF Crash, RowInv
<1>4. CASE Ready
  BY <1>4 DEF Ready, RowInv
<1>5. ASSUME NEW c \in Change, Recover(c) PROVE RowInv'
  <2>1. UNCHANGED changes \/ Goes(c, "purging") \/ Goes(c, "undoing")
    BY <1>5 DEF Recover
  <2>2. UNCHANGED setting
    BY <1>5 DEF Recover
  <2>. QED  BY <1>0, <2>1, <2>2, GoesShape, RowKept DEF Stages, RowInv
<1>6. CASE UNCHANGED vars
  BY <1>6 DEF vars, RowInv
<1>. QED  BY <1>1, <1>2, <1>3, <1>4, <1>5, <1>6, RowChangeStep DEF Next, StartStep

\* No write of the row gets in between a change's check of its revision and its
\* commit (SystemSettingRepository.get with for_update, _check_revision), with
\* any failures, crashes and patches.
THEOREM OverwrittenTheorem == Spec => NothingOverwritten
<1>1. ASSUME RowInv, [Next]_vars
      PROVE  [\A c \in Change : Commit(c) => changes[c].based = setting.revision]_vars
  BY <1>1 DEF RowInv, Commit, HoldsRow
<1>. QED  BY <1>1, RowInit, RowNext, PTL DEF Spec, NothingOverwritten

-----------------------------------------------------------------------------
(* The start of a process, when one change at a time writes the row.       *)

\* The row is not written again before the manifest of a change is gone: a
\* manifest that is left by a failed or belated purge matches no later row, and
\* a process that finds it refuses to start.
Alone == "patch" \notin Allowed /\ \A c, d \in Change : c = d

InPlace(c) == manifests[c].newLogo = NoImage \/ Matches(manifests[c].newLogo)

\* Whenever the process may die, the row says whether the change with a
\* manifest is committed, and if it is, its file is in place.
DecidedOK(c) ==
  /\ Stage(c) \in {"staged", "locked"} => ~manifests[c].present
  /\ Stage(c) \in {"moving", "swapped"} => changes[c].logo = manifests[c].newLogo
  /\ Stage(c) \in {"moving", "reverting", "swapped", "failed", "undoing"} =>
       manifests[c].present /\ Uncommitted(c)
  /\ Stage(c) = "swapped" => InPlace(c)
  /\ Stage(c) \in {"committed", "purging"} =>
       manifests[c].present /\ Committed(c) /\ InPlace(c)
  /\ manifests[c].present =>
       /\ manifests[c].newRevision = manifests[c].oldRevision + 1
       /\ Uncommitted(c) \/ (Committed(c) /\ InPlace(c))
  /\ c \in server.todo =>
       server.state = "starting" /\ Stage(c) = "idle" /\ manifests[c].present

AnyManifest == [present: BOOLEAN, oldRevision: Nat, newRevision: Nat,
                oldLogo: Logo, newLogo: Logo, oldFiles: SUBSET Slot]
AnyServer == [state: {"starting", "up", "refused", "failed"}, backlog: SUBSET Change,
              todo: SUBSET Change, crashes: Nat]

\* Types without the bounds on the revisions.
RecoveryTyped ==
  /\ setting \in [revision: Nat, logo: Logo]
  /\ public \in [Slot -> Logo]
  /\ trash \in [Change -> [Slot -> Logo]]
  /\ manifests \in [Change -> AnyManifest]
  /\ changes \in [Change -> ChangeState]
  /\ server \in AnyServer

RecoveryInv ==
  /\ RecoveryTyped
  /\ server.state # "refused"
  /\ \A c \in Change : DecidedOK(c)

LEMMA NoManifestAny == NoManifest \in AnyManifest /\ ~NoManifest.present
<1>1. NoManifest \in AnyManifest
  BY DEF NoManifest, AnyManifest, Logo
<1>. QED  BY <1>1 DEF NoManifest

LEMMA DecidedInit == Init => RecoveryInv
<1>. SUFFICES ASSUME Init PROVE RecoveryInv
  OBVIOUS
<1>1. Idle.stage = "idle"
  BY Zenon DEF Idle
<1>2. /\ setting \in [revision: Nat, logo: Logo] /\ public \in [Slot -> Logo]
      /\ trash \in [Change -> [Slot -> Logo]]
  BY DEF Init, Logo
<1>3. server \in AnyServer /\ server.state = "up" /\ server.todo = {}
  BY DEF Init, AnyServer
<1>4. RecoveryTyped
  BY <1>1, <1>2, <1>3, IdleType, NoManifestAny DEF Init, RecoveryTyped
<1>5. \A c \in Change : DecidedOK(c)
  BY <1>1, <1>3, NoManifestAny DEF Init, DecidedOK, Stage
<1>. QED  BY <1>3, <1>4, <1>5 DEF RecoveryInv

\* Steps that leave the files, the row and the manifests alone.
LEMMA StageSteps ==
  ASSUME RecoveryInv, NEW c \in Change, \A d \in Change : d = c,
         LockSetting(c) \/ PrepareFails(c) \/ CommitFails(c) \/ BeginUndo(c) \/ BeginPurge(c)
  PROVE  RecoveryInv'
<1>0. RecoveryTyped /\ DecidedOK(c) /\ server.state # "refused"
  BY DEF RecoveryInv
<1>1. UNCHANGED <<setting, public, trash, manifests, server>>
  BY DEF LockSetting, PrepareFails, CommitFails, BeginUndo, BeginPurge
<1>2. \/ \E stage \in {"locked", "reverting", "failed", "undoing", "purging"} :
           /\ Goes(c, stage)
           /\ stage = "locked" => Stage(c) = "staged"
           /\ stage = "reverting" => Stage(c) = "moving"
           /\ stage = "failed" => Stage(c) = "swapped"
           /\ stage = "undoing" => Stage(c) = "failed"
           /\ stage = "purging" => Stage(c) = "committed"
      \/ Ends(c) /\ Stage(c) \in {"staged", "locked"}
  BY DEF LockSetting, PrepareFails, CommitFails, BeginUndo, BeginPurge
<1>3. changes \in [Change -> ChangeState]
  BY <1>0 DEF RecoveryTyped
<1>4. CASE Ends(c) /\ Stage(c) \in {"staged", "locked"}
  <2>1. changes' \in [Change -> ChangeState] /\ changes'[c].stage = "idle"
    BY <1>3, <1>4, EndsShape
  <2>2. RecoveryTyped'
    BY <1>0, <1>1, <2>1 DEF RecoveryTyped
  <2>3. DecidedOK(c)'
    BY <1>0, <1>1, <1>4, <2>1 DEF DecidedOK, Stage, Committed, Uncommitted, InPlace, Matches
  <2>. QED  BY <1>0, <1>1, <2>2, <2>3 DEF RecoveryInv
<1>5. ASSUME NEW stage \in {"locked", "reverting", "failed", "undoing", "purging"}, Goes(c, stage),
             stage = "locked" => Stage(c) = "staged", stage = "reverting" => Stage(c) = "moving",
             stage = "failed" => Stage(c) = "swapped", stage = "undoing" => Stage(c) = "failed",
             stage = "purging" => Stage(c) = "committed"
      PROVE  RecoveryInv'
  <2>1. /\ changes' \in [Change -> ChangeState] /\ changes'[c].stage = stage
        /\ changes'[c].logo = changes[c].logo
    BY <1>3, <1>5, GoesShape DEF Stages
  <2>2. RecoveryTyped'
    BY <1>0, <1>1, <2>1 DEF RecoveryTyped
  <2>3. DecidedOK(c)'
    BY <1>0, <1>1, <1>5, <2>1 DEF DecidedOK, Stage, Committed, Uncommitted, InPlace, Matches
  <2>. QED  BY <1>0, <1>1, <2>2, <2>3 DEF RecoveryInv
<1>. QED  BY <1>2, <1>4, <1>5

LEMMA FileSteps ==
  ASSUME RecoveryInv, NEW c \in Change, \A d \in Change : d = c,
         \/ \E s \in Slot : MoveOld(c, s) \/ RestoreOld(c, s) \/ PurgeOld(c, s)
         \/ Install(c) \/ RemoveNew(c)
  PROVE  RecoveryInv'
<1>0. RecoveryTyped /\ DecidedOK(c) /\ server.state # "refused"
  BY DEF RecoveryInv
<1>1. UNCHANGED <<setting, manifests, server>>
  BY DEF MoveOld, RestoreOld, PurgeOld, Install, RemoveNew
<1>2. /\ changes \in [Change -> ChangeState] /\ public \in [Slot -> Logo]
      /\ trash \in [Change -> [Slot -> Logo]] /\ manifests \in [Change -> AnyManifest]
  BY <1>0 DEF RecoveryTyped
<1>3. ASSUME /\ changes' \in [Change -> ChangeState] /\ public' \in [Slot -> Logo]
             /\ trash' \in [Change -> [Slot -> Logo]],
             DecidedOK(c)'
      PROVE  RecoveryInv'
  BY <1>0, <1>1, <1>3 DEF RecoveryInv, RecoveryTyped
<1>4. ASSUME NEW s \in Slot, MoveOld(c, s) \/ RestoreOld(c, s) PROVE RecoveryInv'
  <2>1. Stage(c) \in {"moving", "reverting", "undoing"} /\ UNCHANGED changes
    BY <1>4 DEF MoveOld, RestoreOld
  <2>2. NoImage \in Logo /\ public[s] \in Logo /\ trash[c][s] \in Logo
    BY <1>2 DEF Logo
  <2>3. public' \in [Slot -> Logo]
    BY <1>2, <1>4, <2>2 DEF MoveOld, RestoreOld
  <2>4. \A i \in Logo : [trash[c] EXCEPT ![s] = i] \in [Slot -> Logo]
    BY <1>2
  <2>5. trash' \in [Change -> [Slot -> Logo]]
    BY <1>2, <1>4, <2>2, <2>4 DEF MoveOld, RestoreOld
  <2>6. DecidedOK(c)'
    BY <1>0, <1>1, <2>1 DEF DecidedOK, Stage, Committed, Uncommitted
  <2>. QED  BY <1>2, <1>3, <2>1, <2>3, <2>5, <2>6
<1>5. ASSUME NEW s \in Slot, PurgeOld(c, s) PROVE RecoveryInv'
  <2>1. \A i \in Logo : [trash[c] EXCEPT ![s] = i] \in [Slot -> Logo]
    BY <1>2
  <2>2. trash' \in [Change -> [Slot -> Logo]]
    BY <1>2, <1>5, <2>1, NoImage \in Logo DEF PurgeOld, Logo
  <2>3. UNCHANGED <<public, changes>>
    BY <1>5 DEF PurgeOld
  <2>4. DecidedOK(c)'
    BY <1>0, <1>1, <2>3 DEF DecidedOK, Stage, Committed, Uncommitted, InPlace, Matches
  <2>. QED  BY <1>2, <1>3, <2>2, <2>3, <2>4
<1>6. ASSUME Install(c) PROVE RecoveryInv'
  <2>1. changes[c].stage = "moving" /\ changes[c].logo = manifests[c].newLogo /\ UNCHANGED trash
    BY <1>0, <1>6 DEF Install, DecidedOK, Stage
  <2>2. changes[c].logo \in Logo
    BY <1>2 DEF ChangeState
  <2>3. public' \in [Slot -> Logo]
    BY <1>2, <1>6, <2>2 DEF Install
  <2>4. InPlace(c)'
    BY <1>1, <1>2, <1>6, <2>1, <2>2, ImageAssumption DEF Install, InPlace, Matches, Logo
  <2>5. /\ changes' \in [Change -> ChangeState] /\ changes'[c].logo = changes[c].logo
        /\ changes'[c].stage \in {"swapped", "reverting"}
    BY <1>2, <1>6, GoesShape DEF Install, Stages
  <2>6. DecidedOK(c)'
    BY <1>0, <1>1, <2>1, <2>4, <2>5 DEF DecidedOK, Stage, Committed, Uncommitted
  <2>. QED  BY <1>2, <1>3, <2>1, <2>3, <2>5, <2>6
<1>7. ASSUME RemoveNew(c) PROVE RecoveryInv'
  <2>. DEFINE row == [changes[c] EXCEPT !.cleared = TRUE]
  <2>1. row \in ChangeState /\ row.stage = changes[c].stage /\ row.logo = changes[c].logo
    BY <1>2, Zenon DEF ChangeState
  <2>2. changes' = [changes EXCEPT ![c] = row] /\ UNCHANGED trash
    BY <1>7 DEF RemoveNew
  <2>. HIDE DEF row
  <2>3. changes' \in [Change -> ChangeState] /\ changes'[c].stage = changes[c].stage
    BY <1>2, <2>1, <2>2
  <2>4. public' \in [Slot -> Logo]
    BY <1>2, <1>7 DEF RemoveNew, Logo
  <2>5. DecidedOK(c)'
    BY <1>0, <1>1, <1>7, <2>3 DEF RemoveNew, DecidedOK, Stage, Committed, Uncommitted
  <2>. QED  BY <1>2, <1>3, <2>2, <2>3, <2>4, <2>5
<1>. QED  BY <1>4, <1>5, <1>6, <1>7

\* The manifest is written and dropped, the row committed.
LEMMA RowSteps ==
  ASSUME RecoveryInv, NEW c \in Change, \A d \in Change : d = c,
         WriteManifest(c) \/ Commit(c) \/ DropManifest(c) \/ CleanupFails(c)
  PROVE  RecoveryInv'
<1>0. RecoveryTyped /\ DecidedOK(c) /\ server.state # "refused"
  BY DEF RecoveryInv
<1>1. UNCHANGED <<public, trash>>
  BY DEF WriteManifest, Commit, DropManifest, CleanupFails
<1>2. /\ changes \in [Change -> ChangeState] /\ manifests \in [Change -> AnyManifest]
      /\ setting \in [revision: Nat, logo: Logo] /\ server \in AnyServer
  BY <1>0 DEF RecoveryTyped
<1>3. ASSUME /\ changes' \in [Change -> ChangeState] /\ manifests' \in [Change -> AnyManifest]
             /\ setting' \in [revision: Nat, logo: Logo] /\ server' \in AnyServer,
             server'.state # "refused", DecidedOK(c)'
      PROVE  RecoveryInv'
  BY <1>0, <1>1, <1>3 DEF RecoveryInv, RecoveryTyped
<1>4. ASSUME WriteManifest(c) PROVE RecoveryInv'
  <2>. DEFINE m == [present |-> TRUE, oldRevision |-> setting.revision,
                    newRevision |-> setting.revision + 1, oldLogo |-> setting.logo,
                    newLogo |-> changes[c].logo, oldFiles |-> {s \in Slot : public[s] # NoImage}]
  <2>1. /\ setting.revision \in Nat /\ setting.revision + 1 \in Nat
        /\ setting.logo \in Logo /\ changes[c].logo \in Logo
    BY <1>2 DEF ChangeState
  <2>2. m \in AnyManifest
    BY <2>1, Zenon DEF AnyManifest
  <2>3. /\ m.present /\ m.oldRevision = setting.revision /\ m.newRevision = setting.revision + 1
        /\ m.oldLogo = setting.logo /\ m.newLogo = changes[c].logo
    BY Zenon
  <2>4. manifests' = [manifests EXCEPT ![c] = m] /\ UNCHANGED <<setting, server>>
    BY <1>4 DEF WriteManifest
  <2>. HIDE DEF m
  <2>5. manifests' \in [Change -> AnyManifest] /\ manifests'[c] = m
    BY <1>2, <2>2, <2>4
  <2>6. /\ changes' \in [Change -> ChangeState] /\ changes'[c].logo = changes[c].logo
        /\ changes'[c].stage = "moving" /\ changes[c].stage = "locked"
    BY <1>2, <1>4, GoesShape DEF WriteManifest, Stages, Stage
  <2>7. DecidedOK(c)'
    BY <1>0, <2>1, <2>3, <2>4, <2>5, <2>6 DEF DecidedOK, Stage, Uncommitted
  <2>. QED  BY <1>0, <1>2, <1>3, <2>4, <2>5, <2>6, <2>7
<1>5. ASSUME Commit(c) PROVE RecoveryInv'
  <2>1. /\ changes[c].stage = "swapped" /\ UNCHANGED <<manifests, server>>
        /\ setting' = [revision |-> setting.revision + 1, logo |-> changes[c].logo]
    BY <1>5 DEF Commit, Stage
  <2>2. /\ manifests[c].present /\ Uncommitted(c) /\ InPlace(c)
        /\ changes[c].logo = manifests[c].newLogo
        /\ manifests[c].newRevision = manifests[c].oldRevision + 1
    BY <1>0, <2>1 DEF DecidedOK, Stage
  <2>3. setting' \in [revision: Nat, logo: Logo]
    BY <1>2, <2>1 DEF ChangeState
  <2>4. Committed(c)' /\ InPlace(c)'
    BY <1>1, <2>1, <2>2 DEF Committed, Uncommitted, InPlace, Matches
  <2>5. changes' \in [Change -> ChangeState] /\ changes'[c].stage = "committed"
    BY <1>2, <1>5, GoesShape DEF Commit, Stages
  <2>6. DecidedOK(c)'
    BY <1>0, <2>1, <2>2, <2>4, <2>5 DEF DecidedOK, Stage
  <2>. QED  BY <1>0, <1>2, <1>3, <2>1, <2>3, <2>5, <2>6
<1>6. ASSUME DropManifest(c) PROVE RecoveryInv'
  <2>1. /\ Stage(c) \in {"reverting", "undoing", "purging"} /\ UNCHANGED <<setting, server>>
        /\ manifests' = [manifests EXCEPT ![c] = NoManifest]
    BY <1>6 DEF DropManifest
  <2>2. manifests' \in [Change -> AnyManifest] /\ ~manifests'[c].present
    BY <1>2, <2>1, NoManifestAny
  <2>3. changes' \in [Change -> ChangeState] /\ changes'[c].stage = "idle"
    BY <1>2, <1>6, EndsShape DEF DropManifest
  <2>4. DecidedOK(c)'
    BY <1>0, <2>1, <2>2, <2>3 DEF DecidedOK, Stage
  <2>. QED  BY <1>0, <1>2, <1>3, <2>1, <2>2, <2>3, <2>4
<1>7. ASSUME CleanupFails(c) PROVE RecoveryInv'
  <2>1. Stage(c) \in {"reverting", "undoing", "purging"} /\ UNCHANGED <<setting, manifests>>
    BY <1>7 DEF CleanupFails
  <2>2. changes' \in [Change -> ChangeState] /\ changes'[c].stage = "stuck"
    BY <1>2, <1>7, GoesShape DEF CleanupFails, Stages
  <2>3. server' \in AnyServer /\ server'.state # "refused" /\ server'.todo = server.todo
    BY <1>0, <1>2, <1>7 DEF CleanupFails, AnyServer
  <2>4. c \notin server.todo
    BY <1>0, <2>1 DEF DecidedOK
  <2>5. DecidedOK(c)'
    BY <1>0, <1>1, <2>1, <2>2, <2>3, <2>4
       DEF DecidedOK, Stage, Committed, Uncommitted, InPlace, Matches
  <2>. QED  BY <1>2, <1>3, <2>1, <2>2, <2>3, <2>5
<1>. QED  BY <1>4, <1>5, <1>6, <1>7

LEMMA BeginSteps ==
  ASSUME RecoveryInv, NEW c \in Change, \A d \in Change : d = c,
         \/ \E logo \in Logo, revision \in 1..MaxRevision : StageLogo(c, logo, revision)
         \/ Crash \/ Recover(c) \/ Ready
  PROVE  RecoveryInv'
<1>0. RecoveryTyped /\ DecidedOK(c) /\ server.state # "refused"
  BY DEF RecoveryInv
<1>1. UNCHANGED <<setting, public, trash, manifests>>
  BY DEF StageLogo, Crash, Recover, Ready
<1>2. /\ changes \in [Change -> ChangeState] /\ manifests \in [Change -> AnyManifest]
      /\ setting \in [revision: Nat, logo: Logo] /\ server \in AnyServer
  BY <1>0 DEF RecoveryTyped
<1>3. ASSUME changes' \in [Change -> ChangeState], server' \in AnyServer,
             server'.state # "refused", DecidedOK(c)'
      PROVE  RecoveryInv'
  BY <1>0, <1>1, <1>3 DEF RecoveryInv, RecoveryTyped
<1>4. ASSUME NEW logo \in Logo, NEW revision \in 1..MaxRevision, StageLogo(c, logo, revision)
      PROVE  RecoveryInv'
  <2>. DEFINE row == [Idle EXCEPT !.stage = "staged", !.logo = logo, !.based = revision]
  <2>. revision \in 0..MaxRevision
    OBVIOUS
  <2>1. row \in ChangeState /\ row.stage = "staged"
    BY IdleType, Zenon DEF ChangeState, Stages
  <2>2. changes' = [changes EXCEPT ![c] = row] /\ UNCHANGED server /\ ~manifests[c].present
    BY <1>4 DEF StageLogo
  <2>. HIDE DEF row
  <2>3. changes' \in [Change -> ChangeState] /\ changes'[c].stage = "staged"
    BY <1>2, <2>1, <2>2
  <2>4. DecidedOK(c)'
    BY <1>0, <1>1, <2>2, <2>3 DEF DecidedOK, Stage
  <2>. QED  BY <1>0, <1>2, <1>3, <2>2, <2>3, <2>4
<1>5. ASSUME Crash PROVE RecoveryInv'
  <2>1. Idle.stage = "idle"
    BY Zenon DEF Idle
  <2>2. changes' \in [Change -> ChangeState] /\ changes'[c].stage = "idle"
    BY <1>5, <2>1, IdleType DEF Crash
  <2>3. server' \in AnyServer /\ server'.state = "starting" /\ server'.todo = Pending
    BY <1>2, <1>5 DEF Crash, AnyServer, Pending
  <2>4. DecidedOK(c)'
    BY <1>0, <1>1, <2>2, <2>3
       DEF DecidedOK, Stage, Committed, Uncommitted, InPlace, Matches, Pending
  <2>. QED  BY <1>3, <2>2, <2>3, <2>4
<1>6. ASSUME Recover(c) PROVE RecoveryInv'
  <2>1. manifests[c].present /\ server.state = "starting" /\ Stage(c) = "idle"
    BY <1>0, <1>6 DEF Recover, DecidedOK
  <2>2. Uncommitted(c) \/ (Committed(c) /\ InPlace(c))
    BY <1>0, <2>1 DEF DecidedOK
  <2>3. ~(Committed(c) /\ Uncommitted(c))
    BY <1>0, <1>2, <2>1 DEF DecidedOK, Committed, Uncommitted, AnyManifest
  <2>4. /\ server' = [server EXCEPT !.todo = @ \ {c}]
        /\ \/ Goes(c, "purging") /\ Committed(c) /\ InPlace(c)
           \/ Goes(c, "undoing") /\ Uncommitted(c)
    BY <1>6, <2>2, <2>3 DEF Recover, InPlace
  <2>5. server' \in AnyServer /\ server'.state = "starting" /\ server'.todo = server.todo \ {c}
    BY <1>2, <2>1, <2>4 DEF AnyServer
  <2>6. /\ changes' \in [Change -> ChangeState]
        /\ \/ changes'[c].stage = "purging" /\ Committed(c) /\ InPlace(c)
           \/ changes'[c].stage = "undoing" /\ Uncommitted(c)
    BY <1>2, <2>4, GoesShape DEF Stages
  <2>7. DecidedOK(c)'
    BY <1>0, <1>1, <2>1, <2>5, <2>6
       DEF DecidedOK, Stage, Committed, Uncommitted, InPlace, Matches
  <2>. QED  BY <1>3, <2>5, <2>6, <2>7
<1>7. ASSUME Ready PROVE RecoveryInv'
  <2>1. server' = [server EXCEPT !.state = "up"] /\ server.todo = {} /\ UNCHANGED changes
    BY <1>7 DEF Ready
  <2>2. server' \in AnyServer /\ server'.state = "up" /\ server'.todo = {}
    BY <1>2, <2>1 DEF AnyServer
  <2>3. DecidedOK(c)'
    BY <1>0, <1>1, <2>1, <2>2 DEF DecidedOK, Stage, Committed, Uncommitted, InPlace, Matches
  <2>. QED  BY <1>2, <1>3, <2>1, <2>2, <2>3
<1>. QED  BY <1>4, <1>5, <1>6, <1>7

LEMMA RecoveryNext ==
  ASSUME Alone, RecoveryInv, [Next]_vars
  PROVE  RecoveryInv'
<1>1. ASSUME NEW c \in Change,
             \/ \E logo \in Logo, revision \in 1..MaxRevision : StageLogo(c, logo, revision)
             \/ ChangeStep(c) \/ Recover(c)
      PROVE  RecoveryInv'
  <2>1. \A d \in Change : d = c
    BY DEF Alone
  <2>. QED  BY <1>1, <2>1, BeginSteps, StageSteps, FileSteps, RowSteps DEF ChangeStep
<1>2. CASE Crash \/ Ready
  <2>1. CASE \E c \in Change : TRUE
    <3>1. PICK c \in Change : TRUE
      BY <2>1
    <3>2. \A d \in Change : d = c
      BY DEF Alone
    <3>. QED  BY <1>2, <3>2, BeginSteps
  <2>2. CASE Change = {}
    <3>1. RecoveryTyped /\ server.state # "refused"
      BY DEF RecoveryInv
    <3>2. /\ UNCHANGED <<setting, public, trash, manifests>> /\ server'.state # "refused"
          /\ server' \in AnyServer /\ changes' \in [Change -> ChangeState]
      <4>1. server \in AnyServer /\ changes \in [Change -> ChangeState]
        BY <3>1 DEF RecoveryTyped
      <4>2. CASE Crash
        <5>1. changes' \in [Change -> ChangeState]
          BY <4>2, IdleType DEF Crash
        <5>2. server' \in AnyServer /\ server'.state = "starting"
          BY <4>1, <4>2 DEF Crash, AnyServer, Pending
        <5>. QED  BY <4>2, <5>1, <5>2 DEF Crash
      <4>3. CASE Ready
        BY <4>1, <4>3 DEF Ready, AnyServer
      <4>. QED  BY <1>2, <4>2, <4>3
    <3>. QED  BY <2>2, <3>1, <3>2 DEF RecoveryInv, RecoveryTyped
  <2>. QED  BY <2>1, <2>2
<1>3. ~Patch
  BY DEF Alone, Patch
<1>4. CASE UNCHANGED vars
  BY <1>4 DEF vars, RecoveryInv, RecoveryTyped, DecidedOK, Stage, Committed, Uncommitted,
              InPlace, Matches
<1>. QED  BY <1>1, <1>2, <1>3, <1>4 DEF Next, StartStep

\* recover_settings_media finds every manifest either committed with its file
\* in place or not committed, so the process starts, wherever the last one died
\* and whatever failed before, while one change at a time writes the row.
THEOREM StartsTheorem == ASSUME Alone PROVE Spec => []StartsAfterCrash
<1>1. RecoveryInv => StartsAfterCrash
  BY DEF RecoveryInv, StartsAfterCrash
<1>. QED  BY <1>1, DecidedInit, RecoveryNext, PTL DEF Spec

-----------------------------------------------------------------------------
(* The files, when one change at a time writes the row.                    *)

\* A change is either over or committed, and the files are those of the row,
\* or half-way.
FilesInv(c) ==
  /\ ~manifests[c].present => \A s \in Slot : trash[c][s] = NoImage
  /\ ~manifests[c].present \/ Committed(c) =>
       \A s \in Slot : public[s] = File(setting.logo, s)
  /\ manifests[c].present /\ Uncommitted(c) =>
       /\ MidwayOK(c)
       /\ manifests[c].newLogo = NoImage \/ manifests[c].newLogo # setting.logo
  /\ Stage(c) \in {"staged", "locked"} /\ changes[c].based = setting.revision =>
       changes[c].logo = NoImage \/ changes[c].logo # setting.logo
  /\ Stage(c) = "locked" => changes[c].based = setting.revision
  /\ changes[c].cleared => Stage(c) \in {"reverting", "undoing", "stuck"}

LogoInv ==
  /\ RecoveryInv
  /\ \A c \in Change : FilesInv(c)
  /\ Change = {} => \A s \in Slot : public[s] = File(setting.logo, s)

LEMMA FilesUntouched ==
  ASSUME LogoInv, NEW c \in Change,
         UNCHANGED <<setting, public, trash, manifests>>,
         changes'[c].cleared => changes'[c].stage \in {"reverting", "undoing", "stuck"},
         changes'[c].cleared => changes[c].cleared,
         changes'[c].stage = "moving" => changes[c].stage = "moving",
         changes'[c].stage = "swapped" => changes[c].stage = "swapped",
         changes'[c].stage \in {"staged", "locked"} /\ changes'[c].based = setting.revision =>
           changes'[c].logo = NoImage \/ changes'[c].logo # setting.logo,
         changes'[c].stage = "locked" => changes'[c].based = setting.revision
  PROVE  FilesInv(c)'
<1>1. FilesInv(c)
  BY DEF LogoInv
<1>2. manifests[c].present /\ Uncommitted(c) => MidwayOK(c)'
  BY <1>1 DEF FilesInv, MidwayOK, Stage
<1>. QED  BY <1>1, <1>2 DEF FilesInv, Stage, Committed, Uncommitted

\* Steps of a change, of its recovery and of the process that leave the files.
LEMMA QuietSteps ==
  ASSUME LogoInv, "same" \notin Allowed, NEW c \in Change, \A d \in Change : d = c,
         \/ \E logo \in Logo, revision \in 1..MaxRevision : StageLogo(c, logo, revision)
         \/ LockSetting(c) \/ PrepareFails(c) \/ CommitFails(c) \/ BeginUndo(c)
         \/ BeginPurge(c) \/ CleanupFails(c) \/ Crash \/ Recover(c) \/ Ready
  PROVE  FilesInv(c)'
<1>0. FilesInv(c) /\ DecidedOK(c) /\ changes \in [Change -> ChangeState]
  BY DEF LogoInv, RecoveryInv, RecoveryTyped
<1>1. UNCHANGED <<setting, public, trash, manifests>>
  BY DEF StageLogo, LockSetting, PrepareFails, CommitFails, BeginUndo, BeginPurge,
         CleanupFails, Crash, Recover, Ready
<1>2. ASSUME Ends(c) \/ Crash PROVE FilesInv(c)'
  <2>1. Idle.stage = "idle" /\ ~Idle.cleared
    BY Zenon DEF Idle
  <2>2. changes'[c].stage = "idle" /\ ~changes'[c].cleared
    BY <1>0, <1>2, <2>1, EndsShape DEF Crash
  <2>. QED  BY <1>1, <2>2, FilesUntouched
<1>3. ASSUME NEW stage \in {"reverting", "failed", "undoing", "purging", "stuck"}, Goes(c, stage),
             changes[c].cleared => stage \in {"reverting", "undoing", "stuck"}
      PROVE  FilesInv(c)'
  <2>1. changes'[c].stage = stage /\ changes'[c].cleared = changes[c].cleared
    BY <1>0, <1>3, GoesShape DEF Stages
  <2>. QED  BY <1>1, <1>3, <2>1, FilesUntouched
<1>4. ASSUME NEW logo \in Logo, NEW revision \in 1..MaxRevision, StageLogo(c, logo, revision)
      PROVE  FilesInv(c)'
  <2>. DEFINE row == [Idle EXCEPT !.stage = "staged", !.logo = logo, !.based = revision]
  <2>1. row.stage = "staged" /\ row.logo = logo /\ row.based = revision /\ ~row.cleared
    BY Zenon DEF Idle
  <2>2. changes' = [changes EXCEPT ![c] = row]
    BY <1>4 DEF StageLogo
  <2>. HIDE DEF row
  <2>3. changes'[c] = row
    BY <1>0, <2>2
  <2>4. logo = NoImage \/ logo # setting.logo \/ revision # setting.revision
    BY <1>4 DEF StageLogo
  <2>. QED  BY <1>1, <2>1, <2>3, <2>4, FilesUntouched
<1>5. ASSUME LockSetting(c) PROVE FilesInv(c)'
  <2>1. CASE changes[c].based = setting.revision
    <3>1. Goes(c, "locked") /\ changes[c].stage = "staged"
      BY <1>5, <2>1, Zenon DEF LockSetting, Stage
    <3>2. /\ changes'[c].stage = "locked" /\ changes'[c].cleared = changes[c].cleared
          /\ changes'[c].logo = changes[c].logo /\ changes'[c].based = changes[c].based
      BY <1>0, <3>1, GoesShape DEF Stages
    <3>3. ~changes[c].cleared /\ (changes[c].logo = NoImage \/ changes[c].logo # setting.logo)
      BY <1>0, <2>1, <3>1 DEF FilesInv, Stage
    <3>. QED  BY <1>1, <2>1, <3>2, <3>3, FilesUntouched
  <2>2. CASE changes[c].based # setting.revision
    BY <1>2, <1>5, <2>2, Zenon DEF LockSetting
  <2>. QED  BY <2>1, <2>2
<1>6. ASSUME PrepareFails(c) \/ CommitFails(c) \/ BeginUndo(c) \/ BeginPurge(c) \/ CleanupFails(c)
      PROVE  FilesInv(c)'
  <2>1. \/ Ends(c)
        \/ \E stage \in {"reverting", "failed", "undoing", "purging"} :
             Goes(c, stage) /\ Stage(c) \in {"moving", "swapped", "failed", "committed"}
        \/ Goes(c, "stuck")
    BY <1>6 DEF PrepareFails, CommitFails, BeginUndo, BeginPurge, CleanupFails
  <2>2. changes[c].cleared => Stage(c) \in {"reverting", "undoing", "stuck"}
    BY <1>0 DEF FilesInv
  <2>. QED  BY <1>2, <1>3, <2>1, <2>2
<1>7. ASSUME Recover(c) PROVE FilesInv(c)'
  <2>1. Stage(c) = "idle"
    BY <1>7 DEF Recover
  <2>2. ~changes[c].cleared
    BY <1>0, <2>1 DEF FilesInv
  <2>3. UNCHANGED changes \/ Goes(c, "purging") \/ Goes(c, "undoing")
    BY <1>7 DEF Recover
  <2>4. CASE UNCHANGED changes
    BY <1>1, <2>1, <2>2, <2>4, FilesUntouched DEF Stage
  <2>. QED  BY <1>3, <2>2, <2>3, <2>4
<1>8. ASSUME Ready PROVE FilesInv(c)'
  <2>1. Stage(c) = "idle" /\ UNCHANGED changes
    BY <1>8 DEF Ready
  <2>2. ~changes[c].cleared
    BY <1>0, <2>1 DEF FilesInv
  <2>. QED  BY <1>1, <2>1, <2>2, FilesUntouched DEF Stage
<1>. QED  BY <1>2, <1>4, <1>5, <1>6, <1>7, <1>8

LEMMA LoudSteps ==
  ASSUME LogoInv, NEW c \in Change, \A d \in Change : d = c,
         \/ WriteManifest(c) \/ Install(c) \/ Commit(c) \/ RemoveNew(c) \/ DropManifest(c)
         \/ \E s \in Slot : MoveOld(c, s) \/ RestoreOld(c, s) \/ PurgeOld(c, s)
  PROVE  FilesInv(c)'
<1>. USE DEF Stage
<1>0. /\ FilesInv(c) /\ DecidedOK(c)
      /\ changes \in [Change -> ChangeState] /\ public \in [Slot -> Logo]
      /\ trash \in [Change -> [Slot -> Logo]] /\ manifests \in [Change -> AnyManifest]
      /\ setting \in [revision: Nat, logo: Logo]
  BY DEF LogoInv, RecoveryInv, RecoveryTyped
<1>1. ASSUME WriteManifest(c) PROVE FilesInv(c)'
  <2>1. /\ changes[c].stage = "locked" /\ ~manifests[c].present
        /\ UNCHANGED <<setting, public, trash>>
        /\ changes[c].logo = NoImage \/ changes[c].logo # setting.logo
    BY <1>0, <1>1 DEF WriteManifest, DecidedOK, FilesInv
  <2>2. \A s \in Slot : public[s] = File(setting.logo, s) /\ trash[c][s] = NoImage
    BY <1>0, <2>1 DEF FilesInv
  <2>3. /\ manifests'[c].present /\ manifests'[c].newLogo = changes[c].logo
        /\ manifests'[c].newRevision = setting.revision + 1
        /\ manifests'[c].oldFiles = {s \in Slot : public[s] # NoImage}
    BY <1>0, <1>1 DEF WriteManifest
  <2>4. changes'[c].stage = "moving" /\ changes'[c].cleared = changes[c].cleared
    BY <1>0, <1>1, GoesShape DEF WriteManifest, Stages
  <2>5. ~changes[c].cleared
    BY <1>0, <2>1 DEF FilesInv
  <2>6. MidwayOK(c)'
    BY <2>1, <2>2, <2>3, <2>4 DEF MidwayOK
  <2>7. ~Committed(c)'
    BY <1>0, <2>1, <2>3 DEF Committed
  <2>. QED  BY <2>1, <2>3, <2>4, <2>5, <2>6, <2>7 DEF FilesInv
<1>2. ASSUME Install(c) PROVE FilesInv(c)'
  <2>1. /\ changes[c].stage = "moving" /\ changes[c].logo = manifests[c].newLogo
        /\ manifests[c].present /\ Uncommitted(c) /\ UNCHANGED <<setting, trash, manifests>>
    BY <1>0, <1>2 DEF Install, DecidedOK
  <2>2. /\ MidwayOK(c) /\ ~changes[c].cleared
        /\ manifests[c].newLogo = NoImage \/ manifests[c].newLogo # setting.logo
    BY <1>0, <2>1 DEF FilesInv
  <2>3. \A t \in Slot : public[t] = NoImage
    BY <1>2, <2>1, <2>2 DEF Install, MidwayOK
  <2>4. \A t \in Slot : public'[t] = File(manifests[c].newLogo, t)
    BY <1>0, <1>2, <2>1, <2>3, ImageAssumption DEF Install, File, Logo, ChangeState
  <2>5. /\ changes'[c].stage \in {"swapped", "reverting"}
        /\ changes'[c].cleared = changes[c].cleared
    BY <1>0, <1>2, GoesShape DEF Install, Stages
  <2>6. MidwayOK(c)'
    BY <2>1, <2>2, <2>3, <2>4, <2>5 DEF MidwayOK
  <2>7. ~Committed(c)'
    BY <1>0, <2>1 DEF Committed, Uncommitted, DecidedOK, AnyManifest
  <2>. QED  BY <2>1, <2>2, <2>5, <2>6, <2>7 DEF FilesInv
<1>3. ASSUME Commit(c) PROVE FilesInv(c)'
  <2>1. /\ changes[c].stage = "swapped" /\ UNCHANGED <<public, trash, manifests>>
        /\ setting' = [revision |-> setting.revision + 1, logo |-> changes[c].logo]
    BY <1>3 DEF Commit
  <2>2. /\ manifests[c].present /\ Uncommitted(c) /\ changes[c].logo = manifests[c].newLogo
        /\ manifests[c].newRevision = manifests[c].oldRevision + 1
    BY <1>0, <2>1 DEF DecidedOK
  <2>3. MidwayOK(c) /\ ~changes[c].cleared
    BY <1>0, <2>1, <2>2 DEF FilesInv
  <2>4. \A s \in Slot : public'[s] = File(setting'.logo, s)
    BY <2>1, <2>2, <2>3 DEF MidwayOK
  <2>5. ~Uncommitted(c)'
    BY <1>0, <2>1, <2>2 DEF Uncommitted
  <2>6. changes'[c].stage = "committed" /\ changes'[c].cleared = changes[c].cleared
    BY <1>0, <1>3, GoesShape DEF Commit, Stages
  <2>. QED  BY <2>1, <2>2, <2>3, <2>4, <2>5, <2>6 DEF FilesInv
<1>4. ASSUME RemoveNew(c) PROVE FilesInv(c)'
  <2>. DEFINE row == [changes[c] EXCEPT !.cleared = TRUE]
  <2>1. row.stage = changes[c].stage
    BY <1>0, Zenon DEF ChangeState
  <2>2. changes' = [changes EXCEPT ![c] = row]
    BY <1>4 DEF RemoveNew
  <2>. HIDE DEF row
  <2>3. changes'[c].stage = changes[c].stage
    BY <1>0, <2>1, <2>2
  <2>4. /\ changes[c].stage \in {"reverting", "undoing"}
        /\ manifests[c].present /\ Uncommitted(c) /\ UNCHANGED <<setting, trash, manifests>>
    BY <1>0, <1>4 DEF RemoveNew, DecidedOK
  <2>5. /\ MidwayOK(c)
        /\ manifests[c].newLogo = NoImage \/ manifests[c].newLogo # setting.logo
    BY <1>0, <2>4 DEF FilesInv
  <2>. DEFINE i == manifests[c].newLogo
  <2>6. ASSUME NEW s \in Slot
        PROVE  /\ public'[s] \in {NoImage, File(setting.logo, s)}
               /\ File(setting.logo, s) \in {NoImage, public'[s], trash[c][s]}
    <3>1. /\ public[s] \in {NoImage, File(setting.logo, s), File(i, s)}
          /\ File(setting.logo, s) \in {NoImage, public[s], trash[c][s]}
      BY <2>5 DEF MidwayOK
    <3>2. i \in Logo /\ setting.logo \in Logo
      BY <1>0 DEF AnyManifest
    <3>3. CASE Matches(i)
      <4>1. public' = [public EXCEPT ![SlotOf[i]] = NoImage]
        BY <1>4, <3>3 DEF RemoveNew
      <4>2. i # NoImage /\ public[SlotOf[i]] = i
        BY <3>3 DEF Matches
      <4>3. CASE s = SlotOf[i]
        BY <1>0, <2>5, <3>1, <3>2, <4>1, <4>2, <4>3 DEF File
      <4>4. CASE s # SlotOf[i]
        BY <1>0, <3>1, <4>1, <4>4 DEF File
      <4>. QED  BY <4>3, <4>4
    <3>4. CASE ~Matches(i)
      <4>1. public' = public
        BY <1>4, <3>4 DEF RemoveNew
      <4>. QED  BY <3>1, <3>4, <4>1 DEF File, Matches
    <3>. QED  BY <3>3, <3>4
  <2>7. MidwayOK(c)'
    <3>1. ASSUME NEW s \in Slot
          PROVE  /\ trash'[c][s] \in {NoImage, File(setting'.logo, s)}
                 /\ public'[s] \in {NoImage, File(setting'.logo, s)}
                 /\ File(setting'.logo, s) \in {NoImage, public'[s], trash'[c][s]}
      BY <2>4, <2>5, <2>6 DEF MidwayOK
    <3>. QED  BY <2>3, <2>4, <3>1 DEF MidwayOK
  <2>8. ~Committed(c)'
    BY <1>0, <2>4 DEF Committed, Uncommitted, DecidedOK, AnyManifest
  <2>. QED  BY <2>3, <2>4, <2>5, <2>7, <2>8 DEF FilesInv
<1>5. ASSUME DropManifest(c) PROVE FilesInv(c)'
  <2>1. /\ \/ changes[c].stage \in {"reverting", "undoing"} /\ changes[c].cleared
           \/ changes[c].stage = "purging"
        /\ \A s \in Slot : trash[c][s] = NoImage
        /\ UNCHANGED <<setting, public, trash>>
        /\ ~manifests'[c].present
    BY <1>0, <1>5, NoManifestAny DEF DropManifest
  <2>2. changes'[c].stage = "idle" /\ changes'[c].cleared = FALSE
    BY <1>0, <1>5, EndsShape DEF DropManifest
  <2>3. \A s \in Slot : public[s] = File(setting.logo, s)
    <3>1. CASE changes[c].stage = "purging"
      BY <1>0, <3>1 DEF FilesInv, DecidedOK
    <3>2. CASE changes[c].stage \in {"reverting", "undoing"} /\ changes[c].cleared
      <4>1. MidwayOK(c)
        BY <1>0, <3>2 DEF FilesInv, DecidedOK
      <4>. QED  BY <2>1, <3>2, <4>1 DEF MidwayOK
    <3>. QED  BY <2>1, <3>1, <3>2
  <2>. QED  BY <2>1, <2>2, <2>3 DEF FilesInv
<1>6. ASSUME NEW s \in Slot, MoveOld(c, s) PROVE FilesInv(c)'
  <2>1. /\ changes[c].stage = "moving" /\ public[s] # NoImage
        /\ UNCHANGED <<setting, manifests, changes>>
        /\ public'[s] = NoImage /\ \A t \in Slot \ {s} : public'[t] = public[t]
    BY <1>0, <1>6 DEF MoveOld
  <2>2. trash'[c][s] = public[s] /\ \A t \in Slot \ {s} : trash'[c][t] = trash[c][t]
    BY <1>0, <1>6 DEF MoveOld
  <2>3. manifests[c].present /\ Uncommitted(c)
    BY <1>0, <2>1 DEF DecidedOK
  <2>4. /\ MidwayOK(c) /\ ~changes[c].cleared
        /\ manifests[c].newLogo = NoImage \/ manifests[c].newLogo # setting.logo
    BY <1>0, <2>1, <2>3 DEF FilesInv
  <2>5. MidwayOK(c)'
    BY <2>1, <2>2, <2>4 DEF MidwayOK
  <2>6. ~Committed(c)'
    BY <1>0, <2>1, <2>3 DEF Committed, Uncommitted, DecidedOK, AnyManifest
  <2>. QED  BY <2>1, <2>3, <2>4, <2>5, <2>6 DEF FilesInv
<1>7. ASSUME NEW s \in Slot, RestoreOld(c, s) PROVE FilesInv(c)'
  <2>1. /\ changes[c].stage \in {"reverting", "undoing"} /\ changes[c].cleared
        /\ trash[c][s] # NoImage /\ UNCHANGED <<setting, manifests, changes>>
        /\ public'[s] = trash[c][s] /\ \A t \in Slot \ {s} : public'[t] = public[t]
    BY <1>0, <1>7 DEF RestoreOld
  <2>2. trash'[c][s] = NoImage /\ \A t \in Slot \ {s} : trash'[c][t] = trash[c][t]
    BY <1>0, <1>7 DEF RestoreOld
  <2>3. manifests[c].present /\ Uncommitted(c)
    BY <1>0, <2>1 DEF DecidedOK
  <2>4. /\ MidwayOK(c)
        /\ manifests[c].newLogo = NoImage \/ manifests[c].newLogo # setting.logo
    BY <1>0, <2>1, <2>3 DEF FilesInv
  <2>5. MidwayOK(c)'
    BY <2>1, <2>2, <2>4 DEF MidwayOK
  <2>6. ~Committed(c)'
    BY <1>0, <2>1, <2>3 DEF Committed, Uncommitted, DecidedOK, AnyManifest
  <2>. QED  BY <2>1, <2>3, <2>4, <2>5, <2>6 DEF FilesInv
<1>8. ASSUME NEW s \in Slot, PurgeOld(c, s) PROVE FilesInv(c)'
  <2>1. changes[c].stage = "purging" /\ UNCHANGED <<setting, public, manifests, changes>>
    BY <1>8 DEF PurgeOld
  <2>2. manifests[c].present /\ Committed(c)
    BY <1>0, <2>1 DEF DecidedOK
  <2>3. ~Uncommitted(c)'
    BY <1>0, <2>1, <2>2 DEF Committed, Uncommitted, DecidedOK, AnyManifest
  <2>. QED  BY <1>0, <2>1, <2>2, <2>3 DEF FilesInv, Committed
<1>. QED  BY <1>1, <1>2, <1>3, <1>4, <1>5, <1>6, <1>7, <1>8

LEMMA LogoInit == Init => LogoInv
<1>. SUFFICES ASSUME Init PROVE LogoInv
  OBVIOUS
<1>1. RecoveryInv
  BY DecidedInit
<1>2. Idle.stage = "idle" /\ ~Idle.cleared
  BY Zenon DEF Idle
<1>3. \A s \in Slot : public[s] = File(setting.logo, s)
  BY DEF Init, File
<1>4. \A c \in Change : FilesInv(c)
  BY <1>2, <1>3, NoManifestAny DEF Init, FilesInv, Stage
<1>. QED  BY <1>1, <1>3, <1>4 DEF LogoInv

LEMMA LogoNext ==
  ASSUME Alone, "same" \notin Allowed, LogoInv, [Next]_vars
  PROVE  LogoInv'
<1>1. RecoveryInv'
  BY RecoveryNext DEF LogoInv
<1>2. ~Patch
  BY DEF Alone, Patch
<1>3. ASSUME NEW c \in Change PROVE FilesInv(c)'
  <2>1. \A d \in Change : d = c
    BY DEF Alone
  <2>2. CASE UNCHANGED vars
    BY <2>2 DEF vars, LogoInv, FilesInv, MidwayOK, Stage, Committed, Uncommitted
  <2>. QED  BY <1>2, <2>1, <2>2, QuietSteps, LoudSteps DEF Next, ChangeStep, StartStep
<1>4. ASSUME Change = {} PROVE \A s \in Slot : public'[s] = File(setting'.logo, s)
  <2>1. UNCHANGED <<setting, public>>
    BY <1>2, <1>4 DEF Next, StartStep, Crash, Ready, vars
  <2>. QED  BY <1>4, <2>1 DEF LogoInv
<1>. QED  BY <1>1, <1>3, <1>4 DEF LogoInv

\* Once nothing is under way, exactly the committed logo is public, and at no
\* time is it gone from the disk, even if commits, the way back, the clean-up
\* or the process fail: upload_site_logo, delete_site_logo and
\* recover_settings_media, while one change at a time writes the row.
THEOREM AloneTheorem ==
  ASSUME Alone, "same" \notin Allowed
  PROVE  Spec => [](CommittedLogoServed /\ LogoNeverLost)
<1>1. ASSUME LogoInv PROVE CommittedLogoServed
  <2>1. CASE \E c \in Change : TRUE
    BY <1>1, <2>1 DEF LogoInv, FilesInv, CommittedLogoServed, Settled, Pending
  <2>2. CASE Change = {}
    BY <1>1, <2>2 DEF LogoInv, CommittedLogoServed
  <2>. QED  BY <2>1, <2>2
<1>2. ASSUME LogoInv, setting.logo # NoImage PROVE LogoNeverLost
  <2>. DEFINE s == SlotOf[setting.logo]
  <2>1. s \in Slot /\ File(setting.logo, s) = setting.logo
    BY <1>2, ImageAssumption DEF File, LogoInv, RecoveryInv, RecoveryTyped, Logo
  <2>2. CASE Change = {}
    BY <1>2, <2>1, <2>2 DEF LogoInv, LogoNeverLost
  <2>3. ASSUME NEW c \in Change PROVE LogoNeverLost
    <3>1. FilesInv(c) /\ DecidedOK(c)
      BY <1>2 DEF LogoInv, RecoveryInv
    <3>2. CASE manifests[c].present /\ Uncommitted(c)
      BY <1>2, <2>1, <3>1, <3>2 DEF FilesInv, MidwayOK, LogoNeverLost
    <3>3. CASE ~(manifests[c].present /\ Uncommitted(c))
      BY <1>2, <2>1, <3>1, <3>3 DEF FilesInv, DecidedOK, LogoNeverLost
    <3>. QED  BY <3>2, <3>3
  <2>. QED  BY <2>2, <2>3
<1>3. LogoInv => CommittedLogoServed /\ LogoNeverLost
  BY <1>1, <1>2 DEF LogoNeverLost
<1>4. ASSUME LogoInv, [Next]_vars PROVE LogoInv'
  BY <1>4, LogoNext
<1>. QED  BY <1>3, <1>4, LogoInit, PTL DEF Spec
=============================================================================
