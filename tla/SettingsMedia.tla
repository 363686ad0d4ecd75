--------------------------- MODULE SettingsMedia ---------------------------
(***************************************************************************)
(* The site logo: one row of the database names the image, one file on     *)
(* disk holds it, and a change must move both although no transaction      *)
(* spans them.                                                             *)
(*                                                                         *)
(* A change locks the row, writes a manifest, moves the old file to the    *)
(* trash and the new one in place, and commits; then it purges the trash   *)
(* and the manifest.  If it fails it moves the files back.  A process that *)
(* died is followed by one that settles every manifest it finds before it  *)
(* serves requests.  One process runs at a time; its file work is done     *)
(* under one asyncio lock, in steps between which the process may die.     *)
(***************************************************************************)
EXTENDS Naturals, FiniteSets

CONSTANTS
  Image,        \* valid images
  Slot,         \* public file names, one per image format
  SlotOf,       \* SlotOf[i]: the file name of an image, by its format
  Change,       \* identifiers of logo changes, the names of their manifests
  NoImage,      \* no file, and no logo
  Allowed,      \* what may happen: failures to "prepare" the files, of the
                \* "database", to "undo" and to "purge"; a "crash"; a "patch" of the
                \* other settings; the upload of the "same" image again
  MaxRevision,  \* bound on the revisions of the setting
  MaxCrashes    \* bound on the crashes of the process

ASSUME ImageAssumption == NoImage \notin Image /\ SlotOf \in [Image -> Slot]

ASSUME ChangeAssumption == Change \subseteq Nat /\ IsFiniteSet(Change)

ASSUME AllowedAssumption == Allowed \subseteq {"prepare", "database", "undo", "purge", "crash", "patch", "same"}

ASSUME BoundAssumption == MaxRevision \in Nat \ {0} /\ MaxCrashes \in Nat

VARIABLES
  setting,      \* the row of the site setting
  public,       \* public[s]: the image in the public file s
  trash,        \* trash[c][s]: the image that change c moved away from s
  manifests,    \* the manifest of each change
  changes,      \* changes in flight
  server        \* the process

vars == <<setting, public, trash, manifests, changes, server>>

-----------------------------------------------------------------------------

Logo == Image \cup {NoImage}

Setting == [revision: 1..MaxRevision, logo: Logo]

\* Its state ("prepared", "swapped", "committed") is written but never read.
Manifest == [present: BOOLEAN, oldRevision: 0..MaxRevision, newRevision: 0..MaxRevision,
             oldLogo: Logo, newLogo: Logo, oldFiles: SUBSET Slot]

NoManifest == [present |-> FALSE, oldRevision |-> 0, newRevision |-> 0,
               oldLogo |-> NoImage, newLogo |-> NoImage, oldFiles |-> {}]

Stages == {"idle", "staged", "locked", "moving", "reverting", "swapped",
           "failed", "undoing", "committed", "purging", "stuck"}

\* logo is the new one, based the revision the client saw; cleared, when moving
\* back, that the new file is out of the way.
ChangeState == [stage: Stages, logo: Logo, based: 0..MaxRevision, cleared: BOOLEAN]

Idle == [stage |-> "idle", logo |-> NoImage, based |-> 0, cleared |-> FALSE]

Server == [state: {"starting", "up", "refused", "failed"}, backlog: SUBSET Change, todo: SUBSET Change,
           crashes: 0..MaxCrashes]

TypeOK ==
  /\ setting   \in Setting
  /\ public    \in [Slot -> Logo]
  /\ trash     \in [Change -> [Slot -> Logo]]
  /\ manifests \in [Change -> Manifest]
  /\ changes   \in [Change -> ChangeState]
  /\ server    \in Server

Init ==
  /\ setting   = [revision |-> 1, logo |-> NoImage]
  /\ public    = [s \in Slot |-> NoImage]
  /\ trash     = [c \in Change |-> [s \in Slot |-> NoImage]]
  /\ manifests = [c \in Change |-> NoManifest]
  /\ changes   = [c \in Change |-> Idle]
  /\ server    = [state |-> "up", backlog |-> {}, todo |-> {}, crashes |-> 0]

-----------------------------------------------------------------------------
(* Locks.                                                                  *)

Stage(c) == changes[c].stage

Pending == {c \in Change : manifests[c].present}

\* The row lock of the setting, until the transaction ends.
HoldsRow(c) == Stage(c) \in {"locked", "moving", "reverting", "swapped"}

\* Mutant: the row is read without its lock.
NoRowLock(c) == TRUE

RowFree(c) == \A d \in Change \ {c} : ~HoldsRow(d)

\* The asyncio lock of the store.
MediaFree(c) == \A d \in Change \ {c} : Stage(d) \notin {"moving", "reverting", "undoing", "purging"}

Goes(c, stage) == changes' = [changes EXCEPT ![c].stage = stage]

Ends(c) == changes' = [changes EXCEPT ![c] = Idle]

\* The file of image i is in place.
Matches(i) == i # NoImage /\ public[SlotOf[i]] = i

-----------------------------------------------------------------------------
(* A change of the logo: a new one (logo an image) or none.                *)

\* The upload has been validated and staged; the client names the revision it
\* saw last.
StageLogo(c, logo, revision) ==
  /\ server.state = "up"
  /\ Stage(c) = "idle" /\ ~manifests[c].present
  /\ revision <= setting.revision /\ revision < MaxRevision
  /\ "same" \in Allowed \/ logo = NoImage \/ logo # setting.logo \/ revision # setting.revision
  /\ changes' = [changes EXCEPT ![c] = [Idle EXCEPT !.stage = "staged", !.logo = logo,
                                                    !.based = revision]]
  /\ UNCHANGED <<setting, public, trash, manifests, server>>

\* The row is locked and read; another revision ends the change.
LockSetting(c) ==
  /\ Stage(c) = "staged"
  /\ RowFree(c)
  /\ IF changes[c].based = setting.revision THEN Goes(c, "locked") ELSE Ends(c)
  /\ UNCHANGED <<setting, public, trash, manifests, server>>

WriteManifest(c) ==
  /\ Stage(c) = "locked"
  /\ MediaFree(c)
  /\ manifests' = [manifests EXCEPT ![c] =
       [present |-> TRUE, oldRevision |-> setting.revision, newRevision |-> setting.revision + 1,
        oldLogo |-> setting.logo, newLogo |-> changes[c].logo,
        oldFiles |-> {s \in Slot : public[s] # NoImage}]]
  /\ Goes(c, "moving")
  /\ UNCHANGED <<setting, public, trash, server>>

\* An old file that still is in its place goes to the trash.
MoveOld(c, s) ==
  /\ Stage(c) = "moving"
  /\ s \in manifests[c].oldFiles
  /\ public[s] # NoImage
  /\ trash' = [trash EXCEPT ![c][s] = public[s]]
  /\ public' = [public EXCEPT ![s] = NoImage]
  /\ UNCHANGED <<setting, manifests, changes, server>>

\* The new file is put in place, and the manifest written once more.
Install(c) ==
  LET logo == changes[c].logo IN
  /\ Stage(c) = "moving"
  /\ \A s \in manifests[c].oldFiles : public[s] = NoImage
  /\ public' = IF logo = NoImage THEN public ELSE [public EXCEPT ![SlotOf[logo]] = logo]
  /\ \/ Goes(c, "swapped")
     \/ "prepare" \in Allowed /\ Goes(c, "reverting")
  /\ UNCHANGED <<setting, trash, manifests, server>>

\* A file operation fails; with the manifest written, the store moves the files
\* back before it lets go of its lock.
PrepareFails(c) ==
  /\ "prepare" \in Allowed
  /\ \/ Stage(c) = "locked" /\ MediaFree(c) /\ Ends(c)
     \/ Stage(c) = "moving" /\ Goes(c, "reverting")
  /\ UNCHANGED <<setting, public, trash, manifests, server>>

Commit(c) ==
  /\ Stage(c) = "swapped"
  /\ setting' = [revision |-> setting.revision + 1, logo |-> changes[c].logo]
  /\ Goes(c, "committed")
  /\ UNCHANGED <<public, trash, manifests, server>>

\* The transaction fails and is rolled back, which frees the row.
CommitFails(c) ==
  /\ "database" \in Allowed
  /\ \/ Stage(c) = "locked" /\ Ends(c)
     \/ Stage(c) = "swapped" /\ Goes(c, "failed")
  /\ UNCHANGED <<setting, public, trash, manifests, server>>

-----------------------------------------------------------------------------
(* Moving the files back, and cleaning up after a commit.                  *)

BeginUndo(c) ==
  /\ Stage(c) = "failed"
  /\ MediaFree(c)
  /\ Goes(c, "undoing")
  /\ UNCHANGED <<setting, public, trash, manifests, server>>

BeginPurge(c) ==
  /\ Stage(c) = "committed"
  /\ MediaFree(c)
  /\ Goes(c, "purging")
  /\ UNCHANGED <<setting, public, trash, manifests, server>>

\* The new file is removed, if it is the one in place.
RemoveNew(c) ==
  LET logo == manifests[c].newLogo IN
  /\ Stage(c) \in {"reverting", "undoing"}
  /\ ~changes[c].cleared
  /\ changes' = [changes EXCEPT ![c].cleared = TRUE]
  /\ public' = IF Matches(logo) THEN [public EXCEPT ![SlotOf[logo]] = NoImage] ELSE public
  /\ UNCHANGED <<setting, trash, manifests, server>>

RestoreOld(c, s) ==
  /\ Stage(c) \in {"reverting", "undoing"}
  /\ changes[c].cleared
  /\ trash[c][s] # NoImage
  /\ public' = [public EXCEPT ![s] = trash[c][s]]
  /\ trash' = [trash EXCEPT ![c][s] = NoImage]
  /\ UNCHANGED <<setting, manifests, changes, server>>

PurgeOld(c, s) ==
  /\ Stage(c) = "purging"
  /\ trash[c][s] # NoImage
  /\ trash' = [trash EXCEPT ![c][s] = NoImage]
  /\ UNCHANGED <<setting, public, manifests, changes, server>>

\* Mutant: the manifest is left behind.
KeepManifest(c) ==
  /\ \/ Stage(c) \in {"reverting", "undoing"} /\ changes[c].cleared
     \/ Stage(c) = "purging"
  /\ \A s \in Slot : trash[c][s] = NoImage
  /\ Ends(c)
  /\ UNCHANGED <<setting, public, trash, manifests, server>>

\* The manifest goes last, and the change is over.
DropManifest(c) ==
  /\ \/ Stage(c) \in {"reverting", "undoing"} /\ changes[c].cleared
     \/ Stage(c) = "purging"
  /\ \A s \in Slot : trash[c][s] = NoImage
  /\ manifests' = [manifests EXCEPT ![c] = NoManifest]
  /\ Ends(c)
  /\ UNCHANGED <<setting, public, trash, server>>

\* A file operation fails on the way: logged while serving, and the manifest
\* stays for the next process; fatal to a process that is starting.
CleanupFails(c) ==
  /\ \/ "undo" \in Allowed /\ Stage(c) \in {"reverting", "undoing"}
     \/ "purge" \in Allowed /\ Stage(c) = "purging"
  /\ Goes(c, "stuck")
  /\ server' = IF server.state = "starting" THEN [server EXCEPT !.state = "failed"] ELSE server
  /\ UNCHANGED <<setting, public, trash, manifests>>

-----------------------------------------------------------------------------
(* The other writes of the row, crashes, and the start of a process.       *)

\* update_site: title, keywords and the like, from the current revision.
Patch ==
  /\ "patch" \in Allowed
  /\ server.state = "up"
  /\ \A c \in Change : ~HoldsRow(c)
  /\ setting.revision < MaxRevision
  /\ setting' = [setting EXCEPT !.revision = @ + 1]
  /\ UNCHANGED <<public, trash, manifests, changes, server>>

\* The process dies, with its locks and transactions; the next one lists the
\* manifests it finds.
Crash ==
  /\ "crash" \in Allowed
  /\ server.state \in {"up", "starting"}
  /\ server.crashes < MaxCrashes
  /\ changes' = [c \in Change |-> Idle]
  /\ server' = [state |-> "starting", backlog |-> Pending, todo |-> Pending,
                crashes |-> server.crashes + 1]
  /\ UNCHANGED <<setting, public, trash, manifests>>

\* Mutant: the files decide, not the row.
CommittedBySwap(c) == Matches(manifests[c].newLogo)

Committed(c) ==
  setting.revision = manifests[c].newRevision /\ setting.logo = manifests[c].newLogo

Uncommitted(c) ==
  setting.revision = manifests[c].oldRevision /\ setting.logo = manifests[c].oldLogo

\* recover_settings_media takes the manifests one by one, in the order of their
\* names.
Recover(c) ==
  /\ server.state = "starting"
  /\ \A d \in Change : Stage(d) = "idle"
  /\ c \in server.todo
  /\ \A d \in server.todo : c <= d
  /\ IF Committed(c) /\ (manifests[c].newLogo = NoImage \/ Matches(manifests[c].newLogo))
     THEN Goes(c, "purging") /\ server' = [server EXCEPT !.todo = @ \ {c}]
     ELSE IF ~Committed(c) /\ Uncommitted(c)
     THEN Goes(c, "undoing") /\ server' = [server EXCEPT !.todo = @ \ {c}]
     ELSE server' = [server EXCEPT !.state = "refused"] /\ UNCHANGED changes
  /\ UNCHANGED <<setting, public, trash, manifests>>

Ready ==
  /\ server.state = "starting"
  /\ server.todo = {}
  /\ \A c \in Change : Stage(c) = "idle"
  /\ server' = [server EXCEPT !.state = "up"]
  /\ UNCHANGED <<setting, public, trash, manifests, changes>>

-----------------------------------------------------------------------------

\* What a change does once it has begun, whoever drives it.
ChangeStep(c) ==
  \/ LockSetting(c)
  \/ WriteManifest(c)
  \/ \E s \in Slot : MoveOld(c, s)
  \/ Install(c)
  \/ PrepareFails(c)
  \/ Commit(c)
  \/ CommitFails(c)
  \/ BeginUndo(c)
  \/ BeginPurge(c)
  \/ RemoveNew(c)
  \/ \E s \in Slot : RestoreOld(c, s)
  \/ \E s \in Slot : PurgeOld(c, s)
  \/ DropManifest(c)
  \/ CleanupFails(c)

StartStep == Ready \/ \E c \in Change : Recover(c)

Next ==
  \/ \E c \in Change : \/ \E logo \in Logo, revision \in 1..MaxRevision : StageLogo(c, logo, revision)
                       \/ ChangeStep(c)
  \/ Patch
  \/ Crash
  \/ StartStep

\* A change that has begun goes on, and so does the start of a process.
Fairness == WF_vars(StartStep) /\ \A c \in Change : WF_vars(ChangeStep(c))

Spec == Init /\ [][Next]_vars /\ Fairness

-----------------------------------------------------------------------------
(* Properties.                                                             *)

\* Nothing is under way and nothing is left to settle.
Settled ==
  /\ server.state = "up"
  /\ \A c \in Change : Stage(c) \in {"idle", "staged"}
  /\ Pending = {}

\* The file at s when the logo is i.
File(i, s) == IF i # NoImage /\ SlotOf[i] = s THEN i ELSE NoImage

\* When nothing is under way, the files are the logo the database names and
\* nothing else, whatever failed or died before.
CommittedLogoServed == Settled => \A s \in Slot : public[s] = File(setting.logo, s)

\* At no time, not even between two steps of a change or after a crash, is the
\* image that the database names gone from the disk.
LogoNeverLost ==
  setting.logo # NoImage =>
    \/ public[SlotOf[setting.logo]] = setting.logo
    \/ \E c \in Change : trash[c][SlotOf[setting.logo]] = setting.logo

\* Whatever a crash left behind, the next process knows what to do with it.
StartsAfterCrash == server.state # "refused"

\* A change is committed over the very revision its client saw, whatever was
\* written since it was checked.
NothingOverwritten ==
  [][\A c \in Change : Commit(c) => changes[c].based = setting.revision]_vars

\* The files of a change that is not committed are still to be decided.
Open(c) == manifests[c].present /\ manifests[c].newRevision > setting.revision

\* Only one change is undecided, and while the process serves it holds the row.
LocksOK ==
  /\ \A c, d \in Change : HoldsRow(c) /\ HoldsRow(d) => c = d
  /\ \A c, d \in Change : Open(c) /\ Open(d) => c = d
  /\ server.state = "up" => \A c \in Change : Open(c) => HoldsRow(c)

\* A change as its stage says.
ChangesOK ==
  \A c \in Change :
    /\ Stage(c) \in {"staged", "locked"} =>
         /\ ~manifests[c].present
         /\ changes[c].based <= setting.revision /\ changes[c].based < MaxRevision
         /\ changes[c].based = setting.revision =>
              changes[c].logo = NoImage \/ changes[c].logo # setting.logo
    /\ Stage(c) \in {"moving", "reverting", "swapped", "undoing"} => Open(c)
    /\ Stage(c) \in {"moving", "swapped"} => changes[c].logo = manifests[c].newLogo
    /\ Stage(c) \in {"committed", "purging"} => manifests[c].present /\ ~Open(c)
    /\ HoldsRow(c) => changes[c].based = setting.revision
    /\ changes[c].cleared => Stage(c) \in {"reverting", "undoing"}
    /\ Stage(c) # "failed"

\* What the manifests say about the setting, and that the trash is theirs.
ManifestsOK ==
  \A c \in Change :
    /\ ~manifests[c].present => /\ manifests[c] = NoManifest
                                /\ \A s \in Slot : trash[c][s] = NoImage
    /\ manifests[c].present => manifests[c].newRevision = manifests[c].oldRevision + 1
    /\ Open(c) => /\ manifests[c].oldRevision = setting.revision
                  /\ manifests[c].newLogo = NoImage \/ manifests[c].newLogo # setting.logo

\* Before it serves, a process works on one change at a time.
ServerOK ==
  /\ server.state # "up" => \A c \in Change : Stage(c) \in {"idle", "undoing", "purging", "stuck"}
  /\ server.state = "up" => \A c \in Change : Stage(c) # "undoing"
  /\ server.state = "starting" =>
       \A c \in Change : Open(c) => c \in server.todo \/ Stage(c) = "undoing"

\* Half-way through a change, each old file is in its place or in the trash.
MidwayOK(c) ==
  \A s \in Slot :
    /\ trash[c][s] \in {NoImage, File(setting.logo, s)}
    /\ public[s] \in {NoImage, File(setting.logo, s), File(manifests[c].newLogo, s)}
    /\ File(setting.logo, s) \in {NoImage, public[s], trash[c][s]}
    /\ Stage(c) = "moving" \/ changes[c].cleared => public[s] \in {NoImage, File(setting.logo, s)}
    /\ Stage(c) = "moving" /\ public[s] # NoImage => s \in manifests[c].oldFiles
    /\ Stage(c) = "swapped" => public[s] = File(manifests[c].newLogo, s)

FilesOK ==
  /\ (\A c \in Change : ~Open(c)) => \A s \in Slot : public[s] = File(setting.logo, s)
  /\ \A c \in Change : Open(c) => MidwayOK(c)

\* With failures before and after the commit, crashes and patches, but neither a
\* failing commit, nor a failing way back, nor the same image uploaded again.
IndInv == TypeOK /\ LocksOK /\ ChangesOK /\ ManifestsOK /\ ServerOK /\ FilesOK

\* Every change that has touched the files is settled one day, by itself or by
\* a later process, unless a file operation fails for good on the way.
ChangesSettle ==
  \A c \in Change : manifests[c].present ~> (~manifests[c].present \/ Stage(c) = "stuck")
=============================================================================
