----------------------------- MODULE AssetStore -----------------------------
(***************************************************************************)
(* Uploaded files: a row of the database describes each, a file in the     *)
(* public directory is its content, and articles and avatars refer to it.  *)
(*                                                                         *)
(* An upload puts its file in place before it inserts the row, and takes   *)
(* it back when the insert fails; one that repeats the content of a row    *)
(* reuses the row and, if the file is missing, puts the file back.  A      *)
(* deletion locks its rows, checks that nothing refers to them, moves the  *)
(* files to the trash, deletes the rows and purges the trash; when it      *)
(* fails it moves the files back, after its transaction has ended.  A new  *)
(* reference locks the rows of the assets until it is committed.           *)
(***************************************************************************)
EXTENDS Naturals, FiniteSets

CONSTANTS
  Asset,     \* identifiers of assets; a file is named after one
  Content,   \* what the unique constraint compares: uploader, scene and digest
  Article,   \* articles, which refer to images
  Account,   \* users and admins, who have at most one avatar
  Request,   \* concurrent requests
  None,      \* no content and no holder of references
  Allowed    \* what may happen: failures of the "storage", the "database" and
             \* of a "restore"; a "crash"

ASSUME NoneAssumption == None \notin Content \cup Article \cup Account

ASSUME AllowedAssumption == Allowed \subseteq {"storage", "database", "restore", "crash"}

VARIABLES
  rows,      \* rows[a]: the content of asset a, None without a row
  issued,    \* the identifiers given out
  files,     \* assets with a public file
  trash,     \* assets with a file in the trash that no request will take back
  refs,      \* refs[h]: the assets that h refers to
  requests   \* requests in flight

vars == <<rows, issued, files, trash, refs, requests>>

-----------------------------------------------------------------------------

Holder == Article \cup Account

Live == {a \in Asset : rows[a] # None}

Stages == {"idle", "storing", "stored", "clashing", "reusing", "refilling",
           "locked", "moving", "restoring", "purging", "choosing", "binding"}

\* targets are the assets worked on, moved those with a file in the trash, chosen
\* the new references of the holder.
RequestState == [stage: Stages, content: Content \cup {None}, targets: SUBSET Asset,
                 moved: SUBSET Asset, holder: Holder \cup {None}, chosen: SUBSET Asset]

Idle == [stage |-> "idle", content |-> None, targets |-> {}, moved |-> {},
         holder |-> None, chosen |-> {}]

TypeOK ==
  /\ rows \in [Asset -> Content \cup {None}]
  /\ issued \in SUBSET Asset
  /\ files \in SUBSET Asset
  /\ trash \in SUBSET Asset
  /\ refs \in [Holder -> SUBSET Asset]
  /\ requests \in [Request -> RequestState]

Init ==
  /\ rows = [a \in Asset |-> None]
  /\ issued = {}
  /\ files = {}
  /\ trash = {}
  /\ refs = [h \in Holder |-> {}]
  /\ requests = [r \in Request |-> Idle]

-----------------------------------------------------------------------------
(* Locks and steps.                                                        *)

Stage(r) == requests[r].stage

HoldsAsset(r, a) == a \in requests[r].targets /\ Stage(r) \in {"locked", "moving", "binding"}

\* Mutant: the rows are read without their locks.
NoAssetLock(r, T) == TRUE

AssetFree(r, T) == \A q \in Request \ {r} : \A a \in T : ~HoldsAsset(q, a)

\* The row lock of an account, or the one advisory lock of all writes of articles.
HolderFree(r, h) ==
  \A q \in Request \ {r} :
    Stage(q) \in {"choosing", "binding"} =>
      requests[q].holder # h /\ ~({h, requests[q].holder} \subseteq Article)

Begins(r, state) == requests' = [requests EXCEPT ![r] = state]

Goes(r, stage) == requests' = [requests EXCEPT ![r].stage = stage]

Finish(r) == Begins(r, Idle)

-----------------------------------------------------------------------------
(* Uploads.                                                                *)

\* The staged file has been checked; is there a row with its content?
FindDuplicate(r, c) ==
  /\ Stage(r) = "idle"
  /\ IF \E a \in Asset : rows[a] = c
     THEN /\ \E a \in Asset : /\ rows[a] = c
                              /\ Begins(r, [Idle EXCEPT !.stage = "reusing", !.targets = {a}])
          /\ UNCHANGED issued
     ELSE \E a \in Asset \ issued :
            /\ issued' = issued \cup {a}
            /\ Begins(r, [Idle EXCEPT !.stage = "storing", !.targets = {a}, !.content = c])
  /\ UNCHANGED <<rows, files, trash, refs>>

\* exists: a missing file is put back, else the copy is dropped.
CheckFile(r) ==
  /\ Stage(r) = "reusing"
  /\ IF requests[r].targets \subseteq files THEN Finish(r) ELSE Goes(r, "refilling")
  /\ UNCHANGED <<rows, issued, files, trash, refs>>

Refill(r) ==
  /\ Stage(r) = "refilling"
  /\ \/ files' = files \cup requests[r].targets
     \/ "storage" \in Allowed /\ UNCHANGED files
  /\ Finish(r)
  /\ UNCHANGED <<rows, issued, trash, refs>>

StoreFile(r) ==
  /\ Stage(r) = "storing"
  /\ \/ files' = files \cup requests[r].targets /\ Goes(r, "stored")
     \/ "storage" \in Allowed /\ UNCHANGED files /\ Finish(r)
  /\ UNCHANGED <<rows, issued, trash, refs>>

InsertRow(r) ==
  /\ Stage(r) = "stored"
  /\ \A a \in Asset : rows[a] # requests[r].content
  /\ rows' = [a \in Asset |-> IF a \in requests[r].targets THEN requests[r].content ELSE rows[a]]
  /\ Finish(r)
  /\ UNCHANGED <<issued, files, trash, refs>>

\* Another upload of the same content was first, or the database fails.
InsertFails(r) ==
  /\ Stage(r) = "stored"
  /\ "database" \in Allowed \/ \E a \in Asset : rows[a] = requests[r].content
  /\ Goes(r, "clashing")
  /\ UNCHANGED <<rows, issued, files, trash, refs>>

\* Mutant: the compensation also removes the file of the row that was first.
TakeBackAll(r) ==
  /\ Stage(r) = "clashing"
  /\ files' = {a \in files : a \notin requests[r].targets /\ rows[a] # requests[r].content}
  /\ Finish(r)
  /\ UNCHANGED <<rows, issued, trash, refs>>

\* _delete_committed_file moves the file to the trash and purges it; a failure of
\* either is logged.
TakeBack(r) ==
  /\ Stage(r) = "clashing"
  /\ \/ files' = files \ requests[r].targets /\ UNCHANGED trash
     \/ "storage" \in Allowed /\ UNCHANGED <<files, trash>>
     \/ /\ "storage" \in Allowed
        /\ files' = files \ requests[r].targets
        /\ trash' = trash \cup requests[r].targets
  /\ Finish(r)
  /\ UNCHANGED <<rows, issued, refs>>

-----------------------------------------------------------------------------
(* Deletions.                                                              *)

\* Assets that an article or an avatar refers to.
Referenced == UNION {refs[h] : h \in Holder}

\* Mutant: avatars are not asked.
UnreferencedByArticles(T) == \A h \in Article : refs[h] \cap T = {}

\* is_referenced_by_article, is_referenced_by_avatar.
Unreferenced(T) == Referenced \cap T = {}

\* A foreign key protects the references of articles, nothing those of avatars.
ForeignKey(T) == \A h \in Article : refs[h] \cap T = {}

\* All of the rows are there, or the request ends.
LockTargets(r, T) ==
  /\ Stage(r) = "idle"
  /\ T \subseteq Live
  /\ AssetFree(r, T)
  /\ Begins(r, [Idle EXCEPT !.stage = "locked", !.targets = T])
  /\ UNCHANGED <<rows, issued, files, trash, refs>>

CheckReferences(r) ==
  /\ Stage(r) = "locked"
  /\ IF Unreferenced(requests[r].targets) THEN Goes(r, "moving") ELSE Finish(r)
  /\ UNCHANGED <<rows, issued, files, trash, refs>>

MoveToTrash(r, a) ==
  /\ Stage(r) = "moving"
  /\ a \in requests[r].targets \ requests[r].moved
  /\ a \in files
  /\ files' = files \ {a}
  /\ requests' = [requests EXCEPT ![r].moved = @ \cup {a}]
  /\ UNCHANGED <<rows, issued, trash, refs>>

\* A file is missing or cannot be moved; the transaction is rolled back.
MoveFails(r) ==
  /\ Stage(r) = "moving"
  /\ \E a \in requests[r].targets \ requests[r].moved : "storage" \in Allowed \/ a \notin files
  /\ Goes(r, "restoring")
  /\ UNCHANGED <<rows, issued, files, trash, refs>>

CommitDelete(r) ==
  /\ Stage(r) = "moving"
  /\ requests[r].moved = requests[r].targets
  /\ ForeignKey(requests[r].targets)
  /\ rows' = [a \in Asset |-> IF a \in requests[r].targets THEN None ELSE rows[a]]
  /\ Goes(r, "purging")
  /\ UNCHANGED <<issued, files, trash, refs>>

CommitFails(r) ==
  /\ Stage(r) = "moving"
  /\ requests[r].moved = requests[r].targets
  /\ "database" \in Allowed \/ ~ForeignKey(requests[r].targets)
  /\ Goes(r, "restoring")
  /\ UNCHANGED <<rows, issued, files, trash, refs>>

\* Files go back one by one; one that does not is reported and stays behind.
Restore(r, a) ==
  /\ Stage(r) = "restoring"
  /\ a \in requests[r].moved
  /\ \/ files' = files \cup {a} /\ UNCHANGED trash
     \/ "restore" \in Allowed /\ trash' = trash \cup {a} /\ UNCHANGED files
  /\ requests' = [requests EXCEPT ![r].moved = @ \ {a}]
  /\ UNCHANGED <<rows, issued, refs>>

Purge(r, a) ==
  /\ Stage(r) = "purging"
  /\ a \in requests[r].moved
  /\ \/ UNCHANGED trash
     \/ "storage" \in Allowed /\ trash' = trash \cup {a}
  /\ requests' = [requests EXCEPT ![r].moved = @ \ {a}]
  /\ UNCHANGED <<rows, issued, files, refs>>

EndDelete(r) ==
  /\ Stage(r) \in {"restoring", "purging"}
  /\ requests[r].moved = {}
  /\ Finish(r)
  /\ UNCHANGED <<rows, issued, files, trash, refs>>

-----------------------------------------------------------------------------
(* References.                                                             *)

\* A holder is locked to get other references: an article those in its text and
\* its cover, an account an avatar or none.
Choose(r, h, A) ==
  /\ Stage(r) = "idle"
  /\ HolderFree(r, h)
  /\ A \subseteq Live
  /\ h \in Account => \A a, b \in A : a = b
  /\ Begins(r, [Idle EXCEPT !.stage = "choosing", !.holder = h, !.chosen = A])
  /\ UNCHANGED <<rows, issued, files, trash, refs>>

\* The rows of the new references are locked, and of an article's old ones; if
\* one is gone, the request ends.
LockChosen(r) ==
  LET h == requests[r].holder
      T == requests[r].chosen \cup (IF h \in Article THEN refs[h] ELSE {})
  IN
  /\ Stage(r) = "choosing"
  /\ IF T \subseteq Live
     THEN /\ AssetFree(r, T)
          /\ requests' = [requests EXCEPT ![r].stage = "binding", ![r].targets = T]
     ELSE Finish(r)
  /\ UNCHANGED <<rows, issued, files, trash, refs>>

CommitChosen(r) ==
  /\ Stage(r) = "binding"
  /\ refs' = [refs EXCEPT ![requests[r].holder] = requests[r].chosen]
  /\ Finish(r)
  /\ UNCHANGED <<rows, issued, files, trash>>

-----------------------------------------------------------------------------

\* A transaction fails before it has done anything outside the database.
Abort(r) ==
  /\ "database" \in Allowed
  /\ Stage(r) \in {"locked", "choosing", "binding"}
  /\ Finish(r)
  /\ UNCHANGED <<rows, issued, files, trash, refs>>

\* The process dies: transactions are rolled back, files stay where they are, and
\* nothing looks at the trash at the next start.
Crash ==
  /\ "crash" \in Allowed
  /\ requests' = [r \in Request |-> Idle]
  /\ trash' = trash \cup UNION {requests[r].moved : r \in Request}
  /\ UNCHANGED <<rows, issued, files, refs>>

UploadStep(r) ==
  \/ \E c \in Content : FindDuplicate(r, c)
  \/ CheckFile(r)
  \/ Refill(r)
  \/ StoreFile(r)
  \/ InsertRow(r)
  \/ InsertFails(r)
  \/ TakeBack(r)

DeleteStep(r) ==
  \/ \E T \in SUBSET Asset \ {{}} : LockTargets(r, T)
  \/ CheckReferences(r)
  \/ \E a \in Asset : MoveToTrash(r, a) \/ Restore(r, a) \/ Purge(r, a)
  \/ MoveFails(r)
  \/ CommitDelete(r)
  \/ CommitFails(r)
  \/ EndDelete(r)

BindStep(r) ==
  \/ \E h \in Holder, A \in SUBSET Asset : Choose(r, h, A)
  \/ LockChosen(r)
  \/ CommitChosen(r)

Next ==
  \/ \E r \in Request : UploadStep(r) \/ DeleteStep(r) \/ BindStep(r) \/ Abort(r)
  \/ Crash

Spec == Init /\ [][Next]_vars

-----------------------------------------------------------------------------
(* Properties.                                                             *)

\* No article and no avatar refers to an asset without a row, also while assets
\* are being deleted and bound at the same time.
ReferencesHold == Referenced \subseteq Live

\* The content of an asset is never gone from the disk, whatever fails: its file
\* is public, or in the trash for the operator to put back, or a deletion that
\* has not been committed has it.
ContentKept ==
  \A a \in Live :
    a \in files \cup trash
      \/ \E r \in Request : Stage(r) \in {"moving", "restoring"} /\ a \in requests[r].moved

\* What an article or an avatar refers to is served, unless a deletion that has
\* failed is moving it back or was unable to.
ReferencedServed ==
  \A a \in Referenced :
    a \in files \cup trash
      \/ \E r \in Request : Stage(r) = "restoring" /\ a \in requests[r].moved

LocksExclusive ==
  \A q, r \in Request : \A a \in Asset : HoldsAsset(q, a) /\ HoldsAsset(r, a) => q = r

\* The new assets of uploads are theirs alone and have no row; what a deletion or
\* a binding has locked exists, and what a deletion moves has no references.
Uploading(r) == Stage(r) \in {"storing", "stored", "clashing"}

RequestOK(r) ==
  LET q == requests[r] IN
  /\ Uploading(r) => q.targets \subseteq issued \ Live /\ q.content # None
  /\ Stage(r) = "stored" => q.targets \subseteq files
  /\ Stage(r) \in {"locked", "moving", "binding"} => q.targets \subseteq Live
  /\ Stage(r) = "moving" => q.targets \cap Referenced = {}
  /\ Stage(r) = "binding" => q.chosen \subseteq q.targets
  /\ q.moved \subseteq q.targets
  /\ Stage(r) \in {"choosing", "binding"} => q.holder \in Holder /\ q.moved = {}

RequestsOK == \A r \in Request : RequestOK(r)

UploadsApart ==
  \A q, r \in Request :
    Uploading(q) /\ Uploading(r) /\ q # r => requests[q].targets \cap requests[r].targets = {}

\* The inductive invariant behind the theorems: the locks exclude each other, every
\* request is where its stage says, uploads have assets of their own, and what the
\* properties ask.
IndInv ==
  /\ TypeOK
  /\ Live \subseteq issued
  /\ LocksExclusive
  /\ UploadsApart
  /\ RequestsOK
  /\ ReferencesHold
  /\ ContentKept
=============================================================================
