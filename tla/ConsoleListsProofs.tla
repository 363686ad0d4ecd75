------------------------- MODULE ConsoleListsProofs -------------------------
(***************************************************************************)
(* Proofs about the list pages of the console, for any rows and any number *)
(* of requests that may be under way at the same time.                     *)
(***************************************************************************)
EXTENDS ConsoleLists, TLAPS

-----------------------------------------------------------------------------
(* The inductive invariant.                                                *)

NoLock == {"none"}
Row == [state : Views \cup {"gone"}, rev : Nat]
Target == [id : Ids, rev : Nat, view : Views]
Pick == [id : Ids, view : Views]
\* What pages put into their dialogs and requests.
Stages == {"idle", "checking", "sent", "done", "refused", "refreshing"}
DialogKinds == {"none", "confirm", "form", "drawer"}
Uses == {"none", "assignPermissions", "assignRoles", "batchDelete", "batchRestore",
         "batchStatus", "create", "deleteAsset", "deleteRole", "edit",
         "lifecycle", "preview", "remove", "resetPassword", "restore",
         "revokeSessions", "save", "saveRole", "status", "superuser"}
Ops == {"none", "assignAdminRoles", "assignPermissions", "categoryImpact",
        "createAdmin", "createCategory", "createRole", "createTag", "createUser",
        "deleteAsset", "deleteAssetsBulk", "deleteCategories", "deletePosts",
        "deleteRole", "deleteRolesBulk", "deleteTags", "deleteUsersBulk",
        "resetAdminPassword", "resetUserPassword", "restorePosts", "restoreUser",
        "restoreUsersBulk", "revokeAdminSessions", "revokeUserSessions",
        "setAdminStatus", "setAdminStatusBulk", "setAdminSuperuser",
        "setRoleStatusBulk", "setUserStatus", "setUserStatusBulk", "tagImpact",
        "updateAdmin", "updateCategory", "updatePostStatus", "updateRole",
        "updateTag", "updateUser"}
AskedFor == {"admins:create", "admins:credentials:reset", "admins:roles:assign",
             "admins:sessions:read", "admins:sessions:revoke",
             "admins:superuser:change", "admins:update", "assets:delete",
             "categories:create", "categories:delete", "categories:update",
             "permissions:read", "posts:delete", "posts:restore", "posts:update",
             "roles:create", "roles:delete", "roles:permissions:assign",
             "roles:read", "roles:update", "tags:create", "tags:delete",
             "tags:update", "users:create", "users:credentials:reset",
             "users:delete", "users:restore", "users:sessions:read",
             "users:sessions:revoke", "users:update"}

Dialog == [kind : DialogKinds, use : Uses, targets : SUBSET Target, told : SUBSET Target]
Request == [stage : Stages, use : Uses, op : Ops, gates : SUBSET AskedFor,
            targets : SUBSET Target, told : SUBSET Target, holds : Locks \cup NoLock,
            newest : BOOLEAN, closes : BOOLEAN, answered : SUBSET Target]

Typed ==
  /\ page \in AllPages
  /\ rows \in [Ids -> Row]
  /\ view \in Views
  /\ list \in {"loading", "idle", "due", "failed", "broken"}
  /\ answer = NoAnswer \/ answer \in [Ids -> Row]
  /\ shown \in [Ids -> Row]
  /\ picked \in SUBSET Pick
  /\ dialog \in Dialog
  /\ locked \in SUBSET Locks
  /\ reqs \in [Slots -> Request]
  /\ acked \in [Ids -> Nat]

\* A lock is held by one request at most, and one that holds it is under way.
OneHolder ==
  /\ \A s \in Slots : ~Underway(s) => reqs[s].holds = "none"
  /\ \A s \in Slots : reqs[s].holds \in Locks => reqs[s].holds \in locked
  /\ \A s, x \in Slots : reqs[s].holds \in Locks /\ reqs[s].holds = reqs[x].holds => s = x

\* Deletions come out of the confirmation, under its lock.
Confirmed ==
  /\ dialog.targets = dialog.told
  /\ \A s \in Slots : reqs[s].op \in Deletes \cup Erases =>
       reqs[s].holds = "confirm" /\ reqs[s].targets = reqs[s].told

\* A lock that is taken is held, but for the form of administrators, whose
\* saves take no other lock.
Returned ==
  /\ \A l \in locked : \/ \E s \in Slots : reqs[s].holds = l
                       \/ page = "admins" /\ l = "form"
  /\ page = "admins" => \A s \in Slots : reqs[s].use = "edit" => reqs[s].holds \in {"form", "none"}
  /\ page \in {"categories", "tags"} =>
       \A s \in Slots : reqs[s].use = "preview" => reqs[s].holds = "none"

\* Everything that is picked, asked or sent comes from the view it is for.
ExpectedView(op) == IF op \in Restores THEN "deleted" ELSE "current"
Recycling == {"users", "posts"}
InView ==
  /\ page \notin Recycling => view = "current"
  /\ \A t \in picked : t.view = view
  /\ \A t \in dialog.targets : t.view = "current"
  /\ \A s \in Slots : /\ \A t \in reqs[s].targets : t.view = ExpectedView(reqs[s].op)
                      /\ \A t \in reqs[s].answered : t.view = ExpectedView(reqs[s].op)
                      /\ reqs[s].op \in Restores => page \in Recycling

\* What the page was told of is on the server, and in every answer that was
\* not asked for before.
Quiet == {"resetPassword", "revokeSessions"}
Fresh ==
  /\ \A i \in Ids : acked[i] <= rows[i].rev
  /\ answer # NoAnswer => \A i \in Ids : acked[i] <= answer[i].rev
  /\ list = "idle" => \A i \in Ids : acked[i] <= shown[i].rev
  /\ \A s \in Slots : \A t \in reqs[s].answered : t.rev <= rows[t.id].rev
  /\ \A s \in Slots : reqs[s].stage = "done" =>
       \A i \in Changes(reqs[s]) : \E t \in reqs[s].answered : t.id = i
  /\ page \in {"users", "admins"} =>
       \A s \in Slots : reqs[s].use \in Quiet => reqs[s].op \in Silent

ListInv == Typed /\ OneHolder /\ Confirmed /\ Returned /\ InView /\ Fresh

-----------------------------------------------------------------------------
(* What pages do, whichever page it is.                                    *)

LEMMA ListedTargets ==
  ASSUME ListInv, NEW i \in Listed
  PROVE  TargetOf(i) \in Target /\ TargetOf(i).view = view
  BY DEF ListInv, Typed, Listed, TargetOf, Target, Row

LEMMA PickedOnes ==
  ASSUME ListInv
  PROVE  PickedTargets \in SUBSET Target /\ \A t \in PickedTargets : t.view = view
  BY DEF ListInv, Typed, InView, PickedTargets, Target, Row, Pick

LEMMA MadeRequest ==
  ASSUME NEW stage \in Stages, NEW use \in Uses, NEW op \in Ops, NEW gates \in SUBSET AskedFor,
         NEW targets \in SUBSET Target, NEW told \in SUBSET Target, NEW lock \in Locks \cup NoLock
  PROVE  [stage |-> stage, use |-> use, op |-> op, gates |-> gates,
          targets |-> targets, told |-> told, holds |-> lock,
          newest |-> TRUE, closes |-> FALSE, answered |-> {}] \in Request
  BY DEF Request

\* A use, an operation and a lock that go together on the page.
Fits(use, op, lock) ==
  /\ op \in Deletes \cup Erases => lock = "confirm"
  /\ op \in Restores => page \in Recycling
  /\ page = "admins" /\ use = "edit" => lock \in {"form", "none"}
  /\ page \in {"categories", "tags"} /\ use = "preview" => lock = "none"
  /\ page \in {"users", "admins"} /\ use \in Quiet => op \in Silent

\* A request that is made, whatever it asks for.
LEMMA MakingKeeps ==
  ASSUME ListInv,
         NEW stage \in {"sent", "checking"}, NEW use \in Uses, NEW op \in Ops,
         NEW gates \in SUBSET AskedFor, NEW targets \in SUBSET Target, NEW told \in SUBSET Target,
         NEW lock \in Locks \cup NoLock, lock \notin locked,
         Makes(stage, use, op, gates, targets, told, lock),
         UNCHANGED <<picked, dialog>>, OnPage,
         op \in Deletes \cup Erases => lock = "confirm" /\ targets = told,
         \A t \in targets : t.view = ExpectedView(op),
         op \in Restores => page \in Recycling,
         page = "admins" /\ use = "edit" => lock \in {"form", "none"},
         page \in {"categories", "tags"} /\ use = "preview" => lock = "none",
         page \in {"users", "admins"} /\ use \in Quiet => op \in Silent
  PROVE  ListInv'
<1>1. PICK s \in Slots :
        /\ ~Underway(s)
        /\ reqs' = [x \in Slots |->
             IF x = s THEN [stage |-> stage, use |-> use, op |-> op, gates |-> gates,
                            targets |-> targets, told |-> told, holds |-> lock,
                            newest |-> TRUE, closes |-> FALSE, answered |-> {}]
             ELSE IF reqs[x].use = use THEN [reqs[x] EXCEPT !.newest = FALSE]
             ELSE reqs[x]]
  BY DEF Makes
<1>2. locked' = locked \cup ({lock} \cap Locks)
  BY DEF Makes
<1>s. /\ reqs'[s].stage = stage /\ reqs'[s].use = use /\ reqs'[s].op = op
      /\ reqs'[s].targets = targets /\ reqs'[s].told = told /\ reqs'[s].holds = lock
      /\ reqs'[s].answered = {}
      /\ reqs'[s] \in Request
  <2>1. reqs'[s] = [stage |-> stage, use |-> use, op |-> op, gates |-> gates,
                    targets |-> targets, told |-> told, holds |-> lock,
                    newest |-> TRUE, closes |-> FALSE, answered |-> {}]
    BY <1>1
  <2>2. stage \in Stages
    BY DEF Stages
  <2>3. reqs'[s] \in Request
    BY <2>1, <2>2, MadeRequest
  <2> QED BY <2>1, <2>3
<1>x. \A x \in Slots \ {s} :
        /\ reqs'[x].stage = reqs[x].stage /\ reqs'[x].use = reqs[x].use
        /\ reqs'[x].op = reqs[x].op /\ reqs'[x].targets = reqs[x].targets
        /\ reqs'[x].told = reqs[x].told /\ reqs'[x].holds = reqs[x].holds
        /\ reqs'[x].answered = reqs[x].answered
        /\ reqs'[x] \in Request
  <2> SUFFICES ASSUME NEW x \in Slots \ {s}
               PROVE  /\ reqs'[x].stage = reqs[x].stage /\ reqs'[x].use = reqs[x].use
                      /\ reqs'[x].op = reqs[x].op /\ reqs'[x].targets = reqs[x].targets
                      /\ reqs'[x].told = reqs[x].told /\ reqs'[x].holds = reqs[x].holds
                      /\ reqs'[x].answered = reqs[x].answered
                      /\ reqs'[x] \in Request
    OBVIOUS
  <2>1. reqs[x] \in Request
    BY DEF ListInv, Typed
  <2>2. reqs'[x] = IF reqs[x].use = use THEN [reqs[x] EXCEPT !.newest = FALSE] ELSE reqs[x]
    BY <1>1
  <2> QED BY <2>1, <2>2 DEF Request
<1>f. reqs' = [x \in Slots |-> reqs'[x]]
  BY <1>1
<1>3. Typed'
  BY <1>2, <1>s, <1>x, <1>f DEF ListInv, Typed, OnPage, NoLock
<1>4. OneHolder'
  <2>1. \A x \in Slots : ~Underway(x)' => reqs'[x].holds = "none"
    BY <1>s, <1>x DEF ListInv, OneHolder, Underway
  <2>2. \A x \in Slots : reqs'[x].holds \in Locks => reqs'[x].holds \in locked'
    BY <1>2, <1>s, <1>x DEF ListInv, OneHolder
  <2>3. \A x, y \in Slots : reqs'[x].holds \in Locks /\ reqs'[x].holds = reqs'[y].holds => x = y
    BY <1>s, <1>x DEF ListInv, OneHolder
  <2> QED BY <2>1, <2>2, <2>3 DEF OneHolder
<1>5. Confirmed'
  BY <1>2, <1>s, <1>x DEF ListInv, Confirmed
<1>6. Returned'
  <2>1. \A y \in Slots : reqs[y].holds \in Locks => y # s
    BY <1>1 DEF ListInv, OneHolder, Locks
  <2>2. locked \subseteq Locks
    BY DEF ListInv, Typed
  <2>3. \A l \in locked' : (\E y \in Slots : reqs'[y].holds = l) \/ (page = "admins" /\ l = "form")
    BY <1>2, <1>s, <1>x, <2>1, <2>2 DEF ListInv, Returned
  <2> QED BY <2>3, <1>s, <1>x DEF ListInv, Returned, OnPage
<1>7. InView'
  BY <1>s, <1>x DEF ListInv, InView, OnPage
<1>8. Fresh'
  <2>1. \A x \in Slots \ {s} : Changes(reqs[x])' = Changes(reqs[x])
    BY <1>x DEF Changes
  <2> QED BY <1>s, <1>x, <2>1 DEF ListInv, Fresh, OnPage
<1> QED BY <1>3, <1>4, <1>5, <1>6, <1>7, <1>8 DEF ListInv

\* A step that only touches the dialog.
LEMMA DialogKeeps ==
  ASSUME ListInv, UNCHANGED <<picked, locked, reqs>>, OnPage,
         dialog' \in Dialog, dialog'.targets = dialog'.told,
         \A t \in dialog'.targets : t.view = "current"
  PROVE  ListInv'
<1>1. Typed' /\ OneHolder'
  BY DEF ListInv, Typed, OneHolder, OnPage, Underway
<1>2. Confirmed' /\ Returned' /\ InView'
  BY DEF ListInv, Confirmed, Returned, InView, OnPage
<1>3. Fresh'
  BY DEF ListInv, Fresh, OnPage, Changes
<1> QED BY <1>1, <1>2, <1>3 DEF ListInv

LEMMA OpeningKeeps ==
  ASSUME ListInv, NEW kind \in DialogKinds, NEW use \in Uses, NEW targets \in SUBSET Target,
         Opens(kind, use, targets), \A t \in targets : t.view = "current"
  PROVE  ListInv'
<1>1. dialog' = [kind |-> kind, use |-> use, targets |-> targets, told |-> targets]
  BY DEF Opens
<1>2. dialog' \in Dialog
  BY <1>1 DEF Dialog
<1> QED BY <1>1, <1>2, DialogKeeps DEF Opens

LEMMA ClosingKeeps ==
  ASSUME ListInv, dialog' = NoDialog, UNCHANGED <<picked, locked, reqs>>, OnPage
  PROVE  ListInv'
  BY DialogKeeps DEF NoDialog, Dialog, DialogKinds, Uses

LEMMA PickingKeeps ==
  ASSUME ListInv, Picks
  PROVE  ListInv'
<1>1. PICK i \in Listed :
        picked' = IF [id |-> i, view |-> view] \in picked
                  THEN picked \ {[id |-> i, view |-> view]}
                  ELSE picked \cup {[id |-> i, view |-> view]}
  BY DEF Picks
<1>2. [id |-> i, view |-> view] \in Pick
  BY DEF ListInv, Typed, Listed, Pick
<1>3. picked' \in SUBSET Pick /\ \A t \in picked' : t.view = view
  BY <1>1, <1>2 DEF ListInv, Typed, InView
<1>4. UNCHANGED <<page, rows, view, list, answer, shown, dialog, locked, reqs, acked>>
  BY DEF Picks
<1>5. Typed' /\ OneHolder'
  BY <1>3, <1>4 DEF ListInv, Typed, OneHolder, Underway
<1>6. Confirmed' /\ Returned' /\ InView'
  BY <1>3, <1>4 DEF ListInv, Confirmed, Returned, InView
<1>7. Fresh'
  BY <1>4 DEF ListInv, Fresh, Changes
<1> QED BY <1>5, <1>6, <1>7 DEF ListInv

-----------------------------------------------------------------------------
(* The refetch of the list, and the server.                                *)

\* The refetch ends the requests that waited for it, with their locks.
LEMMA RefetchEnding ==
  ASSUME ListInv, RefetchEnds, UNCHANGED page
  PROVE  /\ reqs' \in [Slots -> Request] /\ locked' \subseteq locked /\ dialog' \in Dialog
         /\ \A s \in Slots : reqs'[s] = reqs[s] \/ reqs'[s] = IdleSlot
         /\ dialog' = dialog \/ dialog' = NoDialog
         /\ OneHolder' /\ Confirmed' /\ Returned'
<1> DEFINE ending == {s \in Slots : reqs[s].stage = "refreshing"}
<1>1. /\ reqs' = [s \in Slots |-> IF s \in ending THEN IdleSlot ELSE reqs[s]]
      /\ locked' = locked \ {reqs[s].holds : s \in ending}
      /\ dialog' = dialog \/ dialog' = NoDialog
  BY DEF RefetchEnds
<1>2. IdleSlot \in Request /\ NoDialog \in Dialog
  BY DEF IdleSlot, Request, NoDialog, Dialog, DialogKinds, Uses, Stages, Ops, NoLock
<1>3. reqs' \in [Slots -> Request] /\ dialog' \in Dialog
  BY <1>1, <1>2 DEF ListInv, Typed
<1>4. \A s \in Slots : /\ s \in ending => reqs'[s] = IdleSlot
                       /\ s \notin ending => reqs'[s] = reqs[s]
  BY <1>1
<1>i. IdleSlot.holds = "none" /\ IdleSlot.op = "none" /\ IdleSlot.use = "none" /\ IdleSlot.stage = "idle"
  BY DEF IdleSlot
<1> HIDE DEF ending
<1>5. OneHolder'
  <2>1. \A s \in Slots : ~Underway(s)' => reqs'[s].holds = "none"
    BY <1>4, <1>i DEF ListInv, OneHolder, Underway
  <2>2. \A s \in Slots : reqs'[s].holds \in Locks => reqs'[s].holds \in locked' /\ s \notin ending
    <3> SUFFICES ASSUME NEW s \in Slots, reqs'[s].holds \in Locks
                 PROVE  reqs'[s].holds \in locked' /\ s \notin ending
      OBVIOUS
    <3>1. s \notin ending
      BY <1>4, <1>i DEF Locks
    <3>2. \A x \in ending : x \in Slots /\ reqs[x].holds # reqs[s].holds
      BY <3>1, <1>4 DEF ListInv, OneHolder, ending
    <3> QED BY <3>1, <3>2, <1>1, <1>4 DEF ListInv, OneHolder
  <2>3. \A s, x \in Slots : reqs'[s].holds \in Locks /\ reqs'[s].holds = reqs'[x].holds => s = x
    <3> SUFFICES ASSUME NEW s \in Slots, NEW x \in Slots,
                        reqs'[s].holds \in Locks, reqs'[s].holds = reqs'[x].holds
                 PROVE  s = x
      OBVIOUS
    <3> QED BY <2>2, <1>4 DEF ListInv, OneHolder
  <2> QED BY <2>1, <2>2, <2>3 DEF OneHolder
<1>6. Confirmed'
  BY <1>1, <1>4, <1>i DEF ListInv, Confirmed, NoDialog, Deletes, Erases
<1>7. Returned'
  <2>1. \A l \in locked' : l \in locked /\ \A s \in ending : reqs[s].holds # l
    BY <1>1
  <2>2. \A l \in locked' : (\E s \in Slots : reqs'[s].holds = l) \/ (page = "admins" /\ l = "form")
    BY <2>1, <1>4 DEF ListInv, Returned
  <2> QED BY <2>2, <1>4, <1>i DEF ListInv, Returned
<1> QED BY <1>1, <1>3, <1>4, <1>5, <1>6, <1>7

\* What RefetchEnds keeps, when what it does to the list is fresh.
LEMMA RefetchKeeps ==
  ASSUME ListInv, RefetchEnds, UNCHANGED <<page, rows, acked>>,
         view' \in Views, page \notin Recycling => view' = "current",
         (picked' = picked /\ view' = view) \/ picked' = {},
         list' \in {"loading", "idle", "due", "failed", "broken"},
         answer' = NoAnswer,
         shown' \in [Ids -> Row],
         list' = "idle" => \A i \in Ids : acked[i] <= shown'[i].rev
  PROVE  ListInv'
<1>1. /\ reqs' \in [Slots -> Request] /\ locked' \subseteq locked /\ dialog' \in Dialog
      /\ \A s \in Slots : reqs'[s] = reqs[s] \/ reqs'[s] = IdleSlot
      /\ dialog' = dialog \/ dialog' = NoDialog
      /\ OneHolder' /\ Confirmed' /\ Returned'
  BY RefetchEnding
<1>i. /\ IdleSlot.targets = {} /\ IdleSlot.answered = {} /\ IdleSlot.op = "none"
      /\ IdleSlot.use = "none" /\ IdleSlot.stage = "idle" /\ NoDialog.targets = {}
  BY DEF IdleSlot, NoDialog
<1>2. Typed'
  BY <1>1 DEF ListInv, Typed
<1>3. InView'
  BY <1>1, <1>i DEF ListInv, InView, Restores
<1>4. Fresh'
  <2>1. \A s \in Slots : reqs'[s] = reqs[s] => Changes(reqs[s])' = Changes(reqs[s])
    BY DEF Changes
  <2>2. \A s \in Slots : reqs'[s].stage = "done" =>
          \A i \in Changes(reqs[s])' : \E t \in reqs'[s].answered : t.id = i
    BY <1>1, <1>i, <2>1 DEF ListInv, Fresh
  <2>3. \A s \in Slots : \A t \in reqs'[s].answered : t.rev <= rows[t.id].rev
    BY <1>1, <1>i DEF ListInv, Fresh
  <2>4. page \in {"users", "admins"} => \A s \in Slots : reqs'[s].use \in Quiet => reqs'[s].op \in Silent
    BY <1>1, <1>i DEF ListInv, Fresh, Quiet
  <2> QED BY <2>2, <2>3, <2>4 DEF ListInv, Fresh
<1> QED BY <1>1, <1>2, <1>3, <1>4 DEF ListInv

LEMMA ViewChangingKeeps ==
  ASSUME ListInv, NEW views \in SUBSET Views, ViewChanges(views),
         page \in Recycling \/ views = {"current"}
  PROVE  ListInv'
  BY RefetchKeeps DEF ViewChanges, ListInv, Typed, Views

LEMMA ListStepsKeep ==
  ASSUME ListInv, ListSteps
  PROVE  ListInv'
<1>1. CASE Reload
  <2>1. Typed' /\ OneHolder' /\ Confirmed' /\ Returned'
    BY <1>1 DEF Reload, ListInv, Typed, OneHolder, Confirmed, Returned, Underway
  <2>2. InView' /\ Fresh'
    BY <1>1 DEF Reload, ListInv, InView, Fresh, Changes
  <2> QED BY <2>1, <2>2 DEF ListInv
<1>2. CASE ReadRows
  <2>1. Typed' /\ OneHolder' /\ Confirmed' /\ Returned'
    BY <1>2 DEF ReadRows, ListInv, Typed, OneHolder, Confirmed, Returned, Underway
  <2>2. InView' /\ Fresh'
    BY <1>2 DEF ReadRows, ListInv, InView, Fresh, Changes
  <2> QED BY <2>1, <2>2 DEF ListInv
<1>3. CASE ListArrives
  <2>1. answer \in [Ids -> Row] /\ \A i \in Ids : acked[i] <= answer[i].rev
    BY <1>3 DEF ListArrives, ListInv, Typed, Fresh
  <2>2. view \in Views /\ (page \notin Recycling => view = "current")
    BY DEF ListInv, Typed, InView
  <2> QED BY <1>3, <2>1, <2>2, RefetchKeeps DEF ListArrives
<1>4. CASE ListFails
  <2>1. shown \in [Ids -> Row]
    BY DEF ListInv, Typed
  <2>2. view \in Views /\ (page \notin Recycling => view = "current")
    BY DEF ListInv, Typed, InView
  <2> QED BY <1>4, <2>1, <2>2, RefetchKeeps DEF ListFails
<1> QED BY <1>1, <1>2, <1>3, <1>4 DEF ListSteps

LEMMA ElsewhereKeeps ==
  ASSUME ListInv, Elsewhere
  PROVE  ListInv'
<1>1. PICK i \in Ids, state \in Views :
        rows' = [rows EXCEPT ![i] = [state |-> state, rev |-> rows[i].rev + 1]]
  BY DEF Elsewhere
<1>2. rows' \in [Ids -> Row] /\ \A j \in Ids : rows[j].rev <= rows'[j].rev
  BY <1>1 DEF ListInv, Typed, Row, Views
<1>3. UNCHANGED <<page, view, list, answer, shown, picked, dialog, locked, reqs, acked>>
  BY DEF Elsewhere
<1>4. Typed' /\ OneHolder' /\ Confirmed' /\ Returned' /\ InView'
  BY <1>2, <1>3 DEF ListInv, Typed, OneHolder, Confirmed, Returned, InView, Underway
<1>5. Fresh'
  <2>1. \A j \in Ids : acked[j] \in Nat /\ rows[j].rev \in Nat /\ rows'[j].rev \in Nat
    BY <1>2 DEF ListInv, Typed, Row
  <2>2. \A j \in Ids : acked[j] <= rows'[j].rev
    BY <1>2, <2>1 DEF ListInv, Fresh
  <2>3. \A s \in Slots : \A t \in reqs[s].answered : t.rev <= rows'[t.id].rev
    <3> SUFFICES ASSUME NEW s \in Slots, NEW t \in reqs[s].answered
                 PROVE  t.rev <= rows'[t.id].rev
      OBVIOUS
    <3>1. t \in Target
      BY DEF ListInv, Typed, Request
    <3>2. t.id \in Ids /\ t.rev \in Nat /\ t.rev <= rows[t.id].rev
      BY <3>1 DEF Target, ListInv, Fresh
    <3> QED BY <3>2, <1>2, <2>1
  <2> QED BY <1>3, <2>2, <2>3 DEF ListInv, Fresh, Changes
<1> QED BY <1>4, <1>5 DEF ListInv

-----------------------------------------------------------------------------
(* The requests.                                                           *)

\* A request that goes one stage on, with what it holds.
LEMMA StageKeeps ==
  ASSUME ListInv, NEW s \in Slots, Underway(s), NEW stage \in Stages \ {"idle", "done"},
         reqs' = [reqs EXCEPT ![s].stage = stage],
         UNCHANGED <<page, rows, view, list, answer, shown, picked, dialog, locked, acked>>
  PROVE  ListInv'
<1>1. \A x \in Slots :
        /\ reqs'[x] \in Request
        /\ reqs'[x].use = reqs[x].use /\ reqs'[x].op = reqs[x].op
        /\ reqs'[x].targets = reqs[x].targets /\ reqs'[x].told = reqs[x].told
        /\ reqs'[x].holds = reqs[x].holds /\ reqs'[x].answered = reqs[x].answered
        /\ reqs'[x].stage = IF x = s THEN stage ELSE reqs[x].stage
  <2> SUFFICES ASSUME NEW x \in Slots
               PROVE  /\ reqs'[x] \in Request
                      /\ reqs'[x].use = reqs[x].use /\ reqs'[x].op = reqs[x].op
                      /\ reqs'[x].targets = reqs[x].targets /\ reqs'[x].told = reqs[x].told
                      /\ reqs'[x].holds = reqs[x].holds /\ reqs'[x].answered = reqs[x].answered
                      /\ reqs'[x].stage = IF x = s THEN stage ELSE reqs[x].stage
    OBVIOUS
  <2>1. reqs[x] \in Request
    BY DEF ListInv, Typed
  <2>2. reqs'[x] = IF x = s THEN [reqs[x] EXCEPT !.stage = stage] ELSE reqs[x]
    BY DEF ListInv, Typed
  <2> QED BY <2>1, <2>2 DEF Request
<1>f. reqs' = [x \in Slots |-> reqs'[x]]
  BY DEF ListInv, Typed
<1>2. Typed'
  BY <1>1, <1>f DEF ListInv, Typed
<1>3. OneHolder' /\ Confirmed' /\ Returned' /\ InView'
  BY <1>1 DEF ListInv, OneHolder, Confirmed, Returned, InView, Underway
<1>4. Fresh'
  <2>1. \A x \in Slots : Changes(reqs[x])' = Changes(reqs[x])
    BY <1>1 DEF Changes
  <2> QED BY <1>1, <2>1 DEF ListInv, Fresh
<1> QED BY <1>2, <1>3, <1>4 DEF ListInv

\* A slot that is given back with its lock.
LEMMA FreeingKeeps ==
  ASSUME ListInv, NEW s \in Slots,
         reqs' = [reqs EXCEPT ![s] = IdleSlot],
         locked' = locked \ {reqs[s].holds},
         UNCHANGED <<page, rows, view, list, answer, shown>>,
         dialog' \in Dialog, dialog'.targets = dialog'.told,
         \A t \in dialog'.targets : t.view = "current",
         picked' = picked \/ picked' = {},
         acked' = acked
  PROVE  ListInv'
<1>1. \A x \in Slots : reqs'[x] = IF x = s THEN IdleSlot ELSE reqs[x]
  BY DEF ListInv, Typed
<1>i. /\ IdleSlot.targets = {} /\ IdleSlot.answered = {} /\ IdleSlot.op = "none"
      /\ IdleSlot.use = "none" /\ IdleSlot.stage = "idle" /\ IdleSlot.holds = "none"
      /\ IdleSlot \in Request
  BY DEF IdleSlot, Request, Stages, Uses, Ops, NoLock
<1>2. Typed'
  BY <1>i DEF ListInv, Typed
<1>3. OneHolder'
  BY <1>1, <1>i DEF ListInv, OneHolder, Underway, Locks
<1>4. Confirmed'
  BY <1>1, <1>i DEF ListInv, Confirmed, Deletes, Erases
<1>5. Returned'
  BY <1>1, <1>i DEF ListInv, Returned
<1>6. InView'
  BY <1>1, <1>i DEF ListInv, InView, Restores
<1>7. Fresh'
  <2>1. \A x \in Slots \ {s} : Changes(reqs[x])' = Changes(reqs[x])
    BY <1>1 DEF Changes
  <2> QED BY <1>1, <1>i, <2>1 DEF ListInv, Fresh, Quiet
<1> QED BY <1>2, <1>3, <1>4, <1>5, <1>6, <1>7 DEF ListInv

LEMMA StartingKeeps ==
  ASSUME ListInv, NEW s \in Slots, Starts(s)
  PROVE  ListInv'
  BY StageKeeps DEF Starts, Underway, Stages

LEMMA BreakingKeeps ==
  ASSUME ListInv, NEW s \in Slots, Breaks(s)
  PROVE  ListInv'
  BY StageKeeps DEF Breaks, Underway, Stages

LEMMA FailingKeeps ==
  ASSUME ListInv, NEW s \in Slots, Fails(s)
  PROVE  ListInv'
<1>1. /\ dialog \in Dialog /\ dialog.targets = dialog.told
      /\ \A t \in dialog.targets : t.view = "current"
  BY DEF ListInv, Typed, Confirmed, InView
<1> QED BY <1>1, FreeingKeeps DEF Fails

\* The answer of a preview opens the confirmation.
LEMMA PreviewedKeeps ==
  ASSUME ListInv, page \in {"categories", "tags"}, Previewed
  PROVE  ListInv'
<1>1. PICK s \in Slots :
        /\ reqs[s].use = "preview"
        /\ dialog' = [kind |-> "confirm", use |-> "remove",
                      targets |-> reqs[s].answered, told |-> reqs[s].answered]
        /\ reqs' = [reqs EXCEPT ![s] = IdleSlot]
        /\ UNCHANGED <<picked, locked>>
        /\ OnPage
  BY DEF Previewed
<1>2. reqs[s] \in Request /\ locked \in SUBSET Locks
  BY DEF ListInv, Typed
<1>3. reqs[s].answered \in SUBSET Target
  BY <1>2 DEF Request
<1>4. dialog' \in Dialog /\ dialog'.targets = dialog'.told
  BY <1>1, <1>3 DEF Dialog, DialogKinds, Uses
<1>5. \A t \in dialog'.targets : t.view = "current"
  BY <1>1 DEF ListInv, InView, ExpectedView, Recycling
<1>6. reqs[s].holds = "none"
  BY <1>1 DEF ListInv, Returned
<1>7. locked' = locked \ {reqs[s].holds}
  BY <1>1, <1>2, <1>6 DEF Locks
<1> QED BY <1>1, <1>4, <1>5, <1>7, FreeingKeeps DEF OnPage

\* The drawer of an administrator drops the callback of the save before it.
LEMMA EditingKeeps ==
  ASSUME ListInv, page = "admins", NEW i \in Listed, AdminOpensEdit(i)
  PROVE  ListInv'
<1>1. /\ dialog' = [kind |-> "form", use |-> "edit", targets |-> {TargetOf(i)}, told |-> {TargetOf(i)}]
      /\ reqs' = [s \in Slots |-> IF reqs[s].use = "edit"
                                  THEN [reqs[s] EXCEPT !.holds = "none", !.newest = FALSE]
                                  ELSE reqs[s]]
      /\ UNCHANGED <<picked, locked>>
      /\ OnPage
  BY DEF AdminOpensEdit
<1>2. dialog' \in Dialog /\ dialog'.targets = dialog'.told /\ \A t \in dialog'.targets : t.view = "current"
  <2>1. TargetOf(i) \in Target /\ TargetOf(i).view = "current"
    BY ListedTargets DEF ListInv, InView, Recycling
  <2> QED BY <1>1, <2>1 DEF Dialog, DialogKinds, Uses
<1>3. \A s \in Slots :
        /\ reqs'[s] \in Request
        /\ reqs'[s].use = reqs[s].use /\ reqs'[s].op = reqs[s].op
        /\ reqs'[s].targets = reqs[s].targets /\ reqs'[s].told = reqs[s].told
        /\ reqs'[s].stage = reqs[s].stage /\ reqs'[s].answered = reqs[s].answered
        /\ reqs'[s].holds = IF reqs[s].use = "edit" THEN "none" ELSE reqs[s].holds
  <2> SUFFICES ASSUME NEW s \in Slots
               PROVE  /\ reqs'[s] \in Request
                      /\ reqs'[s].use = reqs[s].use /\ reqs'[s].op = reqs[s].op
                      /\ reqs'[s].targets = reqs[s].targets /\ reqs'[s].told = reqs[s].told
                      /\ reqs'[s].stage = reqs[s].stage /\ reqs'[s].answered = reqs[s].answered
                      /\ reqs'[s].holds = IF reqs[s].use = "edit" THEN "none" ELSE reqs[s].holds
    OBVIOUS
  <2>1. reqs[s] \in Request
    BY DEF ListInv, Typed
  <2>2. CASE reqs[s].use = "edit"
    <3>1. reqs'[s] = [reqs[s] EXCEPT !.holds = "none", !.newest = FALSE]
      BY <1>1, <2>2
    <3> QED BY <2>1, <2>2, <3>1 DEF Request, NoLock
  <2>3. CASE reqs[s].use # "edit"
    BY <1>1, <2>1, <2>3
  <2> QED BY <2>2, <2>3
<1>f. reqs' = [x \in Slots |-> reqs'[x]]
  BY <1>1
<1>u. UNCHANGED <<page, rows, view, list, answer, shown, picked, locked, acked>>
  BY <1>1 DEF OnPage
<1>4. Typed'
  BY <1>u, <1>2, <1>3, <1>f DEF ListInv, Typed
<1>5. OneHolder'
  BY <1>u, <1>3 DEF ListInv, OneHolder, Underway, Locks
<1>6. Confirmed'
  <2>1. \A s \in Slots : reqs[s].use = "edit" => reqs[s].holds \in {"form", "none"}
    BY DEF ListInv, Returned
  <2> QED BY <2>1, <1>2, <1>3 DEF ListInv, Confirmed
<1>7. Returned'
  <2>1. \A s \in Slots : reqs[s].use = "edit" => reqs[s].holds \in {"form", "none"}
    BY DEF ListInv, Returned
  <2>2. \A l \in locked : (\E s \in Slots : reqs'[s].holds = l) \/ (page = "admins" /\ l = "form")
    <3> SUFFICES ASSUME NEW l \in locked, l # "form"
                 PROVE  \E s \in Slots : reqs'[s].holds = l
      OBVIOUS
    <3>1. PICK s \in Slots : reqs[s].holds = l
      BY DEF ListInv, Returned
    <3>2. l # "none"
      BY DEF ListInv, Typed, Locks
    <3> QED BY <3>1, <3>2, <2>1, <1>3
  <2> QED BY <2>2, <1>u, <1>3 DEF ListInv, Returned
<1>8. InView'
  BY <1>u, <1>2, <1>3 DEF ListInv, InView
<1>9. Fresh'
  <2>1. \A x \in Slots : Changes(reqs[x])' = Changes(reqs[x])
    BY <1>3 DEF Changes
  <2> QED BY <1>u, <1>3, <2>1 DEF ListInv, Fresh
<1> QED BY <1>4, <1>5, <1>6, <1>7, <1>8, <1>9 DEF ListInv

\* A request in another stage with another answer, which holds what it held.
Served(r, answered) == [r EXCEPT !.stage = "done", !.answered = answered]
Refreshing(r, closes) == [r EXCEPT !.stage = "refreshing", !.answered = {}, !.closes = closes]
SameBut(t, r, stage, answered) ==
  /\ t \in Request /\ t.use = r.use /\ t.op = r.op /\ t.targets = r.targets
  /\ t.told = r.told /\ t.holds = r.holds /\ t.answered = answered /\ t.stage = stage

LEMMA ServedFields ==
  ASSUME NEW r \in Request, NEW answered \in SUBSET Target
  PROVE  SameBut(Served(r, answered), r, "done", answered)
  BY DEF SameBut, Served, Request, Stages

LEMMA RefreshingFields ==
  ASSUME NEW r \in Request, NEW closes \in BOOLEAN
  PROVE  SameBut(Refreshing(r, closes), r, "refreshing", {})
  BY DEF SameBut, Refreshing, Request, Stages

LEMMA AnsweredFields ==
  ASSUME ListInv, NEW s \in Slots, NEW stage, NEW answered, NEW t,
         SameBut(t, reqs[s], stage, answered),
         reqs' = [x \in Slots |-> IF x = s THEN t ELSE reqs[x]]
  PROVE  /\ reqs' \in [Slots -> Request]
         /\ \A x \in Slots :
              /\ reqs'[x].use = reqs[x].use /\ reqs'[x].op = reqs[x].op
              /\ reqs'[x].targets = reqs[x].targets /\ reqs'[x].told = reqs[x].told
              /\ reqs'[x].holds = reqs[x].holds
              /\ reqs'[x].answered = IF x = s THEN answered ELSE reqs[x].answered
              /\ reqs'[x].stage = IF x = s THEN stage ELSE reqs[x].stage
  BY DEF SameBut, ListInv, Typed

LEMMA ServingKeeps ==
  ASSUME ListInv, NEW s \in Slots, Serves(s)
  PROVE  ListInv'
<1>u. UNCHANGED <<page, view, list, answer, shown, picked, dialog, locked, acked>> /\ reqs[s].stage = "sent"
  BY DEF Serves
<1>1. CASE Accepts(reqs[s])
  <2> DEFINE stamped(t) == [t EXCEPT !.rev = rows'[t.id].rev]
             given == {stamped(t) : t \in reqs[s].targets}
  <2>1. /\ rows' = [i \in Ids |-> IF i \in Changes(reqs[s]) THEN Written(reqs[s].op, rows[i]) ELSE rows[i]]
        /\ reqs' = [reqs EXCEPT ![s].stage = "done", ![s].answered = given]
    BY <1>1 DEF Serves
  <2>2. /\ rows' \in [Ids -> Row]
        /\ \A j \in Ids : rows[j].rev \in Nat /\ rows'[j].rev \in Nat /\ rows[j].rev <= rows'[j].rev
    <3> SUFFICES ASSUME NEW j \in Ids
                 PROVE  /\ rows'[j] \in Row
                        /\ rows[j].rev \in Nat /\ rows'[j].rev \in Nat /\ rows[j].rev <= rows'[j].rev
      BY <2>1
    <3>1. rows[j] \in Row
      BY DEF ListInv, Typed
    <3>2. rows'[j] = Written(reqs[s].op, rows[j]) \/ rows'[j] = rows[j]
      BY <2>1
    <3> QED BY <3>1, <3>2 DEF Row, Written, Views
  <2>3. \A t \in reqs[s].targets : t \in Target
    BY DEF ListInv, Typed, Request
  <2>4. \A t \in reqs[s].targets :
          /\ stamped(t) \in Target /\ stamped(t).id = t.id
          /\ stamped(t).view = t.view /\ stamped(t).rev = rows'[t.id].rev
    <3> SUFFICES ASSUME NEW t \in reqs[s].targets
                 PROVE  /\ stamped(t) \in Target /\ stamped(t).id = t.id
                        /\ stamped(t).view = t.view /\ stamped(t).rev = rows'[t.id].rev
      OBVIOUS
    <3>1. t \in Target
      BY <2>3
    <3>2. rows'[t.id].rev \in Nat
      BY <2>2, <3>1 DEF Target
    <3> QED BY <3>1, <3>2 DEF Target
  <2> HIDE DEF stamped
  <2>5. /\ given \in SUBSET Target
        /\ \A u \in given : u.rev = rows'[u.id].rev /\ u.view = ExpectedView(reqs[s].op)
        /\ \A t \in reqs[s].targets : \E u \in given : u.id = t.id
    BY <2>4 DEF ListInv, InView
  <2> HIDE DEF given
  <2>6. /\ reqs' \in [Slots -> Request]
        /\ \A x \in Slots :
              /\ reqs'[x].use = reqs[x].use /\ reqs'[x].op = reqs[x].op
              /\ reqs'[x].targets = reqs[x].targets /\ reqs'[x].told = reqs[x].told
              /\ reqs'[x].holds = reqs[x].holds
              /\ reqs'[x].answered = IF x = s THEN given ELSE reqs[x].answered
              /\ reqs'[x].stage = IF x = s THEN "done" ELSE reqs[x].stage
    <3>1. reqs[s] \in Request /\ reqs \in [Slots -> Request]
      BY DEF ListInv, Typed
    <3>2. reqs' = [x \in Slots |-> IF x = s THEN Served(reqs[s], given) ELSE reqs[x]]
      BY <2>1, <3>1 DEF Served
    <3> QED BY <2>5, <3>1, <3>2, ServedFields, AnsweredFields
  <2>7. Typed'
    BY <1>u, <2>2, <2>6 DEF ListInv, Typed
  <2>8. OneHolder' /\ Confirmed' /\ Returned' /\ InView'
    BY <1>u, <2>5, <2>6 DEF ListInv, OneHolder, Confirmed, Returned, InView, Underway
  <2>9. Fresh'
    <3>1. \A j \in Ids : acked[j] \in Nat /\ acked[j] <= rows'[j].rev
      BY <2>2 DEF ListInv, Typed, Fresh
    <3>2. \A x \in Slots : \A t \in reqs'[x].answered : t.rev <= rows'[t.id].rev
      <4> SUFFICES ASSUME NEW x \in Slots, NEW t \in reqs'[x].answered
                   PROVE  t.rev <= rows'[t.id].rev
        OBVIOUS
      <4>1. t \in Target
        BY <2>6 DEF Request
      <4>2. t.id \in Ids /\ t.rev \in Nat
        BY <4>1 DEF Target
      <4>3. CASE x = s
        BY <2>2, <2>5, <2>6, <4>2, <4>3
      <4>4. CASE x # s
        BY <2>2, <2>6, <4>2, <4>4 DEF ListInv, Fresh
      <4> QED BY <4>3, <4>4
    <3>3. \A x \in Slots : Changes(reqs[x])' = Changes(reqs[x])
      BY <2>6 DEF Changes
    <3>4. \A i \in Changes(reqs[s]) : \E t \in given : t.id = i
      BY <2>5 DEF Changes
    <3>5. \A x \in Slots : reqs'[x].stage = "done" =>
            \A i \in Changes(reqs[x])' : \E t \in reqs'[x].answered : t.id = i
      BY <2>6, <3>3, <3>4 DEF ListInv, Fresh
    <3> QED BY <1>u, <2>6, <3>1, <3>2, <3>5 DEF ListInv, Fresh
  <2> QED BY <2>7, <2>8, <2>9 DEF ListInv
<1>2. CASE ~Accepts(reqs[s])
  <2>1. reqs' = [reqs EXCEPT ![s].stage = "refused"] /\ UNCHANGED rows
    BY <1>2 DEF Serves
  <2> QED BY <1>u, <2>1, StageKeeps DEF Underway, Stages
<1> QED BY <1>1, <1>2

LEMMA SucceedingKeeps ==
  ASSUME ListInv, NEW s \in Slots, NEW effect, Succeeds(effect, s),
         ~effect.refreshes => reqs[s].op \in Silent
  PROVE  ListInv'
<1>u. /\ UNCHANGED <<page, rows, view>> /\ reqs[s].stage = "done"
      /\ dialog' = dialog \/ dialog' = NoDialog
      /\ picked' = picked \/ picked' = {}
  BY DEF Succeeds
<1>d. /\ dialog' \in Dialog /\ dialog'.targets = dialog'.told
      /\ \A t \in dialog'.targets : t.view = "current"
  <2>1. NoDialog \in Dialog /\ NoDialog.targets = {} /\ NoDialog.told = {}
    BY DEF NoDialog, Dialog, DialogKinds, Uses
  <2> QED BY <1>u, <2>1 DEF ListInv, Typed, Confirmed, InView
<1>a. acked' = [i \in Ids |->
                 IF list # "loading" /\ i \in Changes(reqs[s])
                 THEN Later(acked[i], (CHOOSE t \in reqs[s].answered : t.id = i).rev)
                 ELSE acked[i]]
  BY DEF Succeeds
<1>1. CASE effect.refreshes
  <2>1. /\ reqs' = [reqs EXCEPT ![s].stage = "refreshing", ![s].answered = {},
                               ![s].closes = effect.closes = "last"]
        /\ Invalidated /\ UNCHANGED locked
    BY <1>1 DEF Succeeds
  <2>2. /\ reqs' \in [Slots -> Request]
        /\ \A x \in Slots :
              /\ reqs'[x].use = reqs[x].use /\ reqs'[x].op = reqs[x].op
              /\ reqs'[x].targets = reqs[x].targets /\ reqs'[x].told = reqs[x].told
              /\ reqs'[x].holds = reqs[x].holds
              /\ reqs'[x].answered = IF x = s THEN {} ELSE reqs[x].answered
              /\ reqs'[x].stage = IF x = s THEN "refreshing" ELSE reqs[x].stage
    <3>1. reqs[s] \in Request /\ reqs \in [Slots -> Request]
      BY DEF ListInv, Typed
    <3>2. PICK closes \in BOOLEAN :
            reqs' = [x \in Slots |-> IF x = s THEN Refreshing(reqs[s], closes) ELSE reqs[x]]
      BY <2>1, <3>1 DEF Refreshing
    <3> QED BY <3>1, <3>2, RefreshingFields, AnsweredFields
  <2>3. /\ list' \in {"loading", "due"} /\ UNCHANGED shown
        /\ list = "loading" => answer' = answer
        /\ list # "loading" => answer' = NoAnswer
    BY <2>1 DEF Invalidated
  <2>4. \A i \in Ids : /\ acked'[i] \in Nat /\ acked'[i] <= rows[i].rev
                       /\ list = "loading" => acked'[i] = acked[i]
    <3> SUFFICES ASSUME NEW i \in Ids
                 PROVE  /\ acked'[i] \in Nat /\ acked'[i] <= rows[i].rev
                        /\ list = "loading" => acked'[i] = acked[i]
      OBVIOUS
    <3>1. acked[i] \in Nat /\ acked[i] <= rows[i].rev
      BY DEF ListInv, Typed, Fresh
    <3>2. CASE list # "loading" /\ i \in Changes(reqs[s])
      <4> DEFINE told == CHOOSE t \in reqs[s].answered : t.id = i
      <4>1. told \in reqs[s].answered /\ told.id = i
        BY <3>2, <1>u DEF ListInv, Fresh
      <4>2. acked'[i] = Later(acked[i], told.rev)
        BY <1>a, <3>2
      <4> HIDE DEF told
      <4>3. told \in Target
        BY <4>1 DEF ListInv, Typed, Request
      <4>4. told.rev \in Nat /\ told.rev <= rows[i].rev
        BY <4>1, <4>3 DEF Target, ListInv, Fresh
      <4> QED BY <3>1, <3>2, <4>2, <4>4 DEF Later
    <3>3. CASE ~(list # "loading" /\ i \in Changes(reqs[s]))
      BY <1>a, <3>1, <3>3
    <3> QED BY <3>2, <3>3
  <2>5. acked' \in [Ids -> Nat]
    <3>1. acked' = [i \in Ids |-> acked'[i]]
      BY <1>a
    <3> QED BY <2>4, <3>1
  <2>6. Typed'
    BY <1>u, <1>d, <2>1, <2>2, <2>3, <2>5 DEF ListInv, Typed
  <2>7. OneHolder' /\ Confirmed' /\ Returned' /\ InView'
    BY <1>u, <1>d, <2>1, <2>2 DEF ListInv, OneHolder, Confirmed, Returned, InView, Underway
  <2>8. Fresh'
    <3>1. \A x \in Slots : Changes(reqs[x])' = Changes(reqs[x])
      BY <2>2 DEF Changes
    <3>2. answer' # NoAnswer => \A i \in Ids : acked'[i] <= answer'[i].rev
      BY <2>3, <2>4 DEF ListInv, Fresh
    <3> QED BY <1>u, <2>2, <2>3, <2>4, <3>1, <3>2 DEF ListInv, Fresh
  <2> QED BY <2>6, <2>7, <2>8 DEF ListInv
<1>2. CASE ~effect.refreshes
  <2>1. /\ reqs' = [reqs EXCEPT ![s] = IdleSlot]
        /\ locked' = locked \ {reqs[s].holds}
        /\ UNCHANGED <<list, answer, shown>>
    BY <1>2 DEF Succeeds
  <2>2. Changes(reqs[s]) = {}
    BY <1>2 DEF Changes
  <2>3. acked' = acked
    BY <1>a, <2>2 DEF ListInv, Typed
  <2> QED BY <1>u, <1>d, <2>1, <2>3, FreeingKeeps
<1> QED BY <1>1, <1>2

-----------------------------------------------------------------------------
(* The acts of the pages.                                                  *)

LEMMA FittingKeeps ==
  ASSUME ListInv,
         NEW stage \in {"sent", "checking"}, NEW use \in Uses, NEW op \in Ops,
         NEW gates \in SUBSET AskedFor, NEW targets \in SUBSET Target,
         NEW lock \in Locks \cup NoLock, lock \notin locked,
         Makes(stage, use, op, gates, targets, targets, lock),
         UNCHANGED <<picked, dialog>>, OnPage,
         \A t \in targets : t.view = ExpectedView(op),
         Fits(use, op, lock)
  PROVE  ListInv'
  BY MakingKeeps DEF Fits

LEMMA RowSendingKeeps ==
  ASSUME ListInv, NEW use \in Uses, NEW op \in Ops, NEW gates \in SUBSET AskedFor,
         NEW i \in Listed, NEW lock \in Locks \cup NoLock,
         RowSends(use, op, gates, i, lock), view = ExpectedView(op), Fits(use, op, lock)
  PROVE  ListInv'
<1>1. {TargetOf(i)} \in SUBSET Target /\ \A t \in {TargetOf(i)} : t.view = ExpectedView(op)
  BY ListedTargets
<1> QED BY <1>1, FittingKeeps DEF RowSends

LEMMA PickedSendingKeeps ==
  ASSUME ListInv, NEW use \in Uses, NEW op \in Ops, NEW gates \in SUBSET AskedFor,
         NEW targets \in SUBSET Target, NEW lock \in Locks \cup NoLock,
         PickedSends(use, op, gates, targets, lock),
         \A t \in targets : t.view = ExpectedView(op), Fits(use, op, lock)
  PROVE  ListInv'
  BY FittingKeeps DEF PickedSends

\* A request out of a dialog, whose targets come from the current view.
LEMMA DialogSendingKeeps ==
  ASSUME ListInv, NEW stage \in {"sent", "checking"}, NEW use \in Uses, NEW op \in Ops \ Restores,
         NEW gates \in SUBSET AskedFor, NEW lock \in Locks \cup NoLock,
         lock \notin locked,
         Makes(stage, use, op, gates, dialog.targets, dialog.told, lock),
         UNCHANGED <<picked, dialog>>, OnPage, Fits(use, op, lock)
  PROVE  ListInv'
<1>1. dialog.targets \in SUBSET Target /\ dialog.told = dialog.targets
  BY DEF ListInv, Typed, Dialog, Confirmed
<1>2. \A t \in dialog.targets : t.view = ExpectedView(op)
  BY DEF ListInv, InView, ExpectedView
<1>3. Makes(stage, use, op, gates, dialog.targets, dialog.targets, lock)
  BY <1>1
<1> QED BY <1>1, <1>2, <1>3, FittingKeeps

LEMMA NoneUnlocked == ASSUME ListInv PROVE "none" \notin locked /\ "none" \in Locks \cup NoLock
  BY DEF ListInv, Typed, Locks, NoLock

LEMMA ConfirmingKeeps ==
  ASSUME ListInv, NEW use \in Uses, NEW op \in Ops \ Restores, NEW gates \in SUBSET AskedFor,
         Confirms(use, op, gates), Fits(use, op, "confirm")
  PROVE  ListInv'
<1>1. "confirm" \in Locks \cup NoLock
  BY DEF Locks
<1> QED BY <1>1, DialogSendingKeeps DEF Confirms, ConfirmedTargets

LEMMA SubmittingKeeps ==
  ASSUME ListInv, NEW use \in Uses, NEW op \in Ops \ Restores, NEW gates \in SUBSET AskedFor,
         Submits(use, op, gates) \/ DrawerSends(use, op, gates), Fits(use, op, "none")
  PROVE  ListInv'
  BY NoneUnlocked, DialogSendingKeeps DEF Submits, DrawerSends

LEMMA LockedSubmittingKeeps ==
  ASSUME ListInv, NEW stage \in {"sent", "checking"}, NEW use \in Uses, NEW op \in Ops \ Restores,
         NEW gates \in SUBSET AskedFor,
         SubmitsLocked(stage, use, op, gates), Fits(use, op, "form")
  PROVE  ListInv'
<1>1. "form" \in Locks \cup NoLock
  BY DEF Locks
<1> QED BY <1>1, DialogSendingKeeps DEF SubmitsLocked

LEMMA RowOpeningKeeps ==
  ASSUME ListInv, NEW kind \in DialogKinds, NEW use \in Uses, NEW i \in Listed,
         Opens(kind, use, {TargetOf(i)}), view = "current"
  PROVE  ListInv'
<1>1. {TargetOf(i)} \in SUBSET Target /\ \A t \in {TargetOf(i)} : t.view = "current"
  BY ListedTargets
<1> QED BY <1>1, OpeningKeeps

LEMMA EmptyOpeningKeeps ==
  ASSUME ListInv, NEW kind \in DialogKinds, NEW use \in Uses, Opens(kind, use, {})
  PROVE  ListInv'
<1>1. {} \in SUBSET Target /\ \A t \in {} : t.view = "current"
  OBVIOUS
<1> QED BY <1>1, OpeningKeeps

LEMMA CancelsKeep ==
  ASSUME ListInv, NEW use \in Uses,
         CancelsConfirm \/ CancelsForm(use) \/ CancelsLocked(use) \/ ClosesDrawer
  PROVE  ListInv'
  BY ClosingKeeps DEF CancelsConfirm, CancelsForm, CancelsLocked, ClosesDrawer

LEMMA UsersKeep ==
  ASSUME ListInv, UsersNext
  PROVE  ListInv'
<1>p. page = "users"
  BY DEF UsersNext
<1> USE DEF Uses, Ops, AskedFor, DialogKinds
<1>v. CASE UserViewChanges
  BY <1>p, <1>v, ViewChangingKeeps DEF UserViewChanges, Recycling
<1>k. CASE Picks
  BY <1>k, PickingKeeps
<1>b. CASE UserBulkActs
  <2>1. CASE /\ view = "deleted"
             /\ PickedSends("batchRestore", "restoreUsersBulk", {"users:restore"}, PickedTargets, "none")
    <3>1. Fits("batchRestore", "restoreUsersBulk", "none") /\ ExpectedView("restoreUsersBulk") = "deleted"
      BY <1>p DEF Fits, Deletes, Erases, Restores, Recycling, Quiet, ExpectedView
    <3> QED BY <2>1, <3>1, PickedOnes, NoneUnlocked, PickedSendingKeeps
  <2>2. CASE /\ view = "current"
             /\ PickedSends("batchStatus", "setUserStatusBulk", {"users:update"}, PickedTargets, "none")
    <3>1. Fits("batchStatus", "setUserStatusBulk", "none") /\ ExpectedView("setUserStatusBulk") = "current"
      BY <1>p DEF Fits, Deletes, Erases, Restores, Recycling, Quiet, ExpectedView
    <3> QED BY <2>2, <3>1, PickedOnes, NoneUnlocked, PickedSendingKeeps
  <2>3. CASE view = "current" /\ Opens("confirm", "batchDelete", PickedTargets)
    BY <2>3, PickedOnes, OpeningKeeps
  <2> QED BY <1>b, <2>1, <2>2, <2>3 DEF UserBulkActs, OpensForPicked
<1>r. CASE UserRowActs
  <2> PICK i \in Listed :
        \/ view = "current" /\ RowSends("status", "setUserStatus", {"users:update"}, i, "none")
        \/ view = "deleted" /\ RowSends("restore", "restoreUser", {"users:restore"}, i, "none")
        \/ /\ view = "current"
           /\ \/ Opens("form", "edit", {TargetOf(i)})
              \/ Opens("form", "resetPassword", {TargetOf(i)})
              \/ Opens("drawer", "revokeSessions", {TargetOf(i)})
              \/ Opens("confirm", "batchDelete", {TargetOf(i)})
    BY <1>r DEF UserRowActs
  <2>1. CASE view = "current" /\ RowSends("status", "setUserStatus", {"users:update"}, i, "none")
    <3>1. Fits("status", "setUserStatus", "none") /\ ExpectedView("setUserStatus") = "current"
      BY <1>p DEF Fits, Deletes, Erases, Restores, Recycling, Quiet, ExpectedView
    <3> QED BY <2>1, <3>1, NoneUnlocked, RowSendingKeeps
  <2>2. CASE view = "deleted" /\ RowSends("restore", "restoreUser", {"users:restore"}, i, "none")
    <3>1. Fits("restore", "restoreUser", "none") /\ ExpectedView("restoreUser") = "deleted"
      BY <1>p DEF Fits, Deletes, Erases, Restores, Recycling, Quiet, ExpectedView
    <3> QED BY <2>2, <3>1, NoneUnlocked, RowSendingKeeps
  <2> QED BY <2>1, <2>2, RowOpeningKeeps
<1>f. Fits("create", "createUser", "none") /\ Fits("edit", "updateUser", "none")
  BY <1>p DEF Fits, Deletes, Erases, Restores, Recycling, Quiet
<1>g. Fits("resetPassword", "resetUserPassword", "none") /\ Fits("revokeSessions", "revokeUserSessions", "none")
  BY <1>p DEF Fits, Deletes, Erases, Restores, Recycling, Quiet, Silent
<1>h. Fits("batchDelete", "deleteUsersBulk", "confirm")
  BY <1>p DEF Fits, Restores, Recycling, Quiet
<1>o. {"createUser", "updateUser", "resetUserPassword", "revokeUserSessions", "deleteUsersBulk"}
        \subseteq Ops \ Restores
  BY DEF Restores
<1>c. CASE UserCreates
  BY <1>c, <1>f, <1>o, EmptyOpeningKeeps, SubmittingKeeps, CancelsKeep DEF UserCreates
<1>e. CASE UserEdits
  BY <1>e, <1>f, <1>o, SubmittingKeeps, CancelsKeep DEF UserEdits
<1>w. CASE UserPasswordResets
  BY <1>w, <1>g, <1>o, SubmittingKeeps, CancelsKeep DEF UserPasswordResets
<1>d. CASE UserDeletes
  BY <1>d, <1>h, <1>o, ConfirmingKeeps, CancelsKeep DEF UserDeletes
<1>s. CASE UserSessions
  BY <1>s, <1>g, <1>o, SubmittingKeeps, CancelsKeep DEF UserSessions
<1> QED BY <1>v, <1>k, <1>b, <1>r, <1>c, <1>e, <1>w, <1>d, <1>s DEF UsersNext

LEMMA AdminsKeep ==
  ASSUME ListInv, AdminsNext
  PROVE  ListInv'
<1>p. page = "admins" /\ view = "current"
  BY DEF AdminsNext, ListInv, InView, Recycling
<1> USE DEF Uses, Ops, AskedFor, DialogKinds
<1>v. CASE AdminViewChanges
  BY <1>v, ViewChangingKeeps DEF AdminViewChanges, Views
<1>k. CASE Picks
  BY <1>k, PickingKeeps
<1>f. /\ Fits("batchStatus", "setAdminStatusBulk", "none") /\ Fits("status", "setAdminStatus", "none")
      /\ Fits("superuser", "setAdminSuperuser", "none") /\ Fits("create", "createAdmin", "none")
      /\ Fits("edit", "updateAdmin", "form") /\ Fits("assignRoles", "assignAdminRoles", "none")
  BY <1>p DEF Fits, Deletes, Erases, Restores, Recycling, Quiet
<1>g. Fits("resetPassword", "resetAdminPassword", "none") /\ Fits("revokeSessions", "revokeAdminSessions", "none")
  BY <1>p DEF Fits, Deletes, Erases, Restores, Recycling, Quiet, Silent
<1>o. {"setAdminStatusBulk", "setAdminStatus", "setAdminSuperuser", "createAdmin", "updateAdmin",
       "assignAdminRoles", "resetAdminPassword", "revokeAdminSessions"} \subseteq Ops \ Restores
  BY DEF Restores
<1>w. /\ ExpectedView("setAdminStatusBulk") = "current" /\ ExpectedView("setAdminStatus") = "current"
      /\ ExpectedView("setAdminSuperuser") = "current"
  BY DEF ExpectedView, Restores
<1>b. CASE AdminBulkActs
  BY <1>b, <1>f, <1>p, <1>w, PickedOnes, NoneUnlocked, PickedSendingKeeps DEF AdminBulkActs
<1>t. CASE \E i \in Listed : AdminTogglesStatus(i)
  BY <1>t, <1>f, <1>p, <1>w, NoneUnlocked, RowSendingKeeps DEF AdminTogglesStatus
<1>i. CASE AdminIdentityActs
  BY <1>i, <1>f, <1>p, <1>w, NoneUnlocked, RowSendingKeeps DEF AdminIdentityActs
<1>m. CASE AdminMenuActs
  BY <1>m, <1>t, <1>p, RowOpeningKeeps DEF AdminMenuActs
<1>r. CASE AdminRowActs
  BY <1>r, <1>p, EditingKeeps, RowOpeningKeeps DEF AdminRowActs
<1>c. CASE AdminCreates
  BY <1>c, <1>f, <1>o, EmptyOpeningKeeps, SubmittingKeeps, CancelsKeep DEF AdminCreates
<1>e. CASE AdminEdits
  BY <1>e, <1>f, <1>o, LockedSubmittingKeeps, CancelsKeep DEF AdminEdits
<1>x. CASE AdminPasswordResets
  BY <1>x, <1>g, <1>o, SubmittingKeeps, CancelsKeep DEF AdminPasswordResets
<1>a. CASE AdminRoles
  BY <1>a, <1>f, <1>o, SubmittingKeeps, CancelsKeep DEF AdminRoles
<1>s. CASE AdminSessions
  BY <1>s, <1>g, <1>o, SubmittingKeeps, CancelsKeep DEF AdminSessions
<1> QED BY <1>v, <1>k, <1>b, <1>t, <1>i, <1>m, <1>r, <1>c, <1>e, <1>x, <1>a, <1>s DEF AdminsNext, AdminTagActs

LEMMA RolesKeep ==
  ASSUME ListInv, RolesNext
  PROVE  ListInv'
<1>p. page = "roles" /\ view = "current"
  BY DEF RolesNext, ListInv, InView, Recycling
<1> USE DEF Uses, Ops, AskedFor, DialogKinds
<1>k. CASE Picks
  BY <1>k, PickingKeeps
<1>f. /\ Fits("batchStatus", "setRoleStatusBulk", "none") /\ Fits("status", "updateRole", "none")
      /\ Fits("saveRole", "createRole", "none") /\ Fits("saveRole", "updateRole", "none")
      /\ Fits("assignPermissions", "assignPermissions", "none")
      /\ Fits("batchDelete", "deleteRolesBulk", "confirm") /\ Fits("deleteRole", "deleteRole", "confirm")
  BY <1>p DEF Fits, Deletes, Erases, Restores, Recycling, Quiet
<1>o. {"setRoleStatusBulk", "updateRole", "createRole", "assignPermissions", "deleteRolesBulk", "deleteRole"}
        \subseteq Ops \ Restores
  BY DEF Restores
<1>w. ExpectedView("setRoleStatusBulk") = "current" /\ ExpectedView("updateRole") = "current"
  BY DEF ExpectedView, Restores
<1>b. CASE RoleBulkActs
  <2>1. CASE PickedSends("batchStatus", "setRoleStatusBulk", {"roles:update"}, PickedTargets, "none")
    BY <2>1, <1>f, <1>p, <1>w, PickedOnes, NoneUnlocked, PickedSendingKeeps
  <2>2. CASE OpensForPicked("confirm", "batchDelete", PickedTargets)
    BY <2>2, <1>p, PickedOnes, OpeningKeeps DEF OpensForPicked
  <2> QED BY <1>b, <2>1, <2>2 DEF RoleBulkActs
<1>r. CASE RoleRowActs
  <2> PICK i \in Listed :
        \/ RowSends("status", "updateRole", {"roles:update"}, i, "none")
        \/ Opens("form", "saveRole", {TargetOf(i)})
        \/ Opens("form", "assignPermissions", {TargetOf(i)})
        \/ Opens("confirm", "deleteRole", {TargetOf(i)})
    BY <1>r DEF RoleRowActs
  <2>1. CASE RowSends("status", "updateRole", {"roles:update"}, i, "none")
    BY <2>1, <1>f, <1>p, <1>w, NoneUnlocked, RowSendingKeeps
  <2> QED BY <2>1, <1>p, RowOpeningKeeps
<1>c. CASE RoleCreates
  BY <1>c, EmptyOpeningKeeps DEF RoleCreates
<1>s. CASE RoleSaves
  BY <1>s, <1>f, <1>o, SubmittingKeeps, CancelsKeep DEF RoleSaves
<1>a. CASE RolePermissionSaves
  BY <1>a, <1>f, <1>o, SubmittingKeeps, CancelsKeep DEF RolePermissionSaves
<1>d. CASE RoleDeletes
  BY <1>d, <1>f, <1>o, ConfirmingKeeps, CancelsKeep DEF RoleDeletes
<1> QED BY <1>k, <1>b, <1>r, <1>c, <1>s, <1>a, <1>d DEF RolesNext

LEMMA AssetsKeep ==
  ASSUME ListInv, AssetsNext
  PROVE  ListInv'
<1>p. page = "assets" /\ view = "current"
  BY DEF AssetsNext, ListInv, InView, Recycling
<1> USE DEF Uses, Ops, AskedFor, DialogKinds
<1>v. CASE AssetViewChanges
  BY <1>v, ViewChangingKeeps DEF AssetViewChanges, Views
<1>k. CASE Picks
  BY <1>k, PickingKeeps
<1>b. CASE AssetBulkActs
  BY <1>b, <1>p, PickedOnes, OpeningKeeps DEF AssetBulkActs, OpensForPicked
<1>r. CASE AssetRowActs
  BY <1>r, <1>p, RowOpeningKeeps DEF AssetRowActs
<1>d. CASE AssetDeletes
  <2>1. Fits("batchDelete", "deleteAssetsBulk", "confirm") /\ Fits("deleteAsset", "deleteAsset", "confirm")
    BY <1>p DEF Fits, Deletes, Erases, Restores, Recycling, Quiet
  <2>2. {"deleteAssetsBulk", "deleteAsset"} \subseteq Ops \ Restores
    BY DEF Restores
  <2> QED BY <1>d, <2>1, <2>2, ConfirmingKeeps, CancelsKeep DEF AssetDeletes
<1> QED BY <1>v, <1>k, <1>b, <1>r, <1>d DEF AssetsNext

LEMMA PostsKeep ==
  ASSUME ListInv, PostsNext
  PROVE  ListInv'
<1>p. page = "posts"
  BY DEF PostsNext
<1> USE DEF Uses, Ops, AskedFor, DialogKinds
<1>k. CASE PostPicks
  BY <1>k, PickingKeeps DEF PostPicks
<1>v. CASE PostViewChanges
  BY <1>v, <1>p, ViewChangingKeeps DEF PostViewChanges, Recycling
<1>f. /\ Fits("lifecycle", "restorePosts", "page") /\ Fits("status", "updatePostStatus", "page")
      /\ Fits("lifecycle", "deletePosts", "confirm")
  BY <1>p DEF Fits, Deletes, Erases, Restores, Recycling, Quiet
<1>w. /\ ExpectedView("restorePosts") = "deleted" /\ ExpectedView("updatePostStatus") = "current"
      /\ "page" \in Locks \cup NoLock /\ "deletePosts" \in Ops \ Restores
  BY DEF ExpectedView, Restores, Locks
<1>l. SelectedBatch \in SUBSET Target /\ \A t \in SelectedBatch : t.view = view
  BY ListedTargets DEF SelectedBatch
<1>r. CASE PostRestores
  <2>1. CASE PickedSends("lifecycle", "restorePosts", {"posts:restore"}, SelectedBatch, "page")
    BY <1>r, <2>1, <1>f, <1>w, <1>l, PickedSendingKeeps DEF PostRestores
  <2>2. CASE \E i \in Listed : RowSends("lifecycle", "restorePosts", {"posts:restore"}, i, "page")
    BY <1>r, <2>2, <1>f, <1>w, RowSendingKeeps DEF PostRestores
  <2> QED BY <1>r, <2>1, <2>2 DEF PostRestores
<1>t. CASE PostToggles
  BY <1>t, <1>f, <1>w, RowSendingKeeps DEF PostToggles
<1>a. CASE PostAsksDeletion
  <2>1. CASE OpensForPicked("confirm", "lifecycle", SelectedBatch)
    BY <1>a, <2>1, <1>l, OpeningKeeps DEF PostAsksDeletion, OpensForPicked
  <2>2. CASE \E i \in Listed : Opens("confirm", "lifecycle", {TargetOf(i)})
    BY <1>a, <2>2, RowOpeningKeeps DEF PostAsksDeletion
  <2> QED BY <1>a, <2>1, <2>2 DEF PostAsksDeletion
<1>d. CASE PostDeletes
  BY <1>d, <1>f, <1>w, ConfirmingKeeps, CancelsKeep DEF PostDeletes
<1> QED BY <1>k, <1>v, <1>r, <1>t, <1>a, <1>d DEF PostsNext

LEMMA TaxonomyKeeps ==
  ASSUME ListInv, TaxonomyNext
  PROVE  ListInv'
<1>p. page \in {"categories", "tags"} /\ view = "current"
  BY DEF TaxonomyNext, Kinds, ListInv, InView, Recycling
<1> USE DEF DialogKinds
<1>n. {"save", "preview", "remove"} \subseteq Uses
  BY DEF Uses
<1>v. CASE TaxonomyViewChanges
  BY <1>v, ViewChangingKeeps DEF TaxonomyViewChanges, Views
<1>k. CASE TaxonomyPicks
  BY <1>k, PickingKeeps DEF TaxonomyPicks
<1>o. {Kinds[page].create, Kinds[page].update, Kinds[page].impact, Kinds[page].delete} \subseteq Ops \ Restores
  BY <1>p DEF Kinds, Ops, Restores
<1>a. {Gates[page].create, Gates[page].update, Gates[page].delete} \subseteq SUBSET AskedFor
  BY <1>p DEF Gates, AskedFor
<1>f. /\ Fits("save", Kinds[page].create, "form") /\ Fits("save", Kinds[page].update, "form")
      /\ Fits("preview", Kinds[page].impact, "none") /\ Fits("remove", Kinds[page].delete, "confirm")
  BY <1>p DEF Kinds, Fits, Deletes, Erases, Restores, Recycling, Quiet
<1>w. ExpectedView(Kinds[page].impact) = "current"
  BY <1>o DEF ExpectedView
<1>e. CASE Previews
  <2>1. CASE PickedSends("preview", Kinds[page].impact, Gates[page].delete, PickedTargets, "none")
    BY <2>1, <1>p, <1>n, <1>o, <1>a, <1>f, <1>w, PickedOnes, NoneUnlocked, PickedSendingKeeps
  <2>2. CASE \E i \in Listed : RowSends("preview", Kinds[page].impact, Gates[page].delete, i, "none")
    BY <2>2, <1>p, <1>n, <1>o, <1>a, <1>f, <1>w, NoneUnlocked, RowSendingKeeps
  <2> QED BY <1>e, <2>1, <2>2 DEF Previews
<1>r. CASE Previewed
  BY <1>r, <1>p, PreviewedKeeps
<1>m. CASE TaxonomyOpensForm
  BY <1>m, <1>n, <1>p, EmptyOpeningKeeps, RowOpeningKeeps DEF TaxonomyOpensForm
<1>s. CASE TaxonomySaves
  BY <1>s, <1>n, <1>o, <1>a, <1>f, LockedSubmittingKeeps, CancelsKeep DEF TaxonomySaves
<1>d. CASE TaxonomyDeletes
  BY <1>d, <1>n, <1>o, <1>a, <1>f, ConfirmingKeeps, CancelsKeep DEF TaxonomyDeletes
<1> QED BY <1>v, <1>k, <1>e, <1>r, <1>m, <1>s, <1>d DEF TaxonomyNext

-----------------------------------------------------------------------------
(* The theorems.                                                           *)

\* Mutations that leave the list as it is change nothing the list shows.
LEMMA QuietEffects ==
  ASSUME ListInv, NEW s \in Slots, reqs[s].use \in DOMAIN Effects[page],
         ~Effects[page][reqs[s].use].refreshes
  PROVE  reqs[s].op \in Silent
<1> DEFINE use == reqs[s].use
<1>p. page \in AllPages
  BY DEF ListInv, Typed
<1>1. CASE page = "users"
  <2>1. Effects[page] = UserEffects
    BY <1>1 DEF Effects
  <2>2. use \in Quiet
    BY <2>1 DEF UserEffects, Effect, Quiet
  <2> QED BY <1>1, <2>2 DEF ListInv, Fresh
<1>2. CASE page = "admins"
  <2>1. Effects[page] = AdminEffects
    BY <1>2 DEF Effects
  <2>2. use \in Quiet
    BY <2>1 DEF AdminEffects, Effect, Quiet
  <2> QED BY <1>2, <2>2 DEF ListInv, Fresh
<1>3. CASE page = "roles"
  BY <1>3 DEF Effects, RoleEffects, Effect
<1>4. CASE page = "assets"
  BY <1>4 DEF Effects, AssetEffects, Effect
<1>5. CASE page = "posts"
  BY <1>5 DEF Effects, PostEffects, Effect
<1>6. CASE page \in {"categories", "tags"}
  BY <1>6 DEF Effects, TaxonomyEffects, Effect
<1> QED BY <1>p, <1>1, <1>2, <1>3, <1>4, <1>5, <1>6 DEF AllPages

LEMMA AnswersKeep ==
  ASSUME ListInv, Answers(Effects[page])
  PROVE  ListInv'
<1> PICK s \in Slots :
      \/ Starts(s)
      \/ Serves(s)
      \/ Breaks(s)
      \/ Fails(s)
      \/ /\ reqs[s].use \in DOMAIN Effects[page]
         /\ Succeeds(Effects[page][reqs[s].use], s)
  BY DEF Answers
<1>1. CASE Starts(s) \/ Serves(s) \/ Breaks(s) \/ Fails(s)
  BY <1>1, StartingKeeps, ServingKeeps, BreakingKeeps, FailingKeeps
<1>2. CASE /\ reqs[s].use \in DOMAIN Effects[page]
           /\ Succeeds(Effects[page][reqs[s].use], s)
  <2>1. ~Effects[page][reqs[s].use].refreshes => reqs[s].op \in Silent
    BY <1>2, QuietEffects
  <2> QED BY <1>2, <2>1, SucceedingKeeps
<1> QED BY <1>1, <1>2

LEMMA InitKeeps ==
  ASSUME Init
  PROVE  ListInv
<1>1. PICK p \in DOMAIN RowsOf : InitPage(p, RowsOf[p])
  BY DEF Init
<1>2. p \in AllPages
  BY PagesAssumption
<1>i. /\ IdleSlot \in Request /\ IdleSlot.targets = {} /\ IdleSlot.answered = {} /\ IdleSlot.op = "none"
      /\ IdleSlot.use = "none" /\ IdleSlot.stage = "idle" /\ IdleSlot.holds = "none"
  BY DEF IdleSlot, Request, Stages, Uses, Ops, NoLock
<1>d. NoDialog \in Dialog /\ NoDialog.targets = {} /\ NoDialog.told = {}
  BY DEF NoDialog, Dialog, DialogKinds, Uses
<1>3. /\ page = p /\ view = "current" /\ list = "loading" /\ answer = NoAnswer /\ shown = rows
      /\ picked = {} /\ dialog = NoDialog /\ locked = {}
      /\ \A s \in Slots : reqs[s] = IdleSlot
      /\ reqs = [s \in Slots |-> IdleSlot]
      /\ \A i \in Ids : acked[i] = 0
      /\ acked = [i \in Ids |-> 0]
  BY <1>1 DEF InitPage
<1>4. rows \in [Ids -> Row] /\ \A i \in Ids : rows[i].rev = 0
  BY <1>1 DEF InitPage, Row
<1>5. Typed
  BY <1>2, <1>3, <1>4, <1>i, <1>d DEF Typed, Views
<1>6. OneHolder /\ Confirmed /\ Returned
  BY <1>3, <1>i, <1>d DEF OneHolder, Confirmed, Returned, Locks, Deletes, Erases
<1>7. InView
  BY <1>3, <1>i, <1>d DEF InView, Restores
<1>8. Fresh
  BY <1>3, <1>4, <1>i DEF Fresh, Quiet
<1> QED BY <1>5, <1>6, <1>7, <1>8 DEF ListInv

LEMMA StutterKeeps ==
  ASSUME ListInv, UNCHANGED vars
  PROVE  ListInv'
<1>1. UNCHANGED <<page, rows, view, list, answer, shown, picked, dialog, locked, reqs, acked>>
  BY DEF vars
<1>2. Typed' /\ OneHolder' /\ Confirmed' /\ Returned' /\ InView'
  BY <1>1 DEF ListInv, Typed, OneHolder, Confirmed, Returned, InView, Underway
<1>3. Fresh'
  BY <1>1 DEF ListInv, Fresh, Changes
<1> QED BY <1>2, <1>3 DEF ListInv

\* The list pages stay within their invariant, whichever page is open: types,
\* locks, confirmed deletions, views and freshness of the list (the pages under
\* src/apps/admin/src/features and the components they share).
THEOREM ListsInvariant == Spec => []ListInv
<1>1. Init => ListInv
  BY InitKeeps
<1>2. ListInv /\ [Next]_vars => ListInv'
  <2> SUFFICES ASSUME ListInv, [Next]_vars
               PROVE  ListInv'
    OBVIOUS
  <2>1. CASE PageNext
    BY <2>1, UsersKeep, AdminsKeep, RolesKeep, AssetsKeep, PostsKeep, TaxonomyKeeps DEF PageNext
  <2>2. CASE Answers(Effects[page])
    BY <2>2, AnswersKeep
  <2>3. CASE ListSteps
    BY <2>3, ListStepsKeep
  <2>4. CASE Elsewhere
    BY <2>4, ElsewhereKeeps
  <2>5. CASE UNCHANGED vars
    BY <2>5, StutterKeeps
  <2> QED BY <2>1, <2>2, <2>3, <2>4, <2>5 DEF Next
<1> QED BY <1>1, <1>2, PTL DEF Spec

\* Rows, caches, dialogs and requests of a list page stay within their types, for
\* any rows and requests (the queries and mutations of the pages).
THEOREM ListsTyped == Spec => []Typed
<1>1. ListInv => Typed
  BY DEF ListInv
<1> QED BY <1>1, ListsInvariant, PTL

\* A deletion names exactly the rows, in the versions, its confirmation showed
\* when it was opened, whatever the list was refreshed to since (the state of
\* the confirmation on each page, StandardConfirmModal.tsx).
THEOREM DeletesAsConfirmedTheorem == Spec => []DeletesAsConfirmed
<1>1. ListInv => DeletesAsConfirmed
  BY DEF ListInv, Confirmed, DeletesAsConfirmed, Deleting
<1> QED BY <1>1, ListsInvariant, PTL

\* There are never two deletions under way on a page, whichever clicks come
\* before it is painted again: both would hold the lock of the confirmation
\* (confirm of StandardConfirmModal.tsx).
THEOREM OneDeletionTheorem == Spec => []OneDeletion
<1>1. ListInv => OneDeletion
  BY DEF ListInv, Confirmed, OneHolder, OneDeletion, Deleting, Locks
<1> QED BY <1>1, ListsInvariant, PTL

\* Requests only carry rows of the view that their operation is for: nothing
\* picked in the recycle bin is deleted or changed, nothing else is restored
\* (changeLifecycle of UsersPage.tsx and its like clear the selection).
THEOREM TargetsOfViewTheorem == Spec => []TargetsOfView
<1>1. ListInv => TargetsOfView
  BY DEF ListInv, InView, ExpectedView, TargetsOfView
<1> QED BY <1>1, ListsInvariant, PTL

\* A list that has settled shows every change the page was told of, although
\* refetches, answers read before the change and failures may come in between
\* (invalidate, the onSuccess of the mutations).
THEOREM OwnChangeShownTheorem == Spec => []OwnChangeShown
<1>1. ListInv => OwnChangeShown
  BY DEF ListInv, Fresh, OwnChangeShown
<1> QED BY <1>1, ListsInvariant, PTL

\* A lock that is taken belongs to a request that will give it back, but for
\* the edit drawer of administrators (the finally of
\* StandardConfirmModal.tsx, PostsPage.tsx and TaxonomyPage.tsx).
THEOREM LocksReturnedTheorem == Spec => []LocksReturned
<1>1. ListInv => LocksReturned
  <2> SUFFICES ASSUME ListInv, NEW l \in locked, ~(page = "admins" /\ l = "form")
               PROVE  \E s \in Slots : Underway(s) /\ reqs[s].holds = l
    BY DEF LocksReturned
  <2>1. PICK s \in Slots : reqs[s].holds = l
    BY DEF ListInv, Returned
  <2>2. l \in Locks
    BY DEF ListInv, Typed
  <2> QED BY <2>1, <2>2 DEF ListInv, OneHolder, Locks
<1> QED BY <1>1, ListsInvariant, PTL

-----------------------------------------------------------------------------
(* Permissions and the contract.                                           *)

\* Whoever may use the gates of a request may use its operation.
Granted(op, gates) == op \in PageOps /\ Needs(op) \in gates

GrantedInv == \A s \in Slots : Underway(s) => Granted(reqs[s].op, reqs[s].gates)

LEMMA MakingGrants ==
  ASSUME Typed, GrantedInv, NEW stage, NEW use, NEW op, NEW gates, NEW targets, NEW told, NEW lock,
         Makes(stage, use, op, gates, targets, told, lock), Granted(op, gates)
  PROVE  GrantedInv'
<1>1. PICK s \in Slots :
        reqs' = [x \in Slots |->
             IF x = s THEN [stage |-> stage, use |-> use, op |-> op, gates |-> gates,
                            targets |-> targets, told |-> told, holds |-> lock,
                            newest |-> TRUE, closes |-> FALSE, answered |-> {}]
             ELSE IF reqs[x].use = use THEN [reqs[x] EXCEPT !.newest = FALSE]
             ELSE reqs[x]]
  BY DEF Makes
<1> SUFFICES ASSUME NEW x \in Slots, Underway(x)'
             PROVE  Granted(reqs'[x].op, reqs'[x].gates)
  BY DEF GrantedInv, Granted
<1>2. CASE x = s
  <2>1. reqs'[x].op = op /\ reqs'[x].gates = gates BY <1>1, <1>2
  <2>. QED BY <2>1
<1>3. CASE x # s
  <2>1. reqs'[x] = IF reqs[x].use = use THEN [reqs[x] EXCEPT !.newest = FALSE] ELSE reqs[x]
    BY <1>1, <1>3
  <2>2. reqs[x] \in Request BY DEF Typed
  <2>3. /\ reqs'[x].op = reqs[x].op /\ reqs'[x].gates = reqs[x].gates
        /\ reqs'[x].stage = reqs[x].stage
    BY <2>1, <2>2 DEF Request
  <2>4. Underway(x) BY <2>3 DEF Underway
  <2>. QED BY <2>3, <2>4 DEF GrantedInv
<1>. QED BY <1>2, <1>3

\* Every button that sends a request makes one.
LEMMA SendingGrants ==
  ASSUME Typed, GrantedInv, NEW use, NEW op, NEW gates, Granted(op, gates),
         \/ \E i \in Listed, lock \in Locks \cup NoLock : RowSends(use, op, gates, i, lock)
         \/ \E targets \in SUBSET Target, lock \in Locks \cup NoLock :
              PickedSends(use, op, gates, targets, lock)
         \/ Confirms(use, op, gates)
         \/ Submits(use, op, gates)
         \/ \E stage \in Stages : SubmitsLocked(stage, use, op, gates)
         \/ DrawerSends(use, op, gates)
  PROVE  GrantedInv'
  BY MakingGrants DEF RowSends, PickedSends, Confirms, Submits, SubmitsLocked, DrawerSends

LEMMA RestGrants ==
  ASSUME GrantedInv,
         \A s \in Slots : \/ /\ Underway(s)
                             /\ reqs'[s].op = reqs[s].op /\ reqs'[s].gates = reqs[s].gates
                          \/ reqs'[s].stage = "idle"
                          \/ reqs'[s] = reqs[s]
  PROVE  GrantedInv'
  BY DEF GrantedInv, Underway

LEMMA OpeningGrants ==
  ASSUME GrantedInv, UNCHANGED reqs
  PROVE  GrantedInv'
  BY RestGrants

LEMMA RefetchGrants ==
  ASSUME GrantedInv, RefetchEnds
  PROVE  GrantedInv'
<1>1. \A s \in Slots : reqs'[s] \in {reqs[s], IdleSlot} BY DEF RefetchEnds
<1>2. IdleSlot.stage = "idle" BY DEF IdleSlot
<1>. QED BY <1>1, <1>2, RestGrants

\* The tables of the three routers have no operation in common.
LEMMA TablesApart ==
  /\ DOMAIN ManagementNeeds \cap DOMAIN AssetNeeds = {}
  /\ DOMAIN ManagementNeeds \cap DOMAIN BlogNeeds = {}
  /\ DOMAIN AssetNeeds \cap DOMAIN BlogNeeds = {}
  BY DEF ManagementNeeds, AssetNeeds, BlogNeeds

LEMMA NeedsOf ==
  ASSUME NEW op
  PROVE  /\ op \in DOMAIN ManagementNeeds => Needs(op) = ManagementNeeds[op]
         /\ op \in DOMAIN AssetNeeds => Needs(op) = AssetNeeds[op]
         /\ op \in DOMAIN BlogNeeds => Needs(op) = BlogNeeds[op]
<1>1. CASE op \in DOMAIN ManagementNeeds
  <2>. op \notin DOMAIN AssetNeeds /\ op \notin DOMAIN BlogNeeds BY <1>1, TablesApart
  <2>. QED BY <1>1 DEF Needs
<1>2. CASE op \in DOMAIN AssetNeeds
  <2>. op \notin DOMAIN ManagementNeeds /\ op \notin DOMAIN BlogNeeds BY <1>2, TablesApart
  <2>. QED BY <1>2 DEF Needs
<1>3. CASE op \in DOMAIN BlogNeeds
  <2>. op \notin DOMAIN ManagementNeeds /\ op \notin DOMAIN AssetNeeds BY <1>3, TablesApart
  <2>. QED BY <1>3 DEF Needs
<1>. QED BY <1>1, <1>2, <1>3

LEMMA TableGrants ==
  ASSUME NEW op \in PageOps, NEW gates,
         \/ op \in DOMAIN ManagementNeeds /\ ManagementNeeds[op] \in gates
         \/ op \in DOMAIN AssetNeeds /\ AssetNeeds[op] \in gates
         \/ op \in DOMAIN BlogNeeds /\ BlogNeeds[op] \in gates
  PROVE  Granted(op, gates)
  BY NeedsOf DEF Granted

\* What the routes of each page ask for.
LEMMA UserGrants ==
  /\ Granted("createUser", {"users:create"})
  /\ Granted("updateUser", {"users:update"})
  /\ Granted("setUserStatus", {"users:update"})
  /\ Granted("setUserStatusBulk", {"users:update"})
  /\ Granted("deleteUsersBulk", {"users:delete"})
  /\ Granted("restoreUser", {"users:restore"})
  /\ Granted("restoreUsersBulk", {"users:restore"})
  /\ Granted("resetUserPassword", {"users:credentials:reset"})
  /\ Granted("revokeUserSessions", {"users:sessions:read", "users:sessions:revoke"})
  BY TableGrants DEF PageOps, ManagementNeeds

LEMMA AdminGrants ==
  /\ Granted("createAdmin", {"admins:create"})
  /\ Granted("updateAdmin", {"admins:update"})
  /\ Granted("setAdminStatus", {"admins:update"})
  /\ Granted("setAdminStatusBulk", {"admins:update"})
  /\ Granted("setAdminSuperuser", {"admins:superuser:change"})
  /\ Granted("resetAdminPassword", {"admins:credentials:reset"})
  /\ Granted("assignAdminRoles", {"admins:roles:assign", "roles:read"})
  /\ Granted("revokeAdminSessions", {"admins:sessions:read", "admins:sessions:revoke"})
  BY TableGrants DEF PageOps, ManagementNeeds

LEMMA RoleGrants ==
  /\ Granted("createRole", {"roles:create"})
  /\ Granted("updateRole", {"roles:update"})
  /\ Granted("setRoleStatusBulk", {"roles:update"})
  /\ Granted("deleteRole", {"roles:delete"})
  /\ Granted("deleteRolesBulk", {"roles:delete"})
  /\ Granted("assignPermissions", {"roles:permissions:assign", "permissions:read"})
  BY TableGrants DEF PageOps, ManagementNeeds

LEMMA AssetGrants ==
  /\ Granted("deleteAsset", {"assets:delete"})
  /\ Granted("deleteAssetsBulk", {"assets:delete"})
  BY TableGrants DEF PageOps, AssetNeeds

LEMMA PostGrants ==
  /\ Granted("updatePostStatus", {"posts:update"})
  /\ Granted("deletePosts", {"posts:delete"})
  /\ Granted("restorePosts", {"posts:restore"})
  BY TableGrants DEF PageOps, BlogNeeds

LEMMA TaxonomyGrants ==
  ASSUME page \in {"categories", "tags"}
  PROVE  /\ Granted(Kinds[page].create, Gates[page].create)
         /\ Granted(Kinds[page].update, Gates[page].update)
         /\ Granted(Kinds[page].impact, Gates[page].delete)
         /\ Granted(Kinds[page].delete, Gates[page].delete)
<1>1. CASE page = "categories"
  BY <1>1, TableGrants DEF Kinds, Gates, PageOps, BlogNeeds
<1>2. CASE page = "tags"
  BY <1>2, TableGrants DEF Kinds, Gates, PageOps, BlogNeeds
<1>. QED BY <1>1, <1>2

\* Steps of the pages that send nothing.
Rests ==
  \/ \E views \in SUBSET Views : ViewChanges(views)
  \/ Picks
  \/ \E kind \in DialogKinds, use \in Uses : \E targets \in SUBSET Target :
       Opens(kind, use, targets) \/ OpensForPicked(kind, use, targets)
  \/ \E use \in Uses : CancelsForm(use) \/ CancelsLocked(use)
  \/ CancelsConfirm \/ ClosesDrawer

LEMMA RestingGrants ==
  ASSUME GrantedInv, Rests
  PROVE  GrantedInv'
<1>1. CASE \E views \in SUBSET Views : ViewChanges(views)
  BY <1>1, RefetchGrants DEF ViewChanges
<1>2. CASE UNCHANGED reqs BY <1>2, OpeningGrants
<1>. QED
  BY <1>1, <1>2
  DEF Rests, Picks, Opens, OpensForPicked, CancelsForm, CancelsLocked, CancelsConfirm, ClosesDrawer

\* Each page asks for the permission of the operation before it sends it.
LEMMA UsersGrant ==
  ASSUME ListInv, GrantedInv, UsersNext
  PROVE  GrantedInv'
<1>t. Typed /\ "none" \in Locks \cup NoLock BY NoneUnlocked DEF ListInv
<1>p. PickedTargets \in SUBSET Target BY PickedOnes
<1>l. \A i \in Listed : {TargetOf(i)} \in SUBSET Target BY ListedTargets
<1>e. {} \in SUBSET Target /\ Views \in SUBSET Views OBVIOUS
<1>u. /\ {"form", "confirm", "drawer"} \subseteq DialogKinds
      /\ {"create", "edit", "resetPassword", "batchDelete", "revokeSessions"} \subseteq Uses
  BY DEF DialogKinds, Uses
<1>1. CASE UserBulkActs
  BY <1>1, <1>t, <1>p, <1>u, UserGrants, SendingGrants, RestingGrants DEF UserBulkActs, Rests
<1>2. CASE UserRowActs
  BY <1>2, <1>t, <1>l, <1>u, UserGrants, SendingGrants, RestingGrants DEF UserRowActs, Rests
<1>3. CASE UserCreates \/ UserEdits \/ UserPasswordResets
  BY <1>3, <1>t, <1>e, <1>u, UserGrants, SendingGrants, RestingGrants
  DEF UserCreates, UserEdits, UserPasswordResets, Rests
<1>4. CASE UserDeletes \/ UserSessions
  BY <1>4, <1>t, UserGrants, SendingGrants, RestingGrants DEF UserDeletes, UserSessions, Rests
<1>5. CASE UserViewChanges \/ Picks
  BY <1>5, <1>e, RestingGrants DEF UserViewChanges, Rests
<1>. QED BY <1>1, <1>2, <1>3, <1>4, <1>5 DEF UsersNext

LEMMA AdminsGrant ==
  ASSUME ListInv, GrantedInv, AdminsNext
  PROVE  GrantedInv'
<1>t. /\ Typed /\ "none" \in Locks \cup NoLock
      /\ "sent" \in Stages /\ {} \in SUBSET Target /\ {"current"} \in SUBSET Views
  BY NoneUnlocked DEF ListInv, Stages, Views
<1>p. PickedTargets \in SUBSET Target BY PickedOnes
<1>l. \A i \in Listed : {TargetOf(i)} \in SUBSET Target BY ListedTargets
<1>u. /\ {"form", "drawer"} \subseteq DialogKinds
      /\ {"create", "edit", "resetPassword", "assignRoles", "revokeSessions"} \subseteq Uses
  BY DEF DialogKinds, Uses
<1>1. CASE AdminBulkActs
  BY <1>1, <1>t, <1>p, AdminGrants, SendingGrants DEF AdminBulkActs
<1>2. CASE \E i \in Listed : AdminTogglesStatus(i)
  BY <1>2, <1>t, AdminGrants, SendingGrants DEF AdminTogglesStatus
<1>3. CASE AdminIdentityActs
  BY <1>3, <1>t, AdminGrants, SendingGrants DEF AdminIdentityActs
<1>4. CASE \E i \in Listed : AdminOpensEdit(i)
  <2>1. \A s \in Slots : /\ reqs'[s].op = reqs[s].op /\ reqs'[s].gates = reqs[s].gates
                         /\ reqs'[s].stage = reqs[s].stage
    <3>. SUFFICES ASSUME NEW s \in Slots
                  PROVE  /\ reqs'[s].op = reqs[s].op /\ reqs'[s].gates = reqs[s].gates
                         /\ reqs'[s].stage = reqs[s].stage
      OBVIOUS
    <3>1. reqs[s] \in Request BY <1>t DEF Typed
    <3>2. reqs'[s] = IF reqs[s].use = "edit"
                     THEN [reqs[s] EXCEPT !.holds = "none", !.newest = FALSE] ELSE reqs[s]
      BY <1>4 DEF AdminOpensEdit
    <3>. QED BY <3>1, <3>2 DEF Request
  <2>. QED BY <2>1, RestGrants DEF Underway
<1>5. CASE \E i \in Listed : \/ Opens("form", "resetPassword", {TargetOf(i)})
                             \/ Opens("form", "assignRoles", {TargetOf(i)})
                             \/ Opens("drawer", "revokeSessions", {TargetOf(i)})
  BY <1>5, <1>l, <1>u, RestingGrants DEF Rests
<1>6. CASE AdminCreates \/ AdminEdits \/ AdminPasswordResets
  BY <1>6, <1>t, <1>u, AdminGrants, SendingGrants, RestingGrants
  DEF AdminCreates, AdminEdits, AdminPasswordResets, Rests
<1>7. CASE AdminRoles \/ AdminSessions
  BY <1>7, <1>t, <1>u, AdminGrants, SendingGrants, RestingGrants DEF AdminRoles, AdminSessions, Rests
<1>8. CASE AdminViewChanges \/ Picks
  BY <1>8, <1>t, RestingGrants DEF AdminViewChanges, Rests
<1>. QED
  BY <1>1, <1>2, <1>3, <1>4, <1>5, <1>6, <1>7, <1>8
  DEF AdminsNext, AdminTagActs, AdminMenuActs, AdminRowActs

LEMMA RolesGrant ==
  ASSUME ListInv, GrantedInv, RolesNext
  PROVE  GrantedInv'
<1>t. Typed /\ "none" \in Locks \cup NoLock /\ {} \in SUBSET Target BY NoneUnlocked DEF ListInv
<1>p. PickedTargets \in SUBSET Target BY PickedOnes
<1>l. \A i \in Listed : {TargetOf(i)} \in SUBSET Target BY ListedTargets
<1>u. /\ {"form", "confirm"} \subseteq DialogKinds
      /\ {"saveRole", "assignPermissions", "batchDelete", "deleteRole"} \subseteq Uses
  BY DEF DialogKinds, Uses
<1>1. CASE RoleBulkActs
  BY <1>1, <1>t, <1>p, <1>u, RoleGrants, SendingGrants, RestingGrants DEF RoleBulkActs, Rests
<1>2. CASE RoleRowActs
  BY <1>2, <1>t, <1>l, <1>u, RoleGrants, SendingGrants, RestingGrants DEF RoleRowActs, Rests
<1>3. CASE RoleCreates \/ RoleSaves
  BY <1>3, <1>t, <1>u, RoleGrants, SendingGrants, RestingGrants DEF RoleCreates, RoleSaves, Rests
<1>4. CASE RolePermissionSaves \/ RoleDeletes
  BY <1>4, <1>t, <1>u, RoleGrants, SendingGrants, RestingGrants
  DEF RolePermissionSaves, RoleDeletes, Rests
<1>5. CASE Picks BY <1>5, RestingGrants DEF Rests
<1>. QED BY <1>1, <1>2, <1>3, <1>4, <1>5 DEF RolesNext

LEMMA AssetsGrant ==
  ASSUME ListInv, GrantedInv, AssetsNext
  PROVE  GrantedInv'
<1>t. Typed /\ {"current"} \in SUBSET Views BY DEF ListInv, Views
<1>p. PickedTargets \in SUBSET Target BY PickedOnes
<1>l. \A i \in Listed : {TargetOf(i)} \in SUBSET Target BY ListedTargets
<1>u. "confirm" \in DialogKinds /\ {"batchDelete", "deleteAsset"} \subseteq Uses
  BY DEF DialogKinds, Uses
<1>1. CASE AssetBulkActs \/ AssetRowActs \/ AssetViewChanges \/ Picks
  BY <1>1, <1>t, <1>p, <1>l, <1>u, RestingGrants DEF AssetBulkActs, AssetRowActs, AssetViewChanges, Rests
<1>2. CASE AssetDeletes
  BY <1>2, <1>t, AssetGrants, SendingGrants, RestingGrants DEF AssetDeletes, Rests
<1>. QED BY <1>1, <1>2 DEF AssetsNext

LEMMA PostsGrant ==
  ASSUME ListInv, GrantedInv, PostsNext
  PROVE  GrantedInv'
<1>t. Typed /\ "page" \in Locks \cup NoLock BY DEF ListInv, Locks
<1>l. /\ \A i \in Listed : {TargetOf(i)} \in SUBSET Target
      /\ SelectedBatch \in SUBSET Target /\ Views \in SUBSET Views
  BY ListedTargets DEF SelectedBatch
<1>u. "confirm" \in DialogKinds /\ "lifecycle" \in Uses BY DEF DialogKinds, Uses
<1>1. CASE PostRestores \/ PostToggles
  BY <1>1, <1>t, <1>l, PostGrants, SendingGrants DEF PostRestores, PostToggles
<1>2. CASE PostAsksDeletion \/ PostPicks \/ PostViewChanges
  BY <1>2, <1>l, <1>u, RestingGrants DEF PostAsksDeletion, PostPicks, PostViewChanges, Rests
<1>3. CASE PostDeletes
  BY <1>3, <1>t, PostGrants, SendingGrants, RestingGrants DEF PostDeletes, Rests
<1>. QED BY <1>1, <1>2, <1>3 DEF PostsNext

LEMMA TaxonomyGrant ==
  ASSUME ListInv, GrantedInv, TaxonomyNext
  PROVE  GrantedInv'
<1>g. page \in {"categories", "tags"} BY DEF TaxonomyNext, Kinds
<1>t. /\ Typed /\ "none" \in Locks \cup NoLock
      /\ "checking" \in Stages /\ {} \in SUBSET Target /\ {"current"} \in SUBSET Views
  BY NoneUnlocked DEF ListInv, Stages, Views
<1>p. PickedTargets \in SUBSET Target BY PickedOnes
<1>l. \A i \in Listed : {TargetOf(i)} \in SUBSET Target BY ListedTargets
<1>u. "form" \in DialogKinds /\ "save" \in Uses BY DEF DialogKinds, Uses
<1>1. CASE Previews
  BY <1>1, <1>g, <1>t, <1>p, TaxonomyGrants, SendingGrants DEF Previews
<1>2. CASE Previewed
  <2>1. \A s \in Slots : reqs'[s] \in {reqs[s], IdleSlot} BY <1>2, <1>t DEF Previewed, Typed
  <2>2. IdleSlot.stage = "idle" BY DEF IdleSlot
  <2>. QED BY <2>1, <2>2, RestGrants
<1>3. CASE TaxonomyOpensForm \/ TaxonomyViewChanges \/ TaxonomyPicks
  BY <1>3, <1>t, <1>l, <1>u, RestingGrants
  DEF TaxonomyOpensForm, TaxonomyViewChanges, TaxonomyPicks, Rests
<1>4. CASE TaxonomySaves
  BY <1>4, <1>g, <1>t, <1>u, TaxonomyGrants, SendingGrants, RestingGrants DEF TaxonomySaves, Rests
<1>5. CASE TaxonomyDeletes
  BY <1>5, <1>g, <1>t, TaxonomyGrants, SendingGrants, RestingGrants DEF TaxonomyDeletes, Rests
<1>. QED BY <1>1, <1>2, <1>3, <1>4, <1>5 DEF TaxonomyNext

\* The server and the answers only move a request on or end it.
LEMMA AnswersGrant ==
  ASSUME Typed, GrantedInv, NEW effects, Answers(effects)
  PROVE  GrantedInv'
<1>. PICK s \in Slots :
       Starts(s) \/ Serves(s) \/ Breaks(s) \/ Fails(s) \/ \E effect : Succeeds(effect, s)
  BY DEF Answers
<1>1. \A x \in Slots : x # s => reqs'[x] = reqs[x]
  BY DEF Typed, Starts, Serves, Breaks, Fails, Succeeds
<1>2. reqs[s].stage # "idle"
  BY DEF Starts, Serves, Breaks, Fails, Succeeds
<1>3. \/ reqs'[s].op = reqs[s].op /\ reqs'[s].gates = reqs[s].gates
      \/ reqs'[s].stage = "idle"
  <2>1. reqs[s] \in Request BY DEF Typed
  <2>2. CASE Starts(s) \/ Breaks(s) BY <2>1, <2>2 DEF Typed, Starts, Breaks, Request
  <2>3. CASE Serves(s) BY <2>1, <2>3 DEF Typed, Serves, Request
  <2>4. CASE Fails(s) BY <2>4 DEF Typed, Fails, IdleSlot
  <2>5. CASE \E effect : Succeeds(effect, s)
    <3>. PICK effect : Succeeds(effect, s) BY <2>5
    <3>1. CASE effect.refreshes BY <2>1, <3>1 DEF Typed, Succeeds, Request
    <3>2. CASE ~effect.refreshes BY <3>2 DEF Typed, Succeeds, IdleSlot
    <3>. QED BY <3>1, <3>2
  <2>. QED BY <2>2, <2>3, <2>4, <2>5
<1>. QED BY <1>1, <1>2, <1>3, RestGrants DEF Underway

\* A request is only made behind the permission its operation asks for, on every
\* page, for any rows and requests, and it is one of those whose calls TLC has
\* found to reach the operation they mean (Access and hasPermission on the
\* pages, require_permission of the routers, admin/lib/api).
THEOREM SentAsPermittedTheorem == Spec => []SentAsPermitted
<1>1. Init => GrantedInv
  BY DEF Init, InitPage, GrantedInv, Underway, IdleSlot
<1>2. ListInv /\ GrantedInv /\ [Next]_vars => GrantedInv'
  <2>. SUFFICES ASSUME ListInv, GrantedInv, [Next]_vars
                PROVE  GrantedInv'
    OBVIOUS
  <2>1. CASE PageNext
    BY <2>1, UsersGrant, AdminsGrant, RolesGrant, AssetsGrant, PostsGrant, TaxonomyGrant DEF PageNext
  <2>2. CASE Answers(Effects[page])
    BY <2>2, AnswersGrant DEF ListInv
  <2>3. CASE ListSteps
    BY <2>3, OpeningGrants, RefetchGrants DEF ListSteps, Reload, ReadRows, ListArrives, ListFails
  <2>4. CASE Elsewhere \/ UNCHANGED vars
    BY <2>4, OpeningGrants DEF Elsewhere, vars
  <2>. QED BY <2>1, <2>2, <2>3, <2>4 DEF Next
<1>3. GrantedInv => SentAsPermitted
  BY CallsAssumption DEF GrantedInv, Granted, SentAsPermitted
<1>. QED BY <1>1, <1>2, <1>3, ListsInvariant, PTL DEF Spec

=============================================================================
