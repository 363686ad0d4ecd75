------------------------------ MODULE ListPage ------------------------------
(***************************************************************************)
(* What the list pages of the admin console share: the rows on the server, *)
(* the list a page has cached, the rows picked in it, the dialog that is   *)
(* open and the requests on their way.  A page reads its list through a    *)
(* query and writes through mutations: each mutation is named, and the     *)
(* page says what its success does (Effect).  Requests of one page may     *)
(* overlap each other, refetches of the list and changes made elsewhere.   *)
(***************************************************************************)
EXTENDS ApiContract

CONSTANTS
    Ids,        \* rows of the list
    Slots,      \* requests that may be under way at the same time
    MaxRev      \* bound on the changes of one row

ASSUME IdsAssumption == IsFiniteSet(Ids) /\ Ids # {}
ASSUME RevAssumption == MaxRev \in Nat

VARIABLES
    page,       \* the page that is open
    rows,       \* the rows on the server
    view,       \* the part of the list that is asked for
    list,       \* state of the list query
    answer,     \* rows read on the server for the list, on their way
    shown,      \* the rows the query has cached
    picked,     \* rows selected in the table, with the view they were in
    dialog,     \* the dialog that is open
    locked,     \* submission locks that are taken
    reqs,       \* requests of mutations
    acked       \* version up to which the page knows of its own changes

vars == <<page, rows, view, list, answer, shown, picked, dialog, locked, reqs, acked>>

Views == {"current", "deleted"}
Locks == {"confirm", "form", "page"}
NoAnswer == << >>
NoDialog == [kind |-> "none", use |-> "none", targets |-> {}, told |-> {}]
IdleSlot == [stage |-> "idle", use |-> "none", op |-> "none", gates |-> {}, targets |-> {},
             told |-> {}, holds |-> "none", newest |-> FALSE, closes |-> FALSE, answered |-> {}]

\* What the success of a mutation does on its page: when it closes its
\* dialog ("none", "first" or "last", behind the refetch of the list), and
\* whether it clears the selection and refreshes the list.
Effect(closes, clears, refreshes) ==
    [closes |-> closes, clears |-> clears, refreshes |-> refreshes]

\* A page opens on a list that holds some of the rows.
InitPage(p, present) ==
    /\ page = p
    /\ rows \in [Ids -> [state : Views \cup {"gone"}, rev : {0}]]
    /\ present = {i \in Ids : rows[i].state # "gone"}
    /\ view = "current"
    /\ list = "loading"
    /\ answer = NoAnswer
    /\ shown = rows
    /\ picked = {}
    /\ dialog = NoDialog
    /\ locked = {}
    /\ reqs = [s \in Slots |-> IdleSlot]
    /\ acked = [i \in Ids |-> 0]

-----------------------------------------------------------------------------
(* The list and the selection. *)

Listed == IF list \in {"loading", "broken"} THEN {} ELSE {i \in Ids : shown[i].state = view}
TargetOf(i) == [id |-> i, rev |-> shown[i].rev, view |-> view]

Underway(s) == reqs[s].stage # "idle"

\* Mutant: a refetch that is on its way is taken for the new one.
InvalidatedLate ==
    /\ list' = IF list \in {"loading", "broken"} THEN "loading" ELSE "due"
    /\ UNCHANGED <<answer, shown>>

\* The query is marked stale and asked again; a refetch that is on its way
\* is dropped.  The very first answer of a query is not: it is waited for.
Invalidated ==
    /\ list' = IF list \in {"loading", "broken"} THEN "loading" ELSE "due"
    /\ answer' = IF list = "loading" THEN answer ELSE NoAnswer
    /\ UNCHANGED shown

\* A mutation is pending until the refetch that its success asked for has
\* ended; the lock of its submission is given back then.
RefetchEnds ==
    LET ending == {s \in Slots : reqs[s].stage = "refreshing"}
    IN  /\ reqs' = [s \in Slots |-> IF s \in ending THEN IdleSlot ELSE reqs[s]]
        /\ locked' = locked \ {reqs[s].holds : s \in ending}
        /\ dialog' = IF \E s \in ending : reqs[s].closes /\ reqs[s].use = dialog.use
                     THEN NoDialog ELSE dialog

\* The reload button, a return to the window, a retry.
Reload ==
    /\ list \in {"idle", "failed", "broken"}
    /\ list' = IF list = "broken" THEN "loading" ELSE "due"
    /\ UNCHANGED <<page, rows, view, answer, shown, picked, dialog, locked, reqs, acked>>

ReadRows ==
    /\ list \in {"loading", "due"}
    /\ answer = NoAnswer
    /\ answer' = rows
    /\ UNCHANGED <<page, rows, view, list, shown, picked, dialog, locked, reqs, acked>>

ListArrives ==
    /\ answer # NoAnswer
    /\ shown' = answer
    /\ list' = "idle"
    /\ answer' = NoAnswer
    /\ RefetchEnds
    /\ UNCHANGED <<page, rows, view, picked, acked>>

\* A failed refetch keeps the rows of the last answer beside the error.
ListFails ==
    /\ list \in {"loading", "due"}
    /\ list' = IF list = "due" THEN "failed" ELSE "broken"
    /\ answer' = NoAnswer
    /\ RefetchEnds
    /\ UNCHANGED <<page, rows, view, shown, picked, acked>>

ListSteps == Reload \/ ReadRows \/ ListArrives \/ ListFails

\* Ticking the box of a row that is listed.
Picks ==
    /\ dialog.kind = "none"
    /\ \E i \in Listed :
         picked' = IF [id |-> i, view |-> view] \in picked
                   THEN picked \ {[id |-> i, view |-> view]}
                   ELSE picked \cup {[id |-> i, view |-> view]}
    /\ UNCHANGED <<page, rows, view, list, answer, shown, dialog, locked, reqs, acked>>

\* Mutant: the selection outlives the view.
ViewChangesKeepPicks(views) ==
    /\ dialog.kind = "none"
    /\ view' \in views
    /\ list' \in {"loading", "due"}
    /\ answer' = NoAnswer
    /\ RefetchEnds
    /\ UNCHANGED <<page, rows, picked, shown, acked>>

\* Another filter, page or search is another query, which clears the
\* selection: its rows are loaded, or come from the cache and are asked again.
ViewChanges(views) ==
    /\ dialog.kind = "none"
    /\ view' \in views
    /\ list' \in {"loading", "due"}
    /\ answer' = NoAnswer
    /\ picked' = {}
    /\ RefetchEnds
    /\ UNCHANGED <<page, rows, shown, acked>>

-----------------------------------------------------------------------------
(* Requests. *)

\* A mutation hook follows the latest of its requests only.
Pending(use) ==
    \E s \in Slots : /\ reqs[s].stage \notin {"idle", "checking"}
                     /\ reqs[s].use = use /\ reqs[s].newest
PendingOn(use, i) ==
    Pending(use) /\ \E s \in Slots : /\ reqs[s].use = use /\ reqs[s].newest
                                     /\ \E t \in reqs[s].targets : t.id = i

\* A request is made behind the permissions the page looks at (gates); told
\* is what the administrator was shown to be about to change, and lock is
\* the lock of the submission.
Makes(stage, use, op, gates, targets, told, lock) ==
    /\ \E s \in Slots :
         /\ ~Underway(s)
         /\ reqs' = [x \in Slots |->
              IF x = s THEN [stage |-> stage, use |-> use, op |-> op, gates |-> gates,
                             targets |-> targets, told |-> told, holds |-> lock,
                             newest |-> TRUE, closes |-> FALSE, answered |-> {}]
              ELSE IF reqs[x].use = use THEN [reqs[x] EXCEPT !.newest = FALSE]
              ELSE reqs[x]]
    /\ locked' = locked \cup ({lock} \cap Locks)

OnPage == UNCHANGED <<page, rows, view, list, answer, shown, acked>>

\* A button of a row, and a button above the table for the rows picked.
RowSends(use, op, gates, i, lock) ==
    /\ dialog.kind = "none"
    /\ i \in Listed
    /\ lock \notin locked
    /\ Makes("sent", use, op, gates, {TargetOf(i)}, {TargetOf(i)}, lock)
    /\ UNCHANGED <<picked, dialog>>
    /\ OnPage

PickedTargets == {[id |-> t.id, rev |-> shown[t.id].rev, view |-> t.view] : t \in picked}

PickedSends(use, op, gates, targets, lock) ==
    /\ dialog.kind = "none"
    /\ targets # {}
    /\ lock \notin locked
    /\ Makes("sent", use, op, gates, targets, targets, lock)
    /\ UNCHANGED <<picked, dialog>>
    /\ OnPage

-----------------------------------------------------------------------------
(* Dialogs. *)

Opens(kind, use, targets) ==
    /\ dialog.kind = "none"
    /\ dialog' = [kind |-> kind, use |-> use, targets |-> targets, told |-> targets]
    /\ UNCHANGED <<picked, locked, reqs>>
    /\ OnPage

OpensForPicked(kind, use, targets) == targets # {} /\ Opens(kind, use, targets)

\* Mutant: the deletion takes the rows in the versions listed when it is sent.
RefreshedTargets == {[t EXCEPT !.rev = shown[t.id].rev] : t \in dialog.targets}

\* The targets of a confirmed deletion are those it was opened with.
ConfirmedTargets == dialog.targets

\* Mutant: only the button that is painted protects the deletion.
ConfirmsUnlocked(use, op, gates) ==
    /\ dialog.kind = "confirm"
    /\ dialog.use = use
    /\ ~Pending(use)
    /\ Makes("checking", use, op, gates, ConfirmedTargets, dialog.told, "confirm")
    /\ UNCHANGED <<picked, dialog>>
    /\ OnPage

\* The standard confirmation takes its lock before it waits for anything, so
\* a second click finds it taken whatever is painted.
Confirms(use, op, gates) ==
    /\ dialog.kind = "confirm"
    /\ dialog.use = use
    /\ "confirm" \notin locked
    /\ ~Pending(use)
    /\ Makes("checking", use, op, gates, ConfirmedTargets, dialog.told, "confirm")
    /\ UNCHANGED <<picked, dialog>>
    /\ OnPage

\* Behind the checks of the confirmation form the mutation starts, or the
\* check fails and nothing is sent.
Starts(s) ==
    /\ reqs[s].stage = "checking"
    /\ reqs' = [reqs EXCEPT ![s].stage = "sent"]
    /\ UNCHANGED <<page, rows, view, list, answer, shown, picked, dialog, locked, acked>>

\* Cancel, the cross, the mask and Escape do nothing while it is locked.
CancelsConfirm ==
    /\ dialog.kind = "confirm"
    /\ "confirm" \notin locked
    /\ dialog' = NoDialog
    /\ UNCHANGED <<picked, locked, reqs>>
    /\ OnPage

\* A form dialog without a lock of its own: its button is disabled while the
\* latest save is pending, its cancel button is not.
Submits(use, op, gates) ==
    /\ dialog.kind = "form"
    /\ dialog.use = use
    /\ ~Pending(use)
    /\ Makes("sent", use, op, gates, dialog.targets, dialog.told, "none")
    /\ UNCHANGED <<picked, dialog>>
    /\ OnPage

CancelsForm(use) ==
    /\ dialog.kind = "form"
    /\ dialog.use = use
    /\ dialog' = NoDialog
    /\ UNCHANGED <<picked, locked, reqs>>
    /\ OnPage

\* A form dialog that is locked from its submission to the end of its save.
SubmitsLocked(stage, use, op, gates) ==
    /\ dialog.kind = "form"
    /\ dialog.use = use
    /\ "form" \notin locked
    /\ Makes(stage, use, op, gates, dialog.targets, dialog.told, "form")
    /\ UNCHANGED <<picked, dialog>>
    /\ OnPage

CancelsLocked(use) == "form" \notin locked /\ CancelsForm(use)

\* A drawer with the sessions of a row and the button that ends them.
DrawerSends(use, op, gates) ==
    /\ dialog.kind = "drawer"
    /\ dialog.use = use
    /\ ~Pending(use)
    /\ Makes("sent", use, op, gates, dialog.targets, dialog.told, "none")
    /\ UNCHANGED <<picked, dialog>>
    /\ OnPage

ClosesDrawer ==
    /\ dialog.kind = "drawer"
    /\ dialog' = NoDialog
    /\ UNCHANGED <<picked, locked, reqs>>
    /\ OnPage

-----------------------------------------------------------------------------
(* The server and the answers. *)

Deletes == {"deleteUsersBulk", "deletePosts"}
Erases == {"deleteRolesBulk", "deleteRole", "deleteAssetsBulk", "deleteAsset",
           "deleteCategories", "deleteTags"}
Restores == {"restoreUser", "restoreUsersBulk", "restorePosts"}
\* Operations that compare the version of every target.
Revised == {Contract[i].name : i \in {k \in DOMAIN Contract :
              TypesOf(Contract[k].name).takes \in Revisioned}}
\* Operations that change nothing the list shows.
Silent == {"resetUserPassword", "resetAdminPassword", "revokeUserSessions",
           "revokeAdminSessions", "categoryImpact", "tagImpact"}

Accepts(r) ==
    /\ r.op \in Deletes \cup Erases \cup Restores => r.targets # {}
    /\ \A t \in r.targets :
      /\ rows[t.id].state = IF r.op \in Restores THEN "deleted" ELSE "current"
      /\ r.op \in Revised => rows[t.id].rev = t.rev

Written(op, row) ==
    [state |-> IF op \in Deletes THEN "deleted"
               ELSE IF op \in Erases THEN "gone" ELSE "current",
     rev |-> row.rev + 1]

Changes(r) == IF r.op \in Silent THEN {} ELSE {t.id : t \in r.targets}

\* The server changes every target in one transaction or none, and answers
\* with the versions it leaves.
Serves(s) ==
    /\ reqs[s].stage = "sent"
    /\ \A i \in Changes(reqs[s]) : rows[i].rev < MaxRev
    /\ IF Accepts(reqs[s])
       THEN /\ rows' = [i \in Ids |-> IF i \in Changes(reqs[s])
                                      THEN Written(reqs[s].op, rows[i]) ELSE rows[i]]
            /\ reqs' = [reqs EXCEPT ![s].stage = "done",
                          ![s].answered = {[t EXCEPT !.rev = rows'[t.id].rev] : t \in reqs[s].targets}]
       ELSE /\ reqs' = [reqs EXCEPT ![s].stage = "refused"]
            /\ UNCHANGED rows
    /\ UNCHANGED <<page, view, list, answer, shown, picked, dialog, locked, acked>>

\* The check of a form fails, or the request is lost, or its answer.
Breaks(s) ==
    /\ reqs[s].stage \in {"checking", "sent", "done"}
    /\ reqs' = [reqs EXCEPT ![s].stage = "refused"]
    /\ UNCHANGED <<page, rows, view, list, answer, shown, picked, dialog, locked, acked>>

Later(m, n) == IF m < n THEN n ELSE m

\* onSuccess of the mutation, then the code behind the awaited promise.  A
\* page that is still waiting for its first answer is told nothing: that
\* answer may have been read before the change.
Succeeds(effect, s) ==
    /\ reqs[s].stage = "done"
    /\ dialog' = IF effect.closes = "first" /\ dialog.use = reqs[s].use THEN NoDialog ELSE dialog
    /\ picked' = IF effect.clears THEN {} ELSE picked
    /\ acked' = [i \in Ids |->
                   IF list # "loading" /\ i \in Changes(reqs[s])
                   THEN Later(acked[i], (CHOOSE t \in reqs[s].answered : t.id = i).rev)
                   ELSE acked[i]]
    /\ IF effect.refreshes
       THEN /\ reqs' = [reqs EXCEPT ![s].stage = "refreshing", ![s].answered = {},
                                    ![s].closes = effect.closes = "last"]
            /\ Invalidated
            /\ UNCHANGED locked
       ELSE /\ reqs' = [reqs EXCEPT ![s] = IdleSlot]
            /\ locked' = locked \ {reqs[s].holds}
            /\ UNCHANGED <<list, answer, shown>>
    /\ UNCHANGED <<page, rows, view>>

\* Mutant: the lock is given back on success only.
FailsLocked(s) ==
    /\ reqs[s].stage = "refused"
    /\ reqs' = [reqs EXCEPT ![s] = IdleSlot]
    /\ UNCHANGED <<page, rows, view, list, answer, shown, picked, dialog, locked, acked>>

\* An error is shown; the dialog, its targets and the selection stay.
Fails(s) ==
    /\ reqs[s].stage = "refused"
    /\ locked' = locked \ {reqs[s].holds}
    /\ reqs' = [reqs EXCEPT ![s] = IdleSlot]
    /\ UNCHANGED <<page, rows, view, list, answer, shown, picked, dialog, acked>>

\* Another administrator changes, deletes or restores a row.
Elsewhere ==
    /\ \E i \in Ids, state \in Views :
         /\ rows[i].state # "gone"
         /\ rows[i].rev < MaxRev
         /\ rows' = [rows EXCEPT ![i] = [state |-> state, rev |-> @.rev + 1]]
    /\ UNCHANGED <<page, view, list, answer, shown, picked, dialog, locked, reqs, acked>>

Answers(effects) ==
    \E s \in Slots :
      \/ Starts(s)
      \/ Serves(s)
      \/ Breaks(s)
      \/ Fails(s)
      \/ reqs[s].use \in DOMAIN effects /\ Succeeds(effects[reqs[s].use], s)

=============================================================================
