----------------------------- MODULE PostsPage -----------------------------
(***************************************************************************)
(* The list of articles with its recycle bin.  One lock serves every       *)
(* change but the confirmed deletion, and nothing starts while one of them *)
(* is under way or the confirmation is open.                               *)
(***************************************************************************)
EXTENDS ListPage

\* Deletion and restoration are one mutation.
PostEffects ==
    [lifecycle |-> Effect("first", TRUE, TRUE),
     status |-> Effect("none", FALSE, TRUE)]

PostBusy == Pending("lifecycle") \/ Pending("status") \/ dialog.kind # "none"

PostPicks == ~PostBusy /\ Picks

PostViewChanges == ViewChanges(Views)

\* The rows picked that are still listed, in the versions listed.
SelectedBatch == {TargetOf(i) : i \in {j \in Listed : \E t \in picked : t.id = j}}

PostRestores ==
    /\ ~PostBusy
    /\ view = "deleted"
    /\ \/ PickedSends("lifecycle", "restorePosts", {"posts:restore"}, SelectedBatch, "page")
       \/ \E i \in Listed : RowSends("lifecycle", "restorePosts", {"posts:restore"}, i, "page")

PostToggles ==
    /\ ~PostBusy
    /\ view = "current"
    /\ \E i \in Listed : RowSends("status", "updatePostStatus", {"posts:update"}, i, "page")

PostAsksDeletion ==
    /\ ~PostBusy
    /\ view = "current"
    /\ \/ OpensForPicked("confirm", "lifecycle", SelectedBatch)
       \/ \E i \in Listed : Opens("confirm", "lifecycle", {TargetOf(i)})

PostDeletes ==
    \/ Confirms("lifecycle", "deletePosts", {"posts:delete"})
    \/ CancelsConfirm

PostsNext ==
    /\ page = "posts"
    /\ \/ PostPicks \/ PostViewChanges \/ PostRestores \/ PostToggles
       \/ PostAsksDeletion \/ PostDeletes

=============================================================================
