---------------------------- MODULE AssetsPage -----------------------------
(***************************************************************************)
(* The list of file assets, which can only be deleted.                     *)
(***************************************************************************)
EXTENDS ListPage

AssetEffects ==
    [batchDelete |-> Effect("last", TRUE, TRUE),
     deleteAsset |-> Effect("last", FALSE, TRUE)]

\* Search, scene, uploader and reset, above the table or in the drawer.
AssetViewChanges == ViewChanges({"current"})

AssetBulkActs ==
    /\ ~Pending("batchDelete")
    /\ OpensForPicked("confirm", "batchDelete", PickedTargets)

AssetRowActs == \E i \in Listed : Opens("confirm", "deleteAsset", {TargetOf(i)})

\* One confirmation serves both deletions and waits for both.
AssetDeletes ==
    \/ /\ ~Pending("deleteAsset")
       /\ Confirms("batchDelete", "deleteAssetsBulk", {"assets:delete"})
    \/ /\ ~Pending("batchDelete")
       /\ Confirms("deleteAsset", "deleteAsset", {"assets:delete"})
    \/ CancelsConfirm

AssetsNext ==
    /\ page = "assets"
    /\ AssetViewChanges \/ Picks \/ AssetBulkActs \/ AssetRowActs \/ AssetDeletes

=============================================================================
