--------------------------- MODULE TaxonomyPage ----------------------------
(***************************************************************************)
(* The lists of categories and of tags.  A deletion first asks the server  *)
(* what it would touch; the answer is what the confirmation shows, and the *)
(* deletion names the versions of that answer.                             *)
(***************************************************************************)
EXTENDS ListPage

TaxonomyEffects ==
    [save |-> Effect("first", FALSE, TRUE),
     remove |-> Effect("first", TRUE, TRUE)]

Kinds ==
    [categories |-> [create |-> "createCategory", update |-> "updateCategory",
                     impact |-> "categoryImpact", delete |-> "deleteCategories"],
     tags |-> [create |-> "createTag", update |-> "updateTag",
               impact |-> "tagImpact", delete |-> "deleteTags"]]
\* Mutant: deletions behind the permission to edit.
GatesOfEdits ==
    [categories |-> [create |-> {"categories:create"}, update |-> {"categories:update"},
                     delete |-> {"categories:update"}],
     tags |-> [create |-> {"tags:create"}, update |-> {"tags:update"}, delete |-> {"tags:update"}]]

Gates ==
    [categories |-> [create |-> {"categories:create"}, update |-> {"categories:update"},
                     delete |-> {"categories:delete"}],
     tags |-> [create |-> {"tags:create"}, update |-> {"tags:update"}, delete |-> {"tags:delete"}]]

TaxonomyBusy ==
    Pending("save") \/ Pending("preview") \/ Pending("remove") \/ dialog.kind # "none"

TaxonomyViewChanges == ViewChanges({"current"})
TaxonomyPicks == ~TaxonomyBusy /\ Picks

Previews ==
    /\ ~TaxonomyBusy
    /\ \/ PickedSends("preview", Kinds[page].impact, Gates[page].delete, PickedTargets, "none")
       \/ \E i \in Listed : RowSends("preview", Kinds[page].impact, Gates[page].delete, i, "none")

\* The answer opens the confirmation.
Previewed ==
    \E s \in Slots :
      /\ reqs[s].stage = "done"
      /\ reqs[s].use = "preview"
      /\ dialog' = [kind |-> "confirm", use |-> "remove",
                    targets |-> reqs[s].answered, told |-> reqs[s].answered]
      /\ reqs' = [reqs EXCEPT ![s] = IdleSlot]
      /\ UNCHANGED <<picked, locked>>
      /\ OnPage

TaxonomyOpensForm ==
    /\ ~TaxonomyBusy
    /\ \/ list \notin {"loading", "broken"} /\ Opens("form", "save", {})
       \/ \E i \in Listed : Opens("form", "save", {TargetOf(i)})

TaxonomySaves ==
    \/ dialog.targets = {} /\ SubmitsLocked("checking", "save", Kinds[page].create, Gates[page].create)
    \/ dialog.targets # {} /\ SubmitsLocked("checking", "save", Kinds[page].update, Gates[page].update)
    \/ CancelsLocked("save")

TaxonomyDeletes ==
    \/ Confirms("remove", Kinds[page].delete, Gates[page].delete)
    \/ CancelsConfirm

TaxonomyNext ==
    /\ page \in DOMAIN Kinds
    /\ \/ TaxonomyViewChanges \/ TaxonomyPicks \/ Previews \/ Previewed
       \/ TaxonomyOpensForm \/ TaxonomySaves \/ TaxonomyDeletes

=============================================================================
