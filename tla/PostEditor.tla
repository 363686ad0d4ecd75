---------------------------- MODULE PostEditor -----------------------------
(***************************************************************************)
(* The editor of an article: a draft in the page, frozen together with the *)
(* revision it started from, saved against the revision on the server;     *)
(* beside it uploads, previews and the guard of unsaved changes.  A draft  *)
(* is the number of changes typed into it.                                 *)
(***************************************************************************)
EXTENDS Naturals, FiniteSets

CONSTANTS
    MaxArticle,     \* bound on the revisions of the article
    MaxTyped        \* bound on the changes typed

ASSUME MaxArticleAssumption == MaxArticle \in Nat \ {0}
ASSUME MaxTypedAssumption == MaxTyped \in Nat \ {0}

VARIABLES
    article,    \* the row: revision, revision of the last change of its content
    initial,    \* the article the editor started from
    draft,      \* changes typed
    dirty,      \* there are unsaved changes
    saving,     \* stage of the submission
    sent,       \* the draft that was submitted
    stored,     \* the draft that is on the server
    uploading,  \* an image is being uploaded
    renders,    \* drafts sent to be rendered for the preview
    preview,    \* the draft the preview says it shows, and the one it shows
    place,      \* the page that is open
    bypass,     \* leaving is not asked about any more
    agreed,     \* the author agreed to lose what is unsaved
    late,       \* changes typed after the save had succeeded
    replaced    \* a save replaced content the editor had not started from

editorVars == <<article, initial, draft, dirty, saving, sent, stored, uploading, renders,
                preview, place, bypass, agreed, late, replaced>>

Article(rev, content, state) == [rev |-> rev, content |-> content, state |-> state]
NoArticle == Article(0, 0, "none")
NoPreview == [says |-> MaxTyped + 1, shows |-> MaxTyped + 1]

EditorInit ==
    /\ article \in {NoArticle, Article(1, 1, "kept")}
    /\ initial = article
    /\ draft = 0 /\ sent = 0 /\ stored = 0 /\ late = 0
    /\ dirty = FALSE /\ saving = "idle" /\ uploading = FALSE
    /\ renders = {} /\ preview = NoPreview
    /\ place = "editor" /\ bypass = FALSE /\ agreed = FALSE /\ replaced = FALSE

EditorBusy == saving \in {"sent", "done", "refused"} \/ uploading

-----------------------------------------------------------------------------
(* Writing. *)

\* A change of the draft, typed or inserted.
Changed ==
    /\ draft < MaxTyped
    /\ draft' = draft + 1
    /\ dirty' = TRUE
    /\ late' = IF bypass THEN late + 1 ELSE late

\* Fields and toolbar; the form is disabled while it is busy.
Types ==
    /\ place = "editor" /\ ~EditorBusy
    /\ Changed
    /\ UNCHANGED <<article, initial, saving, sent, stored, uploading, renders, preview, place,
                   bypass, agreed, replaced>>

\* Neither an upload nor another submission may be under way.
Uploads ==
    /\ place = "editor" /\ ~uploading /\ saving = "idle"
    /\ uploading' = TRUE
    /\ UNCHANGED <<article, initial, draft, dirty, saving, sent, stored, late, renders, preview,
                   place, bypass, agreed, replaced>>

UploadEnds ==
    /\ uploading
    /\ uploading' = FALSE
    /\ \/ Changed
       \/ UNCHANGED <<draft, dirty, late>>
    /\ UNCHANGED <<article, initial, saving, sent, stored, renders, preview, place, bypass,
                   agreed, replaced>>

\* The preview keeps the source it was asked with.
Renders ==
    /\ place = "editor"
    /\ Cardinality(renders) < 2
    /\ renders' = renders \cup {draft}
    /\ UNCHANGED <<article, initial, draft, dirty, saving, sent, stored, late, uploading,
                   preview, place, bypass, agreed, replaced>>

\* Mutant: the preview is taken for one of the draft at its arrival.
CurrentDraft(source) == draft
RenderedSource(source) == source

RenderEnds ==
    \E source \in renders :
      /\ renders' = renders \ {source}
      /\ \/ preview' = [says |-> RenderedSource(source), shows |-> source]
         \/ UNCHANGED preview
      /\ UNCHANGED <<article, initial, draft, dirty, saving, sent, stored, late, uploading,
                     place, bypass, agreed, replaced>>

-----------------------------------------------------------------------------
(* Saving. *)

\* Mutant: navigation is allowed as soon as the article has been sent.
SubmitsBypassing ==
    /\ place = "editor" /\ saving = "idle" /\ ~uploading
    /\ saving' = "sent"
    /\ sent' = draft
    /\ bypass' = TRUE
    /\ UNCHANGED <<article, initial, draft, dirty, stored, late, uploading, renders, preview,
                   place, agreed, replaced>>

\* An invalid form goes no further, which changes nothing.
SubmitsPost ==
    /\ place = "editor" /\ saving = "idle" /\ ~uploading
    /\ saving' = "sent"
    /\ sent' = draft
    /\ UNCHANGED <<article, initial, draft, dirty, stored, late, uploading, renders, preview,
                   place, bypass, agreed, replaced>>

\* Mutant: the revision sent is the one the query would hold by now.
LiveRevision == article.rev
SentRevision == initial.rev

\* create_post, or update_post behind the lock of contents: the article is
\* not deleted and its revision is the one the edit started from.
PostServes ==
    /\ saving = "sent"
    /\ article.rev < MaxArticle
    /\ LET next == Article(article.rev + 1, article.rev + 1, "kept")
           accepted == \/ initial = NoArticle /\ article = NoArticle
                       \/ article.state = "kept" /\ article.rev = SentRevision
       IN  /\ saving' = IF accepted THEN "done" ELSE "refused"
           /\ article' = IF accepted THEN next ELSE article
           /\ stored' = IF accepted THEN sent ELSE stored
           /\ replaced' = (replaced \/ (accepted /\ article.content # initial.content))
    /\ UNCHANGED <<initial, draft, dirty, sent, late, uploading, renders, preview, place, bypass,
                   agreed>>

\* The request is lost, or its answer.
PostBreaks ==
    /\ saving \in {"sent", "done"}
    /\ saving' = "refused"
    /\ UNCHANGED <<article, initial, draft, dirty, sent, stored, late, uploading, renders,
                   preview, place, bypass, agreed, replaced>>

\* The lists are refetched before the page is left, with the form enabled.
SaveSucceeds ==
    /\ saving = "done"
    /\ saving' = "closing"
    /\ bypass' = TRUE
    /\ dirty' = FALSE
    /\ UNCHANGED <<article, initial, draft, sent, stored, late, uploading, renders, preview,
                   place, agreed, replaced>>

SaveCloses ==
    /\ saving = "closing"
    /\ saving' = "idle"
    /\ place' = "list"
    /\ UNCHANGED <<article, initial, draft, dirty, sent, stored, late, uploading, renders,
                   preview, bypass, agreed, replaced>>

\* Mutant: the lock is given back on success only.
SaveFailsLocked == FALSE /\ UNCHANGED editorVars

SaveFails ==
    /\ saving = "refused"
    /\ saving' = "idle"
    /\ UNCHANGED <<article, initial, draft, dirty, sent, stored, late, uploading, renders,
                   preview, place, bypass, agreed, replaced>>

-----------------------------------------------------------------------------
(* Leaving, and the others. *)

\* The guard of history: nothing while busy, a question while dirty.
Leaves ==
    /\ place = "editor"
    /\ bypass \/ ~EditorBusy
    /\ place' = "list"
    /\ agreed' = (dirty /\ ~bypass)
    /\ UNCHANGED <<article, initial, draft, dirty, saving, sent, stored, late, uploading,
                   renders, preview, bypass, replaced>>

\* Another administrator changes its content, its state, or a category or
\* tag it has, each with a new revision.
ArticleElsewhere ==
    /\ article # NoArticle
    /\ article.rev < MaxArticle
    /\ \/ article' = Article(article.rev + 1, article.rev + 1, article.state)
       \/ article' = Article(article.rev + 1, article.content,
                             IF article.state = "kept" THEN "deleted" ELSE "kept")
    /\ UNCHANGED <<initial, draft, dirty, saving, sent, stored, late, uploading, renders,
                   preview, place, bypass, agreed, replaced>>

EditorReply == PostServes \/ PostBreaks \/ SaveSucceeds \/ SaveCloses \/ SaveFails

EditorNext ==
    \/ Types \/ Uploads \/ UploadEnds \/ Renders \/ RenderEnds \/ SubmitsPost
    \/ EditorReply \/ Leaves \/ ArticleElsewhere

=============================================================================
