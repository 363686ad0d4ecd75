------------------------------ MODULE Reading ------------------------------
(***************************************************************************)
(* The public site: one page at a time is put together from reads of the   *)
(* backend, which its parts (the layout's and the page's metadata, the     *)
(* body, the navigation) make on their own and share within the request,   *)
(* while authors publish, edit and withdraw articles between any two       *)
(* reads, and inside a listing, whose total and rows are two statements.   *)
(***************************************************************************)
EXTENDS Integers, FiniteSets

CONSTANTS
  Articles,      \* numbers of the articles, in the order of the lists
  Terms,         \* numbers of the categories and tags, in the order of their names
  Categories,    \* the terms that are categories; the others are tags
  Found,         \* the articles whose title or summary has the keyword
  PageSize,      \* articles of a page (12), terms or articles of a walk (100)
  MaxPage,       \* bound on the page numbers a visitor types
  MaxVersion,    \* bound on the versions of an article
  MaxChanges     \* bound on the changes the authors make

ASSUME NumbersAssumption == /\ Articles \subseteq Nat \ {0} /\ IsFiniteSet(Articles)
                            /\ Terms \subseteq Nat \ {0} /\ IsFiniteSet(Terms)
ASSUME SubsetsAssumption == Categories \subseteq Terms /\ Found \subseteq Articles
ASSUME SizeAssumption == PageSize \in Nat \ {0}
ASSUME BoundsAssumption == MaxPage \in Nat /\ MaxVersion \in Nat \ {0} /\ MaxChanges \in Nat

VARIABLES
  content,    \* the articles: their version, 0 while not public, and their terms
  changes,    \* changes made so far
  target,     \* the page that is asked for
  memo,       \* the reads of the request, and what they have come to
  linked,     \* the page was reached by a link of the last one, written from
              \* what is still the content
  seen        \* the contents since the page was asked for

readingVars == <<content, changes, target, memo, linked, seen>>

-----------------------------------------------------------------------------
(* What the backend finds.                                                 *)

Article == [version : 0..MaxVersion, terms : SUBSET Terms]

\* An article has at most one category; the terms of one that is not public
\* do not matter here.
Contents ==
  {c \in [Articles -> Article] : \A a \in Articles :
     /\ Cardinality(c[a].terms \cap Categories) <= 1
     /\ c[a].version = 0 => c[a].terms = {}}

\* public_post_predicates
Public(c) == {a \in Articles : c[a].version # 0}

Kinds == {"categories", "tags"}
OfKind(kind) == IF kind = "categories" THEN Categories ELSE Terms \ Categories

\* A read of the backend: of what, by which name, and which page of it.
Read(what, name, page) == [what |-> what, name |-> name, page |-> page]
Site == Read("site", 0, 1)
Lists == {"posts", "term_posts", "found_posts", "map_posts"} \cup Kinds

\* Mutant: the lists have every article.
RowsWithDrafts(read, c) ==
  IF read.what \in Kinds
  THEN {t \in OfKind(read.what) : \E a \in Public(c) : t \in c[a].terms}
  ELSE {a \in Articles : /\ read.what = "term_posts" => read.name \in c[a].terms
                         /\ read.what = "found_posts" => a \in Found}

\* Only terms with public articles are listed.
Rows(read, c) ==
  IF read.what \in Kinds
  THEN {t \in OfKind(read.what) : \E a \in Public(c) : t \in c[a].terms}
  ELSE {a \in Public(c) : /\ read.what = "term_posts" => read.name \in c[a].terms
                          /\ read.what = "found_posts" => a \in Found}

PagesOf(set) == (Cardinality(set) + PageSize - 1) \div PageSize
OnPage(set, page) ==
  {x \in set : Cardinality({y \in set : y < x}) \div PageSize = page - 1}

Exists(read, c) ==
  CASE read.what = "site" -> TRUE
    [] read.what = "post" -> read.name \in Public(c)
    [] read.what = "term" -> \E a \in Public(c) : read.name \in c[a].terms

Result(is, version, pages, items) ==
  [is |-> is, version |-> version, pages |-> pages, items |-> items]
Faulty == Result("fault", 0, 0, {})
Missing == Result("missing", 0, 0, {})

\* Mutant: a read that failed is taken for one that found nothing.
MissingWhatever(is) == Missing

\* missingOrFailure: only a 404 is the absence of what was asked for.
MissingOrFailure(is) == IF is = "missing" THEN Missing ELSE Faulty

-----------------------------------------------------------------------------
(* The parts of a page and their reads.                                    *)

\* The page asked for: where, the article's or term's name (0 is a name that
\* cannot be one), and the page number (0 is not a number).  A search has no
\* keyword (0), one, or one that is too long, which is said before the page
\* number is looked at.
Page(at, name, page) == [at |-> at, name |-> name, page |-> page]
Keyword == 1
TooLong == 2

Parts == {"layout", "head", "body", "shell"} \cup Kinds

\* Mutant: every part reads for itself.
ScopePerPart(part) == part

\* cache(): the parts of one request share what they read with the same
\* arguments.
Scope(part) == "request"

Key(part, read) == <<Scope(part), read>>
Of(part, read) == IF Key(part, read) \in DOMAIN memo THEN memo[Key(part, read)]
                  ELSE Result("none", 0, 0, {})
Ok(part, read) == Of(part, read).is = "ok"

Listing(t) == CASE t.at = "home" -> Read("posts", 0, t.page)
                [] t.at = "term" -> Read("term_posts", t.name, t.page)
                [] t.at = "search" -> Read("found_posts", 0, t.page)
                [] t.at = "map" -> Read("map_posts", 0, t.page)
                [] t.at \in Kinds -> Read(t.at, 0, t.page)

\* A number or name that is refused before anything is read with it.
Malformed(t) ==
  \/ t.page = 0 /\ t # Page("search", TooLong, 0)
  \/ t.at \in {"article", "term"} /\ t.name = 0

\* The reads of a part in the order it waits for them; a set is read at once.
HomeMetadata(t) == <<{Site}, {Listing(t)}>>
HomeReadingPage(t) == <<{Site, Listing(t)}>>
TaxonomyReading(t) == <<{Read("term", t.name, 1)}, {Listing(t)}>>
ArticleMetadata(t) == <<{Read("post", t.name, 1)}>>
ArticleReadingPage(t) == <<{Read("post", t.name, 1), Site}>>
SearchReadingPage(t) == IF t.name # Keyword THEN << >> ELSE <<{Listing(t)}>>
SitemapIndex == <<{Read("map_posts", 0, 1), Read("categories", 0, 1), Read("tags", 0, 1)}>>

Plan(t, part) ==
  CASE part \in {"layout", "shell"} -> <<{Site}>>
    [] part = "head" /\ t.at = "home" -> HomeMetadata(t)
    [] part = "head" /\ t.at = "article" -> ArticleMetadata(t)
    [] part = "head" /\ t.at = "search" -> << >>
    [] part \in {"head", "body"} /\ t.at = "term" -> TaxonomyReading(t)
    [] part = "body" /\ t.at = "home" -> HomeReadingPage(t)
    [] part = "body" /\ t.at = "article" -> ArticleReadingPage(t)
    [] part = "body" /\ t.at = "search" -> SearchReadingPage(t)
    [] part = "body" /\ t.at = "index" -> SitemapIndex
    [] part = "body" /\ t.at \in {"map"} \cup Kinds -> <<{Listing(t)}>>

\* Mutant: the last page is left out.
WalkTooShort(kind) ==
  LET pages == Of(kind, Read(kind, 0, 1)).pages IN
  [i \in 1..(IF pages > 2 THEN pages - 1 ELSE 1) |-> {Read(kind, 0, i)}]

\* getAllTaxonomy: the first page says how many follow.
Walk(kind) ==
  LET pages == Of(kind, Read(kind, 0, 1)).pages IN
  [i \in 1..(IF pages > 1 THEN pages ELSE 1) |-> {Read(kind, 0, i)}]

Steps(part) == IF part \in Kinds THEN Walk(part)
               ELSE IF Malformed(target) /\ part = "body" THEN << >>
               ELSE IF Malformed(target) /\ part = "head"
               THEN IF target.at = "home" THEN <<{Site}>>
                    ELSE IF target.at = "term" /\ target.name # 0
                    THEN <<{Read("term", target.name, 1)}>> ELSE << >>
               ELSE Plan(target, part)

\* A part comes to the reads of a step once those before are there.
Reached(part) ==
  LET steps == Steps(part) IN
  UNION {steps[i] : i \in {j \in DOMAIN steps :
           \A k \in 1..(j - 1) : \A read \in steps[k] : Ok(part, read)}}

Pending == {"none", "counted"}
Wants(part) == {read \in Reached(part) : Of(part, read).is \in Pending}

\* Past the last page of a list, of which the first is never.
TooFar(part) ==
  /\ target.at \in {"home", "term", "search", "map"} \cup Kinds
  /\ target.page > 1
  /\ Listing(target) \in Reached(part)
  /\ Ok(part, Listing(target))
  /\ target.page > Of(part, Listing(target)).pages

End(part) ==
  LET found == {Of(part, read).is : read \in Reached(part)} IN
  IF "fault" \in found THEN "fault"
  ELSE IF "missing" \in found THEN "missing"
  ELSE IF found \cap Pending # {} THEN "running"
  ELSE IF part \in {"head", "body"} /\ (Malformed(target) \/ TooFar(part)) THEN "missing"
  ELSE "shown"

\* A sitemap is a body alone; the navigation is rendered inside a body that
\* is there.
Sitemaps == {"index", "map"} \cup Kinds
Rendered ==
  IF target.at \in Sitemaps THEN {"body"}
  ELSE {"layout", "head", "body"}
         \cup (IF End("body") = "shown" THEN {"shell"} \cup Kinds ELSE {})

Settled == \A part \in Rendered : End(part) # "running"

\* What the visitor may get: the page, if no part failed; else the not-found
\* or the error page of one that did.
Outcomes ==
  LET ends == {End(part) : part \in Rendered} IN
  IF ends = {"shown"} THEN ends ELSE ends \ {"shown", "running"}

-----------------------------------------------------------------------------
(* The reads.                                                              *)

Keys == UNION {{Key(part, read) : read \in Wants(part)} : part \in Rendered}

Finds(key, result) ==
  /\ memo' = [k \in DOMAIN memo \cup {key} |-> IF k = key THEN result ELSE memo[k]]
  /\ UNCHANGED <<content, changes, target, linked, seen>>

\* An article with its terms, a term or the site's profile is one statement.
ReadsOne(key) ==
  /\ key[2].what \notin Lists
  /\ Finds(key, IF ~Exists(key[2], content) THEN MissingOrFailure("missing")
                ELSE IF key[2].what = "post"
                THEN Result("ok", content[key[2].name].version, 0, content[key[2].name].terms)
                ELSE Result("ok", 0, 0, {}))

\* A list counts its rows first.
Counts(key) ==
  /\ key[2].what \in Lists
  /\ key \notin DOMAIN memo
  /\ Finds(key, Result("counted", 0, PagesOf(Rows(key[2], content)), {}))

Selects(key) ==
  /\ key \in DOMAIN memo
  /\ Finds(key, [memo[key] EXCEPT !.is = "ok",
                                  !.items = OnPage(Rows(key[2], content), key[2].page)])

\* The backend cannot answer, or takes longer than its 10 seconds.
ReadFails(key) ==
  Finds(key, IF key[2].what \in {"post", "term"} THEN MissingOrFailure("fault") ELSE Faulty)

Reads == \E key \in Keys : ReadsOne(key) \/ Counts(key) \/ Selects(key) \/ ReadFails(key)

-----------------------------------------------------------------------------
(* The visitor and the authors.                                            *)

\* ArticlePagination: the first and last page and the neighbours of this one.
Numbers(page, pages) ==
  IF pages <= 1 THEN {} ELSE {1, page - 1, page, page + 1, pages} \cap 1..pages

NavigationTerms ==
  UNION {UNION {Of(kind, read).items : read \in Reached(kind)} : kind \in Kinds}

ListedArticles == {Page("article", a, 1) : a \in Of("body", Listing(target)).items}
FurtherPages ==
  {Page(target.at, target.name, p) :
     p \in Numbers(target.page, Of("body", Listing(target)).pages)}
OfTerms(terms) == {Page("term", t, 1) : t \in terms}
AllPages(at) == {Page(at, 0, p) : p \in 1..Of("body", Listing(Page(at, 0, 1))).pages}

\* The links of a page that is shown.
Links ==
  CASE target.at \in {"home", "term"} ->
         ListedArticles \cup FurtherPages \cup OfTerms(NavigationTerms)
    [] target.at = "search" /\ target.name = Keyword ->
         ListedArticles \cup FurtherPages \cup OfTerms(NavigationTerms)
    [] target.at = "search" /\ target.name # Keyword -> OfTerms(NavigationTerms)
    [] target.at = "article" ->
         OfTerms(NavigationTerms \cup Of("body", Read("post", target.name, 1)).items)
    [] target.at = "map" -> ListedArticles
    [] target.at \in Kinds -> OfTerms(Of("body", Listing(target)).items)
    [] target.at = "index" ->
         {Page("map", 0, 1)} \cup UNION {AllPages(at) : at \in {"map"} \cup Kinds}

\* The addresses a visitor may type.
Numbered == 0..MaxPage
Addresses ==
  {Page("home", 0, p) : p \in Numbered} \cup {Page("article", a, 1) : a \in Articles \cup {0}}
    \cup {Page("term", t, p) : t \in Terms \cup {0}, p \in Numbered}
    \cup {Page("search", q, p) : q \in {0, Keyword, TooLong}, p \in Numbered}
    \cup {Page("index", 0, 1)} \cup {Page(at, 0, p) : at \in {"map"} \cup Kinds, p \in Numbered}

Asks(page, fresh) ==
  /\ target' = page
  /\ memo' = << >>
  /\ linked' = fresh
  /\ seen' = {content}
  /\ UNCHANGED <<content, changes>>

\* A page by its own address.
Visits ==
  /\ Settled
  /\ \E page \in Addresses : Asks(page, FALSE)

Follows ==
  /\ Settled
  /\ "shown" \in Outcomes
  /\ \E page \in Links : Asks(page, seen = {content})

\* Publishing, editing, withdrawing an article.
AuthorChanges ==
  /\ changes < MaxChanges
  /\ changes' = changes + 1
  /\ content' \in Contents
  /\ \E a \in Articles :
       /\ content'[a] # content[a]
       /\ \A b \in Articles \ {a} : content'[b] = content[b]
       /\ content'[a].version # 0 /\ content[a].version # 0 =>
            content'[a].version = content[a].version + 1
  /\ seen' = seen \cup {content'}
  /\ UNCHANGED <<target, memo, linked>>

ReadingInit ==
  /\ content \in {c \in Contents : \A a \in Articles : c[a].version <= 1}
  /\ changes = 0
  /\ target = Page("home", 0, 1)
  /\ memo = << >>
  /\ linked = FALSE
  /\ seen = {content}

ReadingNext == Reads \/ Visits \/ Follows \/ AuthorChanges

-----------------------------------------------------------------------------
(* Properties.                                                             *)

\* The title and description of an article are those of the text below them,
\* whatever is published between the reads of the page (cache()).
OneVersion ==
  LET post == Read("post", target.name, 1) IN
  target.at = "article" /\ Ok("head", post) /\ Ok("body", post)
    => Of("head", post).version = Of("body", post).version

\* The page asked for does not exist in a content.
Absent(t, c) ==
  \/ Malformed(t)
  \/ t.at = "article" /\ ~Exists(Read("post", t.name, 1), c)
  \/ t.at = "term" /\ ~Exists(Read("term", t.name, 1), c)
  \/ /\ t.at \in {"home", "term", "search", "map"} \cup Kinds
     /\ t.page > 1
     /\ t.page > PagesOf(Rows(Listing(t), c))

\* Not found is said only of what did not exist at some moment while the page
\* was put together, and never for a backend that cannot answer.
AbsenceIsTrue ==
  Settled /\ "missing" \in Outcomes => \E c \in seen : Absent(target, c)

\* The navigation of a page, read one page of terms after the other, has
\* nothing that was not there at some moment, and everything there is as long
\* as nothing changed in between.
NavigationWhole ==
  Settled /\ "shown" \in Outcomes /\ target.at \notin Sitemaps =>
    LET there(c) == UNION {Rows(Read(kind, 0, 1), c) : kind \in Kinds} IN
    /\ NavigationTerms \subseteq UNION {there(c) : c \in seen}
    /\ seen = {content} => NavigationTerms = there(content)

\* A link leads to a page: the pages of lists and of sitemaps, the articles
\* and the terms a page links are found, as long as nothing changed since it
\* was put together and the backend answers.
LinksLead ==
  Settled /\ linked /\ seen = {content} => "missing" \notin Outcomes
=============================================================================
